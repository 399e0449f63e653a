--------------------------- MODULE RealtimeClient ---------------------------
(***************************************************************************)
(* The Socket.IO client of the Flutter app: WebSocketService, the parts of *)
(* main.dart that drive it, and the conversations it believes it follows.  *)
(*                                                                         *)
(* The isolate is single threaded.  A stretch of code between two awaits   *)
(* is one action; a suspended _connectInternal is counted in `flights` by  *)
(* the await it sits in.  The library keeps at most one transport per      *)
(* socket object and reports what becomes of it through the listeners; a   *)
(* disposed object has no listeners and no transport.                      *)
(***************************************************************************)
EXTENDS Naturals, FiniteSets

CONSTANTS
    Convs,         \* each stands for one conversation or for several: whether
                   \* a list is longer than the five of a batch is left open
    MaxSockets,    \* bound on socket objects with a transport
    MaxFlights,    \* bound on suspended _connectInternal calls
    MaxTimers,     \* bound on pending three second timers
    MaxRefreshes   \* bound on refreshes under way when the user asks for one

ASSUME BoundsAssumption ==
    MaxSockets \in Nat \ {0} /\ MaxFlights \in Nat \ {0} /\ MaxTimers \in Nat \ {0}
    /\ MaxRefreshes \in Nat \ {0}

NoSocket == 0
Ids == 1..MaxSockets

SocketStatus == {"disconnected", "connecting", "connected", "error"}

Transports == {"disposed",
               "opening",   \* handshake under way
               "open",
               "waiting",   \* the library tries again after a delay
               "ended"}     \* refused or given up: the library stops

\* a refreshDeviceTrust, until the server reads the device and by what it read
Refreshes == {"asked", "active", "revoked"}

\* the requests of a list longer than one request takes follow one another and
\* count as one
Batches == [convs : (SUBSET Convs) \ {{}}, answerable : BOOLEAN]

VARIABLES
    authorized,       \* account_devices.status = 'active', at the server
    canUseMessaging,  \* what AuthProvider knows of it
    refreshing,       \* the refreshDeviceTrust calls under way; those at the
                      \* same point are one
    initialized,      \* _socketInitialized of main.dart
    checks,           \* connectivity checks that lead to a connect
    listening,        \* the network listener is set up
    status, shouldReconnect,
    flights,          \* await of _connectInternal -> calls suspended in it
    timers,           \* pending timers of onDisconnect
    transport, current,
    subscribed, waiting,  \* _subscribedConversations, _pendingSubscriptions
    batches,          \* conv:subscribe:batch requests without an outcome
    asked             \* conversations the server was asked for on this session

trust == <<authorized, canUseMessaging, refreshing>>
app == <<initialized, checks, listening>>
conn == <<status, shouldReconnect, flights, timers, transport, current>>
subs == <<subscribed, waiting, batches, asked>>
vars == <<trust, app, conn, subs>>

TypeOK ==
    /\ {authorized, canUseMessaging, initialized, listening, shouldReconnect}
          \subseteq BOOLEAN
    /\ refreshing \subseteq Refreshes
    /\ checks \subseteq {"start", "resume"}
    /\ status \in SocketStatus
    /\ flights \in [{"token", "auth"} -> 0..MaxFlights]
    /\ timers \in 0..MaxTimers
    /\ transport \in [Ids -> Transports]
    /\ current \in Ids \cup {NoSocket}
    /\ subscribed \subseteq Convs /\ waiting \subseteq Convs /\ asked \subseteq Convs
    /\ batches \subseteq Batches

\* tryAutoLogin has found a token and resolves the trust of the device
Init ==
    /\ authorized = TRUE /\ canUseMessaging = FALSE /\ refreshing = {"asked"}
    /\ initialized = FALSE /\ checks = {} /\ listening = FALSE
    /\ status = "disconnected" /\ shouldReconnect = TRUE
    /\ flights = [a \in {"token", "auth"} |-> 0] /\ timers = 0
    /\ transport = [s \in Ids |-> "disposed"] /\ current = NoSocket
    /\ subscribed = {} /\ waiting = {} /\ batches = {} /\ asked = {}

----------------------------------------------------------------------------
(* Building blocks *)

\* what is left once the current socket has lost its session: the server's
\* rooms are gone and acknowledgements will not come
SessionLost ==
    /\ asked' = {}
    /\ batches' = {[b EXCEPT !.answerable = FALSE] : b \in batches}

\* _disposeSocket
Disposed == [s \in Ids |-> IF s = current THEN "disposed" ELSE transport[s]]

\* mutant: the status is left as it was
M_Disconnect ==
    /\ shouldReconnect' = FALSE
    /\ transport' = Disposed /\ current' = NoSocket
    /\ SessionLost
    /\ UNCHANGED <<status, subscribed, waiting>>

Disconnect ==
    /\ shouldReconnect' = FALSE
    /\ transport' = Disposed /\ current' = NoSocket
    /\ status' = "disconnected"
    /\ SessionLost
    /\ UNCHANGED <<subscribed, waiting>>

\* _connectInternal up to its first await; reconnect is what the caller made
\* of shouldReconnect
ConnectInternal(reconnect) ==
    IF status \in {"connected", "connecting"}
    THEN shouldReconnect' = reconnect /\ UNCHANGED <<status, flights, transport, current, subs>>
    ELSE IF canUseMessaging
    THEN /\ flights["token"] + flights["auth"] < MaxFlights
         /\ flights' = [flights EXCEPT !["token"] = @ + 1]
         /\ status' = "connecting" /\ shouldReconnect' = reconnect
         /\ UNCHANGED <<transport, current, subs>>
    ELSE Disconnect /\ UNCHANGED flights

Connect ==
    IF canUseMessaging
    THEN ConnectInternal(TRUE) /\ listening' = TRUE
    ELSE Disconnect /\ UNCHANGED <<flights, listening>>

\* subscribeConversation for each of cs; sub and wait are the sets so far
SubscribeEach(cs, sub, wait) ==
    LET new == cs \ sub IN
    /\ subscribed' = sub \cup new
    /\ IF status' = "connected" /\ current' # NoSocket
       THEN asked' = asked \cup new /\ waiting' = wait
       ELSE waiting' = wait \cup new /\ UNCHANGED asked

\* subscribeConversationsBatch for cs, a non-empty list; wait is as above
SubscribeBatch(cs, wait) ==
    LET new == cs \ subscribed IN
    /\ UNCHANGED subscribed
    /\ IF new = {} THEN waiting' = wait /\ UNCHANGED <<batches, asked>>
       ELSE IF status' = "connected" /\ current' # NoSocket
       THEN /\ batches' = batches \cup {[convs |-> new, answerable |-> TRUE]}
            /\ asked' = asked \cup new
            /\ waiting' = wait
       ELSE waiting' = wait \cup new /\ UNCHANGED <<batches, asked>>

\* _resubscribeToConversations.  Its first part asks for _subscribedConversations
\* by way of the two operations above, which skip exactly those.
Resubscribe ==
    IF subscribed = {} \/ waiting = {}
    THEN UNCHANGED subs
    ELSE \/ SubscribeBatch(waiting, {})
         \/ SubscribeEach(waiting, subscribed, {}) /\ UNCHANGED batches

----------------------------------------------------------------------------
(* main.dart *)

\* didChangeDependencies, on the frame after canUseMessaging changed
Rebuild ==
    \/ /\ canUseMessaging /\ ~initialized
       /\ initialized' = TRUE
       /\ checks' = checks \cup {"start"}
       /\ UNCHANGED <<trust, listening, conn, subs>>
    \/ /\ ~canUseMessaging /\ initialized
       /\ initialized' = FALSE
       /\ Disconnect
       /\ UNCHANGED <<trust, checks, listening, flights, timers>>

\* AppLifecycleState.resumed
Resume ==
    /\ canUseMessaging
    /\ checks' = checks \cup {"resume"}
    /\ UNCHANGED <<trust, initialized, listening, conn, subs>>

\* AppLifecycleState.detached
Detach ==
    /\ Disconnect
    /\ UNCHANGED <<trust, app, flights, timers>>

\* hasInternetConnection answered the check k
Checked(k) ==
    /\ k \in checks
    /\ checks' = checks \ {k}
    /\ \/ UNCHANGED <<listening, status, shouldReconnect, flights, transport, current, subs>>
       \/ /\ k = "resume" => status # "connected"
          /\ Connect
    /\ UNCHANGED <<trust, initialized, timers>>

----------------------------------------------------------------------------
(* The rest of _connectInternal *)

\* mutant: the call is still counted in the await it has left
M_TokenChecked ==
    /\ flights["token"] > 0
    /\ flights' = [flights EXCEPT !["auth"] = @ + 1]
    /\ UNCHANGED <<trust, app, status, shouldReconnect, timers, transport, current, subs>>

\* ensureTokenValid returned
TokenChecked ==
    /\ flights["token"] > 0
    /\ \/ /\ flights' = [flights EXCEPT !["token"] = @ - 1, !["auth"] = @ + 1]
          /\ UNCHANGED status
       \/ /\ flights' = [flights EXCEPT !["token"] = @ - 1]
          /\ status' = "error"
    /\ UNCHANGED <<trust, app, shouldReconnect, timers, transport, current, subs>>

\* getMessagingSocketAuth threw, outside the try: nothing catches it
AuthFailed ==
    /\ flights["auth"] > 0
    /\ flights' = [flights EXCEPT !["auth"] = @ - 1]
    /\ UNCHANGED <<trust, app, status, shouldReconnect, timers, transport, current, subs>>

\* mutant: the previous socket is not disposed
M_Open(s) ==
    /\ flights["auth"] > 0
    /\ s \in {r \in Ids : transport[r] = "disposed"}
    /\ flights' = [flights EXCEPT !["auth"] = @ - 1]
    /\ transport' = [transport EXCEPT ![s] = "opening"]
    /\ current' = s
    /\ SessionLost
    /\ UNCHANGED <<trust, app, status, shouldReconnect, timers, subscribed, waiting>>

\* getMessagingSocketAuth returned: the previous socket makes room for a new one
\* (which id stands for the new object does not matter)
Open(s) ==
    /\ flights["auth"] > 0
    /\ s = CHOOSE r \in Ids : Disposed[r] = "disposed"
    /\ flights' = [flights EXCEPT !["auth"] = @ - 1]
    /\ transport' = [Disposed EXCEPT ![s] = "opening"]
    /\ current' = s
    /\ SessionLost
    /\ UNCHANGED <<trust, app, status, shouldReconnect, timers, subscribed, waiting>>

\* _attemptReconnection
AttemptReconnection ==
    IF shouldReconnect
    THEN ConnectInternal(TRUE)
    ELSE UNCHANGED <<status, shouldReconnect, flights, transport, current, subs>>

\* the timer of onDisconnect
TimerFires ==
    /\ timers > 0
    /\ timers' = timers - 1
    /\ IF status = "disconnected"
       THEN AttemptReconnection
       ELSE UNCHANGED <<status, shouldReconnect, flights, transport, current, subs>>
    /\ UNCHANGED <<trust, app>>

\* NetworkMonitorService announces a network; it only says what has changed,
\* and its listener does nothing with a network that is gone
NetworkBack ==
    /\ listening /\ status = "disconnected"
    /\ AttemptReconnection
    /\ UNCHANGED <<trust, app, timers>>

----------------------------------------------------------------------------
(* The library and the server.  Only the current socket has listeners. *)

\* the server accepts the handshake; onConnect
Accepted(s) ==
    /\ transport[s] = "opening" /\ authorized
    /\ transport' = [transport EXCEPT ![s] = "open"]
    /\ IF s = current
       THEN status' = "connected" /\ UNCHANGED current /\ Resubscribe
       ELSE UNCHANGED <<status, current, subs>>
    /\ UNCHANGED <<trust, app, shouldReconnect, flights, timers>>

\* mutant: the app does not ask what became of its device
M_DeviceRefused(s) ==
    /\ transport[s] = "opening" /\ s = current /\ ~authorized
    /\ Disconnect
    /\ UNCHANGED <<trust, app, flights, timers>>

\* "device authorization required": connect_error disconnects and asks
DeviceRefused(s) ==
    /\ transport[s] = "opening" /\ s = current /\ ~authorized
    /\ Disconnect
    /\ refreshing' = refreshing \cup {"asked"}
    /\ UNCHANGED <<authorized, canUseMessaging, app, flights, timers>>

\* any other connect_error (the socket cap, an expired token) or, from
\* "waiting", onReconnectFailed: the library stops trying
Ended(s) ==
    /\ transport[s] \in {"opening", "waiting"}
    /\ transport' = [transport EXCEPT ![s] = "ended"]
    /\ status' = IF s = current THEN "error" ELSE status
    /\ UNCHANGED <<trust, app, shouldReconnect, flights, timers, current, subs>>

\* no transport could be opened: connect_error or onReconnectError
Unreachable(s) ==
    /\ transport[s] \in {"opening", "waiting"}
    /\ transport' = [transport EXCEPT ![s] = "waiting"]
    /\ status' = IF s = current THEN "error" ELSE status
    /\ UNCHANGED <<trust, app, shouldReconnect, flights, timers, current, subs>>

\* the library has a transport again and repeats the handshake: onReconnect
Reopened(s) ==
    /\ transport[s] = "waiting"
    /\ transport' = [transport EXCEPT ![s] = "opening"]
    /\ status' = IF s = current THEN "connecting" ELSE status
    /\ UNCHANGED <<trust, app, shouldReconnect, flights, timers, current, subs>>

\* mutant: the app leaves it to the library
M_OnDisconnect ==
    /\ status' = "disconnected"
    /\ SessionLost
    /\ UNCHANGED <<timers, subscribed, waiting>>

OnDisconnect ==
    /\ status' = "disconnected"
    /\ timers' = IF shouldReconnect THEN timers + 1 ELSE timers
    /\ SessionLost
    /\ UNCHANGED <<subscribed, waiting>>

\* the transport is lost and the library will try again, or the server closed
\* the socket and it will not
Dropped(s) ==
    /\ transport[s] = "open" /\ timers < MaxTimers
    /\ \E left \in {"waiting", "ended"} : transport' = [transport EXCEPT ![s] = left]
    /\ IF s = current THEN OnDisconnect ELSE UNCHANGED <<status, timers, subs>>
    /\ UNCHANGED <<trust, app, shouldReconnect, flights, current>>

\* the current session is there to carry answers
InSession == current # NoSocket /\ transport[current] = "open"

\* the event device:revoked, for this device
DeviceRevoked ==
    /\ InSession /\ ~authorized
    /\ Disconnect
    /\ refreshing' = refreshing \cup {"asked"}
    /\ UNCHANGED <<authorized, canUseMessaging, app, flights, timers>>

----------------------------------------------------------------------------
(* Device trust *)

\* another device of the account revokes this one; a revocation is final
Revoke ==
    /\ authorized
    /\ authorized' = FALSE
    /\ UNCHANGED <<canUseMessaging, refreshing, app, conn, subs>>

\* the server reads the device for fetchDevices
TrustRead ==
    /\ "asked" \in refreshing
    /\ refreshing' = (refreshing \ {"asked"})
                       \cup {IF authorized THEN "active" ELSE "revoked"}
    /\ UNCHANGED <<authorized, canUseMessaging, app, conn, subs>>

\* A refreshDeviceTrust ends: with what the server read, however old that is,
\* or, after a failure, with DeviceTrustState.error.
TrustRefreshed(r) ==
    /\ r \in refreshing
    /\ refreshing' = refreshing \ {r}
    /\ canUseMessaging' \in {r = "active", FALSE}
    /\ UNCHANGED <<authorized, app, conn, subs>>

\* the trust gate's retry button, or a token renewed meanwhile
RetryTrust ==
    /\ ~canUseMessaging /\ Cardinality(refreshing) < MaxRefreshes
    /\ refreshing' = refreshing \cup {"asked"}
    /\ UNCHANGED <<authorized, canUseMessaging, app, conn, subs>>

----------------------------------------------------------------------------
(* Subscriptions *)

\* a conversation screen opens
OpenConversation(c) ==
    /\ UNCHANGED <<trust, app, conn, batches>>
    /\ SubscribeEach({c}, subscribed, waiting)

\* the conversation list has been fetched
LoadConversations ==
    LET new == Convs \ subscribed IN
    /\ new # {}
    /\ UNCHANGED <<trust, app, conn>>
    /\ \/ SubscribeBatch(new, waiting)
       \/ SubscribeEach(new, subscribed, waiting) /\ UNCHANGED batches

\* the server grants part of the batch, or refuses it whole
BatchAnswered(b) ==
    /\ b \in batches /\ b.answerable /\ InSession
    /\ batches' = batches \ {b}
    /\ \E granted \in SUBSET b.convs : subscribed' = subscribed \cup granted
    /\ UNCHANGED <<trust, app, conn, waiting, asked>>

\* mutant: only a batch of the present session is timed
M_BatchTimedOut(b) ==
    /\ b \in batches /\ b.answerable
    /\ batches' = batches \ {b}
    /\ UNCHANGED <<trust, app, conn>>
    /\ SubscribeEach(b.convs, subscribed, waiting)

\* eight seconds without an answer: the caller falls back on single requests
BatchTimedOut(b) ==
    /\ b \in batches
    /\ batches' = batches \ {b}
    /\ UNCHANGED <<trust, app, conn>>
    /\ SubscribeEach(b.convs, subscribed, waiting)

----------------------------------------------------------------------------

Next ==
    \/ Rebuild \/ Resume \/ Detach
    \/ \E k \in {"start", "resume"} : Checked(k)
    \/ TokenChecked \/ AuthFailed \/ TimerFires \/ NetworkBack
    \/ \E s \in Ids : \/ Open(s) \/ Accepted(s) \/ DeviceRefused(s) \/ Ended(s)
                      \/ Unreachable(s) \/ Reopened(s) \/ Dropped(s)
    \/ DeviceRevoked \/ Revoke \/ TrustRead \/ RetryTrust
    \/ \E r \in Refreshes : TrustRefreshed(r)
    \/ \E c \in Convs : OpenConversation(c)
    \/ LoadConversations
    \/ \E b \in batches : BatchAnswered(b) \/ BatchTimedOut(b)

\* Awaits end, timers fire, a requested refresh is answered.  A handshake that
\* is repeated for ever is answered in the end.  Nothing is assumed of the
\* user, of the network or of frames, which stop in the background.
Fairness ==
    /\ WF_vars(TokenChecked)
    /\ WF_vars(AuthFailed \/ \E s \in Ids : Open(s))
    /\ WF_vars(TimerFires)
    /\ WF_vars(TrustRead) /\ \A r \in Refreshes : WF_vars(TrustRefreshed(r))
    /\ \A s \in Ids : SF_vars(Accepted(s) \/ DeviceRefused(s))
    /\ \A b \in Batches : WF_vars(BatchTimedOut(b))

Spec == Init /\ [][Next]_vars /\ Fairness

----------------------------------------------------------------------------
(* Properties *)

\* However connects, disconnects and reconnections overlap, no socket object
\* but the current one keeps a transport: an earlier one would go on receiving
\* and count against the cap of the device.
OneSocket == \A s \in Ids : transport[s] # "disposed" => s = current

\* The app never shows, and sends on the strength of, a connection it has not
\* even a socket for.
ConnectedHasSocket == status = "connected" => current # NoSocket

\* A client that is disconnected but meant to reconnect does something about
\* it by itself.
NeverStranded ==
    (listening /\ status = "disconnected" /\ shouldReconnect)
        ~> (status # "disconnected" \/ ~shouldReconnect)

\* Once its device is revoked, the client stops knocking at the server, however
\* often the user brings the app back, wherever the revocation finds it, and
\* though an answer read before it may arrive after it and reopen the app.
QuietAfterRevocation ==
    <>(~authorized) => <>[](\A s \in Ids : transport[s] # "opening")

\* No batch keeps its caller waiting: the answer may be lost with the session,
\* the fallback then runs.
BatchEnds ==
    \A b \in Batches : b \in batches ~> b \notin batches

\* "Réabonner automatiquement aux conversations précédemment souscrites" once
\* connected: the server has been asked for every conversation the client
\* believes it follows.
Resubscribed == status = "connected" => subscribed \subseteq asked
=============================================================================
