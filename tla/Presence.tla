------------------------------ MODULE Presence ------------------------------
(***************************************************************************)
(* Circle rooms and presence in the one Messaging process: which sockets   *)
(* are in the room of a circle (index.ts, groups.ts, conversations.ts) and *)
(* what they are told about who is online (presence.ts).                   *)
(*                                                                         *)
(* A socket's handler runs at once; what needs the circles of a user waits *)
(* for a query.  Queries run on several connections, so they are answered  *)
(* in any order, and an answer is acted on some time after it was true.    *)
(* Memberships only grow: a task remembers the circles its user had when   *)
(* the query was sent, and acts on them or on more.                        *)
(***************************************************************************)
EXTENDS Naturals, FiniteSets

CONSTANTS
    Users, Circles,
    Sockets,        \* connections, each used once
    Worlds          \* [owner, members, phase, events]: whose sockets, who is in
                    \* which circle, which sockets are there already, and the
                    \* bound on commits, disconnections and failed queries

ASSUME WorldsAssumption ==
    /\ IsFiniteSet(Sockets)
    /\ \A w \in Worlds :
        /\ w.owner \in [Sockets -> Users]
        /\ w.members \in [Circles -> SUBSET Users]
        /\ w.phase \in [Sockets -> {"idle", "connected", "closed"}]
        /\ w.events \in Nat

VARIABLES
    members,     \* user_groups, as committed
    owner,       \* the account of a socket
    phase,       \* "idle", "connected" or "closed"
    online,      \* presence.ts: user -> its sockets
    rooms,       \* circle rooms of a socket
    tasks,       \* continuations of queries, and of commits
    told,        \* the last word a socket got about a user
    missed,      \* users about whom something was sent past a socket since
    newest,      \* of when the newest word sent about a user was
    changes,     \* connections and disconnections of a user, a clock for words
    unjoined,    \* sockets whose query for their rooms failed
    failures,    \* failed queries
    events       \* commits, disconnections and failed queries still to come

world == <<members, owner>>
views == <<told, missed, newest>>
vars == <<world, phase, online, rooms, tasks, views, changes, unjoined, failures, events>>

CirclesOf(u) == {c \in Circles : u \in members[c]}

\* what the bound counts
Event == events > 0 /\ events' = events - 1

Connected == {s \in Sockets : phase[s] = "connected"}

NoWord == [online |-> FALSE, count |-> 0, asOf |-> 0, via |-> "nothing"]

----------------------------------------------------------------------------
(* Tasks *)

Query(do, u, about) ==
    [do |-> do, user |-> u, since |-> CirclesOf(u), about |-> about]

\* what the database may have answered
Answers(t) == {cs \in SUBSET CirclesOf(t.user) : t.since \subseteq cs}

\* "about" is what the task goes on with: the socket that connected, the word
\* to tell, or the circles of the user a roster is for
JoinTask(s) == Query("join", owner[s], s)
RosterTask(s) == Query("roster", owner[s], s)

\* broadcastPresenceToGroups
TellTask(u, word) == Query("tell", u, word)

\* the second query of a roster, for one user online; mine is the first answer
CommonTask(u, mine) == Query("common", u, mine)

\* announceAcceptedMember, once the transaction has committed
AnnounceTask(u, c) == Query("announce", u, c)

\* the rest of POST /api/groups
EnterTask(u, c) == Query("enter", u, c)

Word(u, n, count, via) ==
    [online |-> count > 0, count |-> count, asOf |-> n, via |-> via]

----------------------------------------------------------------------------
(* Rooms *)

\* mutant: the user's room is joined together with the circles' rooms
M_UserRoom(u) == {s \in Connected :
                    /\ owner[s] = u
                    /\ \A t \in tasks : t.do = "join" => t.about # s}

\* io.in(`user:${u}`)
UserRoom(u) == {s \in Connected : owner[s] = u}

\* io.to of the rooms of some circles
RoomsOf(cs) == {s \in Connected : rooms[s] \cap cs # {}}

\* Everybody in those rooms gets the word, it passes the other sockets by.
Emit(u, word, cs) ==
    /\ told' = [s \in Sockets |->
                  IF s \in RoomsOf(cs) /\ owner[s] # u
                  THEN [told[s] EXCEPT ![u] = word] ELSE told[s]]
    /\ missed' = [s \in Sockets |->
                    IF s \in RoomsOf(cs) THEN missed[s] \ {u}
                    ELSE IF s \in Connected THEN missed[s] \cup {u} ELSE missed[s]]
    /\ newest' = [newest EXCEPT ![u] = IF word.asOf > @ THEN word.asOf ELSE @]

----------------------------------------------------------------------------
(* Connections *)

\* io.on('connection'), and onConnect at its end
Connect(s) ==
    /\ phase[s] = "idle"
    /\ phase' = [phase EXCEPT ![s] = "connected"]
    /\ LET u == owner[s]
           n == changes[u] + 1
       IN /\ online' = [online EXCEPT ![u] = @ \cup {s}]
          /\ changes' = [changes EXCEPT ![u] = n]
          /\ tasks' = tasks \cup
                {JoinTask(s), RosterTask(s),
                 TellTask(u, Word(u, n, Cardinality(online[u] \cup {s}), "tell"))}
    /\ UNCHANGED <<world, rooms, views, unjoined, failures, events>>

\* mutant: the set is counted before the socket is taken out of it
M_Remaining(u, s) == online[u]

\* set.delete(socket.id)
Remaining(u, s) == online[u] \ {s}

\* Socket.IO leaves every room, then onDisconnect
Disconnect(s) ==
    /\ phase[s] = "connected"
    /\ Event
    /\ phase' = [phase EXCEPT ![s] = "closed"]
    /\ rooms' = [rooms EXCEPT ![s] = {}]
    /\ LET u == owner[s]
           n == changes[u] + 1
       IN /\ online' = [online EXCEPT ![u] = @ \ {s}]
          /\ changes' = [changes EXCEPT ![u] = n]
          /\ tasks' = tasks \cup
                {TellTask(u, Word(u, n, Cardinality(Remaining(u, s)), "tell"))}
    /\ told' = [told EXCEPT ![s] = [u \in Users |-> NoWord]]
    /\ missed' = [missed EXCEPT ![s] = {}]
    /\ UNCHANGED <<world, newest, unjoined, failures>>

----------------------------------------------------------------------------
(* What follows a query *)

\* the catch: logged and forgotten
Fail(t) ==
    /\ t.do \notin {"announce", "enter"}
    /\ Event
    /\ failures' = failures + 1
    /\ tasks' = tasks \ {t}
    /\ unjoined' = IF t.do = "join" THEN unjoined \cup {t.about} ELSE unjoined
    /\ UNCHANGED <<world, phase, online, rooms, views, changes>>

\* mutant: the rooms of a socket that has left are kept
M_JoinRooms(t) ==
    /\ t.do = "join"
    /\ \E cs \in Answers(t) : rooms' = [rooms EXCEPT ![t.about] = @ \cup cs]
    /\ tasks' = tasks \ {t}
    /\ UNCHANGED <<world, phase, online, views, changes, unjoined, failures, events>>

\* socket.join, which does nothing for a socket that has left meanwhile
JoinRooms(t) ==
    /\ t.do = "join"
    /\ \E cs \in Answers(t) :
          rooms' = IF t.about \in Connected
                   THEN [rooms EXCEPT ![t.about] = @ \cup cs] ELSE rooms
    /\ tasks' = tasks \ {t}
    /\ UNCHANGED <<world, phase, online, views, changes, unjoined, failures, events>>

Tell(t) ==
    /\ t.do = "tell"
    /\ \E cs \in Answers(t) : Emit(t.user, t.about, cs)
    /\ tasks' = tasks \ {t}
    /\ UNCHANGED <<world, phase, online, rooms, changes, unjoined, failures, events>>

\* the users that are online when the first answer comes
Listed(u) == {v \in Users \ {u} : online[v] # {}}

\* onConnect, the current state for a new socket: a query for each user online
Roster(t) ==
    /\ t.do = "roster"
    /\ \E cs \in Answers(t) :
          tasks' = (tasks \ {t}) \cup {CommonTask(u, cs) : u \in Listed(t.user)}
    /\ UNCHANGED <<world, phase, online, rooms, views, changes, unjoined, failures, events>>

\* mutant: the other user's answer is not intersected with one's own
M_Common(t, cs) == t.about

\* commonGroups
Common(t, cs) == t.about \cap cs

\* online: true with the size the set has by now
TellCommon(t) ==
    /\ t.do = "common"
    /\ LET u == t.user IN
       \E cs \in Answers(t) :
          Emit(u, [online |-> TRUE, count |-> Cardinality(online[u]),
                   asOf |-> changes[u], via |-> "roster"], Common(t, cs))
    /\ tasks' = tasks \ {t}
    /\ UNCHANGED <<world, phase, online, rooms, changes, unjoined, failures, events>>

----------------------------------------------------------------------------
(* Membership *)

\* handleJoinRequest commits; the announcement follows
Accept(u, c) ==
    /\ u \notin members[c]
    /\ members[c] # {}
    /\ Event
    /\ members' = [members EXCEPT ![c] = @ \cup {u}]
    /\ tasks' = tasks \cup {AnnounceTask(u, c)}
    /\ UNCHANGED <<owner, phase, online, rooms, views, changes, unjoined, failures>>

\* announceAcceptedMember: socketsJoin, then broadcastUserPresence(u, true, 1)
Announce(t) ==
    /\ t.do = "announce"
    /\ rooms' = [s \in Sockets |->
                   IF s \in UserRoom(t.user) THEN rooms[s] \cup {t.about}
                   ELSE rooms[s]]
    /\ tasks' = (tasks \ {t}) \cup
                {TellTask(t.user, [online |-> TRUE, count |-> 1,
                                   asOf |-> changes[t.user], via |-> "announce"])}
    /\ UNCHANGED <<world, phase, online, views, changes, unjoined, failures, events>>

\* POST /api/groups commits; the creator's sockets enter the new room after it
CreateCircle(u, c) ==
    /\ members[c] = {}
    /\ Event
    /\ members' = [members EXCEPT ![c] = {u}]
    /\ tasks' = tasks \cup {EnterTask(u, c)}
    /\ UNCHANGED <<owner, phase, online, rooms, views, changes, unjoined, failures>>

Enter(t) ==
    /\ t.do = "enter"
    /\ rooms' = [s \in Sockets |->
                   IF s \in UserRoom(t.user) THEN rooms[s] \cup {t.about}
                   ELSE rooms[s]]
    /\ tasks' = tasks \ {t}
    /\ UNCHANGED <<world, phase, online, views, changes, unjoined, failures, events>>

\* POST /api/conversations: the members' sockets enter the circle's room (again)
ConversationCreated(c, us) ==
    /\ us \subseteq members[c] /\ us # {}
    /\ Event
    /\ rooms' = [s \in Sockets |->
                   IF \E u \in us : s \in UserRoom(u) THEN rooms[s] \cup {c}
                   ELSE rooms[s]]
    /\ UNCHANGED <<world, phase, online, tasks, views, changes, unjoined, failures>>

----------------------------------------------------------------------------
Share(u, v) == CirclesOf(u) \cap CirclesOf(v) # {}

\* A socket that is there already has entered its rooms and knows who is online
\* in its circles.
Init ==
    /\ \E w \in Worlds :
         /\ owner = w.owner
         /\ members = w.members
         /\ phase = w.phase
         /\ events = w.events
    /\ online = [u \in Users |-> {s \in Connected : owner[s] = u}]
    /\ rooms = [s \in Sockets |->
                  IF s \in Connected THEN CirclesOf(owner[s]) ELSE {}]
    /\ tasks = {}
    /\ changes = [u \in Users |-> Cardinality(online[u])]
    /\ newest = changes
    /\ told = [s \in Sockets |-> [u \in Users |->
                  IF s \in Connected /\ u # owner[s] /\ online[u] # {} /\ Share(u, owner[s])
                  THEN Word(u, changes[u], changes[u], "tell") ELSE NoWord]]
    /\ missed = [s \in Sockets |->
                    {u \in Users : s \in Connected /\ ~Share(u, owner[s])}]
    /\ unjoined = {}
    /\ failures = 0

Next ==
    \/ \E s \in Sockets : Connect(s) \/ Disconnect(s)
    \/ \E t \in tasks :
          \/ Fail(t) \/ JoinRooms(t) \/ Tell(t) \/ Roster(t)
          \/ TellCommon(t) \/ Announce(t) \/ Enter(t)
    \/ \E u \in Users, c \in Circles : Accept(u, c) \/ CreateCircle(u, c)
    \/ \E c \in Circles, us \in SUBSET Users : ConversationCreated(c, us)

Spec == Init /\ [][Next]_vars

----------------------------------------------------------------------------
(* Properties *)

\* The presence map holds the connected sockets, and whoever is in a room is
\* connected and a member (presence.ts 66-136).
TypeOK ==
    /\ owner \in [Sockets -> Users]
    /\ members \in [Circles -> SUBSET Users]
    /\ rooms \in [Sockets -> SUBSET Circles]
    /\ phase \in [Sockets -> {"idle", "connected", "closed"}]
    /\ online = [u \in Users |-> {s \in Connected : owner[s] = u}]
    /\ \A s \in Connected : rooms[s] \subseteq CirclesOf(owner[s])
    /\ \A s \in Sockets \ Connected : rooms[s] = {}
    /\ events \in Nat /\ failures \in Nat

Joining(s, c) ==
    \/ s \in unjoined
    \/ \E t \in tasks :
         \/ t.do \in {"announce", "enter"} /\ t.user = owner[s] /\ t.about = c
         \/ t.do = "join" /\ t.about = s /\ c \in t.since

\* No member is left out of the events of a circle: a connected socket of a
\* member is in the circle's room, or is about to enter it, whether it connected
\* before, during or after the acceptance of its account (index.ts 187-199 and
\* groups.ts 141-146).  Only a failed query leaves a socket outside.
NoMemberMissesRoom ==
    \A c \in Circles : \A s \in Connected :
        owner[s] \in members[c] => c \in rooms[s] \/ Joining(s, c)

\* Who is online is told only to those who share a circle with them
\* (presence.ts 84-107).
PresenceStaysInCircle ==
    \A s \in Sockets, u \in Users :
        told[s][u] # NoWord => Share(u, owner[s])

\* What a socket knows of a user may be wrong: it was told nothing, and all that
\* was sent about the user passed it by; a newer word passed it by or came
\* before an older one; an acceptance counts as one device online; a roster says
\* online whatever the count.
Excused(s, u) ==
    LET word == told[s][u] IN
    \/ word.via = "nothing" /\ u \in missed[s]
    \/ word.via # "nothing" /\ word.asOf < newest[u]
    \/ word.via = "announce"
    \/ word.via = "roster" /\ online[u] = {}

\* Once nothing is under way and no query has failed, a socket knows who is
\* online in its circles and on how many devices, except for the excuses that
\* the order of the queries makes possible (presence.ts 17-140).
SettledViewIsTrue ==
    tasks = {} /\ failures = 0 =>
        \A s \in Connected, u \in Users :
            u # owner[s] /\ Share(u, owner[s]) /\ ~Excused(s, u)
            => /\ told[s][u].count = Cardinality(online[u])
               /\ told[s][u].online = (online[u] # {})
=============================================================================
