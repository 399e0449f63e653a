-------------------------- MODULE Presence_proofs --------------------------
(***************************************************************************)
(* Theorems about Presence, for any users, circles, sockets and worlds.    *)
(***************************************************************************)
EXTENDS Presence, FiniteSetTheorems, TLAPS

\* What is under way concerns memberships that are committed and sockets of
\* their own account.
TasksOK ==
    \A t \in tasks :
        /\ t.do = "join" => t.about \in Sockets /\ t.user = owner[t.about]
        /\ t.do \in {"announce", "enter"} =>
               t.about \in Circles /\ t.user \in members[t.about]

\* The words of a socket are a function of the users.
WordsOK == told = [s \in Sockets |-> [u \in Users |-> told[s][u]]]

\* What follows a query leaves the accounts, their circles, the connections and
\* the presence map alone; it only adds to rooms the circles of their accounts.
LEMMA Continues ==
    ASSUME TypeOK, TasksOK, NEW t \in tasks,
           JoinRooms(t) \/ Tell(t) \/ Roster(t) \/ TellCommon(t)
           \/ Announce(t) \/ Enter(t)
    PROVE  /\ UNCHANGED <<world, phase, online, failures, events>>
           /\ rooms' \in [Sockets -> SUBSET Circles]
           /\ \A s \in Sockets : rooms[s] \subseteq rooms'[s]
           /\ \A s \in Connected : rooms'[s] \subseteq CirclesOf(owner[s])
           /\ \A s \in Sockets \ Connected : rooms'[s] = {}
<1> USE DEF TypeOK, Connected, CirclesOf, world
<1>1. CASE JoinRooms(t)
  BY <1>1 DEF JoinRooms, TasksOK, Answers
<1>2. CASE Tell(t) \/ Roster(t) \/ TellCommon(t)
  BY <1>2 DEF Tell, Roster, TellCommon
<1>3. CASE Announce(t) \/ Enter(t)
  BY <1>3 DEF Announce, Enter, TasksOK, UserRoom
<1>4. QED BY <1>1, <1>2, <1>3

\* What commits, connects, disconnects or fails keeps them too.
LEMMA Happens ==
    ASSUME TypeOK, TasksOK,
           \/ \E s \in Sockets : Connect(s) \/ Disconnect(s)
           \/ \E t \in tasks : Fail(t)
           \/ \E u \in Users, c \in Circles : Accept(u, c) \/ CreateCircle(u, c)
           \/ \E c \in Circles, us \in SUBSET Users : ConversationCreated(c, us)
    PROVE  /\ TypeOK' /\ TasksOK'
           /\ owner' = owner
           /\ \A c \in Circles : members[c] \subseteq members'[c]
<1> USE DEF TypeOK, Connected, CirclesOf, world, Event
<1>1. ASSUME NEW s \in Sockets, Connect(s)
      PROVE  TypeOK' /\ TasksOK' /\ UNCHANGED world
  <2>1. /\ phase' = [phase EXCEPT ![s] = "connected"]
        /\ online' = [online EXCEPT ![owner[s]] = @ \cup {s}]
        /\ phase[s] = "idle"
        /\ UNCHANGED <<world, rooms, failures, events>>
    BY <1>1 DEF Connect
  <2>2. Connected' = Connected \cup {s} /\ s \notin Connected
    BY <2>1
  <2>3. online' = [u \in Users |-> {r \in Connected' : owner'[r] = u}]
    <3>1. ASSUME NEW u \in Users
          PROVE  online'[u] = {r \in Connected' : owner'[r] = u}
      <4>1. CASE u = owner[s]
        BY <2>1, <2>2, <4>1
      <4>2. CASE u # owner[s]
        BY <2>1, <2>2, <4>2
      <4>3. QED BY <4>1, <4>2
    <3>2. QED BY <2>1, <3>1
  <2>4. /\ \A r \in Connected' : rooms'[r] \subseteq CirclesOf(owner[r])
        /\ \A r \in Sockets \ Connected' : rooms'[r] = {}
    BY <2>1, <2>2
  <2>5. /\ phase' \in [Sockets -> {"idle", "connected", "closed"}]
        /\ rooms' \in [Sockets -> SUBSET Circles]
        /\ events' \in Nat /\ failures' \in Nat
    BY <2>1
  <2>6. TypeOK'
    BY <2>1, <2>3, <2>4, <2>5
  <2>7. TasksOK' /\ UNCHANGED world
    BY <1>1 DEF Connect, TasksOK, JoinTask, RosterTask, TellTask, Query
  <2>8. QED BY <2>6, <2>7
<1>2. ASSUME NEW s \in Sockets, Disconnect(s)
      PROVE  TypeOK' /\ TasksOK' /\ UNCHANGED world
  <2>1. /\ phase' = [phase EXCEPT ![s] = "closed"]
        /\ online' = [online EXCEPT ![owner[s]] = @ \ {s}]
        /\ rooms' = [rooms EXCEPT ![s] = {}]
        /\ events > 0 /\ events' = events - 1
        /\ UNCHANGED <<world, failures>>
    BY <1>2 DEF Disconnect
  <2>2. Connected' = Connected \ {s}
    BY <2>1
  <2>3. online' = [u \in Users |-> {r \in Connected' : owner'[r] = u}]
    <3>1. ASSUME NEW u \in Users
          PROVE  online'[u] = {r \in Connected' : owner'[r] = u}
      <4>1. CASE u = owner[s]
        BY <2>1, <2>2, <4>1
      <4>2. CASE u # owner[s]
        BY <2>1, <2>2, <4>2
      <4>3. QED BY <4>1, <4>2
    <3>2. QED BY <2>1, <3>1
  <2>4. /\ \A r \in Connected' : rooms'[r] \subseteq CirclesOf(owner[r])
        /\ \A r \in Sockets \ Connected' : rooms'[r] = {}
    BY <2>1, <2>2
  <2>5. /\ phase' \in [Sockets -> {"idle", "connected", "closed"}]
        /\ rooms' \in [Sockets -> SUBSET Circles]
        /\ events' \in Nat /\ failures' \in Nat
    BY <2>1
  <2>6. TypeOK'
    BY <2>1, <2>3, <2>4, <2>5
  <2>7. TasksOK' /\ UNCHANGED world
    BY <1>2 DEF Disconnect, TasksOK, TellTask, Query
  <2>8. QED BY <2>6, <2>7
<1>3. ASSUME NEW t \in tasks, Fail(t)
      PROVE  TypeOK' /\ TasksOK' /\ UNCHANGED world
  BY <1>3 DEF Fail, TasksOK
<1>4. ASSUME NEW u \in Users, NEW c \in Circles, Accept(u, c) \/ CreateCircle(u, c)
      PROVE  /\ TypeOK' /\ TasksOK' /\ owner' = owner
             /\ \A d \in Circles : members[d] \subseteq members'[d]
  <2>1. /\ TypeOK' /\ owner' = owner
        /\ \A d \in Circles : members[d] \subseteq members'[d]
    BY <1>4 DEF Accept, CreateCircle
  <2>2. TasksOK'
    BY <1>4, <2>1 DEF Accept, CreateCircle, TasksOK, AnnounceTask, EnterTask, Query
  <2>3. QED BY <2>1, <2>2
<1>5. ASSUME NEW c \in Circles, NEW us \in SUBSET Users, ConversationCreated(c, us)
      PROVE  TypeOK' /\ TasksOK' /\ UNCHANGED world
  BY <1>5 DEF ConversationCreated, TasksOK, UserRoom
<1>6. QED BY <1>1, <1>2, <1>3, <1>4, <1>5

\* The presence map holds exactly the connected sockets, and whoever is in the
\* room of a circle is connected and a member.
THEOREM TypeCorrect == Spec => [](TypeOK /\ TasksOK)
<1>1. Init => TypeOK /\ TasksOK
  BY WorldsAssumption
     DEF Init, TypeOK, TasksOK, Connected, UserRoom, CirclesOf
<1>2. TypeOK /\ TasksOK /\ [Next]_vars => TypeOK' /\ TasksOK'
  <2> SUFFICES ASSUME TypeOK, TasksOK, [Next]_vars PROVE TypeOK' /\ TasksOK'
    OBVIOUS
  <2>1. CASE UNCHANGED vars
    BY <2>1 DEF vars, world, TypeOK, TasksOK, Connected, CirclesOf
  <2>2. ASSUME NEW t \in tasks,
               JoinRooms(t) \/ Tell(t) \/ Roster(t) \/ TellCommon(t)
               \/ Announce(t) \/ Enter(t)
        PROVE  TypeOK' /\ TasksOK'
    <3>1. TypeOK'
      BY <2>2, Continues DEF TypeOK, Connected, CirclesOf, world
    <3>2. \A x \in tasks' : x \in tasks \/ x.do \in {"tell", "common"}
      BY <2>2 DEF JoinRooms, Tell, Roster, TellCommon, Announce, Enter,
                  TellTask, CommonTask, Query
    <3>3. TasksOK'
      BY <3>2, <2>2, Continues DEF TasksOK, world
    <3>4. QED BY <3>1, <3>3
  <2>3. QED BY <2>1, <2>2, Happens DEF Next
<1>3. QED BY <1>1, <1>2, PTL DEF Spec

\* No member is left out of a circle's room, however its connections, its
\* acceptance and the answers to its queries follow one another.
THEOREM RoomsComplete == Spec => []NoMemberMissesRoom
<1>1. Init => NoMemberMissesRoom
  BY WorldsAssumption DEF Init, NoMemberMissesRoom, Connected, CirclesOf
<1>2. TypeOK /\ TasksOK /\ NoMemberMissesRoom /\ [Next]_vars => NoMemberMissesRoom'
  <2> SUFFICES ASSUME TypeOK, TasksOK, NoMemberMissesRoom, [Next]_vars,
                      NEW c \in Circles, NEW s \in Sockets, s \in Connected',
                      owner'[s] \in members'[c], c \notin rooms'[s]
               PROVE  Joining(s, c)'
    BY DEF NoMemberMissesRoom, Connected
  <2> USE DEF Connected, CirclesOf, Joining, world
  <2>1. CASE UNCHANGED vars
    BY <2>1 DEF vars, NoMemberMissesRoom
  <2>2. ASSUME NEW t \in tasks,
               JoinRooms(t) \/ Tell(t) \/ Roster(t) \/ TellCommon(t)
               \/ Announce(t) \/ Enter(t)
        PROVE  Joining(s, c)'
    <3>1. c \notin rooms[s] /\ Joining(s, c)
      BY <2>2, Continues DEF NoMemberMissesRoom
    <3>2. unjoined' = unjoined /\ \A x \in tasks : x \in tasks' \/ x = t
      BY <2>2 DEF JoinRooms, Tell, Roster, TellCommon, Announce, Enter
    <3>3. CASE /\ t.do \in {"announce", "enter"}
               /\ t.user = owner[s] /\ t.about = c
      <4>1. Announce(t) \/ Enter(t)
        BY <2>2, <3>3 DEF JoinRooms, Tell, Roster, TellCommon
      <4>2. c \in rooms'[s]
        BY <4>1, <3>3, <2>2, Continues DEF Announce, Enter, UserRoom
      <4>3. QED BY <4>2
    <3>4. CASE t.do = "join" /\ t.about = s /\ c \in t.since
      <4>1. JoinRooms(t)
        BY <2>2, <3>4 DEF Announce, Enter, Tell, Roster, TellCommon
      <4>2. c \in rooms'[s]
        <5>1. s \in Connected
          BY <2>2, Continues
        <5>2. \E cs \in Answers(t) : rooms' = [rooms EXCEPT ![s] = @ \cup cs]
          BY <4>1, <3>4, <5>1 DEF JoinRooms
        <5>3. c \in t.since /\ rooms \in [Sockets -> SUBSET Circles]
          BY <3>4 DEF TypeOK
        <5>4. QED BY <5>2, <5>3 DEF Answers
      <4>3. QED BY <4>2
    <3>5. owner' = owner
      BY <2>2, Continues
    <3>6. CASE s \in unjoined
      BY <3>2, <3>6
    <3>7. ASSUME NEW x \in tasks,
                 \/ /\ x.do \in {"announce", "enter"}
                    /\ x.user = owner[s] /\ x.about = c
                 \/ x.do = "join" /\ x.about = s /\ c \in x.since
          PROVE  Joining(s, c)'
      <4>1. CASE x = t
        BY <3>3, <3>4, <3>7, <4>1
      <4>2. CASE x # t
        BY <3>2, <3>5, <3>7, <4>2
      <4>3. QED BY <4>1, <4>2
    <3>8. QED BY <3>1, <3>6, <3>7
  <2>3. ASSUME NEW r \in Sockets, Connect(r)
        PROVE  Joining(s, c)'
    <3>1. CASE r = s
      <4>1. JoinTask(s) \in tasks' /\ c \in JoinTask(s).since
        BY <2>3, <3>1 DEF Connect, JoinTask, Query
      <4>2. JoinTask(s).do = "join" /\ JoinTask(s).about = s
        BY DEF JoinTask, Query
      <4>3. QED BY <4>1, <4>2
    <3>2. CASE r # s
      BY <2>3, <3>2 DEF Connect, NoMemberMissesRoom, TypeOK
    <3>3. QED BY <3>1, <3>2
  <2>4. ASSUME NEW r \in Sockets, Disconnect(r)
        PROVE  Joining(s, c)'
    BY <2>4 DEF Disconnect, NoMemberMissesRoom, TypeOK
  <2>5. ASSUME NEW t \in tasks, Fail(t)
        PROVE  Joining(s, c)'
    BY <2>5 DEF Fail, NoMemberMissesRoom
  <2>6. ASSUME NEW u \in Users, NEW d \in Circles, Accept(u, d) \/ CreateCircle(u, d)
        PROVE  Joining(s, c)'
    <3>1. CASE owner[s] \in members[c]
      BY <2>6, <3>1 DEF Accept, CreateCircle, NoMemberMissesRoom
    <3>2. CASE owner[s] \notin members[c]
      <4>1. u = owner[s] /\ d = c
        BY <2>6, <3>2 DEF Accept, CreateCircle, TypeOK
      <4>2. AnnounceTask(u, c) \in tasks' \/ EnterTask(u, c) \in tasks'
        BY <2>6, <4>1 DEF Accept, CreateCircle
      <4>3. QED BY <2>6, <4>1, <4>2
                DEF Accept, CreateCircle, AnnounceTask, EnterTask, Query
    <3>3. QED BY <3>1, <3>2
  <2>7. ASSUME NEW d \in Circles, NEW us \in SUBSET Users, ConversationCreated(d, us)
        PROVE  Joining(s, c)'
    BY <2>7 DEF ConversationCreated, NoMemberMissesRoom, TypeOK
  <2>8. QED BY <2>1, <2>2, <2>3, <2>4, <2>5, <2>6, <2>7 DEF Next
<1>3. QED BY <1>1, <1>2, TypeCorrect, PTL DEF Spec

\* A word about a user reaches only sockets of accounts that share a circle with
\* it: whoever is in a room is a member, and no membership is taken back.
THEOREM PresenceInside == Spec => []PresenceStaysInCircle
<1> DEFINE IInv == WordsOK /\ PresenceStaysInCircle
<1> USE DEF Share
<1>1. Init => IInv
  <2> SUFFICES ASSUME Init PROVE IInv
    OBVIOUS
  <2>1. WordsOK
    BY DEF Init, WordsOK
  <2>2. ASSUME NEW s \in Sockets, NEW u \in Users, told[s][u] # NoWord
        PROVE  Share(u, owner[s])
    BY <2>2 DEF Init
  <2>3. QED BY <2>1, <2>2 DEF PresenceStaysInCircle
<1>2. ASSUME TypeOK, IInv, NEW u, NEW word, NEW cs \in SUBSET CirclesOf(u),
             Emit(u, word, cs), UNCHANGED world
      PROVE  IInv'
  <2>1. told' = [s \in Sockets |->
                   IF s \in RoomsOf(cs) /\ owner[s] # u
                   THEN [told[s] EXCEPT ![u] = word] ELSE told[s]]
    BY <1>2 DEF Emit
  <2>2. WordsOK'
    BY <1>2, <2>1 DEF WordsOK
  <2>3. ASSUME NEW s \in Sockets, NEW v \in Users, told'[s][v] # NoWord
        PROVE  CirclesOf(v) \cap CirclesOf(owner[s]) # {}
    <3>1. CASE told'[s][v] = told[s][v]
      BY <1>2, <2>3, <3>1 DEF PresenceStaysInCircle
    <3>2. CASE told'[s][v] # told[s][v]
      <4>1. s \in RoomsOf(cs) /\ v = u
        BY <1>2, <2>1, <3>2 DEF WordsOK
      <4>2. PICK c \in cs : s \in Connected /\ c \in rooms[s]
        BY <1>2, <4>1 DEF RoomsOf, CirclesOf
      <4>3. c \in CirclesOf(u) /\ c \in CirclesOf(owner[s])
        BY <1>2, <4>2 DEF TypeOK
      <4>4. QED BY <4>1, <4>3
    <3>3. QED BY <3>1, <3>2
  <2>4. QED BY <1>2, <2>2, <2>3 DEF PresenceStaysInCircle, CirclesOf, world
<1>3. TypeOK /\ TasksOK /\ IInv /\ [Next]_vars => IInv'
  <2> SUFFICES ASSUME TypeOK, TasksOK, IInv, [Next]_vars PROVE IInv'
    OBVIOUS
  <2>1. ASSUME UNCHANGED told, owner' = owner,
               \A c \in Circles : members[c] \subseteq members'[c]
        PROVE  IInv'
    BY <2>1 DEF WordsOK, PresenceStaysInCircle, CirclesOf
  <2>2. CASE UNCHANGED vars
    BY <2>1, <2>2 DEF vars, views, world
  <2>3. ASSUME NEW t \in tasks, Tell(t) \/ TellCommon(t)
        PROVE  IInv'
    <3>1. UNCHANGED world
      BY <2>3 DEF Tell, TellCommon
    <3>2. CASE Tell(t)
      <4>1. PICK cs \in Answers(t) : Emit(t.user, t.about, cs)
        BY <3>2 DEF Tell
      <4>2. cs \in SUBSET CirclesOf(t.user)
        BY DEF Answers
      <4>3. QED BY <1>2, <3>1, <4>1, <4>2
    <3>3. CASE TellCommon(t)
      <4> DEFINE word == [online |-> TRUE, count |-> Cardinality(online[t.user]),
                          asOf |-> changes[t.user], via |-> "roster"]
      <4>1. PICK cs \in Answers(t) : Emit(t.user, word, Common(t, cs))
        BY <3>3 DEF TellCommon
      <4>2. Common(t, cs) \in SUBSET CirclesOf(t.user)
        BY DEF Answers, Common
      <4> HIDE DEF word
      <4>3. QED BY <1>2, <3>1, <4>1, <4>2
    <3>4. QED BY <2>3, <3>2, <3>3
  <2>4. ASSUME NEW t \in tasks, JoinRooms(t) \/ Roster(t) \/ Announce(t) \/ Enter(t)
        PROVE  IInv'
    BY <2>1, <2>4 DEF JoinRooms, Roster, Announce, Enter, views, world
  <2>5. ASSUME NEW s \in Sockets, Disconnect(s)
        PROVE  IInv'
    <3>1. told' = [told EXCEPT ![s] = [u \in Users |-> NoWord]] /\ UNCHANGED world
      BY <2>5 DEF Disconnect
    <3>2. WordsOK'
      BY <3>1 DEF WordsOK
    <3>3. \A r \in Sockets, u \in Users : told'[r][u] \in {told[r][u], NoWord}
      BY <3>1 DEF WordsOK
    <3>4. QED
      BY <3>1, <3>2, <3>3 DEF PresenceStaysInCircle, CirclesOf, world
  <2>6. ASSUME \/ \E s \in Sockets : Connect(s)
               \/ \E t \in tasks : Fail(t)
               \/ \E u \in Users, c \in Circles : Accept(u, c) \/ CreateCircle(u, c)
               \/ \E c \in Circles, us \in SUBSET Users : ConversationCreated(c, us)
        PROVE  IInv'
    <3>1. UNCHANGED told
      BY <2>6 DEF Connect, Fail, Accept, CreateCircle, ConversationCreated, views
    <3>2. QED BY <2>1, <2>6, <3>1, Happens
  <2>7. QED BY <2>2, <2>3, <2>4, <2>5, <2>6 DEF Next
<1>4. QED BY <1>1, <1>3, TypeCorrect, PTL DEF Spec

----------------------------------------------------------------------------
(* What is known once nothing is under way *)

\* A word no older than the last change of a user holds what the presence map
\* holds of the user; only an acceptance says one device whatever the map says.
TrueWord(u, w) ==
    /\ w.asOf \in Nat /\ w.asOf <= changes[u]
    /\ w.via \in {"tell", "roster", "announce"}
    /\ w.asOf = changes[u] /\ w.via # "announce" => w.count = Cardinality(online[u])
    /\ w.via = "tell" => w.online = (w.count > 0)
    /\ w.via = "roster" => w.online

Clocks ==
    /\ changes \in [Users -> Nat]
    /\ newest \in [Users -> Nat]
    /\ missed \in [Sockets -> SUBSET Users]
    /\ \A u \in Users : newest[u] <= changes[u]

\* Words are true when they were made, whether told or still to be told.
WordsTrue ==
    /\ \A t \in tasks : /\ t.user \in Users
                        /\ t.do = "tell" => TrueWord(t.user, t.about)
    /\ \A s \in Sockets, u \in Users :
          told[s][u] = NoWord \/ TrueWord(u, told[s][u])

\* The last change of a user has been sent, or is about to be.
LastSent ==
    \A u \in Users :
        \/ newest[u] = changes[u]
        \/ failures > 0
        \/ \E t \in tasks : t.do = "tell" /\ t.user = u /\ t.about.asOf = changes[u]

\* A user that is online was told to every socket or sent past it, or will be.
EveryoneListed ==
    \A s \in Connected, u \in Users :
        u # owner[s] /\ online[u] # {} =>
            \/ told[s][u].via # "nothing"
            \/ u \in missed[s]
            \/ failures > 0
            \/ \E t \in tasks :
                 \/ t.do = "roster" /\ t.user = owner[s]
                 \/ t.do \in {"common", "tell"} /\ t.user = u

KnownInv == WordsOK /\ Clocks /\ WordsTrue /\ LastSent /\ EveryoneListed

\* A true word that reaches the rooms of some circles leaves everything known,
\* and the task that sent it is done.
LEMMA Emitting ==
    ASSUME TypeOK, KnownInv, NEW t \in tasks, NEW word, NEW cs,
           t.do \in {"tell", "common"}, t.do = "tell" => word = t.about,
           TrueWord(t.user, word), Emit(t.user, word, cs), tasks' = tasks \ {t},
           UNCHANGED <<world, phase, online, changes, failures>>
    PROVE  KnownInv'
<1> DEFINE u == t.user
<1>1. u \in Users /\ word.asOf \in Nat /\ word.asOf <= changes[u] /\ word.via # "nothing"
  BY DEF KnownInv, WordsTrue, TrueWord
<1>2. /\ told' = [s \in Sockets |->
                    IF s \in RoomsOf(cs) /\ owner[s] # u
                    THEN [told[s] EXCEPT ![u] = word] ELSE told[s]]
      /\ missed' = [s \in Sockets |->
                      IF s \in RoomsOf(cs) THEN missed[s] \ {u}
                      ELSE IF s \in Connected THEN missed[s] \cup {u} ELSE missed[s]]
      /\ newest' = [newest EXCEPT ![u] = IF word.asOf > @ THEN word.asOf ELSE @]
  BY DEF Emit
<1>3. \A s \in Sockets, v \in Users :
          told'[s][v] = IF s \in RoomsOf(cs) /\ owner[s] # u /\ v = u
                        THEN word ELSE told[s][v]
  BY <1>1, <1>2 DEF KnownInv, WordsOK
<1>4. WordsOK'
  BY <1>2 DEF KnownInv, WordsOK
<1>5. Clocks'
  BY <1>1, <1>2 DEF KnownInv, Clocks
<1>6. WordsTrue'
  <2>1. ASSUME NEW s \in Sockets, NEW v \in Users
        PROVE  told'[s][v] = NoWord \/ TrueWord(v, told'[s][v])
    BY <1>3 DEF KnownInv, WordsTrue
  <2>2. QED BY <2>1 DEF KnownInv, WordsTrue, TrueWord
<1>7. ASSUME NEW v \in Users
      PROVE  \/ newest'[v] = changes'[v]
             \/ failures' > 0
             \/ \E x \in tasks' : x.do = "tell" /\ x.user = v /\ x.about.asOf = changes'[v]
  <2>1. CASE newest[v] = changes[v]
    BY <1>1, <1>2, <2>1 DEF KnownInv, Clocks
  <2>2. CASE failures > 0
    BY <2>2
  <2>3. ASSUME NEW x \in tasks, x.do = "tell", x.user = v, x.about.asOf = changes[v]
        PROVE  newest'[v] = changes'[v] \/ x \in tasks'
    <3>1. CASE x = t
      <4>1. v = u /\ word.asOf = changes[u] /\ changes' = changes
        BY <2>3, <3>1
      <4>2. newest[u] \in Nat /\ changes[u] \in Nat /\ newest[u] <= changes[u]
        BY <1>1 DEF KnownInv, Clocks
      <4>3. newest'[u] = IF word.asOf > newest[u] THEN word.asOf ELSE newest[u]
        BY <1>1, <1>2 DEF KnownInv, Clocks
      <4>4. QED BY <4>1, <4>2, <4>3
    <3>2. CASE x # t
      BY <3>2
    <3>3. QED BY <3>1, <3>2
  <2>4. QED BY <2>1, <2>2, <2>3 DEF KnownInv, LastSent
<1>8. ASSUME NEW s \in Connected, NEW v \in Users, v # owner[s], online[v] # {}
      PROVE  \/ told'[s][v].via # "nothing"
             \/ v \in missed'[s]
             \/ failures' > 0
             \/ \E x \in tasks' :
                  \/ x.do = "roster" /\ x.user = owner[s]
                  \/ x.do \in {"common", "tell"} /\ x.user = v
  <2>1. s \in Sockets
    BY DEF Connected
  <2>2. CASE v = u
    BY <1>1, <1>2, <1>3, <1>8, <2>1, <2>2
  <2>3. CASE v # u
    <3>1. told'[s][v] = told[s][v] /\ (v \in missed[s] => v \in missed'[s])
      BY <1>2, <1>3, <2>1, <2>3
    <3>2. QED BY <1>8, <2>3, <3>1 DEF KnownInv, EveryoneListed
  <2>4. QED BY <2>2, <2>3
<1>9. LastSent' /\ EveryoneListed'
  BY <1>7, <1>8 DEF LastSent, EveryoneListed, Connected, world
<1>10. QED BY <1>4, <1>5, <1>6, <1>9 DEF KnownInv

\* A connection or a disconnection of a user starts a word about it, and what
\* was known of the others stays known.
LEMMA Changing ==
    ASSUME TypeOK, KnownInv, NEW u \in Users, NEW word,
           TrueWord(u, word)', word.via = "tell", word.asOf = changes[u] + 1,
           changes' = [changes EXCEPT ![u] = @ + 1],
           \A v \in Users \ {u} : online'[v] = online[v],
           TellTask(u, word) \in tasks', tasks \subseteq tasks',
           \A x \in tasks' \ tasks : x = TellTask(u, word) \/ x.do \in {"join", "roster"},
           \A x \in tasks' : x.user \in Users,
           missed' \in [Sockets -> SUBSET Users],
           UNCHANGED <<world, newest, failures>>
    PROVE  /\ Clocks'
           /\ \A x \in tasks' : x.do = "tell" => TrueWord(x.user, x.about)'
           /\ \A w : \A v \in Users : TrueWord(v, w) => TrueWord(v, w)'
           /\ LastSent'
<1>1. /\ TellTask(u, word).do = "tell" /\ TellTask(u, word).user = u
      /\ TellTask(u, word).about = word
  BY DEF TellTask, Query
<1>2. changes \in [Users -> Nat]
  BY DEF KnownInv, Clocks
<1>3. Clocks'
  BY <1>2 DEF KnownInv, Clocks
<1>4. ASSUME NEW v \in Users, NEW w, TrueWord(v, w)
      PROVE  TrueWord(v, w)'
  <2>1. CASE v = u
    BY <1>2, <1>4, <2>1 DEF TrueWord
  <2>2. CASE v # u
    BY <1>2, <1>4, <2>2 DEF TrueWord
  <2>3. QED BY <2>1, <2>2
<1>5. ASSUME NEW x \in tasks', x.do = "tell"
      PROVE  TrueWord(x.user, x.about)'
  BY <1>1, <1>4, <1>5 DEF KnownInv, WordsTrue
<1>6. ASSUME NEW v \in Users
      PROVE  \/ newest'[v] = changes'[v]
             \/ failures' > 0
             \/ \E x \in tasks' : x.do = "tell" /\ x.user = v /\ x.about.asOf = changes'[v]
  <2>1. CASE v = u
    BY <1>1, <1>2, <2>1
  <2>2. CASE v # u
    BY <1>2, <2>2 DEF KnownInv, LastSent
  <2>3. QED BY <2>1, <2>2
<1>7. QED BY <1>3, <1>4, <1>5, <1>6 DEF LastSent

\* The presence map holds finitely many sockets, so their number says whether
\* there are any.
LEMMA Counting ==
    ASSUME TypeOK, NEW u \in Users
    PROVE  /\ IsFiniteSet(online[u])
           /\ Cardinality(online[u]) \in Nat
           /\ Cardinality(online[u]) > 0 <=> online[u] # {}
<1>1. online[u] \subseteq Sockets
  BY DEF TypeOK, Connected
<1>2. IsFiniteSet(online[u])
  BY <1>1, WorldsAssumption, FS_Subset
<1>3. QED BY <1>2, FS_CardinalityType, FS_EmptySet

\* Everything is known at first.
LEMMA KnownAtFirst ==
    ASSUME Init, TypeOK PROVE KnownInv
<1>1. WordsOK
  BY DEF Init, WordsOK
<1>2. changes = [u \in Users |-> Cardinality(online[u])] /\ newest = changes
      /\ tasks = {}
  BY DEF Init
<1>3. Clocks /\ LastSent
  <2>1. missed \in [Sockets -> SUBSET Users]
    BY DEF Init
  <2>2. changes \in [Users -> Nat]
    BY <1>2, Counting
  <2>3. QED BY <1>2, <2>1, <2>2 DEF Clocks, LastSent
<1>4. ASSUME NEW s \in Sockets, NEW u \in Users
      PROVE  told[s][u] = NoWord \/ TrueWord(u, told[s][u])
  <2>1. told[s][u] = NoWord \/ told[s][u] = Word(u, changes[u], changes[u], "tell")
    BY DEF Init
  <2>2. TrueWord(u, Word(u, changes[u], changes[u], "tell"))
    BY <1>2, Counting DEF TrueWord, Word
  <2>3. QED BY <2>1, <2>2
<1>5. ASSUME NEW s \in Connected, NEW u \in Users, u # owner[s], online[u] # {}
      PROVE  told[s][u].via # "nothing" \/ u \in missed[s]
  <2>1. s \in Sockets
    BY DEF Connected
  <2>2. CASE Share(u, owner[s])
    <3>1. told[s][u] = Word(u, changes[u], changes[u], "tell")
      BY <1>5, <2>1, <2>2 DEF Init
    <3>2. QED BY <3>1 DEF Word
  <2>3. CASE ~Share(u, owner[s])
    BY <1>5, <2>1, <2>3 DEF Init
  <2>4. QED BY <2>2, <2>3
<1>6. QED BY <1>1, <1>2, <1>3, <1>4, <1>5
          DEF KnownInv, WordsTrue, EveryoneListed

\* Every step keeps it known.
LEMMA KnownGoesOn ==
    ASSUME TypeOK, TypeOK', TasksOK, KnownInv, [Next]_vars PROVE KnownInv'
<1> USE DEF world
<1>1. CASE UNCHANGED vars
  BY <1>1 DEF vars, views, KnownInv, WordsOK, Clocks, WordsTrue, TrueWord,
              LastSent, EveryoneListed, Connected
<1>2. ASSUME NEW t \in tasks, Tell(t)
      PROVE  KnownInv'
  <2>1. PICK cs \in Answers(t) : Emit(t.user, t.about, cs)
    BY <1>2 DEF Tell
  <2>2. TrueWord(t.user, t.about)
    BY <1>2 DEF Tell, KnownInv, WordsTrue
  <2>3. /\ t.do = "tell" /\ tasks' = tasks \ {t}
        /\ UNCHANGED <<world, phase, online, changes, failures>>
    BY <1>2 DEF Tell
  <2>4. QED BY <2>1, <2>2, <2>3, Emitting
<1>3. ASSUME NEW t \in tasks, TellCommon(t)
      PROVE  KnownInv'
  <2> DEFINE word == [online |-> TRUE, count |-> Cardinality(online[t.user]),
                      asOf |-> changes[t.user], via |-> "roster"]
  <2>1. PICK cs \in Answers(t) : Emit(t.user, word, Common(t, cs))
    BY <1>3 DEF TellCommon
  <2>2. TrueWord(t.user, word)
    BY DEF KnownInv, WordsTrue, Clocks, TrueWord
  <2>3. /\ t.do = "common" /\ tasks' = tasks \ {t}
        /\ UNCHANGED <<world, phase, online, changes, failures>>
    BY <1>3 DEF TellCommon
  <2> HIDE DEF word
  <2>4. QED BY <2>1, <2>2, <2>3, Emitting
<1>4. ASSUME NEW t \in tasks, Roster(t)
      PROVE  KnownInv'
  <2>1. PICK cs \in Answers(t) :
            tasks' = (tasks \ {t}) \cup {CommonTask(v, cs) : v \in Listed(t.user)}
    BY <1>4 DEF Roster
  <2>2. t.do = "roster"
        /\ UNCHANGED <<world, phase, online, views, changes, failures>>
    BY <1>4 DEF Roster
  <2>3. \A v : CommonTask(v, cs).do = "common" /\ CommonTask(v, cs).user = v
    BY DEF CommonTask, Query
  <2>4. WordsOK' /\ Clocks'
    BY <2>2 DEF views, KnownInv, WordsOK, Clocks
  <2>5. WordsTrue'
    BY <2>1, <2>2, <2>3 DEF views, KnownInv, WordsTrue, TrueWord, Listed
  <2>6. LastSent'
    BY <2>1, <2>2 DEF views, KnownInv, LastSent
  <2>7. ASSUME NEW s \in Connected, NEW v \in Users, v # owner[s], online[v] # {}
        PROVE  \/ told[s][v].via # "nothing"
               \/ v \in missed[s]
               \/ failures > 0
               \/ \E x \in tasks' :
                    \/ x.do = "roster" /\ x.user = owner[s]
                    \/ x.do \in {"common", "tell"} /\ x.user = v
    <3>1. CASE t.user = owner[s]
      <4>1. CommonTask(v, cs) \in tasks'
        BY <2>1, <2>7, <3>1 DEF Listed
      <4>2. QED BY <2>3, <4>1
    <3>2. CASE t.user # owner[s]
      BY <2>1, <2>2, <2>7, <3>2 DEF KnownInv, EveryoneListed
    <3>3. QED BY <3>1, <3>2
  <2>8. EveryoneListed'
    BY <2>2, <2>7 DEF views, EveryoneListed, Connected
  <2>9. QED BY <2>4, <2>5, <2>6, <2>8 DEF KnownInv
<1>5. ASSUME NEW t \in tasks, JoinRooms(t) \/ Enter(t)
      PROVE  KnownInv'
  <2>1. /\ t.do \in {"join", "enter"} /\ tasks' = tasks \ {t}
        /\ UNCHANGED <<world, phase, online, views, changes, failures>>
    BY <1>5 DEF JoinRooms, Enter
  <2>2. WordsOK' /\ Clocks' /\ WordsTrue' /\ LastSent'
    BY <2>1 DEF views, KnownInv, WordsOK, Clocks, WordsTrue, TrueWord, LastSent
  <2>3. EveryoneListed'
    BY <2>1 DEF views, KnownInv, EveryoneListed, Connected
  <2>4. QED BY <2>2, <2>3 DEF KnownInv
<1>6. ASSUME NEW t \in tasks, Announce(t)
      PROVE  KnownInv'
  <2> DEFINE word == [online |-> TRUE, count |-> 1,
                      asOf |-> changes[t.user], via |-> "announce"]
  <2>1. /\ t.do = "announce"
        /\ tasks' = (tasks \ {t}) \cup {TellTask(t.user, word)}
        /\ UNCHANGED <<world, phase, online, views, changes, failures>>
    BY <1>6 DEF Announce
  <2>2. TrueWord(t.user, word) /\ t.user \in Users
    BY DEF KnownInv, WordsTrue, Clocks, TrueWord
  <2> HIDE DEF word
  <2>3. /\ TellTask(t.user, word).user = t.user
        /\ TellTask(t.user, word).about = word
    BY DEF TellTask, Query
  <2>4. WordsOK' /\ Clocks' /\ LastSent'
    BY <2>1 DEF views, KnownInv, WordsOK, Clocks, LastSent
  <2>5. WordsTrue'
    BY <2>1, <2>2, <2>3 DEF views, KnownInv, WordsTrue, TrueWord
  <2>6. EveryoneListed'
    BY <2>1 DEF views, KnownInv, EveryoneListed, Connected
  <2>7. QED BY <2>4, <2>5, <2>6 DEF KnownInv
<1>7. ASSUME NEW t \in tasks, Fail(t)
      PROVE  KnownInv'
  <2>1. /\ tasks' = tasks \ {t} /\ failures' > 0
        /\ UNCHANGED <<world, phase, online, views, changes>>
    BY <1>7 DEF Fail, TypeOK
  <2>2. QED BY <2>1 DEF views, KnownInv, WordsOK, Clocks, WordsTrue, TrueWord,
                        LastSent, EveryoneListed
<1>8. ASSUME NEW u \in Users, NEW c \in Circles, Accept(u, c) \/ CreateCircle(u, c)
      PROVE  KnownInv'
  <2>1. PICK t : t \in {AnnounceTask(u, c), EnterTask(u, c)} /\ tasks' = tasks \cup {t}
    BY <1>8 DEF Accept, CreateCircle
  <2>2. t.do \in {"announce", "enter"} /\ t.user = u
    BY <2>1 DEF AnnounceTask, EnterTask, Query
  <2>3. UNCHANGED <<owner, phase, online, views, changes, failures>>
    BY <1>8 DEF Accept, CreateCircle
  <2>4. WordsOK' /\ Clocks' /\ WordsTrue' /\ LastSent'
    BY <2>1, <2>2, <2>3
       DEF views, KnownInv, WordsOK, Clocks, WordsTrue, TrueWord, LastSent
  <2>5. EveryoneListed'
    BY <2>1, <2>3 DEF views, KnownInv, EveryoneListed, Connected
  <2>6. QED BY <2>4, <2>5 DEF KnownInv
<1>9. ASSUME NEW c \in Circles, NEW us \in SUBSET Users, ConversationCreated(c, us)
      PROVE  KnownInv'
  <2>1. UNCHANGED <<world, phase, online, tasks, views, changes, failures>>
    BY <1>9 DEF ConversationCreated
  <2>2. WordsOK' /\ Clocks' /\ LastSent'
    BY <2>1 DEF views, KnownInv, WordsOK, Clocks, LastSent
  <2>3. WordsTrue'
    BY <2>1 DEF views, KnownInv, WordsTrue, TrueWord
  <2>4. EveryoneListed'
    BY <2>1 DEF views, KnownInv, EveryoneListed, Connected
  <2>5. QED BY <2>2, <2>3, <2>4 DEF KnownInv
<1>10. ASSUME NEW s \in Sockets, Connect(s)
       PROVE  KnownInv'
  <2>a. PICK u \in Users : u = owner[s]
    BY DEF TypeOK
  <2>b. PICK word : word = Word(u, changes[u] + 1, Cardinality(online[u] \cup {s}), "tell")
    OBVIOUS
  <2>1. /\ phase' = [phase EXCEPT ![s] = "connected"]
        /\ online' = [online EXCEPT ![u] = @ \cup {s}]
        /\ changes' = [changes EXCEPT ![u] = changes[u] + 1]
        /\ tasks' = tasks \cup {JoinTask(s), RosterTask(s), TellTask(u, word)}
        /\ UNCHANGED <<world, views, failures>>
    BY <1>10, <2>a, <2>b DEF Connect
  <2>2. /\ JoinTask(s).do = "join" /\ JoinTask(s).user = u
        /\ RosterTask(s).do = "roster" /\ RosterTask(s).user = u
        /\ TellTask(u, word).do = "tell" /\ TellTask(u, word).user = u
    BY <2>a DEF JoinTask, RosterTask, TellTask, Query
  <2>3. u = owner[s] /\ u \in Users /\ online \in [Users -> SUBSET Sockets] /\ changes \in [Users -> Nat]
    BY <2>a DEF TypeOK, Connected, KnownInv, Clocks
  <2>4. /\ word.asOf = changes[u] + 1 /\ word.via = "tell"
        /\ word.count = Cardinality(online'[u]) /\ word.online = (word.count > 0)
    BY <2>1, <2>3, <2>b DEF Word
  <2>5. TrueWord(u, word)'
    <3>1. word.asOf \in Nat /\ word.asOf <= changes'[u]
      <4>1. changes[u] \in Nat /\ changes'[u] = changes[u] + 1
        BY <2>1, <2>3
      <4>2. word.asOf = changes[u] + 1
        BY <2>4
      <4>3. QED BY <4>1, <4>2
    <3>a. /\ word.asOf = changes'[u] => word.count = Cardinality(online'[u])
          /\ word.via \in {"tell", "roster", "announce"} /\ word.via # "roster"
      BY <2>4
    <3>2. word.online = (word.count > 0)
      BY <2>4
    <3>3. QED BY <3>1, <3>a, <3>2 DEF TrueWord
  <2>6. \A v \in Users \ {u} : online'[v] = online[v]
    BY <2>1, <2>3
  <2>7. \A x \in tasks' : x.user \in Users
    BY <2>1, <2>2, <2>3 DEF KnownInv, WordsTrue
  <2>8. missed' \in [Sockets -> SUBSET Users] /\ UNCHANGED <<newest, told, missed>>
    BY <2>1 DEF views, KnownInv, Clocks
  <2>9. /\ Clocks' /\ LastSent'
        /\ \A x \in tasks' : x.do = "tell" => TrueWord(x.user, x.about)'
        /\ \A w : \A v \in Users : TrueWord(v, w) => TrueWord(v, w)'
    <3>1. u \in Users /\ changes' = [changes EXCEPT ![u] = @ + 1]
      BY <2>1, <2>3
    <3>2. /\ TellTask(u, word) \in tasks' /\ tasks \subseteq tasks'
          /\ \A x \in tasks' \ tasks : x = TellTask(u, word) \/ x.do \in {"join", "roster"}
      BY <2>1, <2>2
    <3>3. QED BY <2>1, <2>4, <2>5, <2>6, <2>7, <2>8, <3>1, <3>2, Changing
  <2>10. WordsTrue'
    BY <2>7, <2>8, <2>9 DEF KnownInv, WordsTrue
  <2>11. WordsOK'
    BY <2>8 DEF KnownInv, WordsOK
  <2>12. ASSUME NEW r \in Connected', NEW v \in Users, v # owner[r], online'[v] # {}
         PROVE  \/ told[r][v].via # "nothing"
                \/ v \in missed[r]
                \/ failures > 0
                \/ \E x \in tasks' :
                     \/ x.do = "roster" /\ x.user = owner[r]
                     \/ x.do \in {"common", "tell"} /\ x.user = v
    <3>1. CASE v = u
      BY <2>1, <2>2, <3>1
    <3>2. CASE r = s
      BY <2>1, <2>2, <2>3, <3>2
    <3>3. CASE v # u /\ r # s
      <4>1. r \in Connected /\ online[v] # {} /\ tasks \subseteq tasks'
        BY <2>1, <2>6, <2>12, <3>3 DEF Connected, TypeOK
      <4>2. QED BY <2>12, <4>1 DEF KnownInv, EveryoneListed
    <3>4. QED BY <3>1, <3>2, <3>3
  <2>13. EveryoneListed'
    BY <2>1, <2>8, <2>12 DEF EveryoneListed
  <2>14. QED BY <2>9, <2>10, <2>11, <2>13 DEF KnownInv
<1>11. ASSUME NEW s \in Sockets, Disconnect(s)
       PROVE  KnownInv'
  <2>a. PICK u \in Users : u = owner[s]
    BY DEF TypeOK
  <2>b. PICK word : word = Word(u, changes[u] + 1, Cardinality(Remaining(u, s)), "tell")
    OBVIOUS
  <2>1. /\ phase' = [phase EXCEPT ![s] = "closed"]
        /\ online' = [online EXCEPT ![u] = @ \ {s}]
        /\ changes' = [changes EXCEPT ![u] = changes[u] + 1]
        /\ tasks' = tasks \cup {TellTask(u, word)}
        /\ told' = [told EXCEPT ![s] = [v \in Users |-> NoWord]]
        /\ missed' = [missed EXCEPT ![s] = {}]
        /\ UNCHANGED <<world, newest, failures>>
    BY <1>11, <2>a, <2>b DEF Disconnect
  <2>2. TellTask(u, word).do = "tell" /\ TellTask(u, word).user = u
    BY DEF TellTask, Query
  <2>3. u = owner[s] /\ u \in Users /\ online \in [Users -> SUBSET Sockets] /\ changes \in [Users -> Nat]
        /\ missed \in [Sockets -> SUBSET Users]
    BY <2>a DEF TypeOK, Connected, KnownInv, Clocks
  <2>4. /\ word.asOf = changes[u] + 1 /\ word.via = "tell"
        /\ word.count = Cardinality(online'[u]) /\ word.online = (word.count > 0)
    BY <2>1, <2>3, <2>b DEF Word, Remaining
  <2>5. TrueWord(u, word)'
    <3>1. word.asOf \in Nat /\ word.asOf <= changes'[u]
      <4>1. changes[u] \in Nat /\ changes'[u] = changes[u] + 1
        BY <2>1, <2>3
      <4>2. word.asOf = changes[u] + 1
        BY <2>4
      <4>3. QED BY <4>1, <4>2
    <3>a. /\ word.asOf = changes'[u] => word.count = Cardinality(online'[u])
          /\ word.via \in {"tell", "roster", "announce"} /\ word.via # "roster"
      BY <2>4
    <3>2. word.online = (word.count > 0)
      BY <2>4
    <3>3. QED BY <3>1, <3>a, <3>2 DEF TrueWord
  <2>6. \A v \in Users \ {u} : online'[v] = online[v]
    BY <2>1, <2>3
  <2>7. \A x \in tasks' : x.user \in Users
    BY <2>1, <2>2, <2>3 DEF KnownInv, WordsTrue
  <2>8. missed' \in [Sockets -> SUBSET Users]
    BY <2>1, <2>3
  <2>9. /\ Clocks' /\ LastSent'
        /\ \A x \in tasks' : x.do = "tell" => TrueWord(x.user, x.about)'
        /\ \A w : \A v \in Users : TrueWord(v, w) => TrueWord(v, w)'
    <3>1. u \in Users /\ changes' = [changes EXCEPT ![u] = @ + 1]
      BY <2>1, <2>3
    <3>2. /\ TellTask(u, word) \in tasks' /\ tasks \subseteq tasks'
          /\ \A x \in tasks' \ tasks : x = TellTask(u, word) \/ x.do \in {"join", "roster"}
      BY <2>1, <2>2
    <3>3. QED BY <2>1, <2>4, <2>5, <2>6, <2>7, <2>8, <3>1, <3>2, Changing
  <2>10. WordsOK'
    BY <2>1 DEF KnownInv, WordsOK
  <2>11. \A r \in Sockets, v \in Users : told'[r][v] = NoWord \/ told'[r][v] = told[r][v]
    BY <2>1 DEF KnownInv, WordsOK
  <2>12. WordsTrue'
    BY <2>7, <2>9, <2>11 DEF KnownInv, WordsTrue
  <2>13. ASSUME NEW r \in Connected', NEW v \in Users, v # owner[r], online'[v] # {}
         PROVE  \/ told'[r][v].via # "nothing"
                \/ v \in missed'[r]
                \/ failures > 0
                \/ \E x \in tasks' :
                     \/ x.do = "roster" /\ x.user = owner[r]
                     \/ x.do \in {"common", "tell"} /\ x.user = v
    <3>1. CASE v = u
      BY <2>1, <2>2, <3>1
    <3>2. CASE v # u
      <4>1. r \in Connected /\ r # s
        BY <2>1, <2>13 DEF Connected, TypeOK
      <4>2. /\ told'[r] = told[r] /\ missed'[r] = missed[r]
            /\ online[v] # {} /\ tasks \subseteq tasks'
        BY <2>1, <2>3, <2>6, <2>13, <3>2, <4>1 DEF Connected, KnownInv, WordsOK
      <4>3. QED BY <2>13, <4>1, <4>2 DEF KnownInv, EveryoneListed
    <3>3. QED BY <3>1, <3>2
  <2>14. EveryoneListed'
    BY <2>1, <2>13 DEF EveryoneListed
  <2>15. QED BY <2>9, <2>10, <2>12, <2>14 DEF KnownInv
<1>12. QED BY <1>1, <1>2, <1>3, <1>4, <1>5, <1>6, <1>7, <1>8, <1>9, <1>10, <1>11 DEF Next

\* Once nothing is under way and no query has failed, a socket knows who is
\* online in its circles and on how many devices, unless the order of the
\* queries excuses it: a word that no newer one replaced was made after the last
\* change of its user, and only a user told to nobody in reach is unknown.
THEOREM ViewSettles == Spec => []SettledViewIsTrue
<1>1. TypeOK /\ KnownInv => SettledViewIsTrue
  <2> SUFFICES ASSUME TypeOK, KnownInv, tasks = {}, failures = 0,
                      NEW s \in Connected, NEW u \in Users,
                      u # owner[s], ~Excused(s, u)
               PROVE  /\ told[s][u].count = Cardinality(online[u])
                      /\ told[s][u].online = (online[u] # {})
    BY DEF SettledViewIsTrue
  <2>1. s \in Sockets /\ newest[u] = changes[u]
    BY DEF Connected, KnownInv, LastSent
  <2>2. CASE told[s][u] = NoWord
    <3>1. online[u] = {}
      BY <2>2 DEF KnownInv, EveryoneListed, Excused, NoWord
    <3>2. Cardinality(online[u]) = 0
      BY <3>1, FS_EmptySet
    <3>3. told[s][u].count = 0 /\ told[s][u].online = FALSE
      BY <2>2 DEF NoWord
    <3>4. (online[u] # {}) = FALSE
      BY <3>1
    <3>5. QED BY <3>2, <3>3, <3>4
  <2>3. CASE TrueWord(u, told[s][u])
    <3>1. told[s][u].asOf = changes[u] /\ told[s][u].via # "announce"
      BY <2>1, <2>3 DEF TrueWord, Excused, KnownInv, Clocks
    <3>2. told[s][u].count = Cardinality(online[u])
      BY <2>3, <3>1 DEF TrueWord
    <3>3. told[s][u].online = (online[u] # {})
      <4>1. CASE told[s][u].via = "tell"
        BY <2>3, <3>2, <4>1, Counting DEF TrueWord
      <4>2. CASE told[s][u].via = "roster"
        BY <2>3, <4>2 DEF TrueWord, Excused
      <4>3. QED BY <2>3, <3>1, <4>1, <4>2 DEF TrueWord
    <3>4. QED BY <3>2, <3>3
  <2>4. QED BY <2>1, <2>2, <2>3 DEF KnownInv, WordsTrue
<1>2. Init /\ TypeOK => KnownInv
  BY KnownAtFirst
<1>3. TypeOK /\ TypeOK' /\ TasksOK /\ KnownInv /\ [Next]_vars => KnownInv'
  BY KnownGoesOn
<1>4. QED BY <1>1, <1>2, <1>3, TypeCorrect, PTL DEF Spec
=============================================================================
