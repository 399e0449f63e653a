--------------------- MODULE CircleTransactions_proofs ---------------------
(***************************************************************************)
(* Theorems about CircleTransactions, for any users, devices, handlers and *)
(* scenarios.                                                              *)
(*                                                                         *)
(* The argument is two-phase locking.  A handler holds what its script has *)
(* passed (HeldByScript), no row is held twice in modes that exclude each  *)
(* other (Exclusive), and no commit changes a row that another holds, so   *)
(* that a locked row keeps the value it was found with (RowsKept): at its  *)
(* commit a handler still knows all that its statements looked at, and     *)
(* that is the guard of a step of CircleLedger.  Two rules of the circle   *)
(* are not on a row that is locked: that a member does not ask to come in, *)
(* and that a user asks once.  They hold because who asks or decides holds *)
(* the row of the circle (AskersOutside, OnePending).                      *)
(*                                                                         *)
(* Deadlocks: a handler of the circle that waits for another one which     *)
(* waits in turn waits at a higher level than it, so that no cycle of them *)
(* closes without a publication or a revocation.                           *)
(***************************************************************************)
EXTENDS CircleTransactions, FiniteSetTheorems, TLAPS

\* The table of lock conflicts is symmetric (RowLocks).
LEMMA ConflictsAreMutual ==
    \A a, b \in LockModes : a \in Excludes[b] <=> b \in Excludes[a]
  BY DEF LockModes, Excludes

----------------------------------------------------------------------------
(* The scripts *)

\* what the statements may ask of a row
LockOK(l) ==
    /\ l.mode \in LockModes
    /\ l.row[1] = "member" =>
          /\ l.row[2] \in Users /\ l.row = Member(l.row[2])
          /\ \/ l.mode = "share" /\ l.ok \subseteq Roles
             \/ l.mode = "no-key-update" /\ l.ok = {"admin", "member"}
             \/ l.mode = "insert" /\ l.ok = Roles \cup {"none"}
             \/ l.mode = "read"
    /\ l.row[1] = "request" =>
          /\ l.row[2] \in RequestIds /\ l.row = Request(l.row[2])
          /\ l.mode = "update" /\ l.ok = {"pending"}
    /\ l.row[1] = "asking" =>
          /\ l.row[2] \in Users /\ l.row = Asking(l.row[2])
          /\ l.mode \in {"read", "insert"} /\ l.ok = {"absent"}
    /\ l.row[1] = "key" =>
          /\ l.row[2] \in Devices /\ l.row = Key(l.row[2])
          /\ l.mode \in {"share", "no-key-update", "update"}
    /\ l.row[1] = "device" =>
          /\ l.row[2] \in Devices /\ l.row = Device(l.row[2])
          /\ l.mode \in {"share", "update"} /\ l.ok = {"active"}
    /\ l.row[1] = "message" =>
          l.row = Message(l.row[2]) /\ l.mode = "insert" /\ l.ok = {"absent"}

StatementOK(s) ==
    /\ Len(s) \in Nat /\ DOMAIN s = 1..Len(s)
    /\ \A i \in 1..Len(s) : LockOK(s[i])

ScriptOK(s) ==
    /\ Len(s) \in Nat /\ DOMAIN s = 1..Len(s)
    /\ \A i \in 1..Len(s) : StatementOK(s[i])

\* Every permission is given to roles only (acl.ts, GROUP_ROLE_PERMISSIONS).
LEMMA PermittedRoles == \A what : Permitted(what) \subseteq Roles
  BY DEF Permitted, Roles, Managers

FreeKinds == {"group", "conversation", "reader", "user"}

\* A row that need only be there may be asked for in any mode.
LEMMA FreeRow ==
    ASSUME NEW row, NEW mode \in LockModes, row[1] \in FreeKinds
    PROVE  LockOK(There(row, mode))
  BY DEF LockOK, There, Lock, FreeKinds

\* The circle, the conversation, its readers and the users are such rows.
LEMMA FreeKindsOf ==
    /\ Circle[1] \in FreeKinds
    /\ Conversation[1] \in FreeKinds
    /\ \A u : Reader(u)[1] \in FreeKinds /\ User(u)[1] \in FreeKinds
  BY DEF Circle, Conversation, Reader, User, FreeKinds

\* A statement over one row.
LEMMA OneLock ==
    ASSUME NEW a, LockOK(a)
    PROVE  StatementOK(<<a>>)
  BY DEF StatementOK

\* A statement over two rows.
LEMMA TwoLocks ==
    ASSUME NEW a, LockOK(a), NEW b, LockOK(b)
    PROVE  StatementOK(<<a, b>>)
  BY DEF StatementOK

\* A statement over three rows.
LEMMA ThreeLocks ==
    ASSUME NEW a, LockOK(a), NEW b, LockOK(b), NEW c, LockOK(c)
    PROVE  StatementOK(<<a>> \o <<b, c>>)
  BY DEF StatementOK

\* A statement over four rows.
LEMMA FourLocks ==
    ASSUME NEW a, LockOK(a), NEW b, LockOK(b), NEW c, LockOK(c), NEW d, LockOK(d)
    PROVE  StatementOK(<<a, b>> \o <<c, d>>)
  BY DEF StatementOK

\* The foreign keys of an insert, alone and after the row inserted.
LEMMA ReferencesOK ==
    ASSUME NEW a, a[1] \in FreeKinds, NEW b, b[1] \in FreeKinds
    PROVE  /\ StatementOK(References(<<a>>))
           /\ StatementOK(References(<<a, b>>))
           /\ \A l : LockOK(l) => StatementOK(<<l>> \o References(<<a, b>>))
<1>1. LockOK(There(a, "key-share")) /\ LockOK(There(b, "key-share"))
  BY FreeRow DEF LockModes
<1> QED BY <1>1 DEF StatementOK, References

\* A script of one, two or four statements.
LEMMA ShortScripts ==
    ASSUME NEW a, StatementOK(a)
    PROVE  /\ ScriptOK(<<a>>)
           /\ \A b : StatementOK(b) => ScriptOK(<<a, b>>)
           /\ \A b, c, d : StatementOK(b) /\ StatementOK(c) /\ StatementOK(d)
                           => ScriptOK(<<a, b, c, d>>)
  BY DEF ScriptOK

\* A script of five statements, of which the fourth may lock nothing.
LEMMA LongScripts ==
    ASSUME NEW a, StatementOK(a), NEW b, StatementOK(b), NEW c, StatementOK(c),
           NEW d, StatementOK(d), NEW e, StatementOK(e)
    PROVE  /\ ScriptOK(<<a, b, c>> \o <<d>> \o <<e>>)
           /\ ScriptOK(<<a, b, c>> \o <<>> \o <<e>>)
<1>1. ScriptOK(<<a, b, c>> \o <<d>> \o <<e>>)
  BY DEF ScriptOK
<1>2. ScriptOK(<<a, b, c>> \o <<>> \o <<e>>)
  BY DEF ScriptOK
<1> QED BY <1>1, <1>2

\* A membership locked through the ACL.
LEMMA MemberShared ==
    ASSUME NEW u \in Users, NEW ok \in SUBSET Roles
    PROVE  LockOK(Lock(Member(u), AclMode, ok))
  BY DEF LockOK, Lock, Member, AclMode, LockModes

\* requireGroupRole locks the membership and the circle.
LEMMA GroupRoleOK ==
    ASSUME NEW u \in Users, NEW what
    PROVE  StatementOK(GroupRole(u, what))
<1>1. LockOK(There(Circle, AclMode))
  BY FreeRow, FreeKindsOf DEF AclMode, LockModes
<1>2. LockOK(Lock(Member(u), AclMode, Permitted(what)))
  BY MemberShared, PermittedRoles
<1> QED BY <1>1, <1>2, TwoLocks DEF GroupRole

\* The SELECT ... FOR UPDATE of the circle.
LEMMA LockGroupOK == StatementOK(<<LockGroup>>)
<1>1. LockOK(LockGroup)
  BY FreeRow, FreeKindsOf DEF LockGroup, LockModes
<1> QED BY <1>1, OneLock

\* The statements of POST .../join-requests are well formed.
LEMMA AskOK ==
    ASSUME NEW c \in CallTypes, c.kind = "ask"
    PROVE  ScriptOK(AskScript(c))
<1>1. c.user \in Users
  BY DEF CallTypes
<1>2. LockOK(Lock(Member(c.user), "read", {"none"}))
  BY <1>1 DEF LockOK, Lock, Member, LockModes
<1>3. LockOK(Lock(Asking(c.user), "read", {"absent"}))
  BY <1>1 DEF LockOK, Lock, Asking, LockModes
<1>4. LockOK(Lock(Asking(c.user), "insert", {"absent"}))
  BY <1>1 DEF LockOK, Lock, Asking, LockModes
<1>5. /\ StatementOK(<<Lock(Member(c.user), "read", {"none"})>>)
      /\ StatementOK(<<Lock(Asking(c.user), "read", {"absent"})>>)
      /\ StatementOK(<<Lock(Asking(c.user), "insert", {"absent"})>>
                        \o References(<<Circle, User(c.user)>>))
  BY <1>2, <1>3, <1>4, OneLock, ReferencesOK, FreeKindsOf
<1> QED BY <1>5, LockGroupOK, ShortScripts DEF AskScript

\* The statements of a decision on a join request are well formed.
LEMMA HandleOK ==
    ASSUME NEW c \in CallTypes, c.kind = "handle"
    PROVE  ScriptOK(HandleScript(c))
<1>1. c.user \in Users /\ c.request \in RequestIds /\ Asker[c.request] \in Users
  BY HandlersAssumption DEF CallTypes
<1>2. LockOK(PendingRequest(c.request))
  BY <1>1 DEF LockOK, PendingRequest, Lock, Request, LockModes
<1>3. LockOK(Lock(Member(Asker[c.request]), "insert", Roles \cup {"none"}))
  BY <1>1 DEF LockOK, Lock, Member, LockModes
<1>4. /\ StatementOK(GroupRole(c.user, "join-request:handle"))
      /\ StatementOK(<<PendingRequest(c.request)>>)
      /\ StatementOK(<<Lock(Member(Asker[c.request]), "insert", Roles \cup {"none"})>>
                        \o References(<<User(Asker[c.request]), Circle>>))
      /\ StatementOK(References(<<User(c.user)>>))
  BY <1>1, <1>2, <1>3, GroupRoleOK, OneLock, ReferencesOK, FreeKindsOf
<1>5. CASE c.verdict = "accepted"
  BY <1>4, <1>5, LockGroupOK, LongScripts DEF HandleScript
<1>6. CASE c.verdict # "accepted"
  BY <1>4, <1>6, LockGroupOK, LongScripts DEF HandleScript
<1> QED BY <1>5, <1>6

\* The statements of a change of role are well formed.
LEMMA RoleOK ==
    ASSUME NEW c \in CallTypes, c.kind = "role"
    PROVE  ScriptOK(RoleScript(c))
<1>1. c.user \in Users /\ c.member \in Users
  BY DEF CallTypes
<1>2. LockOK(Lock(Member(c.member), "no-key-update", {"admin", "member"}))
  BY <1>1 DEF LockOK, Lock, Member, LockModes
<1> QED BY <1>1, <1>2, GroupRoleOK, OneLock, ShortScripts DEF RoleScript

\* The statements of a read mark are well formed.
LEMMA ReadOK ==
    ASSUME NEW c \in CallTypes, c.kind = "read"
    PROVE  ScriptOK(ReadScript(c))
<1>1. c.user \in Users
  BY DEF CallTypes
<1>2. /\ LockOK(There(Reader(c.user), "update")) /\ LockOK(There(Conversation, "share"))
      /\ LockOK(There(Circle, "share")) /\ LockOK(Lock(Member(c.user), "share", Roles))
  BY <1>1, FreeRow, FreeKindsOf, MemberShared DEF LockModes, AclMode
<1>3. StatementOK(Authorized(c.user))
  BY <1>2 DEF StatementOK, Authorized
<1> QED BY <1>3, ShortScripts DEF ReadScript

\* The statements of the publication of a key are well formed.
LEMMA PublishOK ==
    ASSUME NEW c \in CallTypes, c.kind = "publish"
    PROVE  ScriptOK(PublishScript(c))
<1>1. c.device \in Devices /\ DeviceUser[c.device] \in Users
  BY HandlersAssumption DEF CallTypes
<1>2. /\ LockOK(There(User(DeviceUser[c.device]), "update"))
      /\ LockOK(There(Circle, "share"))
      /\ LockOK(Lock(Member(DeviceUser[c.device]), "share", Roles))
  BY <1>1, FreeRow, FreeKindsOf, MemberShared DEF LockModes, AclMode
<1>3. /\ LockOK(Lock(Device(c.device), "update", {"active"}))
      /\ LockOK(Lock(Key(c.device), "update", {<<"active", c.version - 1>>}))
  BY <1>1 DEF LockOK, Lock, Device, Key, LockModes
<1> QED BY <1>2, <1>3, OneLock, TwoLocks, ShortScripts DEF PublishScript

\* The statements of the revocation of a device are well formed.
LEMMA RevokeOK ==
    ASSUME NEW c \in CallTypes, c.kind = "revoke"
    PROVE  ScriptOK(RevokeScript(c))
<1>1. c.device \in Devices /\ c.target \in Devices
  BY DEF CallTypes
<1>2. LockOK(There(User(DeviceUser[c.device]), "update"))
  BY FreeRow, FreeKindsOf DEF LockModes
<1>3. /\ LockOK(Lock(Device(c.device), "update", {"active"}))
      /\ LockOK(Lock(Device(c.target), "update", {"active"}))
      /\ LockOK(Lock(Key(c.target), "no-key-update",
                     {"active", "revoked"} \X (1..MaxVersion)))
  BY <1>1 DEF LockOK, Lock, Device, Key, LockModes
<1> QED BY <1>2, <1>3, OneLock, ShortScripts DEF RevokeScript

\* The statements of a new conversation are well formed.
LEMMA ConverseOK ==
    ASSUME NEW c \in CallTypes, c.kind = "converse"
    PROVE  ScriptOK(ConverseScript(c))
<1> DEFINE us == c.members \cup {c.user}
<1>1. c.user \in Users /\ us \in SUBSET Users
  BY DEF CallTypes
<1>2. /\ UserOrder[us] \in Seq(Users)
      /\ Len(UserOrder[us]) \in Nat /\ DOMAIN UserOrder[us] = 1..Len(UserOrder[us])
      /\ \A i \in 1..Len(UserOrder[us]) : UserOrder[us][i] \in Users
  BY <1>1, OrderAssumption
<1>3. \A i \in DOMAIN UserOrder[us] :
         /\ LockOK(Lock(Member(UserOrder[us][i]), AclMode, Roles))
         /\ LockOK(There(User(UserOrder[us][i]), "key-share"))
  BY <1>2, MemberShared, FreeRow, FreeKindsOf DEF LockModes
<1>4. StatementOK(AllMembers(us))
  <2>1. /\ Len(AllMembers(us)) = Len(UserOrder[us])
        /\ DOMAIN AllMembers(us) = 1..Len(UserOrder[us])
    BY <1>2 DEF AllMembers
  <2>2. \A i \in 1..Len(UserOrder[us]) :
           AllMembers(us)[i] = Lock(Member(UserOrder[us][i]), AclMode, Roles)
    BY <1>2 DEF AllMembers
  <2> QED BY <1>2, <1>3, <2>1, <2>2 DEF StatementOK
<1>5. StatementOK(References([i \in 1..Len(UserOrder[us]) |-> User(UserOrder[us][i])]))
  <2> DEFINE rows == [i \in 1..Len(UserOrder[us]) |-> User(UserOrder[us][i])]
  <2>1. Len(rows) = Len(UserOrder[us])
    BY <1>2
  <2>2. \A i \in 1..Len(UserOrder[us]) : LockOK(There(rows[i], "key-share"))
    BY <1>2, <1>3
  <2> HIDE DEF rows
  <2>3. /\ Len(References(rows)) = Len(rows) /\ DOMAIN References(rows) = 1..Len(rows)
        /\ \A i \in 1..Len(rows) : References(rows)[i] = There(rows[i], "key-share")
    BY <1>2, <2>1 DEF References
  <2>4. StatementOK(References(rows))
    BY <1>2, <2>1, <2>2, <2>3 DEF StatementOK
  <2> QED BY <2>4 DEF rows
<1>6. StatementOK(References(<<Circle, User(c.user)>>))
  BY ReferencesOK, FreeKindsOf
<1> HIDE DEF us
<1>7. ScriptOK(<< GroupRole(c.user, "conversation:create"), AllMembers(us),
                  References(<<Circle, User(c.user)>>),
                  References([i \in 1..Len(UserOrder[us]) |-> User(UserOrder[us][i])]) >>)
  BY <1>1, <1>4, <1>5, <1>6, GroupRoleOK, ShortScripts
<1> QED BY <1>7 DEF ConverseScript, us

\* The five rows that canSend locks for a sender or a recipient.
LEMMA RecipientOK ==
    ASSUME NEW k \in Keys
    PROVE  \A i \in 1..5 : LockOK(Recipient(k)[i])
<1>1. k[1] \in Devices /\ DeviceUser[k[1]] \in Users
  BY HandlersAssumption
<1>2. /\ LockOK(There(Conversation, AclMode))
      /\ LockOK(There(Reader(DeviceUser[k[1]]), AclMode))
      /\ LockOK(Lock(Member(DeviceUser[k[1]]), AclMode, Roles))
  BY <1>1, FreeRow, FreeKindsOf, MemberShared DEF LockModes, AclMode
<1>3. /\ LockOK(Lock(Key(k[1]), AclMode, {<<"active", k[2]>>}))
      /\ LockOK(Lock(Device(k[1]), AclMode, {"active"}))
  BY <1>1 DEF LockOK, Lock, Device, Key, LockModes, AclMode
<1> QED BY <1>2, <1>3 DEF Recipient, SealedFor

\* The statements of a message are well formed, whatever its recipients.
LEMMA SendOK ==
    ASSUME NEW c \in CallTypes, c.kind = "send"
    PROVE  ScriptOK(SendScript(c))
<1> DEFINE m == c.message
           u == DeviceUser[m.from[1]]
<1>1. m.from \in Keys /\ m.to \in SUBSET Keys
  BY DEF CallTypes
<1>2. m.from[1] \in Devices /\ u \in Users
  BY <1>1, HandlersAssumption
<1>3. StatementOK(ConversationAccess(u))
  <2>1. /\ LockOK(There(Conversation, AclMode)) /\ LockOK(There(Reader(u), AclMode))
        /\ LockOK(There(Circle, AclMode))
        /\ LockOK(Lock(Member(u), AclMode, Permitted("conversation:read")))
    BY <1>2, FreeRow, FreeKindsOf, MemberShared, PermittedRoles DEF LockModes, AclMode
  <2> QED BY <2>1, FourLocks DEF ConversationAccess, GroupRole
<1>4. StatementOK(SealedFor(m.from))
  <2>1. /\ LockOK(Lock(Key(m.from[1]), AclMode, {<<"active", m.from[2]>>}))
        /\ LockOK(Lock(Device(m.from[1]), AclMode, {"active"}))
    BY <1>2 DEF LockOK, Lock, Device, Key, LockModes, AclMode
  <2> QED BY <2>1, TwoLocks DEF SealedFor
<1>5. StatementOK(Recipients(m.to))
  <2> DEFINE o == KeyOrder[m.to]
  <2>1. o \in Seq(Keys)
    BY <1>1, OrderAssumption
  <2>2. ASSUME NEW j \in 1..5 * Len(o)
        PROVE  LockOK(Recipient(o[(j + 4) \div 5])[((j - 1) % 5) + 1])
    <3>1. (j + 4) \div 5 \in 1..Len(o) /\ ((j - 1) % 5) + 1 \in 1..5
      BY <2>1
    <3> QED BY <2>1, <3>1, RecipientOK
  <2> QED BY <2>1, <2>2 DEF StatementOK, Recipients
<1>6. StatementOK(<<Lock(Message(m.id), "insert", {"absent"})>>
                     \o References(<<Conversation, User(u)>>))
  <2>1. LockOK(Lock(Message(m.id), "insert", {"absent"}))
    BY DEF LockOK, Lock, Message, LockModes
  <2> QED BY <2>1, ReferencesOK, FreeKindsOf
<1> QED BY <1>3, <1>4, <1>5, <1>6, ShortScripts DEF SendScript

\* Every handler runs a finite script of such statements.
LEMMA ScriptsOK ==
    ASSUME NEW c \in Calls
    PROVE  c \in CallTypes /\ ScriptOK(Scripts[c])
<1>1. c \in CallTypes
  BY ScenariosAssumption DEF Calls, Range
<1>2. CASE c.kind = "show"
  <2>1. Scripts[c] = <<>>
    BY <1>2 DEF Scripts
  <2> QED BY <1>1, <2>1 DEF ScriptOK
<1>3. CASE c.kind # "show"
  <2>1. Scripts[c] = Script(c)
    BY <1>3 DEF Scripts
  <2>2. c.kind \in {"ask", "handle", "role", "converse", "read", "send", "publish", "revoke"}
    BY <1>1, <1>3 DEF CallTypes
  <2> QED BY <1>1, <2>1, <2>2, AskOK, HandleOK, RoleOK, ConverseOK, ReadOK, SendOK, PublishOK,
             RevokeOK DEF Script
<1> QED BY <1>1, <1>2, <1>3

----------------------------------------------------------------------------
(* Shapes *)

Active(p) == phase[p] \in {"opening", "locking"}

Running == {p \in Procs : Active(p)}

Tables ==
    [role    : [Users -> Roles \cup {"none"}],
     request : [RequestIds -> {"none", "pending", "accepted", "rejected"}],
     threads : SUBSET SUBSET Users,
     key     : [Devices -> {"active", "revoked"} \X Nat],
     device  : [Devices -> {"active", "revoked"}],
     stored  : SUBSET [id : STRING, from : Keys, to : SUBSET Keys \ {{}}]]

\* where a handler is in its script
PlaceOK(p) ==
    Active(p) =>
      /\ call[p].kind # "show"
      /\ at[p].stmt <= Len(Scripts[call[p]]) + 1
      /\ phase[p] = "opening" => at[p].row = 1
      /\ phase[p] = "locking" => /\ at[p].stmt <= Len(Scripts[call[p]])
                                 /\ at[p].row <= Len(Statement(p))

Shapes ==
    /\ TypeOK
    /\ db \in Tables
    /\ call \in [Procs -> Calls]
    /\ at \in [Procs -> [stmt : Nat \ {0}, row : Nat \ {0}]]
    /\ DOMAIN held = Procs /\ DOMAIN stale = Procs
    /\ \A p \in Procs : PlaceOK(p)

\* Nothing a transaction commits leaves the types of the tables.
LEMMA CommittedTyped ==
    ASSUME db \in Tables, NEW c \in CallTypes, c.kind # "show"
    PROVE  Committed(c) \subseteq Tables
<1>1. CASE c.kind = "ask"
  BY <1>1 DEF Committed, Tables
<1>2. CASE c.kind = "handle"
  <2>1. c.request \in RequestIds /\ c.verdict \in {"accepted", "rejected"} /\ Asker[c.request] \in Users
    BY <1>2, HandlersAssumption DEF CallTypes
  <2> DEFINE request2 == [db.request EXCEPT ![c.request] = c.verdict]
             role2 == [db.role EXCEPT ![Asker[c.request]] =
                          IF c.verdict = "accepted" /\ @ = "none" THEN "member" ELSE @]
  <2>2. request2 \in [RequestIds -> {"none", "pending", "accepted", "rejected"}]
    BY <2>1 DEF Tables
  <2>3. role2 \in [Users -> Roles \cup {"none"}]
    BY <2>1 DEF Tables, Roles
  <2>4. Committed(c) = {[db EXCEPT !.request = request2, !.role = role2]}
    BY <1>2, <2>1 DEF Committed, Tables
  <2> HIDE DEF request2, role2
  <2>5. [db EXCEPT !.request = request2] \in Tables
    BY <2>2 DEF Tables
  <2>6. [[db EXCEPT !.request = request2] EXCEPT !.role = role2] \in Tables
    BY <2>3, <2>5 DEF Tables
  <2> QED BY <2>4, <2>6
<1>3. CASE c.kind = "role"
  <2>1. c.member \in Users /\ c.role \in Roles \cup {"none"}
    BY <1>3 DEF CallTypes, Roles
  <2> DEFINE role2 == [db.role EXCEPT ![c.member] = c.role]
  <2>2. role2 \in [Users -> Roles \cup {"none"}]
    BY <2>1 DEF Tables
  <2>3. Committed(c) = {[db EXCEPT !.role = role2]}
    BY <1>3 DEF Committed
  <2> HIDE DEF role2
  <2>4. [db EXCEPT !.role = role2] \in Tables
    BY <2>2 DEF Tables
  <2> QED BY <2>3, <2>4
<1>4. CASE c.kind = "converse"
  <2>1. c.user \in Users /\ c.members \in SUBSET Users
    BY <1>4 DEF CallTypes
  <2> DEFINE threads2 == db.threads \cup {c.members \cup {c.user}}
  <2>2. threads2 \in SUBSET SUBSET Users
    BY <2>1 DEF Tables
  <2>3. Committed(c) = {[db EXCEPT !.threads = threads2]}
    BY <1>4 DEF Committed
  <2> HIDE DEF threads2
  <2>4. [db EXCEPT !.threads = threads2] \in Tables
    BY <2>2 DEF Tables
  <2> QED BY <2>3, <2>4
<1>5. CASE c.kind = "read"
  BY <1>5 DEF Committed
<1>6. CASE c.kind = "send"
  <2>1. c.message \in [id : STRING, from : Keys, to : SUBSET Keys \ {{}}]
    BY <1>6 DEF CallTypes
  <2> QED BY <1>6, <2>1 DEF Committed, Tables
<1>7. CASE c.kind = "publish"
  <2>1. c.device \in Devices /\ c.version \in Nat
    BY <1>7 DEF CallTypes
  <2> DEFINE key2 == [db.key EXCEPT ![c.device] = <<"active", c.version>>]
  <2>2. key2 \in [Devices -> {"active", "revoked"} \X Nat]
    BY <2>1 DEF Tables
  <2>3. Committed(c) = {[db EXCEPT !.key = key2]}
    BY <1>7, <2>1 DEF Committed, Tables
  <2> HIDE DEF key2
  <2>4. [db EXCEPT !.key = key2] \in Tables
    BY <2>2 DEF Tables
  <2> QED BY <2>3, <2>4
<1>8. CASE c.kind = "revoke"
  <2>1. c.target \in Devices
    BY <1>8 DEF CallTypes
  <2>2. <<"revoked", db.key[c.target][2]>> \in {"active", "revoked"} \X Nat
    BY <2>1 DEF Tables
  <2> DEFINE key2 == [db.key EXCEPT ![c.target] = <<"revoked", @[2]>>]
             device2 == [db.device EXCEPT ![c.target] = "revoked"]
  <2>3. key2 \in [Devices -> {"active", "revoked"} \X Nat]
    BY <2>1, <2>2 DEF Tables
  <2>4. device2 \in [Devices -> {"active", "revoked"}]
    BY <2>1 DEF Tables
  <2>5. Committed(c) = {[db EXCEPT !.device = device2, !.key = key2]}
    BY <1>8, <2>1 DEF Committed, Tables
  <2> HIDE DEF key2, device2
  <2>6. [db EXCEPT !.device = device2] \in Tables
    BY <2>4 DEF Tables
  <2>7. [[db EXCEPT !.device = device2] EXCEPT !.key = key2] \in Tables
    BY <2>3, <2>6 DEF Tables
  <2> QED BY <2>5, <2>7
<1> QED BY <1>1, <1>2, <1>3, <1>4, <1>5, <1>6, <1>7, <1>8 DEF CallTypes

\* A handler that leaves the transaction gives its connection back, and one
\* that begins takes one.
LEMMA Connections ==
    ASSUME Shapes, NEW p \in Procs, NEW x, phase' = [phase EXCEPT ![p] = x]
    PROVE  /\ IsFiniteSet(Running)
           /\ Active(p) /\ x \in {"opening", "locking"} => Running' = Running
           /\ Active(p) /\ x \notin {"opening", "locking"} =>
                 Cardinality(Running') = Cardinality(Running) - 1
           /\ ~Active(p) /\ x \notin {"opening", "locking"} => Running' = Running
           /\ ~Active(p) /\ x \in {"opening", "locking"} =>
                 Cardinality(Running') = Cardinality(Running) + 1
<1>1. IsFiniteSet(Running)
  BY HandlersAssumption, FS_Subset DEF Running
<1>2. Running' = IF x \in {"opening", "locking"} THEN Running \cup {p} ELSE Running \ {p}
  BY DEF Running, Active, Shapes, TypeOK
<1>3. p \in Running <=> Active(p)
  BY DEF Running
<1>4. x \in {"opening", "locking"} /\ ~Active(p) =>
         Cardinality(Running') = Cardinality(Running) + 1
  BY <1>1, <1>2, <1>3, FS_AddElement
<1>5. x \notin {"opening", "locking"} /\ Active(p) =>
         Cardinality(Running') = Cardinality(Running) - 1
  BY <1>1, <1>2, <1>3, FS_RemoveElement
<1> QED BY <1>1, <1>2, <1>3, <1>4, <1>5

\* The end of a transaction, answered or begun again, keeps the shapes.
LEMMA ShapesAtEnd ==
    ASSUME Shapes, NEW p \in Procs, Active(p),
           \/ \E result \in {"ok", "refused", "error"} : Answer(p, result) /\ UNCHANGED attempt
           \/ Conflict(p),
           UNCHANGED <<call, at>>, db' \in Tables,
           DOMAIN stale' = Procs
    PROVE  Shapes'
<1>1. PICK x \in {"queued", "done"} : phase' = [phase EXCEPT ![p] = x]
  BY DEF Answer, Conflict
<1>2. /\ outcome' \in [Procs -> {"none", "ok", "refused", "error"}]
      /\ attempt' \in [Procs -> 0..MaxRetries]
      /\ DOMAIN held' = Procs /\ unmet' \in [Procs -> SUBSET Nat]
  <2>1. CASE \E result \in {"ok", "refused", "error"} : Answer(p, result) /\ UNCHANGED attempt
    BY <2>1 DEF Shapes, TypeOK, Answer
  <2>2. CASE Conflict(p)
    <3>1. CASE MayRetry(p)
      BY <2>2, <3>1, HandlersAssumption DEF Shapes, TypeOK, Conflict, MayRetry, Counted
    <3>2. CASE ~MayRetry(p)
      BY <2>2, <3>2 DEF Shapes, TypeOK, Conflict, Answer
    <3> QED BY <3>1, <3>2
  <2> QED BY <2>1, <2>2
<1>3. phase' \in [Procs -> {"queued", "opening", "locking", "checked", "done"}]
  BY <1>1 DEF Shapes, TypeOK
<1>4. busy' = busy - 1
  BY DEF Answer, Conflict
<1>5. busy = Cardinality(Running) /\ busy <= PoolSize
  BY DEF Shapes, TypeOK, Running, Active
<1>6. busy' = Cardinality(Running') /\ busy' <= PoolSize
  <2>1. Cardinality(Running) \in Nat
    BY <1>1, Connections, FS_CardinalityType
  <2>2. Cardinality(Running') = Cardinality(Running) - 1
    BY <1>1, Connections
  <2> QED BY <1>4, <1>5, <2>1, <2>2, HandlersAssumption
<1>7. \A q \in Procs : PlaceOK(q)'
  BY <1>1 DEF Shapes, PlaceOK, Active, TypeOK, Statement
<1> QED BY <1>2, <1>3, <1>6, <1>7 DEF Shapes, TypeOK, Tables, Running, Active

\* Every step keeps the shapes.
LEMMA ShapesStep ==
    ASSUME Shapes, [Next]_vars
    PROVE  Shapes'
<1>1. CASE UNCHANGED vars
  BY <1>1 DEF Shapes, TypeOK, PlaceOK, Active, Statement, vars, handler
<1> SUFFICES ASSUME NEW p \in Procs, Handler(p) PROVE Shapes'
  BY <1>1 DEF Next
<1>2. /\ p \in DOMAIN phase /\ p \in DOMAIN at /\ p \in DOMAIN held
      /\ at[p].stmt \in Nat \ {0} /\ at[p].row \in Nat \ {0}
      /\ call[p] \in Calls
  BY DEF Shapes, TypeOK
<1>3. ScriptOK(Scripts[call[p]])
  BY <1>2, ScriptsOK
<1>4. busy = Cardinality(Running) /\ busy <= PoolSize
  BY DEF Shapes, TypeOK, Running, Active
<1>5. IsFiniteSet(Running) /\ Cardinality(Running) \in Nat
  BY Connections, FS_CardinalityType, HandlersAssumption, FS_Subset DEF Running
<1>6. CASE Connect(p)
  <2>1. phase' = [phase EXCEPT ![p] = "opening"] /\ ~Active(p) /\ call[p].kind # "show"
    BY <1>6 DEF Connect, Active
  <2>2. busy' = Cardinality(Running') /\ busy' <= PoolSize
    <3>1. Cardinality(Running') = Cardinality(Running) + 1
      BY <2>1, Connections
    <3>2. busy' = busy + 1 /\ busy < PoolSize
      BY <1>6 DEF Connect
    <3> QED BY <1>4, <1>5, <3>1, <3>2, HandlersAssumption
  <2>3. \A q \in Procs : PlaceOK(q)'
    BY <1>2, <1>3, <1>6, <2>1 DEF Shapes, TypeOK, PlaceOK, Active, Statement, Connect, ScriptOK
  <2> QED BY <1>6, <2>1, <2>2, <2>3 DEF Shapes, TypeOK, Running, Active, Connect
<1>7. CASE OpenStatement(p)
  <2>1. Active(p) /\ phase[p] = "opening"
    BY <1>7 DEF OpenStatement, Active
  <2>2. CASE Answer(p, "refused") /\ UNCHANGED at
    <3>1. UNCHANGED <<call, at, attempt, db, stale>>
      BY <1>7, <2>2 DEF OpenStatement
    <3> QED BY <2>1, <2>2, <3>1, ShapesAtEnd DEF Shapes
  <2>3. CASE ~(Answer(p, "refused") /\ UNCHANGED at)
    <3>1. /\ UNCHANGED <<call, held, attempt, stale, outcome, busy, db, shown>>
          /\ \/ /\ at' = [at EXCEPT ![p] = NextStatement(p)]
                /\ UNCHANGED <<phase, unmet>>
             \/ /\ ~ReadOnly(p) /\ phase' = [phase EXCEPT ![p] = "locking"]
                /\ unmet' = [unmet EXCEPT ![p] = Unfound(p)] /\ UNCHANGED at
      BY <1>7, <2>3 DEF OpenStatement
    <3>2. PICK x \in {"opening", "locking"} : phase' = [phase EXCEPT ![p] = x]
      BY <1>2, <2>1, <3>1 DEF Shapes, TypeOK
    <3>3. busy' = Cardinality(Running') /\ busy' <= PoolSize
      BY <1>4, <2>1, <3>1, <3>2, Connections
    <3>4. at' \in [Procs -> [stmt : Nat \ {0}, row : Nat \ {0}]]
      BY <1>2, <3>1 DEF Shapes, NextStatement
    <3>5. at[p].stmt \in 1..Len(Scripts[call[p]]) /\ at[p].row = 1
      BY <1>2, <1>3, <1>7, <2>1 DEF OpenStatement, Shapes, PlaceOK, Finished, ScriptOK
    <3>6. StatementOK(Statement(p))
      BY <1>3, <3>5 DEF ScriptOK, Statement
    <3>7. unmet' \in [Procs -> SUBSET Nat]
      <4>1. Unfound(p) \subseteq Nat
        BY <3>6 DEF Unfound, StatementOK
      <4> QED BY <3>1, <4>1 DEF Shapes, TypeOK
    <3>8. PlaceOK(p)'
      <4>1. CASE at' = [at EXCEPT ![p] = NextStatement(p)] /\ UNCHANGED phase
        BY <1>2, <1>3, <2>1, <3>1, <3>5, <4>1 DEF Shapes, PlaceOK, NextStatement, Active, ScriptOK
      <4>2. CASE ~ReadOnly(p) /\ phase' = [phase EXCEPT ![p] = "locking"] /\ UNCHANGED at
        <5>1. Len(Statement(p)) >= 1
          BY <3>6, <4>2 DEF StatementOK, ReadOnly
        <5>2. Statement(p)' = Statement(p) /\ at'[p] = at[p] /\ phase'[p] = "locking"
          BY <1>2, <3>1, <4>2 DEF Statement
        <5> QED BY <2>1, <3>1, <3>5, <5>1, <5>2 DEF Shapes, PlaceOK, Active
      <4> QED BY <3>1, <4>1, <4>2
    <3>9. \A q \in Procs \ {p} : PlaceOK(q)'
      BY <3>1, <3>2 DEF Shapes, PlaceOK, Active, Statement
    <3>10. phase' \in [Procs -> {"queued", "opening", "locking", "checked", "done"}]
      BY <3>2 DEF Shapes, TypeOK
    <3> QED BY <3>1, <3>3, <3>4, <3>7, <3>8, <3>9, <3>10 DEF Shapes, TypeOK, Running, Active
  <2> QED BY <2>2, <2>3
<1>8. ASSUME phase[p] = "locking", NEW locks, NEW lacking, Pass(p, locks, lacking),
             lacking \subseteq Nat, UNCHANGED <<call, attempt, stale, db, shown>>
      PROVE  Shapes'
  <2>1. Active(p)
    BY <1>8 DEF Active
  <2>2. CASE Answer(p, "refused") /\ UNCHANGED at
    BY <1>8, <2>1, <2>2, ShapesAtEnd DEF Shapes
  <2>3. CASE ~(Answer(p, "refused") /\ UNCHANGED at)
    <3>1. /\ held' = [held EXCEPT ![p] = locks]
          /\ IF at[p].row < Len(Statement(p))
             THEN /\ at' = [at EXCEPT ![p] = NextRow(p)] /\ UNCHANGED phase
                  /\ unmet' = [unmet EXCEPT ![p] = lacking]
             ELSE /\ at' = [at EXCEPT ![p] = NextStatement(p)] /\ UNCHANGED unmet
                  /\ phase' = [phase EXCEPT ![p] = "opening"]
          /\ UNCHANGED <<outcome, busy, call, attempt, stale, db, shown>>
      BY <1>8, <2>3 DEF Pass
    <3>2. PICK x \in {"opening", "locking"} : phase' = [phase EXCEPT ![p] = x]
      BY <1>2, <1>8, <3>1 DEF Shapes, TypeOK
    <3>3. busy' = Cardinality(Running') /\ busy' <= PoolSize
      BY <1>4, <2>1, <3>1, <3>2, Connections
    <3>4. at' \in [Procs -> [stmt : Nat \ {0}, row : Nat \ {0}]]
      <4>1. PICK w \in [stmt : Nat \ {0}, row : Nat \ {0}] : at' = [at EXCEPT ![p] = w]
        BY <1>2, <3>1 DEF NextStatement, NextRow
      <4> QED BY <4>1 DEF Shapes
    <3>5. at[p].stmt <= Len(Scripts[call[p]]) /\ at[p].row <= Len(Statement(p))
      BY <1>8, <2>1 DEF Shapes, PlaceOK
    <3>6. StatementOK(Statement(p))
      BY <1>2, <1>3, <3>5 DEF ScriptOK, Statement
    <3>7. PlaceOK(p)'
      <4>1. Len(Scripts[call[p]]) \in Nat /\ Len(Statement(p)) \in Nat
        BY <1>3, <3>6 DEF ScriptOK, StatementOK
      <4>2. CASE ~(at[p].row < Len(Statement(p)))
        <5>1. at'[p] = [stmt |-> at[p].stmt + 1, row |-> 1] /\ phase'[p] = "opening" /\ call' = call
          BY <1>2, <3>1, <4>2 DEF NextStatement
        <5> QED BY <1>2, <2>1, <3>5, <4>1, <5>1 DEF Shapes, PlaceOK, Active
      <4>3. CASE at[p].row < Len(Statement(p))
        <5>1. at'[p] = [stmt |-> at[p].stmt, row |-> at[p].row + 1] /\ phase' = phase /\ call' = call
          BY <1>2, <3>1, <4>3 DEF NextRow
        <5>2. Statement(p)' = Statement(p)
          BY <5>1 DEF Statement
        <5> QED BY <1>2, <1>8, <2>1, <3>5, <4>1, <4>3, <5>1, <5>2 DEF Shapes, PlaceOK, Active
      <4> QED BY <4>2, <4>3
    <3>8. \A q \in Procs \ {p} : PlaceOK(q)'
      BY <3>1, <3>2 DEF Shapes, PlaceOK, Active, Statement
    <3>9. phase' \in [Procs -> {"queued", "opening", "locking", "checked", "done"}]
      BY <3>2 DEF Shapes, TypeOK
    <3>10. unmet' \in [Procs -> SUBSET Nat]
      BY <1>8, <3>1 DEF Shapes, TypeOK
    <3> QED BY <3>1, <3>3, <3>4, <3>7, <3>8, <3>9, <3>10 DEF Shapes, TypeOK, Running, Active
  <2> QED BY <2>2, <2>3
<1>12. unmet[p] \subseteq Nat /\ unmet[p] \cup {at[p].row} \subseteq Nat
  BY <1>2 DEF Shapes, TypeOK
<1>13. CASE SkipRow(p)
  BY <1>8, <1>12, <1>13 DEF SkipRow
<1>14. CASE LockRow(p)
  <2>1. Active(p) /\ phase[p] = "locking"
    BY <1>14 DEF LockRow, Active
  <2>2. CASE Wanted(p).row \in stale[p]
    <3>1. Conflict(p)
      BY <1>14, <2>2 DEF LockRow
    <3> QED BY <2>1, <3>1, ShapesAtEnd DEF Shapes, Conflict
  <2>3. CASE Answer(p, Refusal(p)) /\ UNCHANGED <<call, at, attempt, db, stale>>
    <3>1. Refusal(p) \in {"refused", "error"}
      BY DEF Refusal
    <3> QED BY <2>1, <2>3, <3>1, ShapesAtEnd DEF Shapes
  <2>4. CASE \E locks : \E lacking \in {unmet[p], unmet[p] \cup {at[p].row}} :
                Pass(p, locks, lacking) /\ UNCHANGED <<call, attempt, stale, db, shown>>
    BY <1>8, <1>12, <2>1, <2>4
  <2> QED BY <1>14, <2>2, <2>3, <2>4 DEF LockRow
<1>9. CASE Commit(p)
  <2>1. Active(p) /\ call[p].kind # "show" /\ call[p] \in CallTypes
    BY <1>2, <1>9, ScriptsOK DEF Commit, Active, Shapes, PlaceOK
  <2>2. db' \in Tables
    BY <1>9, <2>1, CommittedTyped DEF Commit, Shapes
  <2> QED BY <1>9, <2>1, <2>2, ShapesAtEnd DEF Commit
<1>10. CASE DeadlockDetected(p)
  <2>1. Active(p) /\ Conflict(p)
    BY <1>10 DEF DeadlockDetected, Active
  <2> QED BY <2>1, ShapesAtEnd DEF Shapes, Conflict
<1>11. CASE CheckAccess(p) \/ ReadOut(p)
  <2>1. PICK x \in {"checked", "done"} : phase' = [phase EXCEPT ![p] = x]
    BY <1>11 DEF CheckAccess, ReadOut
  <2>2. ~Active(p) /\ UNCHANGED <<call, at, unmet, held, attempt, stale, busy, db>>
    BY <1>11 DEF CheckAccess, ReadOut, Active
  <2>3. busy' = Cardinality(Running') /\ busy' <= PoolSize
    BY <1>4, <2>1, <2>2, Connections
  <2>4. outcome' \in [Procs -> {"none", "ok", "refused", "error"}]
    BY <1>11 DEF CheckAccess, ReadOut, Shapes, TypeOK
  <2>5. \A q \in Procs : PlaceOK(q)'
    BY <2>1, <2>2 DEF Shapes, TypeOK, PlaceOK, Active, Statement
  <2>6. phase' \in [Procs -> {"queued", "opening", "locking", "checked", "done"}]
    BY <2>1 DEF Shapes, TypeOK
  <2> QED BY <2>2, <2>3, <2>4, <2>5, <2>6 DEF Shapes, TypeOK, Running, Active
<1> QED BY <1>6, <1>7, <1>9, <1>10, <1>11, <1>13, <1>14 DEF Handler

\* The tables the scenarios begin with have their shapes.
LEMMA ShapesInit == Init => Shapes
<1> SUFFICES ASSUME Init PROVE Shapes
  OBVIOUS
<1>1. PICK s \in Scenarios : call = s.call /\ db = s.db
  BY DEF Init
<1>2. call \in [Procs -> Calls]
  <2>1. s.call \in [Procs -> CallTypes]
    BY ScenariosAssumption
  <2>2. \A p \in Procs : s.call[p] \in Calls
    BY <2>1 DEF Calls, Range
  <2> QED BY <1>1, <2>1, <2>2
<1>3. db \in Tables
  <2>1. db \in Databases
    BY <1>1, ScenariosAssumption
  <2>2. db.stored = {}
    BY <2>1 DEF Databases
  <2> QED BY <2>1, <2>2 DEF Databases, Tables
<1>4. Running = {}
  BY DEF Init, Running, Active
<1>5. busy = Cardinality(Running) /\ busy <= PoolSize
  BY <1>4, FS_EmptySet, HandlersAssumption DEF Init
<1>6. \A p \in Procs : PlaceOK(p)
  BY DEF Init, PlaceOK, Active
<1> QED BY <1>2, <1>3, <1>5, <1>6, HandlersAssumption DEF Init, Shapes, TypeOK, Running, Active, Tables

\* The shapes hold in every reachable state: connections are counted, and
\* nobody retries too often.
THEOREM TypeCorrect == Spec => []TypeOK
<1>1. Spec => []Shapes
  BY ShapesInit, ShapesStep, PTL DEF Spec
<1>2. Shapes => TypeOK
  BY DEF Shapes
<1> QED BY <1>1, <1>2, PTL

----------------------------------------------------------------------------
(* Two-phase locking *)

\* p is past row i of statement s
Passed(p, s, i) ==
    \/ s < at[p].stmt
    \/ s = at[p].stmt /\ phase[p] = "locking" /\ i < at[p].row

RowAt(p, s, i) == Scripts[call[p]][s][i]

LockOf(l) == [row |-> l.row, mode |-> l.mode]

\* l is locked by p, and still what p found
Kept(p, l) == LockOf(l) \in held[p] /\ Value(l.row) \in l.ok

\* a row that p will be refused for
Lacks(p, s, i) == s = at[p].stmt /\ phase[p] = "locking" /\ i \in unmet[p]

\* a transaction in flight holds the rows it has passed as it found them, but
\* for those it will be refused for
RowsKept ==
    \A p \in Procs : Active(p) =>
       \A s \in DOMAIN Scripts[call[p]] : \A i \in DOMAIN Scripts[call[p]][s] :
          Passed(p, s, i) /\ RowAt(p, s, i).mode # "read" /\ ~Lacks(p, s, i)
          => Kept(p, RowAt(p, s, i))

\* it holds nothing else
HeldByScript ==
    \A p \in Procs : \A k \in held[p] :
       /\ Active(p)
       /\ \E s \in DOMAIN Scripts[call[p]] : \E i \in DOMAIN Scripts[call[p]][s] :
             Passed(p, s, i) /\ k = LockOf(RowAt(p, s, i))

\* and no two hold locks that exclude one another
Exclusive ==
    \A p, q \in Procs : \A k \in held[p], l \in held[q] :
       p # q /\ k.row = l.row => k.mode \notin Excludes[l.mode]

\* What a step does to the locks and the tables.
Begins(p) ==
    /\ ~Active(p)
    /\ phase' = [phase EXCEPT ![p] = "opening"]
    /\ at' = [at EXCEPT ![p] = [stmt |-> 1, row |-> 1]]
    /\ UNCHANGED <<unmet, held, db>>

Opens(p) ==
    /\ phase[p] = "opening" /\ ~Finished(p)
    /\ \/ /\ Unfound(p) = {} /\ ReadOnly(p)
          /\ at' = [at EXCEPT ![p] = NextStatement(p)]
          /\ UNCHANGED <<phase, unmet>>
       \/ /\ Unfound(p) # DOMAIN Statement(p) /\ ~ReadOnly(p)
          /\ phase' = [phase EXCEPT ![p] = "locking"]
          /\ unmet' = [unmet EXCEPT ![p] = Unfound(p)]
          /\ UNCHANGED at
    /\ UNCHANGED <<held, db>>

Skips(p) ==
    /\ phase[p] = "locking" /\ at[p].row \in unmet[p] /\ at[p].row < Len(Statement(p))
    /\ at' = [at EXCEPT ![p] = NextRow(p)]
    /\ held' = [held EXCEPT ![p] = held[p]]
    /\ UNCHANGED <<phase, unmet, db>>

Good(p) == Value(Wanted(p).row) \in Wanted(p).ok

Locks(p) ==
    /\ phase[p] = "locking" /\ at[p].row \notin unmet[p] /\ Blockers(p) = {}
    /\ held' = [held EXCEPT ![p] = @ \cup {LockOf(Wanted(p))}]
    /\ IF at[p].row < Len(Statement(p))
       THEN /\ at' = [at EXCEPT ![p] = NextRow(p)]
            /\ unmet' = [unmet EXCEPT ![p] =
                            IF Good(p) THEN @ ELSE @ \cup {at[p].row}]
            /\ UNCHANGED phase
       ELSE /\ Good(p) /\ unmet[p] = {}
            /\ at' = [at EXCEPT ![p] = NextStatement(p)]
            /\ phase' = [phase EXCEPT ![p] = "opening"]
            /\ UNCHANGED unmet
    /\ UNCHANGED db

Ends(p) ==
    /\ \E x \in {"queued", "done"} : phase' = [phase EXCEPT ![p] = x]
    /\ held' = [held EXCEPT ![p] = {}]
    /\ unmet' = [unmet EXCEPT ![p] = {}]
    /\ UNCHANGED at

Commits(p) ==
    /\ phase[p] = "opening" /\ Finished(p) /\ db' \in Committed(call[p])
    /\ Ends(p)

Shows(p) ==
    /\ ~Active(p)
    /\ \E x \in {"checked", "done"} : phase' = [phase EXCEPT ![p] = x]
    /\ UNCHANGED <<at, unmet, held, db>>

\* What a step may do to the places, the locks and the tables: a handler begins,
\* opens a statement, skips or locks a row, commits, shows, or ends without a change.
LEMMA Steps ==
    ASSUME Shapes, [Next]_vars
    PROVE  /\ call' = call
           /\ \/ UNCHANGED <<phase, at, unmet, held, db>>
              \/ \E p \in Procs : \/ Begins(p) \/ Opens(p) \/ Skips(p) \/ Locks(p) \/ Commits(p) \/ Shows(p)
                                  \/ Ends(p) /\ UNCHANGED db
<1>1. CASE UNCHANGED vars
  BY <1>1 DEF vars, handler
<1> SUFFICES ASSUME NEW p \in Procs, Handler(p)
             PROVE  /\ call' = call
                    /\ \/ Begins(p) \/ Opens(p) \/ Skips(p) \/ Locks(p) \/ Commits(p) \/ Shows(p)
                       \/ Ends(p) /\ UNCHANGED db
  BY <1>1 DEF Next
<1>2. CASE Connect(p)
  BY <1>2 DEF Connect, Begins, Active
<1>3. CASE OpenStatement(p)
  BY <1>3 DEF OpenStatement, Opens, Ends, Answer
<1>8. CASE SkipRow(p)
  <2>1. unmet' = unmet \/ (Ends(p) /\ UNCHANGED db)
    BY <1>8 DEF SkipRow, Pass, Ends, Answer, Shapes, TypeOK
  <2> QED BY <1>8, <2>1 DEF SkipRow, Pass, Skips, Ends, Answer
<1>4. CASE LockRow(p)
  <2>1. CASE Wanted(p).row \in stale[p] \/ (Wanted(p).mode = "insert" /\ ~Good(p))
    BY <1>4, <2>1 DEF LockRow, Ends, Answer, Conflict, Good
  <2>2. CASE ~(Wanted(p).row \in stale[p] \/ (Wanted(p).mode = "insert" /\ ~Good(p)))
    <3>1. /\ Pass(p, held[p] \cup {LockOf(Wanted(p))},
                  IF Good(p) THEN unmet[p] ELSE unmet[p] \cup {at[p].row})
          /\ phase[p] = "locking" /\ at[p].row \notin unmet[p] /\ Blockers(p) = {}
          /\ UNCHANGED <<call, db>>
      BY <1>4, <2>2 DEF LockRow, Good, LockOf
    <3> QED BY <3>1 DEF Pass, Locks, Ends, Answer
  <2> QED BY <2>1, <2>2
<1>5. CASE Commit(p)
  BY <1>5 DEF Commit, Commits, Ends, Answer
<1>6. CASE DeadlockDetected(p)
  BY <1>6 DEF DeadlockDetected, Conflict, Ends, Answer
<1>7. CASE CheckAccess(p) \/ ReadOut(p)
  BY <1>7 DEF CheckAccess, ReadOut, Shows, Active
<1> QED BY <1>2, <1>3, <1>4, <1>5, <1>6, <1>7, <1>8 DEF Handler

\* The place of a handler is a row of its script.
LEMMA WantedOK ==
    ASSUME Shapes, NEW p \in Procs, Active(p)
    PROVE  /\ ScriptOK(Scripts[call[p]])
           /\ at[p].stmt \in Nat \ {0} /\ at[p].row \in Nat \ {0}
           /\ ~Finished(p) => /\ at[p].stmt \in 1..Len(Scripts[call[p]])
                              /\ StatementOK(Statement(p))
           /\ Finished(p) => at[p].stmt = Len(Scripts[call[p]]) + 1 /\ phase[p] = "opening"
           /\ phase[p] = "opening" => at[p].row = 1
           /\ phase[p] = "locking" =>
                 /\ ~Finished(p) /\ at[p].row \in 1..Len(Statement(p))
                 /\ LockOK(Wanted(p))
<1>1. call[p] \in Calls /\ at[p] \in [stmt : Nat \ {0}, row : Nat \ {0}] /\ PlaceOK(p)
  BY DEF Shapes
<1>2. ScriptOK(Scripts[call[p]])
  BY <1>1, ScriptsOK
<1>3. ~Finished(p) => at[p].stmt \in 1..Len(Scripts[call[p]])
  BY <1>1, <1>2 DEF Finished, ScriptOK
<1>4. ~Finished(p) => StatementOK(Statement(p))
  BY <1>2, <1>3 DEF Statement, ScriptOK
<1>5. phase[p] = "locking" => ~Finished(p)
  BY <1>1, <1>2 DEF PlaceOK, Active, Finished, ScriptOK
<1>6. phase[p] = "locking" => at[p].row \in 1..Len(Statement(p)) /\ LockOK(Wanted(p))
  BY <1>1, <1>4, <1>5 DEF PlaceOK, Active, StatementOK, Wanted
<1>7. Finished(p) => at[p].stmt = Len(Scripts[call[p]]) + 1
  BY <1>1, <1>2 DEF PlaceOK, Active, Finished, ScriptOK
<1> QED BY <1>1, <1>2, <1>3, <1>4, <1>5, <1>6, <1>7 DEF PlaceOK, Active

\* How each step moves the handler on: the rows passed afterwards.
LEMMA PassedNext ==
    ASSUME Shapes, NEW p \in Procs, call' = call,
           NEW s \in DOMAIN Scripts[call[p]], NEW i \in DOMAIN Scripts[call[p]][s]
    PROVE  /\ s \in Nat \ {0} /\ i \in Nat \ {0} /\ LockOK(RowAt(p, s, i))
           /\ Begins(p) => ~Passed(p, s, i)'
           /\ Opens(p) /\ Passed(p, s, i)' => Passed(p, s, i) \/ RowAt(p, s, i).mode = "read"
           /\ Opens(p) /\ Passed(p, s, i) => Passed(p, s, i)'
           /\ Skips(p) \/ Locks(p) =>
                 (Passed(p, s, i)' <=>
                     Passed(p, s, i) \/ (s = at[p].stmt /\ i = at[p].row))
           /\ Active(p) /\ Finished(p) => Passed(p, s, i)
<1>1. ScriptOK(Scripts[call[p]])
  BY ScriptsOK DEF Shapes
<1>2. s \in 1..Len(Scripts[call[p]]) /\ i \in 1..Len(Scripts[call[p]][s])
  BY <1>1 DEF ScriptOK, StatementOK
<1>3. LockOK(RowAt(p, s, i))
  BY <1>1, <1>2 DEF ScriptOK, StatementOK, RowAt
<1>4. s \in Nat \ {0} /\ i \in Nat \ {0}
  BY <1>1, <1>2 DEF ScriptOK, StatementOK
<1>5. p \in DOMAIN at /\ p \in DOMAIN phase
  BY DEF Shapes, TypeOK
<1>6. ASSUME Begins(p) PROVE ~Passed(p, s, i)'
  BY <1>4, <1>5, <1>6 DEF Begins, Passed
<1>7. ASSUME Opens(p)
      PROVE  /\ Passed(p, s, i)' => Passed(p, s, i) \/ RowAt(p, s, i).mode = "read"
             /\ Passed(p, s, i) => Passed(p, s, i)'
  <2>1. at[p].stmt \in Nat /\ at[p].row = 1
    BY <1>7, WantedOK DEF Opens, Active
  <2>2. CASE ReadOnly(p)
    <3>1. at'[p].stmt = at[p].stmt + 1 /\ phase'[p] = "opening"
      BY <1>5, <1>7, <2>2 DEF Opens, NextStatement
    <3>2. s = at[p].stmt => RowAt(p, s, i).mode = "read"
      BY <2>2 DEF Statement, RowAt, ReadOnly
    <3> QED BY <1>4, <1>7, <2>1, <3>1, <3>2 DEF Passed, Opens
  <2>3. CASE ~ReadOnly(p)
    <3>1. at' = at /\ phase'[p] = "locking"
      BY <1>5, <1>7, <2>3 DEF Opens
    <3> QED BY <1>4, <1>7, <2>1, <3>1 DEF Passed, Opens
  <2> QED BY <2>2, <2>3
<1>8. ASSUME Skips(p) \/ Locks(p)
      PROVE  Passed(p, s, i)' <=> Passed(p, s, i) \/ (s = at[p].stmt /\ i = at[p].row)
  <2>1. /\ at[p].stmt \in Nat /\ at[p].row \in 1..Len(Statement(p))
        /\ Len(Statement(p)) \in Nat /\ phase[p] = "locking"
    BY <1>8, WantedOK DEF Skips, Locks, Active, StatementOK
  <2>2. s = at[p].stmt => i \in 1..Len(Statement(p))
    BY <1>2 DEF Statement
  <2>3. CASE ~(at[p].row < Len(Statement(p)))
    <3>1. at'[p].stmt = at[p].stmt + 1 /\ phase'[p] = "opening"
      BY <1>5, <1>8, <2>3 DEF Skips, Locks, NextStatement
    <3> QED BY <1>4, <2>1, <2>2, <2>3, <3>1 DEF Passed
  <2>4. CASE at[p].row < Len(Statement(p))
    <3>1. at'[p].stmt = at[p].stmt /\ at'[p].row = at[p].row + 1 /\ phase'[p] = "locking"
      BY <1>5, <1>8, <2>1, <2>4 DEF Skips, Locks, NextRow
    <3> QED BY <1>4, <2>1, <2>2, <3>1 DEF Passed
  <2> QED BY <2>3, <2>4
<1>9. ASSUME Active(p), Finished(p) PROVE Passed(p, s, i)
  BY <1>1, <1>2, <1>9, WantedOK DEF Passed, ScriptOK
<1> QED BY <1>3, <1>4, <1>6, <1>7, <1>8, <1>9

\* What a handler lacks it lacks until the statement ends, and a row that it
\* passes it lacks or finds good.
LEMMA LacksNext ==
    ASSUME Shapes, NEW p \in Procs, call' = call, NEW s, NEW i,
           Skips(p) \/ Locks(p)
    PROVE  /\ Lacks(p, s, i) => Lacks(p, s, i)'
           /\ s = at[p].stmt /\ i = at[p].row => Lacks(p, s, i)' \/ (Locks(p) /\ Good(p))
<1>1. p \in DOMAIN at /\ p \in DOMAIN unmet /\ phase[p] = "locking"
  BY DEF Shapes, TypeOK, Skips, Locks
<1>2. CASE at[p].row < Len(Statement(p))
  <2>1. phase'[p] = "locking" /\ at'[p].stmt = at[p].stmt
    BY <1>1, <1>2 DEF Skips, Locks, NextRow
  <2>2. CASE Skips(p)
    BY <1>1, <2>1, <2>2 DEF Lacks, Skips
  <2>3. CASE Locks(p)
    <3>1. unmet'[p] = IF Good(p) THEN unmet[p] ELSE unmet[p] \cup {at[p].row}
      BY <1>1, <1>2, <2>3 DEF Locks
    <3> QED BY <2>1, <2>3, <3>1 DEF Lacks
  <2> QED BY <2>2, <2>3
<1>3. CASE ~(at[p].row < Len(Statement(p)))
  <2>1. Locks(p) /\ Good(p) /\ unmet[p] = {}
    BY <1>3 DEF Skips, Locks
  <2> QED BY <2>1 DEF Lacks
<1> QED BY <1>2, <1>3

----------------------------------------------------------------------------
(* What a transaction knows when it commits *)

\* What it means to keep a lock that was spelled out.
LEMMA KeptLock ==
    ASSUME NEW p, NEW row, NEW mode, NEW ok, Kept(p, Lock(row, mode, ok))
    PROVE  [row |-> row, mode |-> mode] \in held[p] /\ Value(row) \in ok
  BY DEF Kept, Lock, LockOf

\* The value of every kind of row.
LEMMA Values ==
    /\ \A u : Value(Member(u)) = db.role[u]
    /\ \A r : Value(Request(r)) = db.request[r]
    /\ \A u : Value(Asking(u)) = Present(IsAsking(u))
    /\ \A u : Value(Reader(u)) = Present(u \in Thread)
    /\ \A d : Value(Key(d)) = db.key[d]
    /\ \A d : Value(Device(d)) = db.device[d]
    /\ \A m : Value(Message(m)) = Present(\E x \in db.stored : x.id = m)
<1>1. \A u : Value(Member(u)) = db.role[u]
  BY DEF Value, Member
<1>2. \A r : Value(Request(r)) = db.request[r]
  BY DEF Value, Request
<1>3. \A u : Value(Asking(u)) = Present(IsAsking(u))
  BY DEF Value, Asking
<1>4. \A u : Value(Reader(u)) = Present(u \in Thread)
  BY DEF Value, Reader
<1>5. \A d : Value(Key(d)) = db.key[d]
  BY DEF Value, Key
<1>6. \A d : Value(Device(d)) = db.device[d]
  BY DEF Value, Device
<1>7. \A m : Value(Message(m)) = Present(\E x \in db.stored : x.id = m)
  BY DEF Value, Message
<1> QED BY <1>1, <1>2, <1>3, <1>4, <1>5, <1>6, <1>7

\* Who has the four permissions that the transactions ask for.
LEMMA Permissions ==
    /\ Permitted("join-request:handle") = Managers
    /\ Permitted("member-role:set") = {"owner"}
    /\ Permitted("conversation:create") = Roles
    /\ Permitted("conversation:read") = Roles
  BY DEF Permitted

\* At its commit a transaction still has every row it locked, as it qualified.
LEMMA Granted ==
    ASSUME Shapes, RowsKept, NEW p \in Procs, Active(p), Finished(p),
           NEW s \in DOMAIN Scripts[call[p]], NEW i \in DOMAIN Scripts[call[p]][s],
           RowAt(p, s, i).mode # "read"
    PROVE  Kept(p, RowAt(p, s, i))
<1>1. Passed(p, s, i)
  <2>1. ScriptOK(Scripts[call[p]])
    BY ScriptsOK DEF Shapes
  <2>2. s \in 1..Len(Scripts[call[p]]) /\ i \in Nat
    BY <2>1 DEF ScriptOK, StatementOK
  <2> QED BY <2>1, <2>2, WantedOK DEF Passed, ScriptOK
<1>2. ~Lacks(p, s, i)
  BY WantedOK DEF Lacks
<1> QED BY <1>1, <1>2 DEF RowsKept

\* the lock that makes the circle's doors one at a time
HoldsCircle(p) == [row |-> Circle, mode |-> "update"] \in held[p]

\* Only the reading routes run outside a transaction.
LEMMA Kinds ==
    ASSUME NEW c \in CallTypes, c.kind # "show"
    PROVE  c.kind \in {"ask", "handle", "role", "converse", "read", "send", "publish", "revoke"}
  BY DEF CallTypes

\* A transaction runs the script of its call.
LEMMA ScriptOf ==
    ASSUME Shapes, NEW p \in Procs, Active(p)
    PROVE  /\ call[p] \in CallTypes /\ call[p].kind # "show"
           /\ Scripts[call[p]] = Script(call[p])
           /\ call[p].kind \in {"ask", "handle", "role", "converse", "read", "send", "publish",
                                "revoke"}
<1>1. call[p] \in Calls /\ call[p].kind # "show"
  BY DEF Shapes, PlaceOK
<1>2. call[p] \in CallTypes
  BY <1>1, ScriptsOK
<1> QED BY <1>1, <1>2, Kinds DEF Scripts

\* After its first statement a join request or a decision holds the circle.
LEMMA AskHasCircle ==
    ASSUME Shapes, RowsKept, NEW p \in Procs, Active(p), call[p].kind \in {"ask", "handle"},
           at[p].stmt > 1
    PROVE  HoldsCircle(p)
<1>1. Scripts[call[p]] = Script(call[p]) /\ at[p].stmt \in Nat
  BY ScriptOf, WantedOK
<1>2. 1 \in DOMAIN Scripts[call[p]] /\ Scripts[call[p]][1] = <<LockGroup>>
  <2>1. CASE call[p].kind = "ask"
    <3>1. Scripts[call[p]] = AskScript(call[p])
      BY <1>1, <2>1 DEF Script
    <3> QED BY <3>1 DEF AskScript
  <2>2. CASE call[p].kind = "handle"
    <3>1. Scripts[call[p]] = HandleScript(call[p])
      BY <1>1, <2>2 DEF Script
    <3>2. CASE call[p].verdict = "accepted"
      BY <3>1, <3>2 DEF HandleScript
    <3>3. CASE call[p].verdict # "accepted"
      BY <3>1, <3>3 DEF HandleScript
    <3> QED BY <3>2, <3>3
  <2> QED BY <2>1, <2>2
<1>3. 1 \in DOMAIN Scripts[call[p]][1] /\ RowAt(p, 1, 1) = LockGroup
  BY <1>2 DEF RowAt
<1>4. Passed(p, 1, 1)
  BY <1>1 DEF Passed
<1>5. LockGroup.mode # "read" /\ LockOf(LockGroup) = [row |-> Circle, mode |-> "update"]
  BY DEF LockGroup, There, Lock, LockOf
<1>7. ~Lacks(p, 1, 1)
  BY <1>1 DEF Lacks
<1>6. Kept(p, LockGroup)
  BY <1>2, <1>3, <1>4, <1>5, <1>7 DEF RowsKept
<1> QED BY <1>5, <1>6 DEF Kept, HoldsCircle

\* What a join request knows when it commits: the user still asks for nothing.
LEMMA AskGrants ==
    ASSUME Shapes, RowsKept, NEW p \in Procs, Active(p), Finished(p), call[p].kind = "ask"
    PROVE  /\ HoldsCircle(p) /\ at[p].stmt = 5
           /\ [row |-> Asking(call[p].user), mode |-> "insert"] \in held[p]
           /\ ~IsAsking(call[p].user)
<1>1. Scripts[call[p]] = AskScript(call[p])
  BY ScriptOf DEF Script
<1>2. Len(AskScript(call[p])) = 4 /\ DOMAIN AskScript(call[p]) = 1..4
  BY DEF AskScript
<1>3. at[p].stmt = 5
  <2>1. at[p].stmt = Len(Scripts[call[p]]) + 1
    BY WantedOK
  <2>2. Len(Scripts[call[p]]) = 4
    BY <1>1, <1>2
  <2> QED BY <2>1, <2>2
<1>4. 1 \in DOMAIN AskScript(call[p])[4]
      /\ AskScript(call[p])[4][1] = Lock(Asking(call[p].user), "insert", {"absent"})
  BY DEF AskScript, References
<1>5. Kept(p, Lock(Asking(call[p].user), "insert", {"absent"}))
  BY <1>1, <1>2, <1>4, Granted DEF RowAt, Lock
<1>6. [row |-> Asking(call[p].user), mode |-> "insert"] \in held[p]
      /\ Value(Asking(call[p].user)) = "absent"
  BY <1>5 DEF Kept, Lock, LockOf
<1> QED BY <1>3, <1>6, AskHasCircle DEF Value, Asking, Present

\* What a decision knows when it commits: its author is an owner or an
\* administrator, and the request is still pending.
LEMMA HandleGrants ==
    ASSUME Shapes, RowsKept, NEW p \in Procs, Active(p), Finished(p), call[p].kind = "handle"
    PROVE  /\ HoldsCircle(p)
           /\ db.role[call[p].user] \in Managers
           /\ [row |-> Request(call[p].request), mode |-> "update"] \in held[p]
           /\ db.request[call[p].request] = "pending"
<1> DEFINE c == call[p]
<1>1. Scripts[c] = HandleScript(c)
  BY ScriptOf DEF Script
<1>2. /\ Len(HandleScript(c)) \in {4, 5} /\ DOMAIN HandleScript(c) = 1..Len(HandleScript(c))
      /\ HandleScript(c)[2] = GroupRole(c.user, "join-request:handle")
      /\ HandleScript(c)[3] = <<PendingRequest(c.request)>>
  <2>1. CASE c.verdict = "accepted"
    BY <2>1 DEF HandleScript
  <2>2. CASE c.verdict # "accepted"
    BY <2>2 DEF HandleScript
  <2> QED BY <2>1, <2>2
<1>3. HoldsCircle(p)
  <2>1. at[p].stmt > 1
    BY <1>1, <1>2, WantedOK
  <2> QED BY <2>1, AskHasCircle
<1>4. Kept(p, Lock(Member(c.user), AclMode, Permitted("join-request:handle")))
  <2>1. 2 \in DOMAIN HandleScript(c)[2]
        /\ HandleScript(c)[2][2] = Lock(Member(c.user), AclMode, Permitted("join-request:handle"))
    BY <1>2 DEF GroupRole
  <2>2. 2 \in DOMAIN HandleScript(c)
    BY <1>2
  <2> QED BY <1>1, <2>1, <2>2, Granted DEF RowAt, Lock, AclMode
<1>5. Kept(p, PendingRequest(c.request))
  <2>1. 1 \in DOMAIN HandleScript(c)[3] /\ HandleScript(c)[3][1] = PendingRequest(c.request)
    BY <1>2
  <2>2. 3 \in DOMAIN HandleScript(c)
    BY <1>2
  <2> QED BY <1>1, <2>1, <2>2, Granted DEF RowAt, Lock, PendingRequest
<1>6. db.role[c.user] \in Managers
  <2>1. Value(Member(c.user)) \in Permitted("join-request:handle")
    BY <1>4, KeptLock
  <2> QED BY <2>1, Values, Permissions
<1>7. LockOf(PendingRequest(c.request)) \in held[p] /\ db.request[c.request] = "pending"
  BY <1>5, Values DEF Kept, Lock, PendingRequest
<1> QED BY <1>3, <1>6, <1>7 DEF LockOf, PendingRequest, Lock

\* What a change of role knows when it commits: its author is the owner and the
\* other is not.
LEMMA RoleGrants ==
    ASSUME Shapes, RowsKept, NEW p \in Procs, Active(p), Finished(p), call[p].kind = "role"
    PROVE  /\ db.role[call[p].user] = "owner"
           /\ [row |-> Member(call[p].member), mode |-> "no-key-update"] \in held[p]
           /\ db.role[call[p].member] \in {"admin", "member"}
<1> DEFINE c == call[p]
<1>1. Scripts[c] = RoleScript(c)
  BY ScriptOf DEF Script
<1>2. Kept(p, Lock(Member(c.user), AclMode, Permitted("member-role:set")))
  <2>1. /\ 1 \in DOMAIN RoleScript(c) /\ 2 \in DOMAIN RoleScript(c)[1]
        /\ RoleScript(c)[1][2] = Lock(Member(c.user), AclMode, Permitted("member-role:set"))
    BY DEF RoleScript, GroupRole
  <2> QED BY <1>1, <2>1, Granted DEF RowAt, Lock, AclMode
<1>3. Kept(p, Lock(Member(c.member), "no-key-update", {"admin", "member"}))
  <2>1. /\ 2 \in DOMAIN RoleScript(c) /\ 1 \in DOMAIN RoleScript(c)[2]
        /\ RoleScript(c)[2][1] = Lock(Member(c.member), "no-key-update", {"admin", "member"})
    BY DEF RoleScript
  <2> QED BY <1>1, <2>1, Granted DEF RowAt, Lock
<1>4. Value(Member(c.user)) \in Permitted("member-role:set")
  BY <1>2, KeptLock
<1>5. /\ [row |-> Member(c.member), mode |-> "no-key-update"] \in held[p]
      /\ Value(Member(c.member)) \in {"admin", "member"}
  BY <1>3, KeptLock
<1> QED BY <1>4, <1>5, Values, Permissions

\* What is in the range of a sequence has a place in it.
LEMMA InOrder ==
    ASSUME NEW S, NEW q \in Seq(S), NEW x \in Range(q)
    PROVE  \E i \in 1..Len(q) : q[i] = x
  BY DEF Range

\* What a new conversation knows when it commits: all its members are members
\* of the circle.
LEMMA ConverseGrants ==
    ASSUME Shapes, RowsKept, NEW p \in Procs, Active(p), Finished(p), call[p].kind = "converse",
           NEW u \in call[p].members \cup {call[p].user}
    PROVE  db.role[u] \in Roles
<1> DEFINE c == call[p]
           us == c.members \cup {c.user}
<1>1. Scripts[c] = ConverseScript(c) /\ c \in CallTypes
  BY ScriptOf DEF Script
<1>2. us \in SUBSET Users
  BY <1>1 DEF CallTypes
<1>3. UserOrder[us] \in Seq(Users) /\ Range(UserOrder[us]) = us
  BY <1>2, OrderAssumption
<1>4. PICK i \in 1..Len(UserOrder[us]) : UserOrder[us][i] = u
  <2> HIDE DEF us
  <2> QED BY <1>3, InOrder DEF us
<1>5. 2 \in DOMAIN ConverseScript(c) /\ ConverseScript(c)[2] = AllMembers(us)
  BY DEF ConverseScript
<1>6. i \in DOMAIN AllMembers(us) /\ AllMembers(us)[i] = Lock(Member(u), AclMode, Roles)
  BY <1>3, <1>4 DEF AllMembers
<1>7. Kept(p, Lock(Member(u), AclMode, Roles))
  <2> HIDE DEF us, c
  <2>1. RowAt(p, 2, i) = Lock(Member(u), AclMode, Roles)
    BY <1>1, <1>5, <1>6 DEF RowAt, c
  <2>2. RowAt(p, 2, i).mode # "read"
    BY <2>1 DEF Lock, AclMode
  <2>3. 2 \in DOMAIN Scripts[call[p]] /\ i \in DOMAIN Scripts[call[p]][2]
    BY <1>1, <1>5, <1>6 DEF c
  <2> QED BY <2>1, <2>2, <2>3, Granted
<1>8. Value(Member(u)) \in Roles
  BY <1>7, KeptLock
<1> QED BY <1>8, Values

\* What a publication knows when it commits: the device is active, its account a
\* member, and the version follows the one that is there.
LEMMA PublishGrants ==
    ASSUME Shapes, RowsKept, NEW p \in Procs, Active(p), Finished(p), call[p].kind = "publish"
    PROVE  /\ db.device[call[p].device] = "active"
           /\ db.role[DeviceUser[call[p].device]] \in Roles
           /\ [row |-> Key(call[p].device), mode |-> "update"] \in held[p]
           /\ db.key[call[p].device] = <<"active", call[p].version - 1>>
<1> DEFINE c == call[p]
<1>1. Scripts[c] = PublishScript(c)
  BY ScriptOf DEF Script
<1>2. Kept(p, Lock(Device(c.device), "update", {"active"}))
  <2>1. /\ 2 \in DOMAIN PublishScript(c) /\ 1 \in DOMAIN PublishScript(c)[2]
        /\ PublishScript(c)[2][1] = Lock(Device(c.device), "update", {"active"})
    BY DEF PublishScript
  <2> QED BY <1>1, <2>1, Granted DEF RowAt, Lock
<1>3. Kept(p, Lock(Member(DeviceUser[c.device]), "share", Roles))
  <2>1. /\ 3 \in DOMAIN PublishScript(c) /\ 2 \in DOMAIN PublishScript(c)[3]
        /\ PublishScript(c)[3][2] = Lock(Member(DeviceUser[c.device]), "share", Roles)
    BY DEF PublishScript
  <2> QED BY <1>1, <2>1, Granted DEF RowAt, Lock
<1>4. Kept(p, Lock(Key(c.device), "update", {<<"active", c.version - 1>>}))
  <2>1. /\ 4 \in DOMAIN PublishScript(c) /\ 1 \in DOMAIN PublishScript(c)[4]
        /\ PublishScript(c)[4][1] = Lock(Key(c.device), "update", {<<"active", c.version - 1>>})
    BY DEF PublishScript
  <2> QED BY <1>1, <2>1, Granted DEF RowAt, Lock
<1>5. Value(Device(c.device)) \in {"active"}
  BY <1>2, KeptLock
<1>6. Value(Member(DeviceUser[c.device])) \in Roles
  BY <1>3, KeptLock
<1>7. /\ [row |-> Key(c.device), mode |-> "update"] \in held[p]
      /\ Value(Key(c.device)) \in {<<"active", c.version - 1>>}
  BY <1>4, KeptLock
<1> QED BY <1>5, <1>6, <1>7, Values

\* What a revocation knows when it commits: both devices are active.
LEMMA RevokeGrants ==
    ASSUME Shapes, RowsKept, NEW p \in Procs, Active(p), Finished(p), call[p].kind = "revoke"
    PROVE  /\ db.device[call[p].device] = "active" /\ db.device[call[p].target] = "active"
           /\ [row |-> Device(call[p].target), mode |-> "update"] \in held[p]
           /\ [row |-> Key(call[p].target), mode |-> "no-key-update"] \in held[p]
<1> DEFINE c == call[p]
<1>1. Scripts[c] = RevokeScript(c)
  BY ScriptOf DEF Script
<1>2. Kept(p, Lock(Device(c.device), "update", {"active"}))
  <2>1. /\ 2 \in DOMAIN RevokeScript(c) /\ 1 \in DOMAIN RevokeScript(c)[2]
        /\ RevokeScript(c)[2][1] = Lock(Device(c.device), "update", {"active"})
    BY DEF RevokeScript
  <2> QED BY <1>1, <2>1, Granted DEF RowAt, Lock
<1>3. Kept(p, Lock(Device(c.target), "update", {"active"}))
  <2>1. /\ 3 \in DOMAIN RevokeScript(c) /\ 1 \in DOMAIN RevokeScript(c)[3]
        /\ RevokeScript(c)[3][1] = Lock(Device(c.target), "update", {"active"})
    BY DEF RevokeScript
  <2> QED BY <1>1, <2>1, Granted DEF RowAt, Lock
<1>4. Kept(p, Lock(Key(c.target), "no-key-update", {"active", "revoked"} \X (1..MaxVersion)))
  <2>1. /\ 4 \in DOMAIN RevokeScript(c) /\ 1 \in DOMAIN RevokeScript(c)[4]
        /\ RevokeScript(c)[4][1] = Lock(Key(c.target), "no-key-update",
                                        {"active", "revoked"} \X (1..MaxVersion))
    BY DEF RevokeScript
  <2> QED BY <1>1, <2>1, Granted DEF RowAt, Lock
<1>5. Value(Device(c.device)) \in {"active"}
  BY <1>2, KeptLock
<1>6. /\ [row |-> Device(c.target), mode |-> "update"] \in held[p]
      /\ Value(Device(c.target)) \in {"active"}
  BY <1>3, KeptLock
<1>7. [row |-> Key(c.target), mode |-> "no-key-update"] \in held[p]
  BY <1>4, KeptLock
<1> QED BY <1>5, <1>6, <1>7, Values

\* what canSend found of a key: of the conversation, in the circle, current
Sealable(k) ==
    /\ DeviceUser[k[1]] \in Thread
    /\ db.key[k[1]] = <<"active", k[2]>>
    /\ db.device[k[1]] = "active"

\* What a message knows when it commits: its sender and all its recipients can
\* still seal and open it, and its id is new.
LEMMA SendGrants ==
    ASSUME Shapes, RowsKept, NEW p \in Procs, Active(p), Finished(p), call[p].kind = "send"
    PROVE  /\ Sealable(call[p].message.from)
           /\ \A k \in call[p].message.to : Sealable(k)
           /\ [row |-> Message(call[p].message.id), mode |-> "insert"] \in held[p]
           /\ \A x \in db.stored : x.id # call[p].message.id
<1> DEFINE c == call[p]
           m == c.message
           a == ConversationAccess(DeviceUser[m.from[1]])
           b == SealedFor(m.from)
           r == Recipients(m.to)
           i == <<Lock(Message(m.id), "insert", {"absent"})>>
                   \o References(<<Conversation, User(DeviceUser[m.from[1]])>>)
<1>1. Scripts[c] = SendScript(c) /\ c \in CallTypes
  BY ScriptOf DEF Script
<1>2. m.from \in Keys /\ m.to \in SUBSET Keys
  BY <1>1 DEF CallTypes
<1>3. SendScript(c) = <<a, b, r, i>>
  BY DEF SendScript
<1> DEFINE Got(x) == \A j \in DOMAIN x : \A row, mode, ok :
                         mode # "read" /\ x[j] = Lock(row, mode, ok)
                         => [row |-> row, mode |-> mode] \in held[p] /\ Value(row) \in ok
<1>4. Got(a) /\ Got(b) /\ Got(r) /\ Got(i)
  <2> HIDE DEF a, b, r, i
  <2>1. ASSUME NEW s \in 1..4 PROVE Got(Scripts[call[p]][s])
    <3> SUFFICES ASSUME NEW j \in DOMAIN Scripts[call[p]][s], NEW row, NEW mode, mode # "read",
                        NEW ok, Scripts[call[p]][s][j] = Lock(row, mode, ok)
                 PROVE  [row |-> row, mode |-> mode] \in held[p] /\ Value(row) \in ok
      OBVIOUS
    <3>1. s \in DOMAIN Scripts[call[p]]
      BY <1>1, <1>3
    <3>2. RowAt(p, s, j) = Lock(row, mode, ok)
      BY DEF RowAt
    <3>3. RowAt(p, s, j).mode # "read"
      BY <3>2 DEF Lock
    <3>4. Kept(p, Lock(row, mode, ok))
      BY <3>1, <3>2, <3>3, Granted
    <3> QED BY <3>4, KeptLock
  <2>2. /\ Scripts[call[p]][1] = a /\ Scripts[call[p]][2] = b
        /\ Scripts[call[p]][3] = r /\ Scripts[call[p]][4] = i
    BY <1>1, <1>3
  <2> HIDE DEF Got
  <2>3. 1 \in 1..4 /\ 2 \in 1..4 /\ 3 \in 1..4 /\ 4 \in 1..4
    OBVIOUS
  <2>4. /\ Got(Scripts[call[p]][1]) /\ Got(Scripts[call[p]][2])
        /\ Got(Scripts[call[p]][3]) /\ Got(Scripts[call[p]][4])
    BY <2>1, <2>3
  <2> QED BY <2>2, <2>4
<1> HIDE DEF c
<1>5. Sealable(m.from)
  <2>1. 2 \in DOMAIN a /\ a[2] = Lock(Reader(DeviceUser[m.from[1]]), AclMode, {"there"})
    BY DEF ConversationAccess, GroupRole, There
  <2>2. Value(Reader(DeviceUser[m.from[1]])) \in {"there"}
    <3> HIDE DEF a, m
    <3> QED BY <1>4, <2>1 DEF AclMode
  <2>3. /\ 1 \in DOMAIN b /\ b[1] = Lock(Key(m.from[1]), AclMode, {<<"active", m.from[2]>>})
        /\ 2 \in DOMAIN b /\ b[2] = Lock(Device(m.from[1]), AclMode, {"active"})
    BY DEF SealedFor
  <2>4. Value(Key(m.from[1])) \in {<<"active", m.from[2]>>} /\ Value(Device(m.from[1])) \in {"active"}
    <3> HIDE DEF b, m
    <3> QED BY <1>4, <2>3 DEF AclMode
  <2> QED BY <2>2, <2>4, Values DEF Sealable, Present
<1>6. ASSUME NEW k \in m.to
      PROVE  Sealable(k)
  <2> DEFINE o == KeyOrder[m.to]
  <2>1. o \in Seq(Keys) /\ Range(o) = m.to
    BY <1>2, OrderAssumption
  <2>2. PICK n \in 1..Len(o) : o[n] = k
    BY <2>1, <1>6 DEF Range
  <2>3. \A x \in 1..5 : /\ 5 * (n - 1) + x \in DOMAIN r
                        /\ r[5 * (n - 1) + x] = Recipient(k)[x]
    <3>1. ASSUME NEW x \in 1..5
          PROVE  LET y == 5 * (n - 1) + x
                 IN y \in 1..5 * Len(o) /\ (y + 4) \div 5 = n /\ ((y - 1) % 5) + 1 = x
      BY <2>1, <3>1
    <3> HIDE DEF o
    <3>2. r = [y \in 1..5 * Len(o) |-> Recipient(o[(y + 4) \div 5])[((y - 1) % 5) + 1]]
      BY DEF Recipients, o
    <3> HIDE DEF r
    <3> QED BY <2>2, <3>1, <3>2
  <2>4. /\ Recipient(k)[2] = Lock(Reader(DeviceUser[k[1]]), AclMode, {"there"})
        /\ Recipient(k)[4] = Lock(Key(k[1]), AclMode, {<<"active", k[2]>>})
        /\ Recipient(k)[5] = Lock(Device(k[1]), AclMode, {"active"})
    BY DEF Recipient, SealedFor, There
  <2>5. /\ Value(Reader(DeviceUser[k[1]])) \in {"there"}
        /\ Value(Key(k[1])) \in {<<"active", k[2]>>}
        /\ Value(Device(k[1])) \in {"active"}
    <3> HIDE DEF r, o
    <3>1. \A x \in 1..5 : \E j \in DOMAIN r : r[j] = Recipient(k)[x]
      BY <2>3
    <3>2. \A x \in 1..5 : \A row, ok : Recipient(k)[x] = Lock(row, AclMode, ok) => Value(row) \in ok
      BY <1>4, <3>1 DEF AclMode
    <3> QED BY <2>4, <3>2
  <2> QED BY <2>5, Values DEF Sealable, Present
<1>7. /\ [row |-> Message(m.id), mode |-> "insert"] \in held[p]
      /\ Value(Message(m.id)) \in {"absent"}
  <2>1. 1 \in DOMAIN i /\ i[1] = Lock(Message(m.id), "insert", {"absent"})
    BY DEF References
  <2> QED BY <1>4, <2>1
<1> QED BY <1>5, <1>6, <1>7, Values DEF Present, c

----------------------------------------------------------------------------
(* What a commit changes, and why it spoils nothing that others have locked *)

Changes(p) ==
    /\ \A u \in Users : db'.role[u] # db.role[u] =>
          \/ /\ call[p].kind = "handle" /\ u = Asker[call[p].request]
             /\ call[p].verdict = "accepted"
             /\ db.role[u] = "none" /\ db'.role[u] = "member"
          \/ /\ call[p].kind = "role" /\ u = call[p].member
             /\ db'.role[u] \in {"admin", "member"}
    /\ \A r \in RequestIds : db'.request[r] # db.request[r] =>
          \/ /\ call[p].kind = "ask" /\ Asker[r] = call[p].user
             /\ db.request[r] = "none" /\ db'.request[r] = "pending"
          \/ /\ call[p].kind = "handle" /\ r = call[p].request
             /\ db'.request[r] \in {"accepted", "rejected"}
    /\ \A d \in Devices : db'.key[d] # db.key[d] =>
          \/ call[p].kind = "publish" /\ d = call[p].device
          \/ call[p].kind = "revoke" /\ d = call[p].target
    /\ \A d \in Devices : db'.device[d] # db.device[d] =>
          call[p].kind = "revoke" /\ d = call[p].target
    /\ \/ db'.stored = db.stored
       \/ call[p].kind = "send" /\ db'.stored = db.stored \cup {call[p].message}
    /\ db.threads \subseteq db'.threads

\* A commit changes no more than that.
LEMMA Effects ==
    ASSUME Shapes, NEW p \in Procs, Commits(p)
    PROVE  Changes(p)
<1> DEFINE c == call[p]
<1>1. c \in CallTypes /\ c.kind # "show" /\ db \in Tables /\ db' \in Committed(c)
  BY ScriptOf DEF Commits, Active, Shapes
<1> HIDE DEF c
<1>2. CASE c.kind = "ask"
  <2>1. PICK r \in RequestIds : Asker[r] = c.user /\ db.request[r] = "none"
                                /\ db' = [db EXCEPT !.request[r] = "pending"]
    BY <1>1, <1>2 DEF Committed
  <2> QED BY <1>1, <1>2, <2>1 DEF Tables, Changes, c
<1>3. CASE c.kind = "handle"
  <2>1. c.request \in RequestIds /\ c.verdict \in {"accepted", "rejected"}
        /\ Asker[c.request] \in Users
    BY <1>1, <1>3, HandlersAssumption DEF CallTypes
  <2>2. /\ db'.request = [db.request EXCEPT ![c.request] = c.verdict]
        /\ db'.role = [db.role EXCEPT ![Asker[c.request]] =
                          IF c.verdict = "accepted" /\ @ = "none" THEN "member" ELSE @]
        /\ db'.key = db.key /\ db'.device = db.device /\ db'.stored = db.stored
        /\ db'.threads = db.threads
    <3>1. db' = [db EXCEPT !.request[c.request] = c.verdict,
                           !.role[Asker[c.request]] =
                              IF c.verdict = "accepted" /\ @ = "none"
                              THEN "member" ELSE @]
      BY <1>1, <1>3 DEF Committed
    <3>2. DOMAIN db = {"role", "request", "threads", "key", "device", "stored"}
      BY <1>1 DEF Tables
    <3> DEFINE req2 == [db.request EXCEPT ![c.request] = c.verdict]
               role2 == [db.role EXCEPT ![Asker[c.request]] =
                            IF c.verdict = "accepted" /\ @ = "none" THEN "member" ELSE @]
    <3>3. db' = [db EXCEPT !.request = req2, !.role = role2]
      BY <3>1, <3>2
    <3> HIDE DEF req2, role2
    <3>4. /\ db'.request = req2 /\ db'.role = role2
          /\ db'.key = db.key /\ db'.device = db.device /\ db'.stored = db.stored
          /\ db'.threads = db.threads
      BY <3>2, <3>3
    <3> QED BY <3>4 DEF req2, role2
  <2>3. /\ db.role \in [Users -> Roles \cup {"none"}]
        /\ db.request \in [RequestIds -> {"none", "pending", "accepted", "rejected"}]
    BY <1>1 DEF Tables
  <2>4. ASSUME NEW u \in Users, db'.role[u] # db.role[u]
        PROVE  /\ u = Asker[c.request] /\ c.verdict = "accepted"
               /\ db.role[u] = "none" /\ db'.role[u] = "member"
    BY <2>2, <2>3, <2>4
  <2>5. ASSUME NEW r \in RequestIds, db'.request[r] # db.request[r]
        PROVE  r = c.request /\ db'.request[r] \in {"accepted", "rejected"}
    BY <2>1, <2>2, <2>3, <2>5
  <2>6. call[p].kind = "handle" /\ c = call[p]
    BY <1>3 DEF c
  <2> QED BY <2>2, <2>4, <2>5, <2>6 DEF Changes
<1>4. CASE c.kind = "role"
  <2>1. c.member \in Users /\ c.role \in {"admin", "member"}
    BY <1>1, <1>4 DEF CallTypes
  <2> QED BY <1>1, <1>4, <2>1 DEF Committed, Tables, Changes, c
<1>5. CASE c.kind = "converse"
  BY <1>1, <1>5 DEF Committed, Tables, Changes, c
<1>6. CASE c.kind = "read"
  BY <1>1, <1>6 DEF Committed, Changes, c
<1>7. CASE c.kind = "send"
  BY <1>1, <1>7 DEF Committed, Tables, Changes, c
<1>8. CASE c.kind = "publish"
  BY <1>1, <1>8 DEF Committed, Tables, Changes, c
<1>9. CASE c.kind = "revoke"
  <2>1. /\ db'.key = [db.key EXCEPT ![c.target] = <<"revoked", @[2]>>]
        /\ db'.device = [db.device EXCEPT ![c.target] = "revoked"]
        /\ db'.role = db.role /\ db'.request = db.request /\ db'.stored = db.stored
        /\ db'.threads = db.threads
    <3>1. db' = [db EXCEPT !.device[c.target] = "revoked",
                           !.key[c.target] = <<"revoked", @[2]>>]
      BY <1>1, <1>9 DEF Committed
    <3> QED BY <1>1, <3>1 DEF Tables
  <2> QED BY <1>1, <1>9, <2>1 DEF Tables, Changes, c
<1>10. c.kind \in {"ask", "handle", "role", "converse", "read", "send", "publish", "revoke"}
  BY <1>1, Kinds
<1> QED BY <1>2, <1>3, <1>4, <1>5, <1>6, <1>7, <1>8, <1>9, <1>10

\* No commit spoils a row that another transaction has locked and found good:
\* what it changes it has locked itself, in a mode that excludes the other's.
LEMMA CommitKeeps ==
    ASSUME Shapes, RowsKept, Exclusive, NEW p \in Procs, Commits(p),
           NEW q \in Procs, p # q, NEW l, LockOK(l), l.mode # "read", Kept(q, l)
    PROVE  Value(l.row)' \in l.ok
<1>1. Active(p) /\ Finished(p) /\ Value(l.row) \in l.ok
  BY DEF Commits, Active, Kept
<1>2. \A k \in held[p] : k.row = l.row => k.mode \notin Excludes[l.mode]
  BY DEF Exclusive, Kept, LockOf
<1>3. CASE l.row[1] = "member"
  <2>1. /\ l.row[2] \in Users /\ l.row = Member(l.row[2])
        /\ \/ l.mode = "share" /\ l.ok \subseteq Roles
           \/ l.mode = "no-key-update" /\ l.ok = {"admin", "member"}
           \/ l.mode = "insert" /\ l.ok = Roles \cup {"none"}
    BY <1>3 DEF LockOK
  <2>2. Value(l.row) = db.role[l.row[2]] /\ Value(l.row)' = db'.role[l.row[2]]
    BY <1>3 DEF Value
  <2>3. CASE l.mode = "insert"
    <3>1. db'.role[l.row[2]] \in Roles \cup {"none"}
      BY <1>1, <2>1, <2>2, <2>3, Effects DEF Changes, Roles
    <3> QED BY <2>1, <2>2, <2>3, <3>1
  <2>4. CASE l.mode # "insert"
    <3>1. db.role[l.row[2]] # "none"
      BY <1>1, <2>1, <2>2, <2>4 DEF Roles
    <3>2. CASE db'.role[l.row[2]] # db.role[l.row[2]]
      <4>1. call[p].kind = "role" /\ l.row[2] = call[p].member
        BY <2>1, <3>1, <3>2, Effects DEF Changes
      <4>2. [row |-> l.row, mode |-> "no-key-update"] \in held[p]
        BY <1>1, <2>1, <4>1, RoleGrants
      <4>3. "no-key-update" \notin Excludes[l.mode]
        BY <1>2, <4>2
      <4> QED BY <2>1, <2>4, <4>3 DEF Excludes, LockModes
    <3> QED BY <1>1, <2>2, <3>2
  <2> QED BY <2>3, <2>4
<1>4. CASE l.row[1] = "request"
  <2>1. /\ l.row[2] \in RequestIds /\ l.row = Request(l.row[2])
        /\ l.mode = "update" /\ l.ok = {"pending"}
    BY <1>4 DEF LockOK
  <2>2. Value(l.row) = db.request[l.row[2]] /\ Value(l.row)' = db'.request[l.row[2]]
    BY <1>4 DEF Value
  <2>3. CASE db'.request[l.row[2]] # db.request[l.row[2]]
    <3>1. call[p].kind = "handle" /\ l.row[2] = call[p].request
      BY <1>1, <2>1, <2>2, <2>3, Effects DEF Changes
    <3>2. [row |-> l.row, mode |-> "update"] \in held[p]
      BY <1>1, <2>1, <3>1, HandleGrants
    <3>3. "update" \notin Excludes["update"]
      BY <1>2, <2>1, <3>2
    <3> QED BY <3>3 DEF Excludes, LockModes
  <2> QED BY <1>1, <2>2, <2>3
<1>5. CASE l.row[1] = "asking"
  <2>1. l.row[2] \in Users /\ l.row = Asking(l.row[2]) /\ l.mode = "insert" /\ l.ok = {"absent"}
    BY <1>5 DEF LockOK
  <2>2. /\ Value(l.row) = Present(IsAsking(l.row[2]))
        /\ Value(l.row)' = Present(IsAsking(l.row[2])')
    BY <1>5 DEF Value, Present
  <2>3. ~IsAsking(l.row[2])
    BY <1>1, <2>1, <2>2 DEF Present
  <2>4. CASE IsAsking(l.row[2])'
    <3>1. PICK r \in RequestIds : Asker[r] = l.row[2] /\ db'.request[r] = "pending"
      BY <2>4 DEF IsAsking
    <3>2. db.request[r] # "pending"
      BY <2>3, <3>1 DEF IsAsking
    <3>3. call[p].kind = "ask" /\ l.row[2] = call[p].user
      BY <3>1, <3>2, Effects DEF Changes
    <3>4. [row |-> l.row, mode |-> "insert"] \in held[p]
      BY <1>1, <2>1, <3>3, AskGrants
    <3>5. "insert" \notin Excludes["insert"]
      BY <1>2, <2>1, <3>4
    <3> QED BY <3>5 DEF Excludes, LockModes
  <2> QED BY <2>1, <2>2, <2>4 DEF Present
<1>6. CASE l.row[1] = "key"
  <2>1. /\ l.row[2] \in Devices /\ l.row = Key(l.row[2])
        /\ l.mode \in {"share", "no-key-update", "update"}
    BY <1>6 DEF LockOK
  <2>2. Value(l.row) = db.key[l.row[2]] /\ Value(l.row)' = db'.key[l.row[2]]
    BY <1>6 DEF Value
  <2>3. CASE db'.key[l.row[2]] # db.key[l.row[2]]
    <3>1. \/ call[p].kind = "publish" /\ l.row[2] = call[p].device
          \/ call[p].kind = "revoke" /\ l.row[2] = call[p].target
      BY <2>1, <2>3, Effects DEF Changes
    <3>2. PICK mode \in {"update", "no-key-update"} : [row |-> l.row, mode |-> mode] \in held[p]
      BY <1>1, <2>1, <3>1, PublishGrants, RevokeGrants
    <3>3. mode \notin Excludes[l.mode]
      BY <1>2, <3>2
    <3> QED BY <2>1, <3>3 DEF Excludes, LockModes
  <2> QED BY <1>1, <2>2, <2>3
<1>7. CASE l.row[1] = "device"
  <2>1. /\ l.row[2] \in Devices /\ l.row = Device(l.row[2]) /\ l.mode \in {"share", "update"}
    BY <1>7 DEF LockOK
  <2>2. Value(l.row) = db.device[l.row[2]] /\ Value(l.row)' = db'.device[l.row[2]]
    BY <1>7 DEF Value
  <2>3. CASE db'.device[l.row[2]] # db.device[l.row[2]]
    <3>1. call[p].kind = "revoke" /\ l.row[2] = call[p].target
      BY <2>1, <2>3, Effects DEF Changes
    <3>2. [row |-> l.row, mode |-> "update"] \in held[p]
      BY <1>1, <2>1, <3>1, RevokeGrants
    <3>3. "update" \notin Excludes[l.mode]
      BY <1>2, <3>2
    <3> QED BY <2>1, <3>3 DEF Excludes, LockModes
  <2> QED BY <1>1, <2>2, <2>3
<1>8. CASE l.row[1] = "message"
  <2>1. l.row = Message(l.row[2]) /\ l.mode = "insert" /\ l.ok = {"absent"}
    BY <1>8 DEF LockOK
  <2>2. /\ Value(l.row) = Present(\E x \in db.stored : x.id = l.row[2])
        /\ Value(l.row)' = Present(\E x \in db'.stored : x.id = l.row[2])
    BY <1>8 DEF Value, Present
  <2>3. ~\E x \in db.stored : x.id = l.row[2]
    BY <1>1, <2>1, <2>2 DEF Present
  <2>4. CASE \E x \in db'.stored : x.id = l.row[2]
    <3>1. call[p].kind = "send" /\ l.row[2] = call[p].message.id
      BY <2>3, <2>4, Effects DEF Changes
    <3>2. [row |-> l.row, mode |-> "insert"] \in held[p]
      BY <1>1, <2>1, <3>1, SendGrants
    <3>3. "insert" \notin Excludes["insert"]
      BY <1>2, <2>1, <3>2
    <3> QED BY <3>3 DEF Excludes, LockModes
  <2> QED BY <2>1, <2>2, <2>4 DEF Present
<1>9. CASE l.row[1] \notin {"member", "request", "asking", "key", "device", "message"}
  <2>1. Value(l.row)' = Value(l.row)
    BY <1>9 DEF Value
  <2> QED BY <1>1, <2>1
<1> QED BY <1>3, <1>4, <1>5, <1>6, <1>7, <1>8, <1>9

----------------------------------------------------------------------------
(* The locks hold *)

Step(p) ==
    \/ Begins(p) \/ Opens(p) \/ Skips(p) \/ Locks(p) \/ Commits(p) \/ Shows(p)
    \/ Ends(p) /\ UNCHANGED db

\* A step of one handler leaves the others where they are.
LEMMA Others ==
    ASSUME Shapes, NEW p \in Procs, Step(p), NEW q \in Procs, q # p
    PROVE  /\ phase'[q] = phase[q] /\ at'[q] = at[q] /\ held'[q] = held[q]
           /\ unmet'[q] = unmet[q]
  BY DEF Step, Begins, Opens, Skips, Locks, Commits, Shows, Ends, Shapes, TypeOK

\* Where a step leaves the handler that takes it.
LEMMA OwnPlace ==
    ASSUME Shapes, NEW p \in Procs, Step(p)
    PROVE  /\ Begins(p) => phase'[p] = "opening" /\ held'[p] = held[p]
           /\ Opens(p) => phase'[p] \in {"opening", "locking"} /\ held'[p] = held[p]
           /\ Skips(p) => phase'[p] = "locking" /\ held'[p] = held[p]
           /\ Locks(p) => /\ phase'[p] \in {"opening", "locking"}
                          /\ held'[p] = held[p] \cup {LockOf(Wanted(p))}
           /\ Ends(p) => phase'[p] \in {"queued", "done"} /\ held'[p] = {}
           /\ Shows(p) => phase'[p] \in {"checked", "done"} /\ held'[p] = held[p]
<1>1. p \in DOMAIN phase /\ p \in DOMAIN held
  BY DEF Shapes, TypeOK
<1> QED BY <1>1 DEF Begins, Opens, Skips, Locks, Shows, Ends

\* A step leaves the transactions alone or is a step of one of them.
LEMMA StepCases ==
    ASSUME Shapes, [Next]_vars
    PROVE  /\ call' = call
           /\ UNCHANGED <<phase, at, unmet, held, db>> \/ \E p \in Procs : Step(p)
  BY Steps DEF Step

\* Only the modes of PostgreSQL are held.
LEMMA HeldModes ==
    ASSUME Shapes, HeldByScript, NEW p \in Procs, NEW k \in held[p]
    PROVE  k.mode \in LockModes
<1>1. PICK s \in DOMAIN Scripts[call[p]] : \E i \in DOMAIN Scripts[call[p]][s] :
         k = LockOf(RowAt(p, s, i))
  BY DEF HeldByScript
<1>4. PICK i \in DOMAIN Scripts[call[p]][s] : k = LockOf(RowAt(p, s, i))
  BY <1>1
<1>2. ScriptOK(Scripts[call[p]])
  BY ScriptsOK DEF Shapes
<1>3. LockOK(RowAt(p, s, i))
  BY <1>4, <1>2 DEF ScriptOK, StatementOK, RowAt
<1> QED BY <1>4, <1>3 DEF LockOK, LockOf

\* A handler holds the rows its script has passed, and no other.
LEMMA HeldStep ==
    ASSUME Shapes, HeldByScript, [Next]_vars
    PROVE  HeldByScript'
<1>1. call' = call
  BY StepCases
<1>2. CASE UNCHANGED <<phase, at, unmet, held, db>>
  BY <1>1, <1>2 DEF HeldByScript, Active, Passed, RowAt
<1>3. ASSUME NEW p \in Procs, Step(p), NEW q \in Procs, NEW k \in held'[q]
      PROVE  /\ Active(q)'
             /\ \E s \in DOMAIN Scripts[call[q]] : \E i \in DOMAIN Scripts[call[q]][s] :
                   Passed(q, s, i)' /\ k = LockOf(RowAt(q, s, i))
  <2>1. CASE q # p
    <3>1. phase'[q] = phase[q] /\ at'[q] = at[q] /\ k \in held[q]
      BY <1>3, <2>1, Others
    <3> QED BY <3>1 DEF HeldByScript, Active, Passed
  <2>2. CASE q = p /\ k \in held[p]
    <3>1. Active(p)
      BY <2>2 DEF HeldByScript
    <3>2. Opens(p) \/ Skips(p) \/ Locks(p)
      BY <1>3, <2>2, <3>1, OwnPlace DEF Step, Begins, Shows, Commits
    <3>3. Active(p)'
      BY <1>3, <3>2, OwnPlace DEF Active
    <3>4. PICK s \in DOMAIN Scripts[call[p]] : \E i \in DOMAIN Scripts[call[p]][s] :
             Passed(p, s, i) /\ k = LockOf(RowAt(p, s, i))
      BY <2>2 DEF HeldByScript
    <3>5. PICK i \in DOMAIN Scripts[call[p]][s] :
             Passed(p, s, i) /\ k = LockOf(RowAt(p, s, i))
      BY <3>4
    <3>6. Passed(p, s, i)'
      BY <1>1, <3>2, <3>5, PassedNext
    <3> QED BY <2>2, <3>3, <3>5, <3>6
  <2>3. CASE q = p /\ k \notin held[p]
    <3>1. Locks(p) /\ k = LockOf(Wanted(p))
      BY <1>3, <2>3, OwnPlace DEF Step, Commits
    <3>2. Active(p) /\ Active(p)'
      BY <1>3, <3>1, OwnPlace DEF Locks, Active
    <3>3. PICK s, i : s = at[p].stmt /\ i = at[p].row
      OBVIOUS
    <3>4. s \in DOMAIN Scripts[call[p]]
      BY <3>1, <3>2, <3>3, WantedOK DEF Locks, ScriptOK
    <3>5. i \in DOMAIN Scripts[call[p]][s] /\ RowAt(p, s, i) = Wanted(p)
      BY <3>1, <3>2, <3>3, WantedOK DEF Locks, StatementOK, Statement, Wanted, RowAt
    <3>6. Passed(p, s, i)'
      BY <1>1, <3>1, <3>3, <3>4, <3>5, PassedNext
    <3> QED BY <2>3, <3>1, <3>2, <3>4, <3>5, <3>6
  <2> QED BY <2>1, <2>2, <2>3
<1>4. CASE \E p \in Procs : Step(p)
  BY <1>1, <1>3, <1>4 DEF HeldByScript, RowAt
<1> QED BY <1>2, <1>4, StepCases

\* No row is locked twice in modes that exclude each other.
LEMMA ExclusiveStep ==
    ASSUME Shapes, HeldByScript, Exclusive, [Next]_vars
    PROVE  Exclusive'
<1>1. CASE UNCHANGED <<phase, at, unmet, held, db>>
  BY <1>1 DEF Exclusive
<1>2. ASSUME NEW p \in Procs, Step(p), ~Locks(p) PROVE Exclusive'
  <2>1. \A q \in Procs : held'[q] \subseteq held[q]
    BY <1>2, Others, OwnPlace DEF Step, Commits
  <2> QED BY <2>1 DEF Exclusive
<1>3. ASSUME NEW p \in Procs, Step(p), Locks(p) PROVE Exclusive'
  <2>1. /\ held'[p] = held[p] \cup {LockOf(Wanted(p))}
        /\ \A q \in Procs \ {p} : held'[q] = held[q]
    BY <1>3, Others, OwnPlace
  <2>2. Wanted(p).mode \in LockModes
    BY <1>3, WantedOK DEF Locks, Active, LockOK
  <2>3. \A q \in Procs \ {p} : \A l \in held[q] :
           l.row = Wanted(p).row => l.mode \notin Excludes[Wanted(p).mode]
    BY <1>3 DEF Locks, Blockers, Holders, Shapes
  <2>4. \A q \in Procs \ {p} : \A l \in held[q] :
           l.row = Wanted(p).row => Wanted(p).mode \notin Excludes[l.mode]
    BY <2>2, <2>3, HeldModes, ConflictsAreMutual
  <2>5. LockOf(Wanted(p)).row = Wanted(p).row /\ LockOf(Wanted(p)).mode = Wanted(p).mode
    BY DEF LockOf
  <2> QED BY <2>1, <2>3, <2>4, <2>5 DEF Exclusive
<1> QED BY <1>1, <1>2, <1>3, StepCases

\* What a handler has locked keeps the value it qualified with.
LEMMA KeptStep ==
    ASSUME Shapes, RowsKept, Exclusive, [Next]_vars
    PROVE  RowsKept'
<1>1. call' = call
  BY StepCases
<1>2. CASE UNCHANGED <<phase, at, unmet, held, db>>
  <2>1. ASSUME NEW row PROVE Value(row)' = Value(row)
    BY <1>2 DEF Value, IsAsking, Present
  <2>2. ASSUME NEW p \in Procs, NEW k PROVE Kept(p, k)' <=> Kept(p, k)
    BY <1>2, <2>1 DEF Kept
  <2> SUFFICES ASSUME NEW p \in Procs, Active(p)',
                      NEW s \in DOMAIN Scripts[call[p]],
                      NEW i \in DOMAIN Scripts[call[p]][s],
                      Passed(p, s, i)', RowAt(p, s, i).mode # "read", ~Lacks(p, s, i)'
               PROVE  Kept(p, RowAt(p, s, i))'
    BY <1>1 DEF RowsKept, RowAt
  <2>3. Active(p) /\ Passed(p, s, i) /\ ~Lacks(p, s, i)
    BY <1>2 DEF Active, Passed, Lacks
  <2>4. Kept(p, RowAt(p, s, i))
    BY <2>3 DEF RowsKept
  <2>5. RowAt(p, s, i)' = RowAt(p, s, i)
    BY <1>1 DEF RowAt
  <2> QED BY <1>2, <2>1, <2>4, <2>5 DEF Kept
<1>3. ASSUME NEW p \in Procs, Step(p), NEW q \in Procs, Active(q)',
             NEW s \in DOMAIN Scripts[call[q]], NEW i \in DOMAIN Scripts[call[q]][s],
             Passed(q, s, i)', RowAt(q, s, i).mode # "read", ~Lacks(q, s, i)'
      PROVE  LockOf(RowAt(q, s, i)) \in held'[q] /\ Value(RowAt(q, s, i).row)' \in RowAt(q, s, i).ok
  <2> DEFINE l == RowAt(q, s, i)
  <2>1. CASE q # p
    <3>1. /\ phase'[q] = phase[q] /\ at'[q] = at[q] /\ held'[q] = held[q]
          /\ unmet'[q] = unmet[q]
      BY <1>3, <2>1, Others
    <3>2. Active(q) /\ Passed(q, s, i) /\ ~Lacks(q, s, i)
      BY <1>3, <3>1 DEF Active, Passed, Lacks
    <3>3. Kept(q, l)
      BY <1>3, <3>2 DEF RowsKept
    <3>4. LockOK(l)
      BY <1>1, PassedNext
    <3>5. CASE Commits(p)
      <4>1. PICK k : k = l
        OBVIOUS
      <4>2. Value(k.row)' \in k.ok
        BY <1>3, <2>1, <3>3, <3>4, <3>5, <4>1, CommitKeeps
      <4>3. Value(l.row)' \in l.ok
        BY <1>1, <4>1, <4>2 DEF RowAt, Value
      <4> QED BY <3>1, <3>3, <4>3 DEF Kept
    <3>6. CASE ~Commits(p)
      <4>1. db' = db
        BY <1>3, <3>6 DEF Step, Begins, Opens, Skips, Locks, Shows
      <4>2. Value(l.row)' = Value(l.row)
        BY <1>1, <4>1 DEF Value, IsAsking, RowAt, Present
      <4> QED BY <3>1, <3>3, <4>2 DEF Kept
    <3> QED BY <3>5, <3>6
  <2>2. CASE q = p
    <3>1. Begins(p) \/ Opens(p) \/ Skips(p) \/ Locks(p)
      BY <1>3, <2>2, OwnPlace DEF Step, Commits, Active
    <3>2. ~Begins(p)
      BY <1>1, <1>3, <2>2, PassedNext
    <3>3. Active(p) /\ db' = db
      BY <3>1, <3>2 DEF Opens, Skips, Locks, Active
    <3>4. Value(l.row)' = Value(l.row)
      BY <1>1, <3>3 DEF Value, IsAsking, RowAt, Present
    <3>5. CASE Passed(p, s, i)
      <4>2. ~Lacks(p, s, i)
        BY <1>1, <1>3, <2>2, <3>1, <3>2, LacksNext DEF Opens, Lacks
      <4>1. Kept(p, l)
        BY <1>3, <2>2, <3>3, <3>5, <4>2 DEF RowsKept
      <4> QED BY <1>3, <2>2, <3>1, <3>2, <3>4, <4>1, OwnPlace DEF Kept
    <3>6. CASE ~Passed(p, s, i)
      <4>3. s = at[p].stmt /\ i = at[p].row /\ (Skips(p) \/ Locks(p))
        BY <1>1, <1>3, <2>2, <3>1, <3>2, <3>6, PassedNext
      <4>1. Locks(p) /\ Good(p) /\ s = at[p].stmt /\ i = at[p].row
        BY <1>1, <1>3, <2>2, <4>3, LacksNext
      <4>2. l = Wanted(p)
        BY <2>2, <4>1 DEF RowAt, Wanted, Statement
      <4> QED BY <1>3, <2>2, <3>4, <4>1, <4>2, OwnPlace DEF Locks, Good
    <3> QED BY <3>5, <3>6
  <2> QED BY <2>1, <2>2
<1>4. CASE \E p \in Procs : Step(p)
  BY <1>1, <1>3, <1>4 DEF RowsKept, RowAt, Kept, Lacks
<1> QED BY <1>2, <1>4, StepCases

----------------------------------------------------------------------------
(* What holds in every reachable state *)

Locking == Shapes /\ RowsKept /\ HeldByScript /\ Exclusive

\* The rows a transaction in flight has passed are locked by it and still as
\* it found them, it holds no other lock, and no two hold conflicting locks.
LEMMA LockingHolds == Spec => []Locking
<1>1. Init => Locking
  <2> SUFFICES ASSUME Init PROVE Locking
    OBVIOUS
  <2>1. \A p \in Procs : ~Active(p) /\ held[p] = {}
    BY DEF Init, Active
  <2> QED BY <2>1, ShapesInit DEF Locking, RowsKept, HeldByScript, Exclusive
<1>2. Locking /\ [Next]_vars => Locking'
  BY ShapesStep, HeldStep, ExclusiveStep, KeptStep DEF Locking
<1> QED BY <1>1, <1>2, PTL DEF Spec

\* Only a commit changes the tables.
LEMMA OnlyCommits ==
    ASSUME Shapes, [Next]_vars, db' # db
    PROVE  \E p \in Procs : Commits(p)
<1>1. PICK p \in Procs : Step(p)
  BY StepCases
<1> QED BY <1>1 DEF Step, Begins, Opens, Skips, Locks, Shows

\* A decided join request stays decided: only a handler that found it pending,
\* and has kept it so under its lock, writes to it (groups.ts 84-139).
THEOREM Decided == Spec => DecisionsStand
<1> DEFINE Stands == \A r \in RequestIds :
                        db.request[r] \in {"accepted", "rejected"}
                        => db'.request[r] = db.request[r]
<1>1. Locking /\ [Next]_vars => [Stands]_vars
  <2> SUFFICES ASSUME Locking, [Next]_vars, NEW r \in RequestIds,
                      db.request[r] \in {"accepted", "rejected"},
                      db'.request[r] # db.request[r]
               PROVE  FALSE
    OBVIOUS
  <2>1. PICK p \in Procs : Commits(p)
    BY OnlyCommits DEF Locking
  <2>2. call[p].kind = "handle" /\ r = call[p].request
    BY <2>1, Effects DEF Locking, Changes
  <2>3. db.request[call[p].request] = "pending"
    BY <2>1, <2>2, HandleGrants DEF Locking, Commits, Active
  <2> QED BY <2>2, <2>3
<1> QED BY <1>1, LockingHolds, PTL DEF Spec, DecisionsStand

\* Nobody leaves the circle.
LEMMA RolesStay ==
    ASSUME Shapes, [Next]_vars, NEW u \in Users, db.role[u] # "none"
    PROVE  db'.role[u] # "none"
<1>1. CASE db' = db
  BY <1>1
<1>2. CASE db' # db
  <2>1. PICK p \in Procs : Commits(p)
    BY <1>2, OnlyCommits
  <2> QED BY <2>1, Effects DEF Changes
<1> QED BY <1>1, <1>2

\* The permission that was checked before a query still holds after it.
ChecksStand ==
    \A p \in Procs : phase[p] = "checked" =>
       /\ call[p].kind = "show"
       /\ db.role[call[p].user] # "none"
       /\ call[p].what \in OfConversation => call[p].user \in Thread

\* Only CheckAccess lets a reading route go on.
LEMMA PhaseChecked ==
    ASSUME Shapes, [Next]_vars, NEW p \in Procs, phase[p] # "checked", phase'[p] = "checked"
    PROVE  CheckAccess(p) /\ Allowed(call[p].user, call[p].what)
<1>1. p \in DOMAIN phase
  BY DEF Shapes, TypeOK
<1>2. CASE UNCHANGED vars
  BY <1>2 DEF vars, handler
<1>3. ASSUME NEW q \in Procs, Handler(q) PROVE CheckAccess(p) /\ Allowed(call[p].user, call[p].what)
  <2>1. ~(Connect(q) \/ Commit(q) \/ DeadlockDetected(q) \/ ReadOut(q))
    BY <1>1 DEF Connect, Commit, DeadlockDetected, ReadOut, Conflict, Answer
  <2>2. ~OpenStatement(q)
    BY <1>1 DEF OpenStatement, Answer
  <2>3. ~LockRow(q) /\ ~SkipRow(q)
    BY <1>1 DEF LockRow, SkipRow, Pass, Answer, Conflict
  <2> QED BY <1>1, <1>3, <2>1, <2>2, <2>3 DEF Handler, CheckAccess
<1> QED BY <1>2, <1>3 DEF Next

\* What a reading route checked stays allowed: a member never leaves.
LEMMA ChecksStep ==
    ASSUME Shapes, ChecksStand, [Next]_vars
    PROVE  ChecksStand'
<1> SUFFICES ASSUME NEW p \in Procs, phase'[p] = "checked"
             PROVE  /\ call'[p].kind = "show"
                    /\ db'.role[call'[p].user] # "none"
                    /\ call'[p].what \in OfConversation => call'[p].user \in Thread
  BY DEF ChecksStand
<1>1. call' = call /\ p \in DOMAIN phase
  BY StepCases DEF Shapes, TypeOK
<1>2. CASE phase[p] = "checked"
  <2>1. call[p].user \in Users
    <3>1. call[p] \in CallTypes /\ call[p].kind = "show"
      BY <1>2, ScriptsOK DEF Shapes, ChecksStand
    <3> QED BY <3>1 DEF CallTypes
  <2> QED BY <1>1, <1>2, <2>1, RolesStay DEF ChecksStand
<1>3. CASE phase[p] # "checked"
  <2>1. CheckAccess(p) /\ Allowed(call[p].user, call[p].what)
    BY <1>1, <1>3, PhaseChecked DEF Shapes
  <2>2. call[p].kind = "show" /\ db' = db
    BY <2>1 DEF CheckAccess
  <2>3. db.role[call[p].user] \in Roles
    BY <2>1, PermittedRoles DEF Allowed
  <2> QED BY <1>1, <2>1, <2>2, <2>3 DEF Allowed, ThreadOnly, Roles
<1> QED BY <1>2, <1>3

ShownUsers == \A x \in shown : x[1] \in Users

\* Only ReadOut serves anything.
LEMMA ShownNext ==
    ASSUME [Next]_vars, NEW x \in shown', x \notin shown
    PROVE  \E p \in Procs : ReadOut(p) /\ x = <<call[p].user, call[p].what>>
<1>1. ~UNCHANGED vars
  BY DEF vars
<1>2. PICK p \in Procs : Handler(p)
  BY <1>1 DEF Next
<1>3. ReadOut(p)
  BY <1>2 DEF Handler, Connect, OpenStatement, SkipRow, LockRow, Commit, DeadlockDetected, CheckAccess, Conflict
<1> QED BY <1>3 DEF ReadOut

Inside == ChecksStand /\ ShownIsAllowed

\* What a reading route serves, although the permission was checked in an
\* earlier transaction, concerns only those who are inside: nobody leaves the
\* circle or the conversation between the check and the query, or later.
THEOREM OnlyInsiders == Spec => []ShownIsAllowed
<1>1. Init => Inside
  BY DEF Init, Inside, ChecksStand, ShownIsAllowed
<1>2. Locking /\ ShownUsers /\ Inside /\ [Next]_vars => Inside'
  <2> SUFFICES ASSUME Locking, ShownUsers, Inside, [Next]_vars,
                      NEW x \in shown'
               PROVE  /\ db'.role[x[1]] # "none"
                      /\ x[2] \in OfConversation => x[1] \in Thread
    BY ChecksStep DEF Locking, Inside, ShownIsAllowed
  <2>1. CASE x \in shown
    BY <2>1, RolesStay DEF Locking, Inside, ShownIsAllowed, ShownUsers
  <2>2. CASE x \notin shown
    <3>1. PICK p \in Procs : ReadOut(p) /\ x = <<call[p].user, call[p].what>>
      BY <2>2, ShownNext
    <3> QED BY <3>1 DEF ReadOut, Inside, ChecksStand
  <2> QED BY <2>1, <2>2
<1>3. Init => ShownUsers
  BY DEF Init, ShownUsers
<1>4. Locking /\ Inside /\ ShownUsers /\ [Next]_vars => ShownUsers'
  <2> SUFFICES ASSUME Locking, Inside, ShownUsers, [Next]_vars, NEW x \in shown', x \notin shown
               PROVE  x[1] \in Users
    BY DEF ShownUsers
  <2>1. PICK p \in Procs : ReadOut(p) /\ x = <<call[p].user, call[p].what>>
    BY ShownNext
  <2>2. call[p].kind = "show" /\ call[p] \in CallTypes
    BY <2>1, ScriptsOK DEF Locking, Shapes, Inside, ChecksStand, ReadOut
  <2> QED BY <2>1, <2>2 DEF CallTypes
<1>5. Inside => ShownIsAllowed
  BY DEF Inside
<1> QED BY <1>1, <1>2, <1>3, <1>4, <1>5, LockingHolds, PTL DEF Spec

----------------------------------------------------------------------------
(* The circle's doors: join requests under the lock on the circle *)

\* An asker that has looked for itself finds the same until it commits: it is
\* outside the circle, and has no pending request.
AskersOutside ==
    \A p \in Procs : Active(p) /\ call[p].kind = "ask" =>
       /\ at[p].stmt > 2 => db.role[call[p].user] = "none"
       /\ at[p].stmt > 3 => ~IsAsking(call[p].user)

\* A pending request is the only one of its user, who is outside.
OnePending ==
    \A r \in RequestIds : db.request[r] = "pending" =>
       /\ db.role[Asker[r]] = "none"
       /\ \A x \in RequestIds \ {r} : db.request[x] = "pending" => Asker[x] # Asker[r]

\* Two handlers cannot both hold the circle.
LEMMA OneAtTheDoor ==
    ASSUME Locking, NEW p \in Procs, NEW q \in Procs, HoldsCircle(p), HoldsCircle(q)
    PROVE  p = q
<1>1. "update" \in Excludes["update"]
  BY DEF Excludes, LockModes
<1> QED BY <1>1 DEF Locking, Exclusive, HoldsCircle

\* The statements of createJoinRequest that only look.
LEMMA AskLooks ==
    ASSUME Shapes, NEW p \in Procs, Active(p), call[p].kind = "ask",
           Opens(p) \/ Skips(p) \/ Locks(p), call' = call
    PROVE  /\ at[p].stmt \in Nat
           /\ at'[p].stmt = at[p].stmt \/ at'[p].stmt = at[p].stmt + 1
           /\ at[p].stmt = 2 /\ at'[p].stmt = 3 => db.role[call[p].user] = "none"
           /\ at[p].stmt = 3 /\ at'[p].stmt = 4 => ~IsAsking(call[p].user)
<1> DEFINE c == call[p]
<1>1. Scripts[c] = AskScript(c) /\ at[p].stmt \in Nat /\ p \in DOMAIN at
  BY ScriptOf, WantedOK DEF Script, Shapes
<1>2. at'[p].stmt = at[p].stmt \/ at'[p].stmt = at[p].stmt + 1
  BY <1>1 DEF Opens, Skips, Locks, NextStatement, NextRow
<1>3. /\ AskScript(c)[2] = <<Lock(Member(c.user), "read", {"none"})>>
      /\ AskScript(c)[3] = <<Lock(Asking(c.user), "read", {"absent"})>>
  BY DEF AskScript
<1>4. ASSUME NEW row, row[1] \in {"member", "asking"}, NEW ok,
             Statement(p) = <<Lock(row, "read", ok)>>
      PROVE  Value(row) \in ok
  <2>1. DOMAIN Statement(p) = {1} /\ Len(Statement(p)) = 1
        /\ Statement(p)[1].row = row /\ Statement(p)[1].ok = ok /\ Statement(p)[1].mode = "read"
    BY <1>4 DEF Lock
  <2>2. CASE Opens(p)
    <3>1. Unfound(p) = {}
      BY <2>1, <2>2 DEF Opens, ReadOnly
    <3>2. Joined(p, 1) = DOMAIN Statement(p)
      BY DEF Joined
    <3>3. Found(Statement(p)[1])
      BY <2>1, <3>1, <3>2 DEF Unfound
    <3> QED BY <1>4, <2>1, <3>3 DEF Found
  <2>3. CASE Skips(p) \/ Locks(p)
    <3>1. at[p].row = 1 /\ Wanted(p) = Statement(p)[1]
      BY <2>1, <2>3, WantedOK DEF Skips, Locks, Wanted, Active
    <3> QED BY <2>1, <2>3, <3>1 DEF Skips, Locks, Good
  <2> QED BY <2>2, <2>3
<1>7. Member(c.user)[1] = "member" /\ Asking(c.user)[1] = "asking"
  BY DEF Member, Asking
<1>5. at[p].stmt = 2 => Value(Member(c.user)) \in {"none"}
  BY <1>1, <1>3, <1>4, <1>7 DEF Statement
<1>6. at[p].stmt = 3 => Value(Asking(c.user)) \in {"absent"}
  BY <1>1, <1>3, <1>4, <1>7 DEF Statement
<1> QED BY <1>1, <1>2, <1>5, <1>6, Values DEF Present

\* Under its lock on the circle, what a join request has looked at stays so.
LEMMA AskersStep ==
    ASSUME Locking, AskersOutside, [Next]_vars
    PROVE  AskersOutside'
<1>1. call' = call
  BY StepCases DEF Locking
<1>2. CASE UNCHANGED <<phase, at, unmet, held, db>>
  BY <1>1, <1>2 DEF AskersOutside, Active, IsAsking
<1>3. ASSUME NEW q \in Procs, Step(q), NEW p \in Procs, Active(p)', call[p].kind = "ask"
      PROVE  /\ at'[p].stmt > 2 => db'.role[call[p].user] = "none"
             /\ at'[p].stmt > 3 => ~IsAsking(call[p].user)'
  <2>1. CASE q = p
    <3>1. Begins(p) \/ Opens(p) \/ Skips(p) \/ Locks(p)
      BY <1>3, <2>1, OwnPlace DEF Step, Commits, Active, Locking
    <3>2. CASE Begins(p)
      BY <3>2 DEF Begins, Locking, Shapes
    <3>3. CASE Opens(p) \/ Skips(p) \/ Locks(p)
      <4>1. Active(p) /\ db' = db
        BY <3>3 DEF Opens, Skips, Locks, Active
      <4>2. IsAsking(call[p].user)' <=> IsAsking(call[p].user)
        BY <1>1, <4>1 DEF IsAsking
      <4> QED BY <1>1, <1>3, <3>3, <4>1, <4>2, AskLooks DEF Locking, AskersOutside
    <3> QED BY <3>1, <3>2, <3>3
  <2>2. CASE q # p
    <3>1. Active(p) /\ at'[p] = at[p]
      BY <1>3, <2>2, Others DEF Active, Locking
    <3>2. CASE db' = db
      <4>1. IsAsking(call[p].user)' <=> IsAsking(call[p].user)
        BY <1>1, <3>2 DEF IsAsking
      <4> QED BY <1>3, <3>1, <3>2, <4>1 DEF AskersOutside
    <3>3. CASE db' # db
      <4>1. Commits(q)
        BY <1>3, <3>3 DEF Step, Begins, Opens, Skips, Locks, Shows
      <4>2. Active(q) /\ Finished(q) /\ Changes(q) /\ call[p].user \in Users /\ at[p].stmt \in Nat
        <5>1. call[p] \in CallTypes
          BY <3>1, ScriptOf DEF Locking
        <5> QED BY <1>3, <3>1, <4>1, <5>1, Effects, WantedOK DEF Commits, Active, Locking, CallTypes
      <4>3. at[p].stmt > 2 => call[q].kind \notin {"ask", "handle"}
        <5>1. at[p].stmt > 2 => HoldsCircle(p)
          BY <1>3, <3>1, <4>2, AskHasCircle DEF Locking
        <5>2. call[q].kind \in {"ask", "handle"} => HoldsCircle(q)
          BY <4>2, AskGrants, HandleGrants DEF Locking
        <5> QED BY <2>2, <5>1, <5>2, OneAtTheDoor
      <4>4. at[p].stmt > 2 => db'.role[call[p].user] = "none"
        <5>1. call[q].kind = "role" => db.role[call[q].member] \in {"admin", "member"}
          BY <4>2, RoleGrants DEF Locking
        <5> QED BY <1>3, <3>1, <4>2, <4>3, <5>1 DEF AskersOutside, Changes
      <4>5. at[p].stmt > 3 => ~IsAsking(call[p].user)'
        <5> SUFFICES ASSUME at[p].stmt > 3, NEW r \in RequestIds, Asker[r] = call[p].user,
                            db'.request[r] = "pending"
                     PROVE  FALSE
          BY <1>1 DEF IsAsking
        <5>1. db.request[r] # "pending"
          BY <1>3, <3>1 DEF AskersOutside, IsAsking
        <5> QED BY <4>2, <4>3, <5>1 DEF Changes
      <4> QED BY <3>1, <4>4, <4>5
    <3> QED BY <3>2, <3>3
  <2> QED BY <2>1, <2>2
<1>4. CASE \E q \in Procs : Step(q)
  BY <1>1, <1>3, <1>4 DEF AskersOutside
<1> QED BY <1>2, <1>4, StepCases DEF Locking

\* What each commit leaves in the tables.
LEMMA AskCommit ==
    ASSUME Shapes, NEW p \in Procs, Commits(p), call[p].kind = "ask"
    PROVE  \E r \in RequestIds :
              /\ Asker[r] = call[p].user /\ db.request[r] = "none"
              /\ db'.request = [db.request EXCEPT ![r] = "pending"]
              /\ db'.role = db.role /\ db'.threads = db.threads
              /\ db'.key = db.key /\ db'.device = db.device /\ db'.stored = db.stored
<1>1. db' \in Committed(call[p]) /\ db \in Tables
  BY DEF Commits, Shapes
<1>2. PICK r \in RequestIds : Asker[r] = call[p].user /\ db.request[r] = "none"
                              /\ db' = [db EXCEPT !.request[r] = "pending"]
  BY <1>1 DEF Committed
<1> QED BY <1>1, <1>2 DEF Tables

\* What a decision writes.
LEMMA HandleCommit ==
    ASSUME Shapes, NEW p \in Procs, Commits(p), call[p].kind = "handle"
    PROVE  /\ call[p].user \in Users /\ call[p].request \in RequestIds
           /\ call[p].verdict \in {"accepted", "rejected"} /\ Asker[call[p].request] \in Users
           /\ db'.request = [db.request EXCEPT ![call[p].request] = call[p].verdict]
           /\ db'.role = [db.role EXCEPT ![Asker[call[p].request]] =
                             IF call[p].verdict = "accepted" /\ @ = "none" THEN "member" ELSE @]
           /\ db'.threads = db.threads
           /\ db'.key = db.key /\ db'.device = db.device /\ db'.stored = db.stored
<1> DEFINE c == call[p]
<1>1. db' \in Committed(c) /\ db \in Tables /\ c \in CallTypes
  BY ScriptOf DEF Commits, Active, Shapes
<1>2. c.user \in Users /\ c.request \in RequestIds /\ c.verdict \in {"accepted", "rejected"}
      /\ Asker[c.request] \in Users
  BY <1>1, HandlersAssumption DEF CallTypes
<1>3. db' = [db EXCEPT !.request[c.request] = c.verdict,
                       !.role[Asker[c.request]] =
                          IF c.verdict = "accepted" /\ @ = "none"
                          THEN "member" ELSE @]
  BY <1>1 DEF Committed
<1> QED BY <1>1, <1>2, <1>3 DEF Tables

\* A user has one pending request at most, and none once inside: createJoinRequest
\* asks for both under the lock on the circle that handleJoinRequest takes too.
LEMMA OnePendingStep ==
    ASSUME Locking, AskersOutside, OnePending, [Next]_vars
    PROVE  OnePending'
<1>1. CASE db' = db
  BY <1>1 DEF OnePending
<1>2. CASE db' # db
  <2>1. PICK p \in Procs : Commits(p)
    BY <1>2, OnlyCommits DEF Locking
  <2>2. Active(p) /\ Finished(p) /\ Changes(p) /\ db \in Tables
    BY <2>1, Effects DEF Commits, Active, Locking, Shapes
  <2>3. CASE call[p].kind = "ask"
    <3>1. PICK r \in RequestIds :
              /\ Asker[r] = call[p].user /\ db.request[r] = "none"
              /\ db'.request = [db.request EXCEPT ![r] = "pending"]
              /\ db'.role = db.role
      BY <2>1, <2>3, AskCommit DEF Locking
    <3>2. db.role[call[p].user] = "none" /\ ~IsAsking(call[p].user)
      <4>1. at[p].stmt = 5
        BY <2>2, <2>3, AskGrants DEF Locking
      <4> QED BY <2>2, <2>3, <4>1 DEF AskersOutside
    <3>3. \A x \in RequestIds : db'.request[x] = IF x = r THEN "pending" ELSE db.request[x]
      BY <2>2, <3>1 DEF Tables
    <3> QED BY <3>1, <3>2, <3>3 DEF OnePending, IsAsking
  <2>4. CASE call[p].kind = "handle"
    <3> DEFINE r == call[p].request
    <3>1. /\ r \in RequestIds /\ call[p].verdict \in {"accepted", "rejected"} /\ Asker[r] \in Users
          /\ db'.request = [db.request EXCEPT ![r] = call[p].verdict]
      BY <2>1, <2>4, HandleCommit DEF Locking
    <3>2. db.request[r] = "pending"
      BY <2>2, <2>4, HandleGrants DEF Locking
    <3>3. \A x \in RequestIds : db'.request[x] = IF x = r THEN call[p].verdict ELSE db.request[x]
      BY <2>2, <3>1 DEF Tables
    <3>4. \A u \in Users : u # Asker[r] => db'.role[u] = db.role[u]
      BY <2>2, <2>4 DEF Changes
    <3>5. \A x \in RequestIds : Asker[x] \in Users
      BY HandlersAssumption
    <3> HIDE DEF r
    <3> QED BY <3>1, <3>2, <3>3, <3>4, <3>5 DEF OnePending
  <2>5. CASE call[p].kind \notin {"ask", "handle"}
    <3>1. \A r \in RequestIds : db'.request[r] = db.request[r]
      BY <2>2, <2>5 DEF Changes
    <3>2. ASSUME NEW u \in Users, db.role[u] = "none" PROVE db'.role[u] = "none"
      <4>1. call[p].kind = "role" => db.role[call[p].member] \in {"admin", "member"}
        BY <2>2, RoleGrants DEF Locking
      <4> QED BY <2>2, <2>5, <3>2, <4>1 DEF Changes
    <3>3. \A x \in RequestIds : Asker[x] \in Users
      BY HandlersAssumption
    <3> QED BY <3>1, <3>2, <3>3 DEF OnePending
  <2> QED BY <2>3, <2>4, <2>5
<1> QED BY <1>1, <1>2

Doors == Locking /\ AskersOutside /\ OnePending /\ Thread \in db.threads

\* The locks hold, and the circle's doors with them.
LEMMA DoorsHold == Spec => []Doors
<1>1. Init => AskersOutside /\ OnePending /\ Thread \in db.threads
  <2> SUFFICES ASSUME Init PROVE AskersOutside /\ OnePending /\ Thread \in db.threads
    OBVIOUS
  <2>1. db \in Databases
    BY ScenariosAssumption DEF Init
  <2> QED BY <2>1 DEF Databases, Init, AskersOutside, OnePending, Active
<1>2. Locking /\ AskersOutside /\ OnePending /\ Thread \in db.threads /\ [Next]_vars
      => AskersOutside' /\ OnePending' /\ (Thread \in db.threads)'
  <2>1. Locking /\ Thread \in db.threads /\ [Next]_vars => (Thread \in db.threads)'
    BY OnlyCommits, Effects DEF Locking, Changes
  <2> QED BY <2>1, AskersStep, OnePendingStep
<1> QED BY <1>1, <1>2, LockingHolds, PTL DEF Spec, Doors

----------------------------------------------------------------------------
(* The ledger *)

\* The commit of a join request is a step of the ledger.
LEMMA AskIsAtomic ==
    ASSUME Doors, NEW p \in Procs, Commits(p), call[p].kind = "ask", call' = call
    PROVE  Ledger!Next
<1> DEFINE u == call[p].user
<1>1. Active(p) /\ Finished(p) /\ db \in Tables
  BY DEF Commits, Active, Doors, Locking, Shapes
<1>2. u \in Users
  <2>1. call[p] \in CallTypes
    BY <1>1, ScriptOf DEF Doors, Locking
  <2> QED BY <2>1 DEF CallTypes
<1>3. db.role[u] = "none" /\ ~IsAsking(u)
  <2>1. at[p].stmt = 5
    BY <1>1, AskGrants DEF Doors, Locking
  <2> QED BY <1>1, <2>1 DEF Doors, AskersOutside
<1>4. PICK r \in RequestIds :
          /\ Asker[r] = u /\ db.request[r] = "none"
          /\ db'.request = [db.request EXCEPT ![r] = "pending"]
          /\ db'.role = db.role /\ db'.threads = db.threads
          /\ db'.key = db.key /\ db'.device = db.device /\ db'.stored = db.stored
  BY AskCommit DEF Doors, Locking
<1>5. \A v \in Users : IsAsking(v)' <=> IsAsking(v) \/ v = u
  BY <1>1, <1>4 DEF IsAsking, Tables
<1>6. \A d \in Devices : Usable(d)' <=> Usable(d)
  BY <1>4 DEF Usable
<1>7. Ledger!Ask(u)
  BY <1>2, <1>3, <1>4, <1>5, <1>6 DEF Ledger!Ask, Ledger!Members
<1> QED BY <1>2, <1>7 DEF Ledger!Next

\* The ledger's view of the tables that a commit leaves alone.
LEMMA SameView ==
    /\ db'.request = db.request => \A u \in Users : IsAsking(u)' <=> IsAsking(u)
    /\ db'.key = db.key /\ db'.device = db.device => \A d \in Devices : Usable(d)' <=> Usable(d)
  BY DEF IsAsking, Usable

\* The commit of a decision is a step of the ledger.
LEMMA HandleIsAtomic ==
    ASSUME Doors, NEW p \in Procs, Commits(p), call[p].kind = "handle", call' = call
    PROVE  Ledger!Next
<1> DEFINE c == call[p]
           u == Asker[c.request]
<1>1. Active(p) /\ Finished(p) /\ db \in Tables
  BY DEF Commits, Active, Doors, Locking, Shapes
<1>2. /\ c.user \in Users /\ c.request \in RequestIds
      /\ c.verdict \in {"accepted", "rejected"} /\ u \in Users
      /\ db'.request = [db.request EXCEPT ![c.request] = c.verdict]
      /\ db'.role = [db.role EXCEPT ![u] =
                        IF c.verdict = "accepted" /\ @ = "none" THEN "member" ELSE @]
      /\ db'.threads = db.threads
      /\ db'.key = db.key /\ db'.device = db.device /\ db'.stored = db.stored
  BY HandleCommit DEF Doors, Locking
<1>3. db.role[c.user] \in Managers /\ db.request[c.request] = "pending"
  BY <1>1, HandleGrants DEF Doors, Locking
<1>4. db.role[u] = "none" /\ IsAsking(u)
  BY <1>2, <1>3 DEF Doors, OnePending, IsAsking
<1>5. \A v \in Users : IsAsking(v)' <=> IsAsking(v) /\ v # u
  <2>1. \A x \in RequestIds : db'.request[x] = IF x = c.request THEN c.verdict ELSE db.request[x]
    BY <1>1, <1>2 DEF Tables
  <2>2. \A x \in RequestIds : db.request[x] = "pending" /\ Asker[x] = u => x = c.request
    BY <1>2, <1>3 DEF Doors, OnePending
  <2> HIDE DEF c, u
  <2> QED BY <1>2, <2>1, <2>2 DEF IsAsking, u
<1>6. \A d \in Devices : Usable(d)' <=> Usable(d)
  BY <1>2, SameView
<1>7. CASE c.verdict = "accepted"
  <2>1. db'.role = [db.role EXCEPT ![u] = "member"]
    BY <1>1, <1>2, <1>4, <1>7 DEF Tables
  <2>2. Ledger!Admit(c.user, u)
    <3> HIDE DEF c, u
    <3> QED BY <1>2, <1>3, <1>4, <1>5, <1>6, <2>1 DEF Ledger!Admit, Ledger!Managers, Managers
  <2> QED BY <1>2, <2>2 DEF Ledger!Next
<1>8. CASE c.verdict = "rejected"
  <2>1. db'.role = db.role
    BY <1>1, <1>2, <1>8 DEF Tables
  <2>2. Ledger!Decline(c.user, u)
    <3> HIDE DEF c, u
    <3> QED BY <1>2, <1>3, <1>4, <1>5, <1>6, <2>1 DEF Ledger!Decline, Ledger!Managers, Managers
  <2> QED BY <1>2, <2>2 DEF Ledger!Next
<1> QED BY <1>2, <1>7, <1>8

\* The commit of a change of role is a step of the ledger.
LEMMA RoleIsAtomic ==
    ASSUME Doors, NEW p \in Procs, Commits(p), call[p].kind = "role", call' = call
    PROVE  Ledger!Next
<1> DEFINE c == call[p]
<1>1. Active(p) /\ Finished(p) /\ db \in Tables
  BY DEF Commits, Active, Doors, Locking, Shapes
<1>2. c.user \in Users /\ c.member \in Users /\ c.role \in {"admin", "member"}
  <2>1. c \in CallTypes
    BY <1>1, ScriptOf DEF Doors, Locking
  <2> QED BY <2>1 DEF CallTypes
<1>3. db.role[c.user] = "owner" /\ db.role[c.member] \in {"admin", "member"}
  BY <1>1, RoleGrants DEF Doors, Locking
<1>4. /\ db'.role = [db.role EXCEPT ![c.member] = c.role]
      /\ db'.request = db.request /\ db'.threads = db.threads
      /\ db'.key = db.key /\ db'.device = db.device /\ db'.stored = db.stored
  <2>1. db' = [db EXCEPT !.role[c.member] = c.role]
    BY DEF Commits, Committed
  <2> QED BY <1>1, <2>1 DEF Tables
<1>5. Ledger!SetRole(c.user, c.member, c.role)
  <2> HIDE DEF c
  <2> QED BY <1>2, <1>3, <1>4, SameView DEF Ledger!SetRole
<1>6. c.role \in Ledger!Roles
  BY <1>2 DEF Ledger!Roles
<1> QED BY <1>2, <1>5, <1>6 DEF Ledger!Next

\* The commit of a new conversation is a step of the ledger.
LEMMA ConverseIsAtomic ==
    ASSUME Doors, NEW p \in Procs, Commits(p), call[p].kind = "converse", call' = call
    PROVE  Ledger!Next
<1> DEFINE c == call[p]
           us == c.members \cup {c.user}
<1>1. Active(p) /\ Finished(p) /\ db \in Tables
  BY DEF Commits, Active, Doors, Locking, Shapes
<1>2. us \in SUBSET Users /\ us # {}
  <2>1. c \in CallTypes
    BY <1>1, ScriptOf DEF Doors, Locking
  <2> QED BY <2>1 DEF CallTypes
<1>3. \A u \in us : db.role[u] # "none"
  BY <1>1, ConverseGrants DEF Doors, Locking, Roles
<1>4. /\ db'.threads = db.threads \cup {us}
      /\ db'.role = db.role /\ db'.request = db.request
      /\ db'.key = db.key /\ db'.device = db.device /\ db'.stored = db.stored
  <2>1. db' = [db EXCEPT !.threads = @ \cup {us}]
    BY DEF Commits, Committed
  <2> QED BY <1>1, <2>1 DEF Tables
<1>5. Ledger!Converse(us)
  <2> HIDE DEF us
  <2> QED BY <1>2, <1>3, <1>4, SameView DEF Ledger!Converse, Ledger!Members
<1> QED BY <1>2, <1>5 DEF Ledger!Next

\* The commit of a message is a step of the ledger.
LEMMA SendIsAtomic ==
    ASSUME Doors, NEW p \in Procs, Commits(p), call[p].kind = "send", call' = call
    PROVE  Ledger!Next
<1> DEFINE m == call[p].message
           keys == {m.from} \cup m.to
<1>1. Active(p) /\ Finished(p) /\ db \in Tables
  BY DEF Commits, Active, Doors, Locking, Shapes
<1>2. keys \subseteq Keys /\ m \in Letters
  <2>1. call[p] \in CallTypes /\ call[p] \in Calls
    BY <1>1, ScriptOf DEF Doors, Locking, Shapes
  <2> QED BY <2>1 DEF CallTypes, Letters
<1>3. \A k \in keys : Sealable(k)
  BY <1>1, SendGrants DEF Doors, Locking
<1>4. \A x \in db.stored : x.id # m.id
  BY <1>1, SendGrants DEF Doors, Locking
<1>5. /\ db'.stored = db.stored \cup {m}
      /\ db'.role = db.role /\ db'.request = db.request /\ db'.threads = db.threads
      /\ db'.key = db.key /\ db'.device = db.device
  <2>1. db' = [db EXCEPT !.stored = @ \cup {m}]
    BY DEF Commits, Committed
  <2> QED BY <1>1, <2>1 DEF Tables
<1>6. \A k \in keys : k[1] \in Devices
  BY <1>2, HandlersAssumption
<1>7. Ledger!Current(keys)
  <2> HIDE DEF keys
  <2> QED BY <1>3, <1>6 DEF Ledger!Current, Sealable, Usable
<1>8. Ledger!Store(m, Thread)
  <2>1. Thread \in db.threads /\ \A k \in keys : DeviceUser[k[1]] \in Thread
    BY <1>3 DEF Doors, Sealable
  <2> HIDE DEF m
  <2> QED BY <1>4, <1>5, <1>7, <2>1, SameView DEF Ledger!Store
<1> QED BY <1>2, <1>8 DEF Ledger!Next, Doors

\* The commit of a publication is a step of the ledger.
LEMMA PublishIsAtomic ==
    ASSUME Doors, NEW p \in Procs, Commits(p), call[p].kind = "publish", call' = call
    PROVE  Ledger!Next
<1> DEFINE c == call[p]
           d == c.device
<1>1. Active(p) /\ Finished(p) /\ db \in Tables
  BY DEF Commits, Active, Doors, Locking, Shapes
<1>2. d \in Devices /\ c.version \in Nat /\ DeviceUser[d] \in Users
  <2>1. c \in CallTypes
    BY <1>1, ScriptOf DEF Doors, Locking
  <2> QED BY <2>1, HandlersAssumption DEF CallTypes
<1>3. /\ db.device[d] = "active" /\ db.role[DeviceUser[d]] \in Roles
      /\ db.key[d] = <<"active", c.version - 1>>
  BY <1>1, PublishGrants DEF Doors, Locking
<1>4. /\ db'.key = [db.key EXCEPT ![d] = <<"active", c.version>>]
      /\ db'.role = db.role /\ db'.request = db.request /\ db'.threads = db.threads
      /\ db'.device = db.device /\ db'.stored = db.stored
  <2>1. db' = [db EXCEPT !.key[d] = <<"active", c.version>>]
    BY DEF Commits, Committed
  <2> QED BY <1>1, <2>1 DEF Tables
<1>5. Ledger!Publish(d)
  <2> DEFINE v(x) == IF Usable(x) THEN db.key[x][2] ELSE 0
  <2>1. v(d) = c.version - 1 /\ v(d)' = c.version
    BY <1>1, <1>2, <1>3, <1>4 DEF Usable, Tables
  <2>2. \A x \in Devices : x # d => v(x)' = v(x)
    BY <1>1, <1>2, <1>4 DEF Usable, Tables
  <2>3. [x \in Devices |-> v(x)]' = [[x \in Devices |-> v(x)] EXCEPT ![d] = @ + 1]
    <3> HIDE DEF v
    <3> QED BY <1>2, <2>1, <2>2
  <2>4. db.role[DeviceUser[d]] # "none"
    BY <1>3 DEF Roles
  <2> HIDE DEF d
  <2> QED BY <1>2, <1>3, <1>4, <2>3, <2>4, SameView DEF Ledger!Publish, Ledger!Members, v
<1> QED BY <1>2, <1>5 DEF Ledger!Next, Ledger!Publish

\* The commit of a revocation is a step of the ledger.
LEMMA RevokeIsAtomic ==
    ASSUME Doors, NEW p \in Procs, Commits(p), call[p].kind = "revoke", call' = call
    PROVE  Ledger!Next
<1> DEFINE c == call[p]
           t == c.target
<1>1. Active(p) /\ Finished(p) /\ db \in Tables
  BY DEF Commits, Active, Doors, Locking, Shapes
<1>2. /\ c.device \in Devices /\ t \in Devices /\ c.device # t
      /\ DeviceUser[c.device] = DeviceUser[t]
  <2>1. c \in CallTypes
    BY <1>1, ScriptOf DEF Doors, Locking
  <2> QED BY <2>1 DEF CallTypes
<1>3. db.device[c.device] = "active" /\ db.device[t] = "active"
  BY <1>1, RevokeGrants DEF Doors, Locking
<1>4. /\ db'.key = [db.key EXCEPT ![t] = <<"revoked", @[2]>>]
      /\ db'.device = [db.device EXCEPT ![t] = "revoked"]
      /\ db'.role = db.role /\ db'.request = db.request /\ db'.threads = db.threads
      /\ db'.stored = db.stored
  <2>1. db' = [db EXCEPT !.device[t] = "revoked",
                         !.key[t] = <<"revoked", @[2]>>]
    BY DEF Commits, Committed
  <2> QED BY <1>1, <2>1 DEF Tables
<1>5. Ledger!Revoke(c.device, t)
  <2> DEFINE v(x) == IF Usable(x) THEN db.key[x][2] ELSE 0
  <2>1. v(t)' = 0
    BY <1>1, <1>2, <1>4 DEF Usable, Tables
  <2>2. \A x \in Devices : x # t => v(x)' = v(x)
    BY <1>1, <1>2, <1>4 DEF Usable, Tables
  <2>3. [x \in Devices |-> v(x)]' = [[x \in Devices |-> v(x)] EXCEPT ![t] = 0]
    <3> HIDE DEF v
    <3> QED BY <1>2, <2>1, <2>2
  <2>4. \A x \in Devices : db'.device[x] = "active" <=> db.device[x] = "active" /\ x # t
    BY <1>1, <1>2, <1>4 DEF Tables
  <2> HIDE DEF c, t
  <2> QED BY <1>2, <1>3, <1>4, <2>3, <2>4, SameView DEF Ledger!Revoke, v
<1> QED BY <1>2, <1>5 DEF Ledger!Next, Ledger!Revoke

\* Whatever the interleaving of their statements, the transactions do what the
\* ledger does in one step each, at their commit: nobody is admitted, sealed
\* for, promoted or put in a conversation on the word of a row that has changed
\* meanwhile.
THEOREM Atomic == Spec => ImplementsLedger
<1>1. Init => Ledger!Init
  <2> SUFFICES ASSUME Init PROVE Ledger!Init
    OBVIOUS
  <2>1. db \in Databases
    BY ScenariosAssumption DEF Init
  <2>2. db.role \in [Users -> Ledger!Roles \cup {"none"}]
    BY <2>1 DEF Databases, Roles, Ledger!Roles
  <2>3. \A u \in Users : IsAsking(u) => db.role[u] = "none"
    BY <2>1 DEF Databases, IsAsking
  <2>4. db.threads \in SUBSET (SUBSET {u \in Users : db.role[u] # "none"})
    BY <2>1 DEF Databases
  <2>5. \A d \in Devices : /\ db.key[d][2] \in Nat /\ DeviceUser[d] \in Users
                           /\ Usable(d) => db.role[DeviceUser[d]] # "none"
    <3>1. db.key \in [Devices -> {"active", "revoked"} \X Nat]
      BY <2>1 DEF Databases
    <3>2. \A d \in Devices : db.key[d] \in {"active", "revoked"} \X Nat
      BY <3>1
    <3> QED BY <2>1, <3>2, HandlersAssumption DEF Databases, Usable
  <2>6. db.stored = {}
    BY <2>1 DEF Databases
  <2> QED BY <2>2, <2>3, <2>4, <2>5, <2>6 DEF Ledger!Init, Ledger!Members
<1>2. Doors /\ [Next]_vars => [Ledger!Next]_(Ledger!ledger)
  <2> SUFFICES ASSUME Doors, [Next]_vars PROVE Ledger!Next \/ UNCHANGED Ledger!ledger
    OBVIOUS
  <2>1. CASE db' = db
    <3>1. \A u : IsAsking(u)' <=> IsAsking(u)
      BY <2>1 DEF IsAsking
    <3>2. \A d : Usable(d)' <=> Usable(d)
      BY <2>1 DEF Usable
    <3> QED BY <2>1, <3>1, <3>2 DEF Ledger!ledger
  <2>2. CASE db' # db
    <3>1. PICK p \in Procs : Commits(p)
      BY <2>2, OnlyCommits DEF Doors, Locking
    <3>2. call' = call
      BY StepCases DEF Doors, Locking
    <3>3. call[p].kind \in {"ask", "handle", "role", "converse", "read", "send", "publish", "revoke"}
      BY <3>1, ScriptOf DEF Doors, Locking, Commits, Active
    <3>4. call[p].kind # "read"
      BY <2>2, <3>1 DEF Commits, Committed
    <3> QED BY <3>1, <3>2, <3>3, <3>4, AskIsAtomic, HandleIsAtomic, RoleIsAtomic,
               ConverseIsAtomic, SendIsAtomic, PublishIsAtomic, RevokeIsAtomic
  <2> QED BY <2>1, <2>2
<1> QED BY <1>1, <1>2, DoorsHold, PTL DEF Spec, ImplementsLedger, Ledger!Spec

----------------------------------------------------------------------------
(* Which handler locks what, and where in its script *)

RowRule(c, s, i, l) ==
    /\ l.row[1] \in {"group", "member", "request", "asking", "conversation",
                     "reader", "key", "device", "user", "message"}
    /\ l.row[1] = "group" =>
          /\ l.row = Circle
          /\ \/ l.mode = "update" /\ c.kind \in {"ask", "handle"} /\ s = 1 /\ i = 1
             \/ l.mode = "share" \/ l.mode = "key-share"
    /\ l.row[1] = "conversation" => l.mode \in {"share", "key-share"}
    /\ l.row[1] = "reader" =>
          \/ l.mode = "update" /\ c.kind = "read" /\ s = 1 /\ i = 1
          \/ l.mode = "share" /\ c.kind = "send"
    /\ l.row[1] = "user" => l.mode = "key-share" \/ c.kind \in DeviceKinds
    /\ l.row[1] = "member" =>
          \/ l.mode = "share" /\ (c.kind = "role" => l.ok = {"owner"})
          \/ l.mode = "no-key-update" /\ c.kind = "role" /\ s = 2 /\ l.row = Member(c.member)
          \/ l.mode = "insert" /\ c.kind = "handle" /\ s = 4
          \/ l.mode = "read" /\ c.kind = "ask"
    /\ l.row[1] = "request" => c.kind = "handle" /\ s = 3
    /\ l.row[1] = "asking" => c.kind = "ask" /\ s \in {3, 4} /\ l.row = Asking(c.user)
    /\ l.row[1] \in {"key", "device"} => l.mode = "share" \/ c.kind \in DeviceKinds
    /\ l.row[1] = "message" => c.kind = "send" /\ s = 4 /\ i = 1
    /\ c.kind \in {"ask", "handle"} /\ s = 1 => l = LockGroup
    /\ c.kind = "send" /\ s = 4 /\ i > 1 => l.row[1] \in {"conversation", "user"}

StatementRule(c, s, st) == \A i \in DOMAIN st : RowRule(c, s, i, st[i])

ScriptRule(c) == \A s \in DOMAIN Script(c) : StatementRule(c, s, Script(c)[s])

\* the fields of a lock
LEMMA LockFields ==
    \A row, mode, ok : /\ Lock(row, mode, ok).row = row /\ Lock(row, mode, ok).mode = mode
                       /\ Lock(row, mode, ok).ok = ok
                       /\ There(row, mode).row = row /\ There(row, mode).mode = mode
  BY DEF Lock, There

\* The kind of every row.
LEMMA Tags ==
    /\ Circle[1] = "group" /\ Conversation[1] = "conversation"
    /\ \A x : /\ Member(x)[1] = "member" /\ Request(x)[1] = "request" /\ Asking(x)[1] = "asking"
              /\ Reader(x)[1] = "reader" /\ Key(x)[1] = "key" /\ Device(x)[1] = "device"
              /\ User(x)[1] = "user" /\ Message(x)[1] = "message"
  BY DEF Circle, Conversation, Member, Request, Asking, Reader, Key, Device, User, Message

\* The circle is only shared, unless it is locked to knock or to decide.
LEMMA RuleGroup ==
    ASSUME NEW c, NEW s, NEW i, NEW mode \in {"share", "key-share"},
           c.kind \in {"ask", "handle"} => s # 1,
           c.kind = "send" => s # 4
    PROVE  RowRule(c, s, i, There(Circle, mode))
  BY LockFields, Tags DEF RowRule

\* Users are only referred to.
LEMMA RuleUser ==
    ASSUME NEW c, NEW s, NEW i, NEW u, c.kind \in {"ask", "handle"} => s # 1
    PROVE  RowRule(c, s, i, There(User(u), "key-share"))
  BY LockFields, Tags DEF RowRule

\* The conversation is only shared or referred to.
LEMMA RuleConversation ==
    ASSUME NEW c, NEW s, NEW i, NEW mode \in {"share", "key-share"},
           c.kind \in {"ask", "handle"} => s # 1
    PROVE  RowRule(c, s, i, There(Conversation, mode))
  BY LockFields, Tags DEF RowRule

\* The ACL shares a membership, and of the owner alone when a role is set.
LEMMA RuleMember ==
    ASSUME NEW c, NEW s, NEW i, NEW u, NEW ok,
           c.kind \in {"ask", "handle"} => s # 1,
           c.kind = "send" => s # 4,
           c.kind = "role" => ok = {"owner"}
    PROVE  RowRule(c, s, i, Lock(Member(u), "share", ok))
  BY LockFields, Tags DEF RowRule

\* A message shares keys, devices and readers.
LEMMA RuleSealed ==
    ASSUME NEW c, NEW s, NEW i, NEW d, NEW ok, c.kind = "send", s # 4
    PROVE  /\ RowRule(c, s, i, Lock(Key(d), "share", ok))
           /\ RowRule(c, s, i, Lock(Device(d), "share", ok))
           /\ RowRule(c, s, i, There(Reader(d), "share"))
  BY LockFields, Tags DEF RowRule

\* A script of four statements keeps the rules when each of them does.
LEMMA FourRules ==
    ASSUME NEW c, NEW w, NEW x, NEW y, NEW z, Script(c) = <<w, x, y, z>>,
           StatementRule(c, 1, w), StatementRule(c, 2, x),
           StatementRule(c, 3, y), StatementRule(c, 4, z)
    PROVE  ScriptRule(c)
  BY DEF ScriptRule

\* A join request keeps the rules.
LEMMA AskRule ==
    ASSUME NEW c \in CallTypes, c.kind = "ask"
    PROVE  ScriptRule(c)
<1>1. Script(c) = AskScript(c)
  BY DEF Script
<1>2. StatementRule(c, 1, <<LockGroup>>)
  BY LockFields, Tags DEF StatementRule, RowRule, LockGroup
<1>3. StatementRule(c, 2, <<Lock(Member(c.user), "read", {"none"})>>)
  BY LockFields, Tags DEF StatementRule, RowRule
<1>4. StatementRule(c, 3, <<Lock(Asking(c.user), "read", {"absent"})>>)
  BY LockFields, Tags DEF StatementRule, RowRule
<1>5. StatementRule(c, 4, <<Lock(Asking(c.user), "insert", {"absent"})>>
                             \o References(<<Circle, User(c.user)>>))
  <2>1. RowRule(c, 4, 1, Lock(Asking(c.user), "insert", {"absent"}))
    BY LockFields, Tags DEF RowRule
  <2>2. RowRule(c, 4, 2, There(Circle, "key-share")) /\ RowRule(c, 4, 3, There(User(c.user), "key-share"))
    BY RuleGroup, RuleUser
  <2> QED BY <2>1, <2>2 DEF StatementRule, References
<1> QED BY <1>1, <1>2, <1>3, <1>4, <1>5, FourRules DEF AskScript

\* A decision keeps the rules.
LEMMA HandleRule ==
    ASSUME NEW c \in CallTypes, c.kind = "handle"
    PROVE  ScriptRule(c)
<1> DEFINE a == <<LockGroup>>
           b == GroupRole(c.user, "join-request:handle")
           d == <<PendingRequest(c.request)>>
           e == <<Lock(Member(Asker[c.request]), "insert", Roles \cup {"none"})>>
                   \o References(<<User(Asker[c.request]), Circle>>)
           f == References(<<User(c.user)>>)
<1>1. Script(c) = HandleScript(c)
  BY DEF Script
<1>2. StatementRule(c, 1, a)
  BY LockFields, Tags DEF StatementRule, RowRule, LockGroup
<1>3. StatementRule(c, 2, b)
  <2>1. RowRule(c, 2, 1, There(Circle, "share"))
        /\ RowRule(c, 2, 2, Lock(Member(c.user), "share", Permitted("join-request:handle")))
    BY RuleGroup, RuleMember
  <2> QED BY <2>1 DEF StatementRule, GroupRole, AclMode
<1>4. StatementRule(c, 3, d)
  BY LockFields, Tags DEF StatementRule, RowRule, PendingRequest
<1>5. StatementRule(c, 4, e)
  <2>1. RowRule(c, 4, 1, Lock(Member(Asker[c.request]), "insert", Roles \cup {"none"}))
    BY LockFields, Tags DEF RowRule
  <2>2. /\ RowRule(c, 4, 2, There(User(Asker[c.request]), "key-share"))
        /\ RowRule(c, 4, 3, There(Circle, "key-share"))
    BY RuleGroup, RuleUser
  <2> QED BY <2>1, <2>2 DEF StatementRule, References
<1>6. StatementRule(c, 4, f) /\ StatementRule(c, 5, f)
  <2>1. RowRule(c, 4, 1, There(User(c.user), "key-share"))
        /\ RowRule(c, 5, 1, There(User(c.user), "key-share"))
    BY RuleUser
  <2> QED BY <2>1 DEF StatementRule, References
<1> HIDE DEF a, b, d, e, f
<1>7. CASE c.verdict = "accepted"
  <2>1. HandleScript(c) = <<a, b, d>> \o <<e>> \o <<f>>
    BY <1>7 DEF HandleScript, a, b, d, e, f
  <2> QED BY <1>1, <1>2, <1>3, <1>4, <1>5, <1>6, <2>1 DEF ScriptRule
<1>8. CASE c.verdict # "accepted"
  <2>1. HandleScript(c) = <<a, b, d>> \o <<>> \o <<f>>
    BY <1>8 DEF HandleScript, a, b, d, e, f
  <2> QED BY <1>1, <1>2, <1>3, <1>4, <1>6, <2>1 DEF ScriptRule
<1> QED BY <1>7, <1>8

\* A change of role keeps the rules.
LEMMA RoleRule ==
    ASSUME NEW c \in CallTypes, c.kind = "role"
    PROVE  ScriptRule(c)
<1>1. Script(c) = RoleScript(c)
  BY DEF Script
<1>2. StatementRule(c, 1, GroupRole(c.user, "member-role:set"))
  <2>1. RowRule(c, 1, 1, There(Circle, "share"))
        /\ RowRule(c, 1, 2, Lock(Member(c.user), "share", Permitted("member-role:set")))
    BY RuleGroup, RuleMember, Permissions
  <2> QED BY <2>1 DEF StatementRule, GroupRole, AclMode
<1>3. StatementRule(c, 2, <<Lock(Member(c.member), "no-key-update", {"admin", "member"})>>)
  BY LockFields, Tags DEF StatementRule, RowRule
<1> QED BY <1>1, <1>2, <1>3 DEF ScriptRule, RoleScript

\* A read mark keeps the rules.
LEMMA ReadRule ==
    ASSUME NEW c \in CallTypes, c.kind = "read"
    PROVE  ScriptRule(c)
<1>1. Script(c) = <<Authorized(c.user)>>
  BY DEF Script, ReadScript
<1>2. RowRule(c, 1, 1, There(Reader(c.user), "update"))
  BY LockFields, Tags DEF RowRule
<1>3. /\ RowRule(c, 1, 2, There(Conversation, "share")) /\ RowRule(c, 1, 3, There(Circle, "share"))
      /\ RowRule(c, 1, 4, Lock(Member(c.user), "share", Roles))
  BY RuleConversation, RuleGroup, RuleMember
<1> QED BY <1>1, <1>2, <1>3 DEF ScriptRule, StatementRule, Authorized

\* A publication keeps the rules.
LEMMA PublishRule ==
    ASSUME NEW c \in CallTypes, c.kind = "publish"
    PROVE  ScriptRule(c)
<1>1. Script(c) = PublishScript(c)
  BY DEF Script
<1>2. StatementRule(c, 1, <<There(User(DeviceUser[c.device]), "update")>>)
  BY LockFields, Tags DEF StatementRule, RowRule, DeviceKinds
<1>3. StatementRule(c, 2, <<Lock(Device(c.device), "update", {"active"})>>)
  BY LockFields, Tags DEF StatementRule, RowRule, DeviceKinds
<1>4. StatementRule(c, 3, <<There(Circle, "share"),
                            Lock(Member(DeviceUser[c.device]), "share", Roles)>>)
  <2>1. RowRule(c, 3, 1, There(Circle, "share"))
        /\ RowRule(c, 3, 2, Lock(Member(DeviceUser[c.device]), "share", Roles))
    BY RuleGroup, RuleMember
  <2> QED BY <2>1 DEF StatementRule
<1>5. StatementRule(c, 4, <<Lock(Key(c.device), "update", {<<"active", c.version - 1>>})>>)
  BY LockFields, Tags DEF StatementRule, RowRule, DeviceKinds
<1> QED BY <1>1, <1>2, <1>3, <1>4, <1>5, FourRules DEF PublishScript

\* A revocation keeps the rules.
LEMMA RevokeRule ==
    ASSUME NEW c \in CallTypes, c.kind = "revoke"
    PROVE  ScriptRule(c)
<1>1. Script(c) = RevokeScript(c)
  BY DEF Script
<1>2. StatementRule(c, 1, <<There(User(DeviceUser[c.device]), "update")>>)
  BY LockFields, Tags DEF StatementRule, RowRule, DeviceKinds
<1>3. StatementRule(c, 2, <<Lock(Device(c.device), "update", {"active"})>>)
  BY LockFields, Tags DEF StatementRule, RowRule, DeviceKinds
<1>4. StatementRule(c, 3, <<Lock(Device(c.target), "update", {"active"})>>)
  BY LockFields, Tags DEF StatementRule, RowRule, DeviceKinds
<1>5. StatementRule(c, 4, <<Lock(Key(c.target), "no-key-update",
                                 {"active", "revoked"} \X (1..MaxVersion))>>)
  BY LockFields, Tags DEF StatementRule, RowRule, DeviceKinds
<1> QED BY <1>1, <1>2, <1>3, <1>4, <1>5, FourRules DEF RevokeScript

\* A new conversation keeps the rules.
LEMMA ConverseRule ==
    ASSUME NEW c \in CallTypes, c.kind = "converse"
    PROVE  ScriptRule(c)
<1> DEFINE us == c.members \cup {c.user}
           rows == [i \in 1..Len(UserOrder[us]) |-> User(UserOrder[us][i])]
<1>1. UserOrder[us] \in Seq(Users) /\ Len(UserOrder[us]) \in Nat
  <2>1. us \in SUBSET Users
    BY DEF CallTypes
  <2> HIDE DEF us
  <2> QED BY <2>1, OrderAssumption
<1>2. StatementRule(c, 1, GroupRole(c.user, "conversation:create"))
  <2>1. RowRule(c, 1, 1, There(Circle, "share"))
        /\ RowRule(c, 1, 2, Lock(Member(c.user), "share", Permitted("conversation:create")))
    BY RuleGroup, RuleMember
  <2> QED BY <2>1 DEF StatementRule, GroupRole, AclMode
<1>3. StatementRule(c, 2, AllMembers(us))
  <2>1. \A i, u : RowRule(c, 2, i, Lock(Member(u), "share", Roles))
    BY RuleMember
  <2> HIDE DEF us
  <2> QED BY <2>1 DEF StatementRule, AllMembers, AclMode
<1>4. StatementRule(c, 3, References(<<Circle, User(c.user)>>))
  <2>1. RowRule(c, 3, 1, There(Circle, "key-share")) /\ RowRule(c, 3, 2, There(User(c.user), "key-share"))
    BY RuleGroup, RuleUser
  <2> QED BY <2>1 DEF StatementRule, References
<1>5. StatementRule(c, 4, References(rows))
  <2>1. \A i, u : RowRule(c, 4, i, There(User(u), "key-share"))
    BY RuleUser
  <2> HIDE DEF us
  <2>2. Len(rows) = Len(UserOrder[us])
    BY <1>1
  <2>3. \A i \in 1..Len(rows) : rows[i] = User(UserOrder[us][i])
    BY <2>2
  <2> HIDE DEF rows
  <2> QED BY <2>1, <2>3 DEF StatementRule, References
<1>6. Script(c) = << GroupRole(c.user, "conversation:create"), AllMembers(us),
                     References(<<Circle, User(c.user)>>), References(rows) >>
  BY DEF Script, ConverseScript
<1> HIDE DEF us, rows
<1> QED BY <1>2, <1>3, <1>4, <1>5, <1>6, FourRules

\* A message keeps the rules.
LEMMA SendRule ==
    ASSUME NEW c \in CallTypes, c.kind = "send"
    PROVE  ScriptRule(c)
<1> DEFINE m == c.message
           u == DeviceUser[m.from[1]]
           o == KeyOrder[m.to]
           a == ConversationAccess(u)
           b == SealedFor(m.from)
           r == Recipients(m.to)
           e == <<Lock(Message(m.id), "insert", {"absent"})>>
                   \o References(<<Conversation, User(u)>>)
<1>1. o \in Seq(Keys) /\ Len(o) \in Nat
  <2>1. m.to \in SUBSET Keys
    BY DEF CallTypes
  <2> QED BY <2>1, OrderAssumption
<1>2. StatementRule(c, 1, a)
  <2>1. /\ RowRule(c, 1, 1, There(Conversation, "share")) /\ RowRule(c, 1, 2, There(Reader(u), "share"))
        /\ RowRule(c, 1, 3, There(Circle, "share"))
        /\ RowRule(c, 1, 4, Lock(Member(u), "share", Permitted("conversation:read")))
    BY RuleConversation, RuleSealed, RuleGroup, RuleMember
  <2> HIDE DEF u
  <2> QED BY <2>1 DEF StatementRule, ConversationAccess, GroupRole, AclMode
<1>3. StatementRule(c, 2, b)
  <2>1. /\ RowRule(c, 2, 1, Lock(Key(m.from[1]), "share", {<<"active", m.from[2]>>}))
        /\ RowRule(c, 2, 2, Lock(Device(m.from[1]), "share", {"active"}))
    BY RuleSealed
  <2> QED BY <2>1 DEF StatementRule, SealedFor, AclMode
<1>4. StatementRule(c, 3, r)
  <2>1. ASSUME NEW k, NEW j, NEW i \in 1..5 PROVE RowRule(c, 3, j, Recipient(k)[i])
    <3>1. /\ RowRule(c, 3, j, There(Conversation, "share"))
          /\ RowRule(c, 3, j, There(Reader(DeviceUser[k[1]]), "share"))
          /\ RowRule(c, 3, j, Lock(Member(DeviceUser[k[1]]), "share", Roles))
          /\ RowRule(c, 3, j, Lock(Key(k[1]), "share", {<<"active", k[2]>>}))
          /\ RowRule(c, 3, j, Lock(Device(k[1]), "share", {"active"}))
      BY RuleConversation, RuleSealed, RuleMember
    <3> QED BY <3>1 DEF Recipient, SealedFor, AclMode
  <2> HIDE DEF o
  <2>2. \A j \in 1..5 * Len(o) : ((j - 1) % 5) + 1 \in 1..5
    BY <1>1
  <2>3. DOMAIN r = 1..5 * Len(o)
        /\ \A j \in DOMAIN r : r[j] = Recipient(o[(j + 4) \div 5])[((j - 1) % 5) + 1]
    BY DEF Recipients, o
  <2> HIDE DEF r
  <2> QED BY <2>1, <2>2, <2>3 DEF StatementRule
<1>5. StatementRule(c, 4, e)
  <2>1. RowRule(c, 4, 1, Lock(Message(m.id), "insert", {"absent"}))
    BY LockFields, Tags DEF RowRule
  <2>2. RowRule(c, 4, 2, There(Conversation, "key-share")) /\ RowRule(c, 4, 3, There(User(u), "key-share"))
    <3>1. ASSUME NEW i PROVE RowRule(c, 4, i, There(Conversation, "key-share"))
      BY RuleConversation
    <3>2. ASSUME NEW i PROVE RowRule(c, 4, i, There(User(u), "key-share"))
      BY RuleUser
    <3> QED BY <3>1, <3>2
  <2> HIDE DEF u
  <2> QED BY <2>1, <2>2 DEF StatementRule, References
<1>6. Script(c) = <<a, b, r, e>>
  BY DEF Script, SendScript
<1> HIDE DEF a, b, r, e
<1> QED BY <1>2, <1>3, <1>4, <1>5, <1>6, FourRules

\* Every row of every script follows the rule.
LEMMA Rules ==
    ASSUME Shapes, NEW p \in Procs, Active(p),
           NEW s \in DOMAIN Scripts[call[p]], NEW i \in DOMAIN Scripts[call[p]][s]
    PROVE  RowRule(call[p], s, i, RowAt(p, s, i))
<1>1. call[p] \in CallTypes /\ Scripts[call[p]] = Script(call[p])
      /\ call[p].kind \in {"ask", "handle", "role", "converse", "read", "send", "publish", "revoke"}
  BY ScriptOf
<1>2. ScriptRule(call[p])
  BY <1>1, AskRule, HandleRule, RoleRule, ReadRule, PublishRule, RevokeRule, ConverseRule, SendRule
<1> QED BY <1>1, <1>2 DEF ScriptRule, StatementRule, RowAt

----------------------------------------------------------------------------
(* No unexpected error *)

\* A statement that waits for rows has rows to lock; and a member whose role
\* is about to be set is not the owner.
Opened ==
    \A p \in Procs : phase[p] = "locking" =>
       /\ \E i \in DOMAIN Statement(p) : Statement(p)[i].mode # "read"
       /\ call[p].kind = "role" /\ at[p].stmt = 2 => db.role[call[p].member] # "owner"

\* the second statement of a change of role
LEMMA RoleStatement ==
    ASSUME Shapes, NEW p \in Procs, Active(p), call[p].kind = "role"
    PROVE  /\ call[p].member \in Users
           /\ DOMAIN Scripts[call[p]][1] = 1..2 /\ Scripts[call[p]][1][1].row = Circle
           /\ Len(Scripts[call[p]][1]) = 2
           /\ DOMAIN Scripts[call[p]] = 1..2 /\ Len(Scripts[call[p]]) = 2
           /\ Scripts[call[p]][2] = <<Lock(Member(call[p].member), "no-key-update", {"admin", "member"})>>
<1>1. call[p] \in CallTypes /\ Scripts[call[p]] = RoleScript(call[p])
  BY ScriptOf DEF Script
<1>2. /\ DOMAIN GroupRole(call[p].user, "member-role:set") = 1..2
      /\ Len(GroupRole(call[p].user, "member-role:set")) = 2
      /\ GroupRole(call[p].user, "member-role:set")[1].row = Circle
  BY LockFields DEF GroupRole
<1> QED BY <1>1, <1>2 DEF CallTypes, RoleScript

\* A statement that locks was found to have something to lock.
LEMMA OpenedStep ==
    ASSUME Shapes, Opened, [Next]_vars
    PROVE  Opened'
<1>1. call' = call
  BY StepCases
<1>2. CASE UNCHANGED <<phase, at, unmet, held, db>>
  BY <1>1, <1>2 DEF Opened, Statement
<1>3. ASSUME NEW q \in Procs, Step(q), NEW p \in Procs, phase'[p] = "locking"
      PROVE  /\ \E i \in DOMAIN Statement(p)' : Statement(p)[i].mode' # "read"
             /\ call[p].kind = "role" /\ at'[p].stmt = 2 => db'.role[call[p].member] # "owner"
  <2>1. p \in DOMAIN phase /\ p \in DOMAIN at
    BY DEF Shapes, TypeOK
  <2>2. ASSUME phase[p] = "locking", at'[p].stmt = at[p].stmt
        PROVE  /\ \E i \in DOMAIN Statement(p)' : Statement(p)[i].mode' # "read"
               /\ call[p].kind = "role" /\ at'[p].stmt = 2 => db'.role[call[p].member] # "owner"
    <3>1. Statement(p)' = Statement(p)
      BY <1>1, <2>2 DEF Statement
    <3>2. call[p].kind = "role" => call[p].member \in Users
      BY <2>2, RoleStatement DEF Active
    <3>3. \A u \in Users : db'.role[u] = "owner" => db.role[u] = "owner"
      <4>1. CASE Commits(q)
        BY <4>1, Effects DEF Changes
      <4>2. CASE ~Commits(q)
        BY <1>3, <4>2 DEF Step, Begins, Opens, Skips, Locks, Shows
      <4> QED BY <4>1, <4>2
    <3> QED BY <1>1, <2>2, <3>1, <3>2, <3>3 DEF Opened
  <2>3. CASE p # q
    <3>1. phase'[p] = phase[p] /\ at'[p] = at[p]
      BY <1>3, <2>3, Others
    <3> QED BY <1>3, <2>2, <3>1
  <2>4. CASE p = q
    <3>1. Opens(p) \/ Skips(p) \/ Locks(p)
      BY <1>3, <2>4, OwnPlace DEF Step, Commits
    <3>2. CASE Skips(p) \/ Locks(p)
      <4>1. phase[p] = "locking" /\ at'[p].stmt = at[p].stmt
        BY <1>3, <2>1, <2>4, <3>2 DEF Skips, Locks, NextRow
      <4> QED BY <2>2, <4>1
    <3>3. CASE Opens(p)
      <4>1. ~\A i \in DOMAIN Statement(p) : Statement(p)[i].mode = "read"
        BY <1>3, <2>4, <3>3 DEF Opens, ReadOnly
      <4>2. at' = at /\ db' = db /\ Unfound(p) # DOMAIN Statement(p) /\ Active(p)
        BY <3>3, <4>1 DEF Opens, Active, ReadOnly
      <4>3. Statement(p)' = Statement(p)
        BY <1>1, <4>2 DEF Statement
      <4>4. call[p].kind = "role" /\ at[p].stmt = 2 => db.role[call[p].member] # "owner"
        <5> SUFFICES ASSUME call[p].kind = "role", at[p].stmt = 2
                     PROVE  db.role[call[p].member] # "owner"
          OBVIOUS
        <5> DEFINE l == Lock(Member(call[p].member), "no-key-update", {"admin", "member"})
        <5>1. Statement(p) = <<l>>
          BY <4>2, RoleStatement DEF Statement
        <5>2. l.mode = "no-key-update" /\ l.row = Member(call[p].member) /\ l.ok = {"admin", "member"}
          BY LockFields
        <5> HIDE DEF l
        <5>4. DOMAIN Statement(p) = {1} /\ Statement(p)[1] = l
          BY <5>1
        <5>5. Joined(p, 1) = {1}
          BY <4>4, <5>4 DEF Joined
        <5>6. Found(l)
          BY <4>2, <5>4, <5>5 DEF Unfound
        <5>7. l.row[1] = "member"
          BY <5>2 DEF Member
        <5>3. Value(Member(call[p].member)) \in {"admin", "member"}
          BY <5>2, <5>6, <5>7 DEF Found
        <5> QED BY <5>3, Values
      <4> QED BY <4>1, <4>2, <4>3, <4>4
    <3> QED BY <3>1, <3>2, <3>3
  <2> QED BY <2>3, <2>4
<1>4. CASE \E q \in Procs : Step(q)
  BY <1>1, <1>3, <1>4 DEF Opened
<1> QED BY <1>2, <1>4, StepCases

\* The row a handler wants follows the rule of its script.
LEMMA WantedRule ==
    ASSUME Shapes, NEW p \in Procs, phase[p] = "locking"
    PROVE  /\ RowRule(call[p], at[p].stmt, at[p].row, Wanted(p)) /\ LockOK(Wanted(p))
           /\ Scripts[call[p]] = Script(call[p])
<1>1. PICK s, i : s = at[p].stmt /\ i = at[p].row
  OBVIOUS
<1>2. Active(p)
  BY DEF Active
<1>3. /\ s \in DOMAIN Scripts[call[p]] /\ i \in DOMAIN Scripts[call[p]][s]
      /\ RowAt(p, s, i) = Wanted(p)
  BY <1>1, <1>2, WantedOK DEF ScriptOK, StatementOK, Statement, Wanted, RowAt
<1> QED BY <1>1, <1>2, <1>3, Rules, WantedOK, ScriptOf

\* The lock on the circle keeps a second pending request of one user from
\* meeting the unique index: the INSERT never fails.
LEMMA InsertSucceeds ==
    ASSUME Doors, Opened, NEW p \in Procs, phase[p] = "locking",
           Value(Wanted(p).row) \notin Wanted(p).ok
    PROVE  Refusal(p) = "refused"
<1> SUFFICES ASSUME Wanted(p).row[1] = "asking" PROVE FALSE
  BY DEF Refusal
<1>1. Active(p) /\ Shapes
  BY DEF Active, Doors, Locking
<1>2. call[p].kind = "ask" /\ at[p].stmt \in {3, 4} /\ Wanted(p).row = Asking(call[p].user)
  BY <1>1, WantedRule DEF RowRule
<1>3. Wanted(p).ok = {"absent"}
  BY <1>1, WantedRule DEF LockOK
<1>4. at[p].stmt # 3
  <2> SUFFICES ASSUME at[p].stmt = 3 PROVE FALSE
    OBVIOUS
  <2>1. Scripts[call[p]] = AskScript(call[p])
    BY <1>1, <1>2, WantedRule DEF Script
  <2>2. AskScript(call[p])[3] = <<Lock(Asking(call[p].user), "read", {"absent"})>>
    BY DEF AskScript
  <2>3. Statement(p) = <<Lock(Asking(call[p].user), "read", {"absent"})>>
    BY <2>1, <2>2 DEF Statement
  <2> QED BY <2>3, LockFields DEF Opened
<1>5. ~IsAsking(call[p].user)
  BY <1>1, <1>2, <1>4 DEF Doors, AskersOutside
<1> QED BY <1>2, <1>3, <1>5, Values DEF Present

Answered == \A p \in Procs : outcome[p] # "none" => phase[p] = "done"

\* Who has its answer does nothing more, and "error" is the answer of the last
\* attempt only.
LEMMA AnsweredStep ==
    ASSUME Doors, Opened, Answered, ErrorsAreConflicts, [Next]_vars
    PROVE  Answered' /\ ErrorsAreConflicts'
<1>1. CASE UNCHANGED vars
  BY <1>1 DEF vars, handler, Answered, ErrorsAreConflicts
<1>2. ASSUME NEW p \in Procs, Handler(p) PROVE Answered' /\ ErrorsAreConflicts'
  <2>1. /\ phase \in [Procs -> {"queued", "opening", "locking", "checked", "done"}]
        /\ outcome \in [Procs -> {"none", "ok", "refused", "error"}]
        /\ attempt \in [Procs -> 0..MaxRetries]
    BY DEF Doors, Locking, Shapes, TypeOK
  <2>2. phase[p] # "done"
    BY <1>2 DEF Handler, Connect, OpenStatement, SkipRow, LockRow, Commit, DeadlockDetected, CheckAccess,
              ReadOut
  <2>3. ASSUME NEW x \in {"ok", "refused"}, Answer(p, x), attempt' = attempt
        PROVE  Answered' /\ ErrorsAreConflicts'
    BY <2>1, <2>3 DEF Answer, Answered, ErrorsAreConflicts
  <2>4. ASSUME Conflict(p) PROVE Answered' /\ ErrorsAreConflicts'
    <3>1. CASE MayRetry(p)
      BY <2>1, <2>2, <2>4, <3>1 DEF Conflict, Answered, ErrorsAreConflicts
    <3>2. CASE ~MayRetry(p)
      <4>1. attempt[p] = MaxRetries
        BY <2>1, <3>2, HandlersAssumption DEF MayRetry
      <4> QED BY <2>1, <2>2, <2>4, <3>2, <4>1 DEF Conflict, Answer, Answered, ErrorsAreConflicts
    <3> QED BY <3>1, <3>2
  <2>5. ASSUME outcome' = outcome, attempt' = attempt, NEW x, phase' = [phase EXCEPT ![p] = x]
        PROVE  Answered' /\ ErrorsAreConflicts'
    BY <2>1, <2>2, <2>5 DEF Answered, ErrorsAreConflicts
  <2>6. ASSUME UNCHANGED <<outcome, attempt, phase>>
        PROVE  Answered' /\ ErrorsAreConflicts'
    BY <2>6 DEF Answered, ErrorsAreConflicts
  <2>7. CASE Connect(p)
    BY <2>5, <2>7 DEF Connect
  <2>8. CASE OpenStatement(p)
    BY <2>3, <2>5, <2>6, <2>8 DEF OpenStatement
  <2>14. ASSUME NEW locks, NEW lacking, Pass(p, locks, lacking), attempt' = attempt
         PROVE  Answered' /\ ErrorsAreConflicts'
    BY <2>3, <2>5, <2>6, <2>14 DEF Pass
  <2>15. CASE SkipRow(p)
    BY <2>14, <2>15 DEF SkipRow
  <2>9. CASE LockRow(p)
    <3>1. CASE Conflict(p)
      BY <2>4, <3>1
    <3>2. CASE Wanted(p).row \notin stale[p] /\ Value(Wanted(p).row) \notin Wanted(p).ok
               /\ Answer(p, Refusal(p))
      <4>1. Answer(p, Refusal(p)) /\ attempt' = attempt /\ phase[p] = "locking"
        BY <2>9, <3>2 DEF LockRow
      <4>2. Refusal(p) = "refused"
        BY <3>2, <4>1, InsertSucceeds
      <4> QED BY <2>3, <4>1, <4>2
    <3>3. CASE attempt' = attempt /\ \E locks, lacking : Pass(p, locks, lacking)
      BY <2>14, <3>3
    <3> QED BY <2>9, <3>1, <3>2, <3>3 DEF LockRow
  <2>10. CASE Commit(p)
    BY <2>3, <2>10 DEF Commit
  <2>11. CASE DeadlockDetected(p)
    BY <2>4, <2>11 DEF DeadlockDetected
  <2>12. CASE CheckAccess(p)
    BY <2>1, <2>2, <2>12 DEF CheckAccess, Answered, ErrorsAreConflicts
  <2>13. CASE ReadOut(p)
    BY <2>1, <2>2, <2>13 DEF ReadOut, Answered, ErrorsAreConflicts
  <2> QED BY <1>2, <2>7, <2>8, <2>9, <2>10, <2>11, <2>12, <2>13, <2>15 DEF Handler
<1> QED BY <1>1, <1>2 DEF Next

\* It is so in every reachable state.
LEMMA OpenedHolds == Spec => []Opened
<1>1. Init => Opened
  BY DEF Init, Opened
<1>2. Locking /\ Opened /\ [Next]_vars => Opened'
  BY OpenedStep DEF Locking
<1> QED BY <1>1, <1>2, LockingHolds, PTL DEF Spec

\* A request that fails has been through all its retries: no unique index and
\* no other unexpected error reaches the client (groups.ts 40-81).
THEOREM OnlyConflictsFail == Spec => []ErrorsAreConflicts
<1>1. Init => Answered /\ ErrorsAreConflicts
  BY DEF Init, Answered, ErrorsAreConflicts
<1>2. Doors /\ Opened /\ Answered /\ ErrorsAreConflicts /\ [Next]_vars
      => Answered' /\ ErrorsAreConflicts'
  BY AnsweredStep
<1> QED BY <1>1, <1>2, DoorsHold, OpenedHolds, PTL DEF Spec

----------------------------------------------------------------------------
(* Deadlocks *)

\* A lock that q holds comes from a row of its script that it has passed, and
\* q no longer stands at its first row.
LEMMA HeldRule ==
    ASSUME Locking, NEW q \in Procs, NEW k \in held[q], phase[q] = "locking"
    PROVE  \E s, i, x :
              /\ RowRule(call[q], s, i, x) /\ k.row = x.row /\ k.mode = x.mode
              /\ x = RowAt(q, s, i)
              /\ x.mode # "read" => Value(k.row) \in x.ok \/ s = at[q].stmt
              /\ s \in DOMAIN Scripts[call[q]] /\ i \in DOMAIN Scripts[call[q]][s]
              /\ s \in Nat \ {0} /\ i \in Nat \ {0} /\ Passed(q, s, i)
<1>1. PICK s \in DOMAIN Scripts[call[q]] : \E i \in DOMAIN Scripts[call[q]][s] :
         Passed(q, s, i) /\ k = LockOf(RowAt(q, s, i))
  BY DEF Locking, HeldByScript
<1>2. PICK i \in DOMAIN Scripts[call[q]][s] :
         Passed(q, s, i) /\ k = LockOf(RowAt(q, s, i))
  BY <1>1
<1>3. Active(q) /\ ScriptOK(Scripts[call[q]])
  BY WantedOK DEF Active, Locking
<1>4. s \in Nat \ {0} /\ i \in Nat \ {0}
  BY <1>2, <1>3 DEF ScriptOK, StatementOK
<1>5. RowRule(call[q], s, i, RowAt(q, s, i))
  BY <1>3, Rules DEF Locking
<1>6. k.row = RowAt(q, s, i).row /\ k.mode = RowAt(q, s, i).mode
  BY <1>2 DEF LockOf
<1>7. RowAt(q, s, i).mode # "read" => Value(k.row) \in RowAt(q, s, i).ok \/ s = at[q].stmt
  BY <1>2, <1>3, <1>6 DEF Locking, RowsKept, Kept, Lacks
<1> QED BY <1>2, <1>4, <1>5, <1>6, <1>7

\* A handler that has passed a row is no longer at its first one.
LEMMA PastFirst ==
    ASSUME Shapes, NEW q \in Procs, phase[q] = "locking",
           NEW s \in Nat \ {0}, NEW i \in Nat \ {0}, Passed(q, s, i)
    PROVE  /\ at[q].stmt \in Nat /\ s <= at[q].stmt
           /\ ~(at[q].stmt = 1 /\ at[q].row = 1)
  BY WantedOK DEF Passed, Active

\* how far a waiting handler is from the rows that everyone locks last
Level(p) ==
    IF Wanted(p).mode = "update" /\ Wanted(p).row[1] \in {"group", "reader"} THEN 4
    ELSE IF Wanted(p).mode = "no-key-update" /\ Wanted(p).row[1] = "member" THEN 3
    ELSE IF Wanted(p).row[1] = "reader" THEN 2
    ELSE IF call[p].kind \in {"ask", "handle"} THEN 0 ELSE 1

\* A message that waits for rows it references waits for an account.
LEMMA MessageWaits ==
    ASSUME Locking, NEW q \in Procs, phase[q] = "locking", call[q].kind = "send",
           Passed(q, 4, 1), call[q].kind \notin DeviceKinds,
           NEW r \in Blockers(q), call[r].kind \notin DeviceKinds, phase[r] = "locking"
    PROVE  FALSE
<1>1. Active(q) /\ Shapes /\ r \in Procs
  BY DEF Active, Locking, Blockers, Holders, Shapes
<1>2. Len(Scripts[call[q]]) = 4
  <2>1. Scripts[call[q]] = SendScript(call[q])
    BY <1>1, ScriptOf DEF Script
  <2>2. ASSUME NEW a, NEW b, NEW c, NEW d PROVE Len(<<a, b, c, d>>) = 4
    OBVIOUS
  <2> QED BY <2>1, <2>2 DEF SendScript
<1>3. at[q].stmt = 4 /\ at[q].row > 1
  <2>1. at[q].stmt \in 1..Len(Scripts[call[q]])
    BY <1>1, WantedOK
  <2>2. at[q].stmt <= 4
    BY <1>2, <2>1
  <2> QED BY <2>1, <2>2 DEF Passed
<1>4. RowRule(call[q], at[q].stmt, at[q].row, Wanted(q))
  BY <1>1, WantedRule
<1>5. Wanted(q).row[1] \in {"conversation", "user"} /\ Wanted(q).mode \in {"share", "key-share"}
      /\ (Wanted(q).row[1] = "user" => Wanted(q).mode = "key-share")
  BY <1>3, <1>4 DEF RowRule
<1>6. PICK k \in held[r] : k.row = Wanted(q).row /\ k.mode \in Excludes[Wanted(q).mode]
  BY DEF Blockers, Holders
<1>7. PICK s, i, x : RowRule(call[r], s, i, x) /\ k.row = x.row /\ k.mode = x.mode
  BY <1>1, <1>6, HeldRule
<1>8. k.mode \in {"share", "key-share"}
  BY <1>5, <1>6, <1>7 DEF RowRule
<1> QED BY <1>5, <1>6, <1>8 DEF Excludes, LockModes

\* Among the controls of a circle, whoever is waited for and itself waits is
\* on a lower level.
LEMMA LevelsFall ==
    ASSUME Doors, Opened,
           NEW p \in Procs, phase[p] = "locking", call[p].kind \notin DeviceKinds,
           NEW q \in Blockers(p), phase[q] = "locking", call[q].kind \notin DeviceKinds,
           NEW r \in Blockers(q), phase[r] = "locking", call[r].kind \notin DeviceKinds
    PROVE  Level(q) < Level(p)
<1> DEFINE w == Wanted(p)
           v == Wanted(q)
<1>1. Locking /\ Shapes /\ q \in Procs /\ q # p /\ Active(p) /\ Active(q)
  BY DEF Doors, Locking, Blockers, Holders, Shapes, Active
<1>2. PICK k \in held[q] : k.row = w.row /\ k.mode \in Excludes[w.mode]
  BY DEF Blockers, Holders
<1>3. PICK s, i, x :
          /\ RowRule(call[q], s, i, x) /\ k.row = x.row /\ k.mode = x.mode
          /\ x = RowAt(q, s, i)
          /\ x.mode # "read" => Value(k.row) \in x.ok \/ s = at[q].stmt
          /\ s \in DOMAIN Scripts[call[q]] /\ i \in DOMAIN Scripts[call[q]][s]
          /\ s \in Nat \ {0} /\ i \in Nat \ {0} /\ Passed(q, s, i)
  BY <1>1, <1>2, HeldRule
<1>4. RowRule(call[p], at[p].stmt, at[p].row, w) /\ LockOK(w)
      /\ RowRule(call[q], at[q].stmt, at[q].row, v)
  BY <1>1, WantedRule
<1>5. at[q].stmt \in Nat /\ s <= at[q].stmt /\ ~(at[q].stmt = 1 /\ at[q].row = 1)
  BY <1>1, <1>3, PastFirst
<1> HIDE DEF w, v
<1>6. ~(v.mode = "update" /\ v.row[1] \in {"group", "reader"})
  BY <1>4, <1>5 DEF RowRule
<1>7. /\ Level(q) \in 0..3 /\ Level(p) \in 0..4
      /\ Level(q) = 3 => call[q].kind = "role"
      /\ Level(q) = 2 => call[q].kind \in {"send", "read"}
      /\ call[q].kind \in {"ask", "handle"} => Level(q) = 0
      /\ Level(p) = 0 => call[p].kind \in {"ask", "handle"}
  BY <1>4, <1>6 DEF Level, RowRule, w, v
<1>8. call[p].kind \in {"ask", "handle"} /\ call[q].kind \in {"ask", "handle"} /\ s > 1
      => at[p].stmt = 1
  <2> SUFFICES ASSUME call[p].kind \in {"ask", "handle"}, call[q].kind \in {"ask", "handle"},
                      s > 1, at[p].stmt # 1
               PROVE  FALSE
    OBVIOUS
  <2>1. at[p].stmt > 1 /\ at[q].stmt > 1
    BY <1>1, <1>3, <1>5, WantedOK
  <2>2. HoldsCircle(p) /\ HoldsCircle(q)
    BY <1>1, <2>1, AskHasCircle DEF Locking
  <2> QED BY <1>1, <2>2, OneAtTheDoor
<1>9. ~(x.row[1] = "member" /\ x.mode = "no-key-update")
  <2> SUFFICES ASSUME x.row[1] = "member", x.mode = "no-key-update" PROVE FALSE
    OBVIOUS
  <2>1. call[q].kind = "role" /\ s = 2
    BY <1>3 DEF RowRule
  <2>2. /\ Len(Scripts[call[q]]) = 2
        /\ \E l : Scripts[call[q]][2] = <<l>>
    BY <1>1, <2>1, RoleStatement
  <2>3. at[q].stmt = 2 /\ at[q].row = 1
    <3>1. at[q].stmt \in 1..Len(Scripts[call[q]]) /\ at[q].row \in 1..Len(Statement(q))
      BY <1>1, WantedOK
    <3>2. at[q].stmt = 2
      BY <1>5, <2>1, <2>2, <3>1
    <3>3. Len(Statement(q)) = 1
      BY <2>2, <3>2 DEF Statement
    <3> QED BY <3>1, <3>2, <3>3
  <2>4. i = 1
    BY <1>3, <2>1, <2>2
  <2> QED BY <1>3, <2>1, <2>3, <2>4 DEF Passed
<1>10. CASE w.row[1] = "group"
  <2>1. CASE w.mode = "update"
    BY <1>7, <1>10, <2>1 DEF Level, w
  <2>2. CASE w.mode \in {"share", "key-share"}
    <3>1. k.mode = "update" /\ call[q].kind \in {"ask", "handle"} /\ k.row = Circle
      BY <1>2, <1>3, <1>4, <1>10, <2>2 DEF RowRule, Excludes, LockModes
    <3>2. ASSUME call[p].kind \in {"ask", "handle"} PROVE FALSE
      <4>1. at[p].stmt > 1
        <5>1. LockGroup.mode = "update"
          BY LockFields DEF LockGroup
        <5> QED BY <1>1, <1>4, <2>2, <3>2, <5>1, WantedOK DEF RowRule
      <4>2. HoldsCircle(p)
        BY <1>1, <3>2, <4>1, AskHasCircle DEF Locking
      <4>3. \A l \in held[p] : l.row = k.row => l.mode \notin Excludes[k.mode]
        BY <1>1, <1>2 DEF Locking, Exclusive
      <4> QED BY <3>1, <4>2, <4>3 DEF HoldsCircle, Excludes, LockModes
    <3> QED BY <1>7, <3>1, <3>2
  <2> QED BY <1>4, <1>10, <2>1, <2>2 DEF RowRule
<1>11. CASE w.row[1] = "member"
  <2>1. x.row[1] = "member"
    BY <1>2, <1>3, <1>11
  <2>2. CASE w.mode = "share"
    BY <1>2, <1>3, <1>9, <2>1, <2>2 DEF RowRule, Excludes, LockModes
  <2>3. CASE w.mode = "no-key-update"
    <3>1. Level(p) = 3 /\ call[p].kind = "role" /\ at[p].stmt = 2 /\ w.row = Member(call[p].member)
      BY <1>4, <1>11, <2>3 DEF Level, RowRule, w
    <3>2. x.mode = "share"
      BY <1>2, <1>3, <1>9, <2>1, <2>3 DEF RowRule, Excludes, LockModes
    <3>3. call[q].kind # "role"
      <4> SUFFICES ASSUME call[q].kind = "role" PROVE FALSE
        OBVIOUS
      <4>1. x.ok = {"owner"}
        BY <1>3, <2>1, <3>2 DEF RowRule
      <4>3. s # at[q].stmt
        <5>1. s = 1 /\ i = 2
          <6>1. /\ DOMAIN Scripts[call[q]] = 1..2 /\ DOMAIN Scripts[call[q]][1] = 1..2
                /\ Scripts[call[q]][1][1].row = Circle
                /\ \E l : l.mode = "no-key-update" /\ Scripts[call[q]][2] = <<l>>
            BY <1>1, RoleStatement, LockFields
          <6>2. s # 2
            BY <1>3, <3>2, <6>1 DEF RowAt
          <6>3. s = 1
            BY <1>3, <6>1, <6>2
          <6>4. x.row[1] # Circle[1]
            BY <2>1, Tags
          <6>5. i # 1
            BY <1>3, <6>1, <6>3, <6>4 DEF RowAt
          <6> QED BY <1>3, <6>1, <6>3, <6>5
        <5>2. at[q].stmt = 1 => at[q].row \in 1..2
          BY <1>1, RoleStatement, WantedOK DEF Statement
        <5> QED BY <1>3, <5>1, <5>2 DEF Passed
      <4>2. Value(Member(call[p].member)) = "owner"
        BY <1>2, <1>3, <3>1, <3>2, <4>1, <4>3
      <4> QED BY <3>1, <4>2, Values DEF Opened
    <3> QED BY <1>7, <3>1, <3>3
  <2>4. CASE w.mode = "insert"
    <3>1. call[p].kind = "handle" /\ at[p].stmt = 4
      BY <1>4, <1>11, <2>4 DEF RowRule
    <3>2. call[q].kind = "handle" /\ s = 4
      BY <1>2, <1>3, <2>1, <2>4 DEF RowRule, Excludes, LockModes
    <3> QED BY <1>8, <3>1, <3>2
  <2>5. CASE w.mode = "read"
    BY <1>2, <2>5 DEF Excludes, LockModes
  <2> QED BY <1>4, <1>11, <2>2, <2>3, <2>4, <2>5 DEF RowRule
<1>12. CASE w.row[1] = "request"
  BY <1>2, <1>3, <1>4, <1>8, <1>12 DEF RowRule
<1>13. CASE w.row[1] = "asking"
  BY <1>2, <1>3, <1>4, <1>8, <1>13 DEF RowRule
<1>14. CASE w.row[1] = "conversation"
  BY <1>2, <1>3, <1>4, <1>14 DEF RowRule, Excludes, LockModes
<1>15. CASE w.row[1] = "reader"
  <2>1. CASE w.mode = "update"
    BY <1>7, <1>15, <2>1 DEF Level, w
  <2>2. CASE w.mode = "share"
    <3>1. Level(p) = 2
      BY <1>15, <2>2 DEF Level, w
    <3>2. call[q].kind = "read"
      BY <1>2, <1>3, <1>15, <2>2 DEF RowRule, Excludes, LockModes
    <3>3. Level(q) # 2
      <4>1. v.row[1] # "reader"
        BY <1>4, <1>6, <3>2 DEF RowRule
      <4> QED BY <4>1 DEF Level, v
    <3> QED BY <1>7, <3>1, <3>2, <3>3
  <2> QED BY <1>4, <1>15, <2>1, <2>2 DEF RowRule
<1>16. CASE w.row[1] = "user"
  BY <1>2, <1>3, <1>4, <1>16 DEF RowRule, Excludes, LockModes
<1>17. CASE w.row[1] \in {"key", "device"}
  BY <1>2, <1>3, <1>4, <1>17 DEF RowRule, Excludes, LockModes
<1>18. CASE w.row[1] = "message"
  <2>1. call[q].kind = "send" /\ s = 4 /\ i = 1
    BY <1>2, <1>3, <1>18 DEF RowRule
  <2> QED BY <1>1, <1>3, <2>1, MessageWaits
<1> QED BY <1>4, <1>10, <1>11, <1>12, <1>13, <1>14, <1>15, <1>16, <1>17, <1>18 DEF RowRule

\* From a waiter in a cycle one goes on to a waiter in the same cycle.
LEMMA CyclesGoOn ==
    ASSUME NEW waits, \A x \in DOMAIN waits : waits[x] \subseteq DOMAIN waits \ {x},
           NEW p \in Deadlocked(waits)
    PROVE  \E q \in waits[p] : q \in Deadlocked(waits)
<1> DEFINE procs == DOMAIN waits
           Closed(x, set) == waits[x] \subseteq set /\ \A q \in set : waits[q] \subseteq set
           From(x) == {y \in procs : \A set \in SUBSET procs : Closed(x, set) => y \in set}
<1>1. Deadlocked(waits) = {x \in procs : waits[x] # {} /\ x \in From(x)}
  BY DEF Deadlocked
<1>2. \A x \in procs : Closed(x, From(x))
  BY DEF Closed
<1>3. \A x, y \in procs : y \in From(x) => waits[y] \subseteq From(x)
  BY <1>2
<1> DEFINE all == waits[p] \cup UNION {From(q) : q \in waits[p]}
<1>4. p \in procs /\ p \in From(p)
  BY <1>1
<1>5. all \in SUBSET procs /\ Closed(p, all)
  <2>1. all \subseteq procs
    BY <1>4
  <2>2. \A q \in all : waits[q] \subseteq all
    <3> SUFFICES ASSUME NEW q \in all PROVE waits[q] \subseteq all
      OBVIOUS
    <3>1. CASE q \in waits[p]
      <4>1. waits[q] \subseteq From(q)
        BY <1>2, <2>1
      <4> QED BY <3>1, <4>1
    <3>2. CASE \E r \in waits[p] : q \in From(r)
      <4>1. PICK r \in waits[p] : q \in From(r)
        BY <3>2
      <4>2. waits[q] \subseteq From(r)
        BY <1>3, <1>4, <2>1, <4>1
      <4> QED BY <4>1, <4>2
    <3> QED BY <3>1, <3>2
  <2> QED BY <2>1, <2>2
<1>6. p \in all
  BY <1>4, <1>5
<1>7. PICK q \in waits[p] : p \in From(q)
  BY <1>4, <1>6
<1>8. q \in procs /\ q \in From(q)
  BY <1>3, <1>4, <1>7
<1>9. waits[q] # {}
  <2> SUFFICES ASSUME waits[q] = {} PROVE FALSE
    OBVIOUS
  <2>1. Closed(q, {})
    OBVIOUS
  <2> QED BY <1>7, <2>1
<1> QED BY <1>1, <1>7, <1>8, <1>9

\* The controls of a circle lock their rows in one order, whoever runs beside
\* them: a cycle of waiting transactions always has a publication or a
\* revocation in it (acl.ts 87-298, 347).
THEOREM OneOrder == Spec => []CircleOrderIsStable
<1>1. Doors /\ Opened => CircleOrderIsStable
  <2> DEFINE waits == [p \in Procs |-> Blockers(p)]
             waiting == Deadlocked(waits)
  <2> SUFFICES ASSUME Doors, Opened, NEW first \in waiting,
                      \A p \in waiting : call[p].kind \notin DeviceKinds
               PROVE  FALSE
    BY DEF CircleOrderIsStable
  <2>1. \A p \in Procs : Blockers(p) \subseteq Procs \ {p}
    BY DEF Blockers, Holders, Doors, Locking, Shapes
  <2>2. \A p \in waiting : p \in Procs /\ waits[p] = Blockers(p) /\ phase[p] = "locking"
    BY DEF Deadlocked, Blockers
  <2>3. \A p \in waiting : \E q \in Blockers(p) : q \in waiting
    <3>1. \A x \in DOMAIN waits : waits[x] \subseteq DOMAIN waits \ {x}
      BY <2>1
    <3> HIDE DEF waits
    <3> QED BY <2>2, <3>1, CyclesGoOn
  <2> HIDE DEF waits, waiting
  <2>4. \A p \in waiting : \E q \in waiting : Level(q) < Level(p)
    <3> SUFFICES ASSUME NEW p \in waiting PROVE \E q \in waiting : Level(q) < Level(p)
      OBVIOUS
    <3>1. PICK q \in Blockers(p) : q \in waiting
      BY <2>3
    <3>2. PICK r \in Blockers(q) : r \in waiting
      BY <2>3, <3>1
    <3> QED BY <2>2, <3>1, <3>2, LevelsFall
  <2>5. \A p \in waiting : Level(p) \in 0..4
    BY DEF Level
  <2>6. \A p \in waiting : Level(p) # 0
    BY <2>4, <2>5
  <2>7. \A p \in waiting : Level(p) # 1
    BY <2>4, <2>5, <2>6
  <2>8. \A p \in waiting : Level(p) # 2
    BY <2>4, <2>5, <2>6, <2>7
  <2>9. \A p \in waiting : Level(p) # 3
    BY <2>4, <2>5, <2>6, <2>7, <2>8
  <2> QED BY <2>4, <2>5, <2>6, <2>7, <2>8, <2>9
<1> QED BY <1>1, DoorsHold, OpenedHolds, PTL
=============================================================================
