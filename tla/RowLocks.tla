------------------------------ MODULE RowLocks ------------------------------
(***************************************************************************)
(* PostgreSQL's row locks, as far as the Messaging transactions use them:  *)
(* which modes exclude one another, who waits for whom, and which waiters  *)
(* the deadlock detector may abort.                                        *)
(***************************************************************************)
EXTENDS FiniteSets

\* weakest first: the lock a foreign key takes on the row it references, FOR
\* SHARE, an UPDATE of other columns than the key, FOR UPDATE, and the entry
\* of a unique index that an INSERT claims.  "read" is a SELECT without lock.
LockModes == {"read", "key-share", "share", "no-key-update", "update", "insert"}

\* the modes another transaction may not hold on the row
Excludes ==
    [mode \in LockModes |->
       CASE mode = "read"          -> {}
         [] mode = "key-share"     -> {"update"}
         [] mode = "share"         -> {"no-key-update", "update"}
         [] mode = "no-key-update" -> {"share", "no-key-update", "update"}
         [] mode = "update"        -> LockModes \ {"read", "insert"}
         [] mode = "insert"        -> {"insert"}]

\* those who hold a lock that the wanted one excludes; held[q] is a set of
\* [row, mode] records
Holders(held, p, wanted) ==
    {q \in DOMAIN held \ {p} :
        \E l \in held[q] : l.row = wanted.row /\ l.mode \in Excludes[wanted.mode]}

\* waits[p] is the set p waits for; p is in a cycle when everything that can
\* be reached from p includes p
Deadlocked(waits) ==
    LET procs == DOMAIN waits
        Reaches(p) == \A reached \in SUBSET procs :
                         /\ waits[p] \subseteq reached
                         /\ \A q \in reached : waits[q] \subseteq reached
                         => p \in reached
    IN {p \in procs : waits[p] # {} /\ Reaches(p)}
=============================================================================
