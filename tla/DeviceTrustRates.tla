-------------------------- MODULE DeviceTrustRates --------------------------
(***************************************************************************)
(* DeviceTrust with a history variable: every challenge ever issued, in    *)
(* order, by table.  The handlers count the rows of tables they purge      *)
(* themselves, so the rate is stated about issues, not about rows.         *)
(***************************************************************************)
EXTENDS DeviceTrust, Sequences

VARIABLE issued    \* [Tables -> <<[subject : Devices, at : time], ...>>]

rateVars == <<vars, issued>>

Tables == {"registration", "approval"}

Ids(x) == IF x = "registration" THEN RegIds ELSE ApprIds

Table(x) == IF x = "registration" THEN regs ELSE approvals

\* whom the per-subject limit counts: the device itself, or the target
Subject(x, c) == IF x = "registration" THEN c.device ELSE c.target

RateInit == Init /\ issued = [x \in Tables |-> <<>>]

\* the rows a step inserts: one at most
Inserted(x) ==
    {i \in Ids(x) : Table(x)[i] = NoChallenge /\ Open(Table(x)'[i])}

Logged(x) ==
    IF Inserted(x) = {} THEN issued[x]
    ELSE LET i == CHOOSE j \in Inserted(x) : TRUE
         IN  Append(issued[x], [subject |-> Subject(x, Table(x)'[i]),
                                at |-> now])

RateNext == Next /\ issued' = [x \in Tables |-> Logged(x)]

RateSpec == RateInit /\ [][RateNext]_rateVars

\* the issues of table x in the window that closes with the n-th one
InWindow(x, n) ==
    {m \in 1..n : issued[x][m].at + Window > issued[x][n].at}

\* In no window, wherever it starts, does the account get more registration or
\* approval challenges than the account and per-subject limits allow, although
\* the rows that are counted expire and are superseded, answered and purged
\* meanwhile (account.devices.ts 206-246, account.deviceApprovals.ts 198-239).
ChallengeRate ==
    \A x \in Tables : \A n \in DOMAIN issued[x] :
        /\ Cardinality(InWindow(x, n)) <= MaxPerAccount
        /\ Cardinality({m \in InWindow(x, n) :
                          issued[x][m].subject = issued[x][n].subject})
              <= MaxPerSubject

\* No table ever holds more challenges that could still be answered than
\* allowed, although the challenge that is about to be superseded is not
\* counted before the insert (outstanding_count in both handlers).
OutstandingBounded ==
    \A x \in Tables :
        Cardinality({i \in Ids(x) : Outstanding(Table(x)[i])}) <= MaxOutstanding
=============================================================================
