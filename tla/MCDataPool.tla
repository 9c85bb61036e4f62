----------------------------- MODULE MCDataPool -----------------------------
(* The data pool, with and without faults: three uids in two hours.  The     *)
(* bounds on errors, crashes and clears choose which faults a run allows.    *)
EXTENDS DataPoolFaults, TLC

CONSTANTS u1, u2, u3

MCHourOf == u1 :> 1 @@ u2 :> 1 @@ u3 :> 2

\* Every record class and two payloads, in batches of one record and the pairs
\* of distinct uids.  Payload 1 is what a first scan reports, 2 a correction.
MCBatches ==
    LET one == [uid : Uids, class : Classes, val : Vals]
    IN  {<<r>> : r \in one} \cup {p \in one \X one : p[1].uid # p[2].uid /\ p[1].val = p[2].val}

Off(u, v)  == [uid |-> u, class |-> "official",  val |-> v]
Calc(u, v) == [uid |-> u, class |-> "calculate", val |-> v]

\* What the Antigravity collector hands over when it has fetched a session twice
\* before its batch is taken.
MCFetchedTwice == {<<Off(u1, 1), Off(u1, 1)>>}

\* For the runs with faults: first reports, a correction, an upgrade, and
\* batches over one and two hours.
MCFaultBatches == { <<Off(u1, 1)>>, <<Calc(u1, 1)>>, <<Calc(u1, 2), Calc(u2, 1)>>,
                    <<Calc(u3, 1), Off(u2, 1)>> }
=============================================================================
