----------------------------- MODULE MCDataShow -----------------------------
(* Pool, cache and view together: one uid in each of two hours. *)
EXTENDS DataShow, TLC

CONSTANTS u1, u2

MCHourOf == u1 :> 1 @@ u2 :> 2

Calc(u, v) == [uid |-> u, class |-> "calculate", val |-> v]
Off(u, v)  == [uid |-> u, class |-> "official",  val |-> v]

\* A new hour, an upgrade of its record (or, the other way round, a record that
\* is skipped), and another new hour.
MCBatches == { <<Calc(u1, 1)>>, <<Off(u1, 2)>>, <<Calc(u2, 1)>> }

\* For the commands: an hour that is pushed, and pushed again.
MCOneHour == u1 :> 1
MCRepeats == { <<Calc(u1, 1)>> }

\* One command, a Refresh or a Rebuild. A push that is the second beside a Rebuild
\* comes when the Rebuild is over.
OneCommand ==
    /\ refreshes + clears <= 1
    /\ pushes = 2 /\ clears = 1 => cmdPc = "idle"
=============================================================================
