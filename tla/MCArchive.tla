----------------------------- MODULE MCArchive -----------------------------
(* A calendar of three-hour days, two-day weeks and months: two records in   *)
(* one hour, one in the day's other hour, one in the next day, and a clock   *)
(* that runs until both days are monthly.                                    *)
EXTENDS Archive

CONSTANTS u1, u2, u3, u4

MCHourOf == u1 :> 1 @@ u2 :> 1 @@ u3 :> 2 @@ u4 :> 4

\* Two sources, models and projects; one project is a conversation without title.
MCLogOf ==
    u1 :> [source |-> "claude", model |-> "opus", project |-> "p",  name |-> "none"] @@
    u2 :> [source |-> "codex",  model |-> "gpt",  project |-> "id", name |-> "none"] @@
    u3 :> [source |-> "claude", model |-> "gpt",  project |-> "id", name |-> "dir"]  @@
    u4 :> [source |-> "claude", model |-> "opus", project |-> "q",  name |-> "none"]

Calc(u, v) == [uid |-> u, class |-> "calculate", val |-> v]
Off(u, v)  == [uid |-> u, class |-> "official",  val |-> v]

\* The first hour's records together or one late, an upgrade, the other hours.
MCBatches == { <<Calc(u1, 1)>>, <<Calc(u1, 1), Off(u2, 2)>>, <<Off(u1, 2)>>, <<Off(u3, 4)>>,
               <<Off(u4, 3)>> }

MCTitles == [p \in {} |-> p]
=============================================================================
