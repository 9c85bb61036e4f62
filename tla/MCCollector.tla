----------------------------- MODULE MCCollector -----------------------------
(* A source of every kind: an Antigravity session of two calls, the second of *)
(* which names no step, or a file of three lines.                             *)
EXTENDS Collector

CONSTANTS s1

MCUnindexed == {<<s1, 2>>}

MCLine == s1 :> << [kind |-> "usage", size |-> 2], [kind |-> "planner", size |-> 1] >>

\* A message whose usage grows, with a sidechain's copy of it.
MCClaudeScript ==
    << [key |-> "m1", side |-> TRUE,  total |-> 3, speed |-> FALSE],
       [key |-> "m1", side |-> FALSE, total |-> 1, speed |-> FALSE],
       [key |-> "m1", side |-> FALSE, total |-> 2, speed |-> FALSE] >>

\* Two running totals and a call reported by itself between them.
MCCodexScript ==
    << [total |-> 2, last |-> 0], [total |-> 5, last |-> 3], [total |-> 6, last |-> 0] >>
=============================================================================
