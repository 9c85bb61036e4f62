---------------------------- MODULE SessionFiles ----------------------------
(* The collectors that read a tool's session files anew in every collection: *)
(* Claude Code (plugins/tp-collector-claude/src/lib.rs), which keeps one     *)
(* entry of a message, and Codex (plugins/tp-collector-codex/src/lib.rs),    *)
(* which turns running totals into amounts.  One file of one project, whose  *)
(* records are told apart by their timestamps, as the pool does.             *)
EXTENDS Integers, Sequences, FiniteSetsExt, SequencesExt

CONSTANTS
    Script,     \* what the tool will write, line by line (see the two readers)
    Never       \* last_collected before the first collection

\* A variation of FromSince, leaving out what is stamped with since itself: ReadOrSlipped.
AfterSince(time, since) == since = Never \/ time > since

\* A line is left out when it is older than `since` (None in a full collection).
FromSince(time, since) == since = Never \/ time >= since

\* The numbers of the lines of a file that a collection loads; the i-th line
\* carries the timestamp stamps[i].
Loaded(stamps, since) == {i \in 1..Len(stamps) : FromSince(stamps[i], since)}

FileLog(i, time, amount) == [i |-> i, uid |-> time, amount |-> amount]

-----------------------------------------------------------------------------
(* Claude Code: Script[i] = [key, side, total, speed], key being message id  *)
(* and request id (a line without a message id has a key of its own), side   *)
(* the sidechain flag and total what input and output add up to.             *)

ShouldReplace(c, e) ==
    \/ e.side /\ ~ c.side
    \/ c.side = e.side /\ c.total > e.total
    \/ c.side = e.side /\ c.total = e.total /\ c.speed /\ ~ e.speed

\* The line kept of a message after those in `lines`, in the file's order (0: none).
Kept(lines, key) ==
    LET upTo[i \in 0..Len(Script)] ==
            IF i = 0 THEN 0
            ELSE IF i \in lines /\ Script[i].key = key
                    /\ (upTo[i - 1] = 0 \/ ShouldReplace(Script[i], Script[upTo[i - 1]]))
                 THEN i ELSE upTo[i - 1]
    IN  upTo[Len(Script)]

ClaudeLogs(stamps, since) ==
    LET lines == Loaded(stamps, since)
        kept  == {Kept(lines, Script[i].key) : i \in lines}
    IN  {FileLog(i, stamps[i], Script[i].total) : i \in kept}

-----------------------------------------------------------------------------
(* Codex: Script[i] = [total, last], the running total of the session (0:    *)
(* not given) and the usage of the last call (0: not given).                 *)

Less(a, b) == IF a > b THEN a - b ELSE 0

\* The total before line i is that of the last line that gives one, loaded or not.
TotalBefore(i) ==
    LET given == {k \in 1..i - 1 : Script[k].total > 0}
    IN  IF given = {} THEN 0 ELSE Script[Max(given)].total

\* A variation of CodexAmount, lines left out not counting for the difference either: CodexExact.
CodexAmountLoaded(i, lines) ==
    LET given == {k \in lines : k < i /\ Script[k].total > 0}
    IN  IF Script[i].last > 0 THEN Script[i].last
        ELSE Less(Script[i].total, IF given = {} THEN 0 ELSE Script[Max(given)].total)

CodexAmount(i, lines) ==
    IF Script[i].last > 0 THEN Script[i].last ELSE Less(Script[i].total, TotalBefore(i))

\* Lines without usage are passed over.
CodexLogs(stamps, since) ==
    LET lines == Loaded(stamps, since)
    IN  {FileLog(i, stamps[i], CodexAmount(i, lines)) :
            i \in {k \in lines : CodexAmount(k, lines) > 0}}
=============================================================================
