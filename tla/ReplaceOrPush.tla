---------------------------- MODULE ReplaceOrPush ----------------------------
(***************************************************************************)
(* What the data pool promises its callers, as the rules at the head of    *)
(* crates/tp-pool/src/replace.rs and its decision table state it: at most  *)
(* one record per uid; a record that is offered becomes the record of its  *)
(* uid, unless it is a calculated one and an official one is there.        *)
(***************************************************************************)
CONSTANTS Uids, Vals

Classes == {"official", "calculate"}
Record  == [uid : Uids, class : Classes, val : Vals]

NoRecord == [class |-> "none"]

VARIABLE store \* uid -> the record kept for it

Init == store = [u \in Uids |-> NoRecord]

\* Rule 3: calculate does not replace official.
Yields(r) == r.class = "calculate" /\ store[r.uid].class = "official"

Accept(r) ==
    /\ ~Yields(r)
    /\ store' = [store EXCEPT ![r.uid] = r]

Next == \E r \in Record : Accept(r)

Spec == Init /\ [][Next]_store

\* Once an official record is kept for a uid, one is kept for ever, and a
\* uid that has a record never loses it.
KeepsOfficial ==
    \A u \in Uids : /\ store[u].class = "official" => store'[u].class = "official"
                    /\ store[u].class # "none"     => store'[u].class # "none"

OfficialKept == [][KeepsOfficial]_store
==============================================================================
