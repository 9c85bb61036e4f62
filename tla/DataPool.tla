------------------------------ MODULE DataPool ------------------------------
(***************************************************************************)
(* The tiered record store of Token-Pulse (crates/tp-pool): the            *)
(* replace-or-push registry, the hourly JSONL files of the active tier,    *)
(* the metadata index and the two JSON files that persist them.  One task  *)
(* (the ingest task of src/main.rs) calls push_datalogs, one batch after   *)
(* another; readers run on other threads and see the store between any two *)
(* of its lock sections and file operations, so each of those is an action *)
(* of its own.                                                             *)
(*                                                                         *)
(* A file is the sequence of records read_hour would return, so a missing  *)
(* file is the empty sequence.                                             *)
(***************************************************************************)
EXTENDS Naturals, Sequences, FiniteSets

CONSTANTS
    Uids,      \* record identities: (source_project, source_datetime)
    Hours,     \* hour keys "YYYY-MM-DDTHH", as numbers in their order
    HourOf,    \* the hour key of a uid: hour_key() is a function of the time
    Vals,      \* token payloads
    Batches,   \* the batches of records collectors hand over
    MaxPushes, \* bound: how many batches are pushed
    ChanCap,   \* capacity of the notification broadcast (64 in the code)
    Torn       \* a JSON file cut short: loading it is an error

Classes == {"official", "calculate"}
Record  == [uid : Uids, class : Classes, val : Vals]

ASSUME HoursAssumption   == Hours \subseteq Nat
ASSUME HourOfAssumption  == HourOf \in [Uids -> Hours]
ASSUME BatchesAssumption == Batches \subseteq Seq(Record) \ {<<>>}
ASSUME BoundsAssumption  == MaxPushes \in Nat /\ ChanCap \in Nat \ {0}

Tiers == {"none", "active", "daily", "monthly"}
Meta  == [version : Nat, tier : [Hours -> Tiers], count : [Hours -> Nat]]
Registry == [Uids -> Classes \cup {"none"}]

EmptyMeta     == [version |-> 0, tier  |-> [h \in Hours |-> "none"],
                                 count |-> [h \in Hours |-> 0]]
EmptyRegistry == [u \in Uids |-> "none"]
NoFiles       == [h \in Hours |-> <<>>]

Notification == [type : {"meta"},   keys : SUBSET Hours]
           \cup [type : {"pushed"}, keys : SUBSET Hours]

VARIABLES
    files,        \* the active tier on disk: active/DATE/HH.jsonl by hour
    meta,         \* PoolMetadata in memory
    registry,     \* ReplaceOrPush.registry in memory
    diskMeta,     \* the metadata file
    diskRegistry, \* replace-registry.json
    pc,           \* where the push_datalogs call is
    todo,         \* its records not yet decided (the loop's rest)
    byHour,       \* its local by_hour: accepted records to be written
    affected,     \* its local affected_keys
    buf,          \* the logs replace_in_hour has read
    cur,          \* the (hour, number of records) written and not yet indexed
    chan,         \* notifications the subscriber has not received
    lagged,       \* the broadcast dropped some of them
    pushes        \* batches pushed so far

storeVars == <<files, meta, registry, diskMeta, diskRegistry>>
callVars  == <<pc, todo, byHour, affected, buf, cur>>
chanVars  == <<chan, lagged>>
poolVars  == <<files, meta, registry, diskMeta, diskRegistry, pc, todo, byHour,
               affected, buf, cur, chan, lagged, pushes>>

PcValues == {"idle", "apply", "register", "read", "create", "rewrite", "append",
             "index", "saveRegistry", "notify", "down"}

TypeOK ==
    /\ files \in [Hours -> Seq(Record)]
    /\ meta \in Meta
    /\ registry \in Registry
    /\ diskMeta \in Meta \cup {Torn}
    /\ diskRegistry \in Registry \cup {Torn}
    /\ pc \in PcValues
    /\ todo \in Seq(Record)
    /\ byHour \in [Hours -> Seq(Record)]
    /\ affected \subseteq Hours
    /\ buf \in Seq(Record)
    /\ cur \in [hour : Hours, count : Nat] \cup {<<>>}
    /\ chan \in Seq(Notification)
    /\ lagged \in BOOLEAN
    /\ pushes \in Nat
    /\ pc \in {"register", "read", "create", "rewrite", "append"} => todo # <<>>
    /\ pc = "index" => cur \in [hour : Hours, count : Nat]

Init ==
    /\ files = NoFiles
    /\ meta = EmptyMeta /\ registry = EmptyRegistry
    /\ diskMeta = EmptyMeta /\ diskRegistry = EmptyRegistry
    /\ pc = "idle" /\ todo = <<>> /\ byHour = NoFiles /\ affected = {}
    /\ buf = <<>> /\ cur = <<>>
    /\ chan = <<>> /\ lagged = FALSE /\ pushes = 0

-----------------------------------------------------------------------------
(* Helpers *)

\* A variation of Decision, without rule 3: ImplementsRules, OfficialStaysRegistered.
DecisionWithoutRule3(r) == IF registry[r.uid] = "none" THEN "push" ELSE "replace"

\* replace-or-push: what apply answers for a record.
Decision(r) ==
    CASE registry[r.uid] = "none"                                  -> "push"
      [] registry[r.uid] = "official" /\ r.class = "calculate"     -> "skip"
      [] OTHER                                                     -> "replace"

\* The positions at which a file holds a uid.
Holds(f, u) == {i \in DOMAIN f : f[i].uid = u}

\* replace_in_hour overwrites the first match only.
ReplaceFirst(f, r) ==
    LET first == CHOOSE i \in Holds(f, r.uid) : \A j \in Holds(f, r.uid) : i <= j
    IN  [f EXCEPT ![first] = r]

\* broadcast send: a full ring drops its oldest message and the receiver is told.
Send(n) ==
    IF Len(chan) < ChanCap
    THEN chan' = Append(chan, n) /\ UNCHANGED lagged
    ELSE chan' = Append(Tail(chan), n) /\ lagged' = TRUE

\* The record the loop is at, and its hour file.
Current  == Head(todo)
CurHour  == HourOf[Head(todo).uid]

\* Locals of the call dropped when it returns.
Return ==
    /\ pc' = "idle" /\ todo' = <<>> /\ byHour' = NoFiles /\ affected' = {}
    /\ buf' = <<>> /\ cur' = <<>>

-----------------------------------------------------------------------------
(* Variations: wrong versions of the definitions below, under the name of the *)
(* mistake.  No specification uses them; with one of them in place of the      *)
(* definition it varies, the property it names must fail.                      *)

\* ApplyPush, register forgotten: UniqueRecords.
ApplyPushUnregistered ==
    /\ pc = "apply" /\ todo # <<>> /\ Decision(Current) = "push"
    /\ byHour' = [byHour EXCEPT ![CurHour] = Append(@, Current)]
    /\ affected' = affected \cup {CurHour} /\ todo' = Tail(todo)
    /\ UNCHANGED <<storeVars, chanVars, pc, buf, cur, pushes>>

\* ApplyPush, calculated records registered only when they are replaced:
\* StoredIsRegistered.
ApplyPushOfficialOnly ==
    /\ pc = "apply" /\ todo # <<>> /\ Decision(Current) = "push"
    /\ byHour' = [byHour EXCEPT ![CurHour] = Append(@, Current)]
    /\ registry' = IF Current.class = "official"
                   THEN [registry EXCEPT ![Current.uid] = "official"] ELSE registry
    /\ affected' = affected \cup {CurHour} /\ todo' = Tail(todo)
    /\ UNCHANGED <<files, meta, diskMeta, diskRegistry, chanVars, pc, buf, cur, pushes>>

\* ApplyReplace, the loop's next record taken before the replace: TypeOK.
ApplyReplaceAdvances ==
    /\ pc = "apply" /\ todo # <<>> /\ Decision(Current) = "replace"
    /\ affected' = affected \cup {CurHour}
    /\ pc' = "read" /\ todo' = Tail(todo)
    /\ UNCHANGED <<storeVars, chanVars, byHour, buf, cur, pushes>>

\* Register, the class of the first record kept: RegistryMatchesStore.
RegisterKeepsClass ==
    /\ pc = "register" /\ todo' = Tail(todo) /\ pc' = "apply"
    /\ UNCHANGED <<storeVars, chanVars, byHour, affected, buf, cur, pushes>>

\* EnsureIndex, statistics taken for a new index entry only: IndexMatchesStore.
EnsureIndexCountsOnce ==
    /\ pc = "index" /\ pc' = "apply" /\ cur' = <<>>
    /\ IF meta.tier[cur.hour] = "none"
       THEN /\ meta' = [meta EXCEPT !.version = @ + 1, !.tier[cur.hour] = "active",
                                    !.count[cur.hour] = cur.count]
            /\ Send([type |-> "meta", keys |-> {cur.hour}])
       ELSE UNCHANGED <<meta, chanVars>>
    /\ UNCHANGED <<files, registry, diskMeta, diskRegistry, todo, byHour,
                   affected, buf, pushes>>

\* SaveMeta, the registry saved first: KnownIsIndexedOnDisk.
SaveRegistryFirst ==
    /\ pc = "apply" /\ todo = <<>> /\ byHour = NoFiles /\ pc' = "saveRegistry"
    /\ diskRegistry' = registry
    /\ UNCHANGED <<files, meta, registry, diskMeta, chanVars, todo, byHour,
                   affected, buf, cur, pushes>>

-----------------------------------------------------------------------------
(* push_datalogs, the loop over the batch *)

\* The ingest task takes a (non-empty) batch and calls push_datalogs.
PushBegin(b) ==
    /\ pc = "idle" /\ pushes < MaxPushes
    /\ pushes' = pushes + 1
    /\ pc' = "apply" /\ todo' = b
    /\ UNCHANGED <<storeVars, chanVars, byHour, affected, buf, cur>>

\* Decision Push: the record is queued for its hour and its uid registered.
\* apply and register are two lock sections; only clear_storage writes the
\* registry besides, and resetting it between the two leaves what resetting it
\* before apply leaves, so one step stands for both.
ApplyPush ==
    /\ pc = "apply" /\ todo # <<>> /\ Decision(Current) = "push"
    /\ byHour' = [byHour EXCEPT ![CurHour] = Append(@, Current)]
    /\ affected' = affected \cup {CurHour}
    /\ registry' = [registry EXCEPT ![Current.uid] = Current.class]
    /\ todo' = Tail(todo)
    /\ UNCHANGED <<files, meta, diskMeta, diskRegistry, chanVars, pc, buf, cur, pushes>>

\* Decision Replace: replace_in_hour is called at once.
ApplyReplace ==
    /\ pc = "apply" /\ todo # <<>> /\ Decision(Current) = "replace"
    /\ affected' = affected \cup {CurHour}
    /\ pc' = "read"
    /\ UNCHANGED <<storeVars, chanVars, todo, byHour, buf, cur, pushes>>

\* Decision Skip: an official record is not replaced by a calculated one.
ApplySkip ==
    /\ pc = "apply" /\ todo # <<>> /\ Decision(Current) = "skip"
    /\ todo' = Tail(todo)
    /\ UNCHANGED <<storeVars, chanVars, pc, byHour, affected, buf, cur, pushes>>

\* replace_in_hour reads the hour and looks for the uid.
ReplaceRead ==
    /\ pc = "read"
    /\ buf' = files[CurHour]
    /\ pc' = IF Holds(files[CurHour], Current.uid) # {} THEN "create" ELSE "append"
    /\ UNCHANGED <<storeVars, chanVars, todo, byHour, affected, cur, pushes>>

\* write_jsonl_file: File::create truncates the hour file ...
ReplaceCreate ==
    /\ pc = "create"
    /\ files' = [files EXCEPT ![CurHour] = <<>>]
    /\ pc' = "rewrite"
    /\ UNCHANGED <<meta, registry, diskMeta, diskRegistry, chanVars,
                   todo, byHour, affected, buf, cur, pushes>>

\* ... and the whole hour, with the record replaced, is written again.
ReplaceRewrite ==
    /\ pc = "rewrite"
    /\ files' = [files EXCEPT ![CurHour] = ReplaceFirst(buf, Current)]
    /\ pc' = "register" /\ buf' = <<>>
    /\ UNCHANGED <<meta, registry, diskMeta, diskRegistry, chanVars,
                   todo, byHour, affected, cur, pushes>>

\* No match in the active file: append, without touching the metadata.
ReplaceAppend ==
    /\ pc = "append"
    /\ files' = [files EXCEPT ![CurHour] = Append(@, Current)]
    /\ pc' = "register" /\ buf' = <<>>
    /\ UNCHANGED <<meta, registry, diskMeta, diskRegistry, chanVars,
                   todo, byHour, affected, cur, pushes>>

\* The replaced uid takes the class of the new record, and the loop goes on.
Register ==
    /\ pc = "register"
    /\ registry' = [registry EXCEPT ![Current.uid] = Current.class]
    /\ todo' = Tail(todo) /\ pc' = "apply"
    /\ UNCHANGED <<files, meta, diskMeta, diskRegistry, chanVars,
                   byHour, affected, buf, cur, pushes>>

-----------------------------------------------------------------------------
(* push_datalogs, after the loop *)

\* write_logs appends the records queued for one hour (HashMap order: any).
WriteLogs(h) ==
    /\ pc = "apply" /\ todo = <<>> /\ byHour[h] # <<>>
    /\ files' = [files EXCEPT ![h] = @ \o byHour[h]]
    /\ byHour' = [byHour EXCEPT ![h] = <<>>]
    /\ cur' = [hour |-> h, count |-> Len(byHour[h])]
    /\ pc' = "index"
    /\ UNCHANGED <<meta, registry, diskMeta, diskRegistry, chanVars,
                   todo, affected, buf, pushes>>

\* ensure_index, and the statistics of the index, under one write lock.  A new
\* index entry bumps the version and is announced.
EnsureIndex ==
    /\ pc = "index"
    /\ IF meta.tier[cur.hour] = "none"
       THEN /\ meta' = [meta EXCEPT !.version = @ + 1,
                                    !.tier[cur.hour] = "active",
                                    !.count[cur.hour] = @ + cur.count]
            /\ Send([type |-> "meta", keys |-> {cur.hour}])
       ELSE /\ meta' = [meta EXCEPT !.count[cur.hour] = @ + cur.count]
            /\ UNCHANGED chanVars
    /\ pc' = "apply" /\ cur' = <<>>
    /\ UNCHANGED <<files, registry, diskMeta, diskRegistry,
                   todo, byHour, affected, buf, pushes>>

\* persist_all, when every hour is written: the metadata file, then the registry.
SaveMeta ==
    /\ pc = "apply" /\ todo = <<>> /\ byHour = NoFiles
    /\ diskMeta' = meta
    /\ pc' = "saveRegistry"
    /\ UNCHANGED <<files, meta, registry, diskRegistry, chanVars,
                   todo, byHour, affected, buf, cur, pushes>>

SaveRegistry ==
    /\ pc = "saveRegistry"
    /\ diskRegistry' = registry
    /\ pc' = "notify"
    /\ UNCHANGED <<files, meta, registry, diskMeta, chanVars,
                   todo, byHour, affected, buf, cur, pushes>>

\* DataPushed names every affected hour; a batch that was skipped is silent.
Notify ==
    /\ pc = "notify"
    /\ IF affected # {} THEN Send([type |-> "pushed", keys |-> affected])
                        ELSE UNCHANGED chanVars
    /\ Return
    /\ UNCHANGED <<storeVars, pushes>>

-----------------------------------------------------------------------------

\* The steps of a push_datalogs call under way.
PushStep ==
    \/ ApplyPush \/ ApplyReplace \/ ApplySkip
    \/ ReplaceRead \/ ReplaceCreate \/ ReplaceRewrite \/ ReplaceAppend
    \/ Register
    \/ \E h \in Hours : WriteLogs(h)
    \/ EnsureIndex \/ SaveMeta \/ SaveRegistry \/ Notify

PoolNext == PushStep \/ \E b \in Batches : PushBegin(b)

PoolSpec == Init /\ [][PoolNext]_poolVars

-----------------------------------------------------------------------------
(* A pool opened over a registry that knows uids its active tier does not hold: *)
(* of an hour that run_archive has moved away (the registry stays as it is), or *)
(* of a push that failed before it wrote what it had registered, whose uids a   *)
(* later push has saved.                                                       *)

ReopenedInit ==
    /\ files = NoFiles
    /\ \E R \in Registry, archived \in SUBSET Hours :
           LET n(h) == Cardinality({u \in Uids : HourOf[u] = h /\ R[u] # "none"})
               M == [version |-> 0,
                     tier  |-> [h \in Hours |-> IF h \in archived THEN "daily" ELSE "none"],
                     count |-> [h \in Hours |-> IF h \in archived THEN n(h) ELSE 0]]
           IN  /\ R # EmptyRegistry
               /\ \A h \in archived : n(h) > 0
               /\ registry = R /\ diskRegistry = R
               /\ meta = M /\ diskMeta = M
    /\ pc = "idle" /\ todo = <<>> /\ byHour = NoFiles /\ affected = {}
    /\ buf = <<>> /\ cur = <<>>
    /\ chan = <<>> /\ lagged = FALSE /\ pushes = 0

ReopenedSpec == ReopenedInit /\ [][PoolNext]_poolVars

-----------------------------------------------------------------------------
(* Properties *)

\* No position but one holds the uid, in a sequence of records.
OnePerUid(f) == \A i, j \in DOMAIN f : f[i].uid = f[j].uid => i = j

\* Every batch names a uid at most once.
DistinctBatches == \A b \in Batches : OnePerUid(b)

\* What a reader of the hour would find if no rewrite were half done.
Content(h) == IF pc = "rewrite" /\ h = CurHour THEN buf ELSE files[h]

\* The class of the record held for u, where f holds one.
ClassIn(f, u) == f[CHOOSE i \in DOMAIN f : f[i].uid = u].class

\* De-duplication (storage.rs push_datalogs with replace.rs): at no moment does
\* an hour file hold two records of one uid, whatever the order in which
\* batches repeat, upgrade and replace records.
UniqueRecords == \A h \in Hours : OnePerUid(files[h])

\* Between two calls the registry, and the one a restart would load, says of every
\* uid exactly what is stored: it is registered iff its hour file holds it, and
\* with the class it holds.
RegistryMatchesStore ==
    pc = "idle" =>
        /\ diskRegistry = registry
        /\ \A u \in Uids :
              IF Holds(files[HourOf[u]], u) = {}
              THEN registry[u] = "none"
              ELSE registry[u] = ClassIn(files[HourOf[u]], u)

\* Between two calls every hour file is indexed, in memory and on disk, with its number
\* of records: a batch that pushes and replaces in one hour counts what it pushed only.
IndexMatchesStore ==
    pc = "idle" =>
        /\ diskMeta = meta
        /\ \A h \in Hours : /\ meta.count[h] = Len(files[h])
                            /\ meta.tier[h] = "none" <=> files[h] = <<>>

\* Between two calls every uid is stored at most once and with the class it is registered
\* with, although the registry and the hour files do not name the same uids: a replacement
\* that finds no record is appended, and the next one finds it.
StoredAsRegistered ==
    pc = "idle" =>
        \A u \in Uids : LET f == files[HourOf[u]] IN
            /\ OnePerUid(f)
            /\ Holds(f, u) # {} => registry[u] = ClassIn(f, u)

\* The record the pool has accepted for u: queued in the call under way, or stored.
Accepted(u) ==
    LET h == HourOf[u]
        In(f) == f[CHOOSE i \in DOMAIN f : f[i].uid = u]
    IN  CASE Holds(byHour[h], u) # {}  -> In(byHour[h])
          [] Holds(Content(h), u) # {} -> In(Content(h))
          [] OTHER                     -> [class |-> "none"]

\* The pool, with its files, its registry and its half-done calls, implements
\* the replace-or-push rules on one record per uid: every step accepts one
\* record as the rules allow, or is invisible.
Abstract == INSTANCE ReplaceOrPush WITH store <- [u \in Uids |-> Accepted(u)]
ImplementsRules == Abstract!Spec
=============================================================================
