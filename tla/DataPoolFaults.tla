--------------------------- MODULE DataPoolFaults ---------------------------
(***************************************************************************)
(* The data pool when something goes wrong or is taken away under a push:  *)
(* an I/O error that makes push_datalogs return early, a crash of the      *)
(* process and the reload by DataPool::new, and clear_storage, which the   *)
(* command task of src/main.rs runs (Rebuild) while the ingest task may be *)
(* anywhere in a push.                                                     *)
(***************************************************************************)
EXTENDS DataPool

CONSTANTS
    MaxErrors,  \* bound: I/O errors
    MaxCrashes, \* bound: crashes of the process
    MaxClears   \* bound: Rebuild commands

ASSUME FaultBoundsAssumption == {MaxErrors, MaxCrashes, MaxClears} \subseteq Nat

VARIABLES
    clearPc, \* where the clear_storage call is
    errors, crashes, clears \* faults so far

faultVars == <<clearPc, errors, crashes, clears>>
allVars   == <<poolVars, faultVars>>

ClearPcValues == {"off", "archive", "meta", "registry"}

FaultsTypeOK == TypeOK /\ clearPc \in ClearPcValues
                       /\ errors \in 0..MaxErrors
                       /\ crashes \in 0..MaxCrashes
                       /\ clears \in 0..MaxClears

FaultsInit == Init /\ clearPc = "off" /\ errors = 0 /\ crashes = 0 /\ clears = 0

-----------------------------------------------------------------------------
(* What an interrupted write leaves behind *)

Prefixes(s) == {SubSeq(s, 1, n) : n \in 0..(Len(s) - 1)}

\* An interrupted rewrite: the new contents up to some record.
TornRewrite ==
    /\ pc = "rewrite"
    /\ \E p \in Prefixes(ReplaceFirst(buf, Current)) :
           files' = [files EXCEPT ![CurHour] = p]
    /\ UNCHANGED <<diskMeta, diskRegistry>>

\* An interrupted append of an hour's queue: some of its records.
TornAppend ==
    /\ pc = "apply" /\ todo = <<>>
    /\ \E h \in Hours : \E p \in Prefixes(byHour[h]) :
           files' = [files EXCEPT ![h] = @ \o p]
    /\ UNCHANGED <<diskMeta, diskRegistry>>

\* fs::write truncates: an interrupted save leaves no readable JSON, a save
\* that fails to start leaves the old one.
TornSave ==
    /\ \/ /\ pc = "apply" /\ todo = <<>> /\ byHour = NoFiles
          /\ diskMeta' \in {diskMeta, Torn} /\ UNCHANGED diskRegistry
       \/ pc = "saveRegistry" /\ diskRegistry' \in {diskRegistry, Torn} /\ UNCHANGED diskMeta
    /\ UNCHANGED files

\* An interrupted save of clear_storage.
TornClear ==
    /\ \/ clearPc = "meta"     /\ diskMeta' \in {diskMeta, Torn} /\ UNCHANGED diskRegistry
       \/ clearPc = "registry" /\ diskRegistry' \in {diskRegistry, Torn} /\ UNCHANGED diskMeta
    /\ UNCHANGED files

\* Reading or opening the hour file fails, or the one line is not written.
NothingWritten ==
    /\ pc \in {"read", "create", "append"}
    /\ UNCHANGED <<files, diskMeta, diskRegistry>>

-----------------------------------------------------------------------------
(* Variations: wrong versions of the definitions below, under the name of the *)
(* mistake.  No specification uses them; with one of them in place of the      *)
(* definition it varies, the property it names must fail.                      *)

\* IoError, the registry rolled back to what is persisted: UniqueDespiteErrors.
IoErrorRollsBack ==
    /\ errors < MaxErrors /\ errors' = errors + 1
    /\ TornRewrite \/ TornAppend \/ TornSave \/ NothingWritten
    /\ Return
    /\ diskRegistry # Torn /\ registry' = diskRegistry
    /\ UNCHANGED <<meta, chanVars, pushes, clearPc, crashes, clears>>

\* Restart, a file that does not parse taken as it is: FaultsTypeOK.
RestartUnparsed ==
    /\ pc = "down"
    /\ pc' = "idle" /\ meta' = diskMeta /\ registry' = diskRegistry
    /\ UNCHANGED <<files, diskMeta, diskRegistry, todo, byHour, affected, buf,
                   cur, chanVars, pushes, faultVars>>

-----------------------------------------------------------------------------
(* I/O errors: the `?` operators of push_datalogs and replace_in_hour *)

\* The call returns Err; what it had registered stays registered, what it had
\* queued is dropped, nothing is persisted any more and nobody is notified.
IoError ==
    /\ errors < MaxErrors /\ errors' = errors + 1
    /\ TornRewrite \/ TornAppend \/ TornSave \/ NothingWritten
    /\ Return
    /\ UNCHANGED <<meta, registry, chanVars, pushes, clearPc, crashes, clears>>

-----------------------------------------------------------------------------
(* Crash and restart *)

Crash ==
    /\ pc # "down" /\ crashes < MaxCrashes /\ crashes' = crashes + 1
    /\ \/ TornRewrite \/ TornAppend \/ TornSave \/ TornClear
       \/ UNCHANGED <<files, diskMeta, diskRegistry>>
    /\ pc' = "down" /\ todo' = <<>> /\ byHour' = NoFiles /\ affected' = {}
    /\ buf' = <<>> /\ cur' = <<>>
    /\ meta' = EmptyMeta /\ registry' = EmptyRegistry
    /\ chan' = <<>> /\ lagged' = FALSE /\ clearPc' = "off"
    /\ UNCHANGED <<pushes, errors, clears>>

\* DataPool::new loads both files; one that does not parse fails the start.
Restart ==
    /\ pc = "down" /\ Torn \notin {diskMeta, diskRegistry}
    /\ pc' = "idle" /\ meta' = diskMeta /\ registry' = diskRegistry
    /\ UNCHANGED <<files, diskMeta, diskRegistry, todo, byHour, affected, buf,
                   cur, chanVars, pushes, faultVars>>

-----------------------------------------------------------------------------
(* clear_storage, on the command task *)

ClearActive ==
    /\ pc # "down" /\ clearPc = "off" /\ clears < MaxClears
    /\ clears' = clears + 1
    /\ files' = NoFiles
    /\ clearPc' = "archive"
    /\ UNCHANGED <<meta, registry, diskMeta, diskRegistry, callVars, chanVars,
                   pushes, errors, crashes>>

\* remove_dir_all fails half way (a push re-creates a file in a directory that
\* is being removed): clear_storage returns, registry and metadata untouched.
ClearActiveFails ==
    /\ pc # "down" /\ clearPc = "off" /\ clears < MaxClears /\ errors < MaxErrors
    /\ clears' = clears + 1 /\ errors' = errors + 1
    /\ \E kept \in SUBSET Hours :
           files' = [h \in Hours |-> IF h \in kept THEN files[h] ELSE <<>>]
    /\ UNCHANGED <<meta, registry, diskMeta, diskRegistry, callVars, chanVars,
                   pushes, clearPc, crashes>>

\* The archive directory goes (the archive tiers are not in this module).
ClearArchive ==
    /\ clearPc = "archive" /\ clearPc' = "meta"
    /\ UNCHANGED <<poolVars, errors, crashes, clears>>

\* The metadata is reset and saved, version 0 again.
ClearMeta ==
    /\ clearPc = "meta" /\ clearPc' = "registry"
    /\ meta' = EmptyMeta /\ diskMeta' = EmptyMeta
    /\ UNCHANGED <<files, registry, diskRegistry, callVars, chanVars, pushes,
                   errors, crashes, clears>>

ClearRegistry ==
    /\ clearPc = "registry" /\ clearPc' = "off"
    /\ registry' = EmptyRegistry /\ diskRegistry' = EmptyRegistry
    /\ UNCHANGED <<files, meta, diskMeta, callVars, chanVars, pushes,
                   errors, crashes, clears>>

\* A later step fails: the archive is not removed, or a file is not saved although
\* what it holds is reset in memory already; what was to follow is left alone.
ClearFails ==
    /\ clearPc # "off" /\ clearPc' = "off"
    /\ errors < MaxErrors /\ errors' = errors + 1
    /\ \/ clearPc = "archive" /\ UNCHANGED <<diskMeta, diskRegistry, files>>
       \/ TornClear
    /\ meta'     = IF clearPc = "meta"     THEN EmptyMeta     ELSE meta
    /\ registry' = IF clearPc = "registry" THEN EmptyRegistry ELSE registry
    /\ UNCHANGED <<callVars, chanVars, pushes, crashes, clears>>

-----------------------------------------------------------------------------

Clear == ClearActive \/ ClearActiveFails \/ ClearArchive \/ ClearMeta
         \/ ClearRegistry \/ ClearFails

FaultsNext ==
    \/ PoolNext /\ UNCHANGED faultVars
    \/ IoError \/ Crash \/ Restart \/ Clear

FaultsSpec == FaultsInit /\ [][FaultsNext]_allVars

-----------------------------------------------------------------------------
(* Properties *)

Undisturbed == crashes = 0 /\ clears = 0

\* I/O errors alone never break de-duplication: whichever write of a push
\* fails, half done or not at all, and whatever is offered again afterwards,
\* no hour file holds a uid twice (register-before-write errs on this side).
UniqueDespiteErrors == Undisturbed => UniqueRecords

\* ... because every stored uid is one the registry in memory knows.
StoredIsRegistered ==
    Undisturbed => \A u \in Uids : Holds(files[HourOf[u]], u) # {} => registry[u] # "none"

\* The order of persist_all, metadata before registry, survives a crash at any
\* point: a uid the next start will treat as known is in an hour the next start
\* will find in its index.
KnownIsIndexedOnDisk ==
    (errors = 0 /\ clears = 0 /\ Torn \notin {diskMeta, diskRegistry}) =>
        \A u \in Uids : diskRegistry[u] # "none" => diskMeta.tier[HourOf[u]] # "none"

\* Rule 3 in memory: while the process lives and nobody clears the pool, a uid
\* once registered as official stays official.
OfficialStaysRegistered ==
    [][(pc # "down" /\ pc' # "down" /\ clearPc = "off") =>
           \A u \in Uids : registry[u] = "official" => registry'[u] = "official"]_allVars

\* "guarantees de-duplication" (lib.rs:10), across a Rebuild and a push that
\* overlap, with no crash and no error.
UniqueAcrossRebuild == (errors = 0 /\ crashes = 0) => UniqueRecords
=============================================================================
