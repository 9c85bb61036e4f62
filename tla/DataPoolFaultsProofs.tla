------------------------ MODULE DataPoolFaultsProofs ------------------------
(***************************************************************************)
(* Proofs about the data pool under I/O errors, crashes and Rebuilds       *)
(* (DataPoolFaults), for every value of the constants.                     *)
(*                                                                         *)
(* An error or a crash stops a push anywhere, so the invariants hold in    *)
(* the middle of a push: a uid is registered before it is written, and is  *)
(* stored or queued at its own hour only.                                  *)
(***************************************************************************)
EXTENDS DataPoolFaults, DataPoolProofs

-----------------------------------------------------------------------------
(* Type correctness *)

\* An interrupted write leaves some first records of what was written.
LEMMA PrefixUids ==
    ASSUME NEW f \in Seq(Record), NEW p \in Prefixes(f)
    PROVE  /\ p \in Seq(Record) /\ UidsIn(p) \subseteq UidsIn(f)
           /\ OnePerUid(f) => OnePerUid(p)
<1>1. PICK n \in 0 .. (Len(f) - 1) : p = SubSeq(f, 1, n) BY DEF Prefixes
<1>2. /\ p \in Seq(Record) /\ Len(p) = n /\ Len(f) \in Nat /\ n \in Nat
      /\ \A i \in 1 .. n : p[i] = f[i]
  BY <1>1
<1>3. DOMAIN p = 1 .. n /\ 1 .. n \subseteq DOMAIN f BY <1>1, <1>2
<1> QED BY <1>2, <1>3 DEF UidsIn, OnePerUid

\* The files and the JSON files after an interrupted write are still such files.
LEMMA TornTypes ==
    ASSUME TypeOK, TornRewrite \/ TornAppend \/ TornSave \/ TornClear \/ NothingWritten
    PROVE  /\ files' \in [Hours -> Seq(Record)]
           /\ diskMeta' \in Meta \cup {Torn} /\ diskRegistry' \in Registry \cup {Torn}
<1>1. CASE TornRewrite
  <2>1. Current \in Record /\ CurHour \in Hours /\ buf \in Seq(Record)
    BY <1>1, CurrentType DEF TornRewrite, TypeOK
  <2>2. \A p \in Prefixes(ReplaceFirst(buf, Current)) : p \in Seq(Record)
    BY <2>1, ReplaceFirstType, PrefixUids
  <2> QED BY <1>1, <2>1, <2>2 DEF TornRewrite, TypeOK
<1>2. CASE TornAppend
  <2>1. \A h \in Hours : \A p \in Prefixes(byHour[h]) : files[h] \o p \in Seq(Record)
    BY PrefixUids DEF TypeOK
  <2> QED BY <1>2, <2>1 DEF TornAppend, TypeOK
<1>3. CASE TornSave BY <1>3 DEF TornSave, TypeOK
<1>4. CASE TornClear BY <1>4 DEF TornClear, TypeOK
<1>5. CASE NothingWritten BY <1>5 DEF NothingWritten, TypeOK
<1> QED BY <1>1, <1>2, <1>3, <1>4, <1>5

LEMMA Empties ==
    /\ EmptyMeta \in Meta /\ EmptyRegistry \in Registry
    /\ NoFiles \in [Hours -> Seq(Record)]
    /\ \A h \in Hours : NoFiles[h] = <<>>
    /\ \A u \in Uids : EmptyRegistry[u] = "none"
    /\ <<>> \in Seq(Record) /\ <<>> \in Seq(Notification)
    /\ UidsIn(<<>>) = {} /\ OnePerUid(<<>>) /\ \A b \in Batches : b \in Seq(Record) /\ b # <<>>
  BY BatchesAssumption DEF EmptyMeta, Meta, Tiers, EmptyRegistry, Registry, NoFiles, UidsIn, OnePerUid

LEMMA FaultsStepTypeOK == FaultsTypeOK /\ [FaultsNext]_allVars => FaultsTypeOK'
<1> SUFFICES ASSUME FaultsTypeOK, [FaultsNext]_allVars PROVE FaultsTypeOK'
  OBVIOUS
<1>1. TypeOK BY DEF FaultsTypeOK
<1> USE FaultBoundsAssumption DEF PcValues, ClearPcValues, storeVars, chanVars, callVars
<1>2. CASE PoolNext /\ UNCHANGED faultVars
  <2>1. TypeOK' BY <1>1, <1>2, StepTypeOK
  <2> QED BY <1>2, <2>1 DEF FaultsTypeOK, faultVars
<1>3. CASE UNCHANGED allVars
  <2>1. TypeOK' BY <1>1, <1>3, StepTypeOK DEF allVars
  <2> QED BY <1>3, <2>1 DEF FaultsTypeOK, allVars, faultVars
<1>4. CASE IoError
  <2>1. /\ files' \in [Hours -> Seq(Record)]
        /\ diskMeta' \in Meta \cup {Torn} /\ diskRegistry' \in Registry \cup {Torn}
    BY <1>1, <1>4, TornTypes DEF IoError
  <2>2. TypeOK' BY <1>1, <1>4, <2>1, Empties DEF IoError, Return, TypeOK
  <2> QED BY <1>4, <2>2 DEF IoError, FaultsTypeOK
<1>5. CASE Crash
  <2>1. /\ files' \in [Hours -> Seq(Record)]
        /\ diskMeta' \in Meta \cup {Torn} /\ diskRegistry' \in Registry \cup {Torn}
    <3>1. CASE UNCHANGED <<files, diskMeta, diskRegistry>> BY <1>1, <3>1 DEF TypeOK
    <3> QED BY <1>1, <1>5, <3>1, TornTypes DEF Crash
  <2>2. TypeOK' BY <1>1, <1>5, <2>1, Empties DEF Crash, TypeOK
  <2> QED BY <1>5, <2>2 DEF Crash, FaultsTypeOK
<1>6. CASE Restart
  <2>1. diskMeta \in Meta /\ diskRegistry \in Registry BY <1>1, <1>6 DEF Restart, TypeOK
  <2>2. TypeOK' BY <1>1, <1>6, <2>1 DEF Restart, TypeOK
  <2> QED BY <1>6, <2>2 DEF Restart, FaultsTypeOK, faultVars
<1>7. CASE ClearActive
  <2>1. TypeOK' BY <1>1, <1>7, Empties DEF ClearActive, TypeOK
  <2> QED BY <1>7, <2>1 DEF ClearActive, FaultsTypeOK
<1>8. CASE ClearActiveFails
  <2>1. files' \in [Hours -> Seq(Record)] BY <1>1, <1>8 DEF ClearActiveFails, TypeOK
  <2>2. TypeOK' BY <1>1, <1>8, <2>1 DEF ClearActiveFails, TypeOK
  <2> QED BY <1>8, <2>2 DEF ClearActiveFails, FaultsTypeOK
<1>9. CASE ClearArchive
  <2>1. TypeOK' BY <1>1, <1>9, StepTypeOK DEF ClearArchive
  <2> QED BY <1>9, <2>1 DEF ClearArchive, FaultsTypeOK
<1>10. CASE ClearMeta
  <2>1. TypeOK' BY <1>1, <1>10, Empties DEF ClearMeta, TypeOK
  <2> QED BY <1>10, <2>1 DEF ClearMeta, FaultsTypeOK
<1>11. CASE ClearRegistry
  <2>1. TypeOK' BY <1>1, <1>11, Empties DEF ClearRegistry, TypeOK
  <2> QED BY <1>11, <2>1 DEF ClearRegistry, FaultsTypeOK
<1>12. CASE ClearFails
  <2>1. /\ files' \in [Hours -> Seq(Record)]
        /\ diskMeta' \in Meta \cup {Torn} /\ diskRegistry' \in Registry \cup {Torn}
    <3>1. CASE UNCHANGED <<files, diskMeta, diskRegistry>> BY <1>1, <3>1 DEF TypeOK
    <3> QED BY <1>1, <1>12, <3>1, TornTypes DEF ClearFails
  <2>2. TypeOK' BY <1>1, <1>12, <2>1, Empties DEF ClearFails, TypeOK
  <2> QED BY <1>12, <2>2 DEF ClearFails, FaultsTypeOK
<1> QED
  BY <1>2, <1>3, <1>4, <1>5, <1>6, <1>7, <1>8, <1>9, <1>10, <1>11, <1>12 DEF FaultsNext, Clear

\* Type correctness of the pool under faults: a crash or an error anywhere leaves
\* files, index and registry that the next step can work on, torn ones included.
THEOREM FaultsTypeCorrect == FaultsSpec => []FaultsTypeOK
<1>1. FaultsInit => FaultsTypeOK
  BY InitTypeOK, FaultBoundsAssumption DEF FaultsInit, FaultsTypeOK, ClearPcValues
<1> QED BY <1>1, FaultsStepTypeOK, PTL DEF FaultsSpec

-----------------------------------------------------------------------------
(* Registered before written *)

\* Every record of the sequence belongs to hour h, and the registry knows its uid.
Known(h, f, R) == \A u \in UidsIn(f) : HourOf[u] = h /\ R[u] # "none"

\* A replace is under way: its record's uid was found in the registry.
Replacing == pc \in {"read", "create", "rewrite", "append", "register"}

\* While nothing but I/O errors has happened, whatever is stored, queued or about to
\* be written back is registered.
Registered ==
    /\ clearPc = "off" /\ pc # "down"
    /\ \A h \in Hours : Known(h, files[h], registry) /\ Known(h, byHour[h], registry)
    /\ pc \in {"create", "rewrite"} => Known(CurHour, buf, registry)
    /\ Replacing => registry[Current.uid] # "none"

RInv == Undisturbed => Registered

\* What is written, in one go or not, is what was there, what was queued, or the
\* loop's record.
LEMMA KnownWrites ==
    ASSUME NEW h \in Hours, NEW f \in Seq(Record), NEW R
    PROVE  /\ \A g \in Seq(Record) : Known(h, f, R) /\ Known(h, g, R) => Known(h, f \o g, R)
           /\ \A r \in Record : Known(h, f, R) /\ HourOf[r.uid] = h /\ R[r.uid] # "none" =>
                  Known(h, Append(f, r), R) /\ Known(h, ReplaceFirst(f, r), R)
           /\ \A p \in Prefixes(f) : Known(h, f, R) => Known(h, p, R)
           /\ Known(h, <<>>, R)
<1>1. \A g \in Seq(Record) : Known(h, f, R) /\ Known(h, g, R) => Known(h, f \o g, R)
  BY ConcatUids DEF Known
<1>2. ASSUME NEW r \in Record, Known(h, f, R), HourOf[r.uid] = h, R[r.uid] # "none"
      PROVE  Known(h, Append(f, r), R) /\ Known(h, ReplaceFirst(f, r), R)
  <2>1. Known(h, Append(f, r), R) BY <1>2, AppendUids DEF Known
  <2>2. UidsIn(ReplaceFirst(f, r)) \subseteq UidsIn(f) \cup {r.uid}
    <3> DEFINE first == CHOOSE i \in Holds(f, r.uid) : \A j \in Holds(f, r.uid) : i <= j
    <3>1. ReplaceFirst(f, r) = [f EXCEPT ![first] = r] BY DEF ReplaceFirst
    <3> HIDE DEF first
    <3> QED BY <3>1 DEF UidsIn
  <2>3. Known(h, ReplaceFirst(f, r), R) BY <1>2, <2>2 DEF Known
  <2> QED BY <2>1, <2>3
<1>3. \A p \in Prefixes(f) : Known(h, f, R) => Known(h, p, R)
  BY PrefixUids DEF Known
<1>4. Known(h, <<>>, R) BY Empties DEF Known
<1> QED BY <1>1, <1>2, <1>3, <1>4

\* Nothing leaves the registry in a step of a push, whether it fails or not.
LEMMA RegistryGrows ==
    ASSUME TypeOK, (PoolNext /\ UNCHANGED faultVars) \/ IoError
    PROVE  \A u \in Uids : registry[u] # "none" => registry'[u] # "none"
<1>1. CASE ApplyPush
  <2>1. todo # <<>> /\ registry' = [registry EXCEPT ![Current.uid] = Current.class]
    BY <1>1 DEF ApplyPush
  <2> QED BY <2>1, CurrentType DEF TypeOK, Registry, Classes
<1>2. CASE Register
  <2>1. todo # <<>> /\ registry' = [registry EXCEPT ![Current.uid] = Current.class]
    BY <1>2 DEF Register, TypeOK
  <2> QED BY <2>1, CurrentType DEF TypeOK, Registry, Classes
<1>3. CASE ~ApplyPush /\ ~Register
  <2>1. registry' = registry
    BY <1>3 DEF PoolNext, PushStep, PushBegin, ApplyReplace, ApplySkip, ReplaceRead,
       ReplaceCreate, ReplaceRewrite, ReplaceAppend, WriteLogs, EnsureIndex, SaveMeta,
       SaveRegistry, Notify, storeVars, IoError
  <2> QED BY <2>1
<1> QED BY <1>1, <1>2, <1>3

LEMMA KnownGrows ==
    ASSUME NEW h \in Hours, NEW f \in Seq(Record), NEW R, NEW S, Known(h, f, R),
           \A u \in Uids : R[u] # "none" => S[u] # "none"
    PROVE  Known(h, f, S)
<1>1. \A i \in DOMAIN f : f[i] \in Record OBVIOUS
<1>2. UidsIn(f) \subseteq Uids BY <1>1 DEF UidsIn, Record
<1> QED BY <1>2 DEF Known

LEMMA StepRegistered ==
    ASSUME FaultsTypeOK, RInv, [FaultsNext]_allVars
    PROVE  RInv'
<1> SUFFICES ASSUME Undisturbed' PROVE Registered'
  BY DEF RInv
<1>1. TypeOK BY DEF FaultsTypeOK
<1>2. Undisturbed /\ ~Crash /\ ~ClearActive /\ ~ClearActiveFails
  BY FaultBoundsAssumption DEF FaultsTypeOK, Undisturbed, FaultsNext, Crash, ClearActive, ClearActiveFails,
     Clear, ClearArchive, ClearMeta, ClearRegistry, ClearFails, IoError, Restart, faultVars, allVars
<1>3. Registered BY <1>2 DEF RInv
<1>4. ~Restart /\ ~ClearArchive /\ ~ClearMeta /\ ~ClearRegistry /\ ~ClearFails
  BY <1>3 DEF Registered, Restart, ClearArchive, ClearMeta, ClearRegistry, ClearFails
<1>5. /\ files \in [Hours -> Seq(Record)] /\ byHour \in [Hours -> Seq(Record)]
      /\ buf \in Seq(Record) /\ registry \in Registry
  BY <1>1 DEF TypeOK
<1> USE DEF storeVars, chanVars, callVars
<1>6. CASE UNCHANGED allVars
  BY <1>3, <1>6 DEF allVars, poolVars, faultVars, Registered, Replacing, Current, CurHour
<1>7. ASSUME (PoolNext /\ UNCHANGED faultVars) \/ IoError PROVE Registered'
  <2>1. \A u \in Uids : registry[u] # "none" => registry'[u] # "none"
    BY <1>1, <1>7, RegistryGrows
  <2>2. \A h \in Hours : Known(h, files[h], registry') /\ Known(h, byHour[h], registry')
    BY <1>3, <1>5, <2>1, KnownGrows DEF Registered
  <2>3. todo # <<>> => CurHour \in Hours /\ Current \in Record /\ Current.uid \in Uids
                       /\ CurHour = HourOf[Current.uid]
    BY <1>1, CurrentType DEF CurHour, Current
  <2>4. pc \in {"create", "rewrite"} => todo # <<>> /\ Known(CurHour, buf, registry')
    <3> SUFFICES ASSUME pc \in {"create", "rewrite"} PROVE todo # <<>> /\ Known(CurHour, buf, registry')
      OBVIOUS
    <3>1. todo # <<>> BY <1>1 DEF TypeOK
    <3>2. CurHour \in Hours BY <2>3, <3>1
    <3> QED BY <1>3, <1>5, <2>1, <3>1, <3>2, KnownGrows DEF Registered
  <2>5. Replacing => todo # <<>> /\ registry'[Current.uid] # "none"
    BY <1>1, <1>3, <2>1, <2>3 DEF Registered, Replacing, TypeOK
  <2>6. clearPc' = "off"
    BY <1>3, <1>7 DEF Registered, IoError, faultVars
  <2>7. CASE IoError
    <3>1. pc' = "idle" /\ byHour' = NoFiles /\ registry' = registry
      BY <2>7 DEF IoError, Return
    <3>2. \A h \in Hours : Known(h, files'[h], registry')
      <4>1. CASE TornRewrite
        <5>1. /\ pc = "rewrite"
              /\ \E p \in Prefixes(ReplaceFirst(buf, Current)) : files' = [files EXCEPT ![CurHour] = p]
          BY <4>1 DEF TornRewrite
        <5>2. /\ Current \in Record /\ CurHour \in Hours /\ CurHour = HourOf[Current.uid]
              /\ Known(CurHour, buf, registry') /\ registry'[Current.uid] # "none"
          BY <2>3, <2>4, <2>5, <5>1 DEF Replacing
        <5>3. ReplaceFirst(buf, Current) \in Seq(Record) BY <1>5, <5>2, ReplaceFirstType
        <5>4. \A p \in Prefixes(ReplaceFirst(buf, Current)) : Known(CurHour, p, registry')
          BY <1>5, <5>2, <5>3, KnownWrites
        <5> QED BY <1>5, <2>2, <5>1, <5>2, <5>4
      <4>2. CASE TornAppend
        <5>1. PICK h \in Hours : \E p \in Prefixes(byHour[h]) : files' = [files EXCEPT ![h] = @ \o p]
          BY <4>2 DEF TornAppend
        <5>2. PICK p \in Prefixes(byHour[h]) : files' = [files EXCEPT ![h] = @ \o p]
          BY <5>1
        <5>3. p \in Seq(Record) /\ Known(h, p, registry')
          BY <1>5, <2>2, PrefixUids, KnownWrites
        <5>4. Known(h, files[h] \o p, registry') BY <1>5, <2>2, <5>3, KnownWrites
        <5> QED BY <1>5, <2>2, <5>2, <5>4
      <4>3. CASE files' = files BY <2>2, <4>3
      <4> QED BY <2>7, <4>1, <4>2, <4>3 DEF IoError, TornSave, NothingWritten
    <3>3. \A h \in Hours : Known(h, byHour'[h], registry')
      BY <3>1, Empties, KnownWrites
    <3> QED BY <2>6, <3>1, <3>2, <3>3 DEF Registered, Replacing
  <2>8. ASSUME NEW b \in Batches, PushBegin(b) PROVE Registered'
    BY <2>2, <2>6, <2>8 DEF PushBegin, Registered, Replacing
  <2>9. CASE ApplyPush
    <3>1. /\ todo # <<>> /\ pc' = "apply" /\ files' = files
          /\ byHour' = [byHour EXCEPT ![CurHour] = Append(@, Current)]
          /\ registry' = [registry EXCEPT ![Current.uid] = Current.class]
      BY <2>9 DEF ApplyPush
    <3>2. registry'[Current.uid] # "none"
      BY <1>1, <1>5, <3>1, CurrentType DEF Registry, Classes
    <3>3. Known(CurHour, Append(byHour[CurHour], Current), registry')
      BY <1>5, <2>2, <2>3, <3>1, <3>2, KnownWrites
    <3>4. \A h \in Hours : Known(h, byHour'[h], registry')
      BY <1>5, <2>2, <2>3, <3>1, <3>3
    <3> QED BY <2>2, <2>6, <3>1, <3>4 DEF Registered, Replacing
  <2>10. CASE ApplyReplace
    <3>1. /\ todo # <<>> /\ pc' = "read" /\ UNCHANGED <<files, byHour, registry, todo>>
          /\ registry[Current.uid] # "none"
      BY <2>10 DEF ApplyReplace, Decision
    <3> QED BY <2>2, <2>6, <3>1 DEF Registered, Replacing, Current
  <2>11. CASE ApplySkip
    BY <2>2, <2>6, <2>11 DEF ApplySkip, Registered, Replacing
  <2>12. CASE ReplaceRead
    <3>1. /\ pc = "read" /\ pc' \in {"create", "append"} /\ buf' = files[CurHour]
          /\ UNCHANGED <<files, byHour, registry, todo>>
      BY <2>12 DEF ReplaceRead
    <3>2. todo # <<>> /\ registry'[Current.uid] # "none" BY <2>5, <3>1 DEF Replacing
    <3>3. Known(CurHour, buf', registry') BY <2>2, <2>3, <3>1, <3>2
    <3> QED BY <2>2, <2>6, <3>1, <3>2, <3>3 DEF Registered, Replacing, Current, CurHour
  <2>13. CASE ReplaceCreate
    <3>1. /\ pc = "create" /\ pc' = "rewrite" /\ files' = [files EXCEPT ![CurHour] = <<>>]
          /\ UNCHANGED <<byHour, registry, todo, buf>>
      BY <2>13 DEF ReplaceCreate
    <3>2. /\ registry'[Current.uid] # "none" /\ Known(CurHour, buf, registry')
          /\ CurHour \in Hours
      BY <2>3, <2>4, <2>5, <3>1 DEF Replacing
    <3>3. \A h \in Hours : Known(h, files'[h], registry')
      BY <1>5, <2>2, <3>1, KnownWrites
    <3> QED BY <2>2, <2>6, <3>1, <3>2, <3>3 DEF Registered, Replacing, Current, CurHour
  <2>14. CASE ReplaceRewrite \/ ReplaceAppend
    <3>1. /\ pc \in {"rewrite", "append"} /\ pc' = "register" /\ UNCHANGED <<byHour, registry, todo>>
      BY <2>14 DEF ReplaceRewrite, ReplaceAppend
    <3>2. /\ registry'[Current.uid] # "none" /\ CurHour \in Hours /\ Current \in Record
          /\ CurHour = HourOf[Current.uid]
      BY <2>3, <2>5, <3>1 DEF Replacing
    <3>3. CASE ReplaceRewrite
      <4>1. pc = "rewrite" /\ files' = [files EXCEPT ![CurHour] = ReplaceFirst(buf, Current)]
        BY <3>3 DEF ReplaceRewrite
      <4>2. Known(CurHour, ReplaceFirst(buf, Current), registry')
        BY <1>5, <2>4, <3>2, <4>1, KnownWrites
      <4>3. \A h \in Hours : Known(h, files'[h], registry')
        BY <1>5, <2>2, <3>2, <4>1, <4>2
      <4> QED BY <2>2, <2>6, <3>1, <3>2, <4>3 DEF Registered, Replacing, Current
    <3>4. CASE ReplaceAppend
      <4>1. files' = [files EXCEPT ![CurHour] = Append(@, Current)]
        BY <3>4 DEF ReplaceAppend
      <4>2. Known(CurHour, Append(files[CurHour], Current), registry')
        BY <1>5, <2>2, <3>2, KnownWrites
      <4>3. \A h \in Hours : Known(h, files'[h], registry')
        BY <1>5, <2>2, <3>2, <4>1, <4>2
      <4> QED BY <2>2, <2>6, <3>1, <3>2, <4>3 DEF Registered, Replacing, Current
    <3> QED BY <2>14, <3>3, <3>4
  <2>15. CASE Register
    BY <2>2, <2>6, <2>15 DEF Register, Registered, Replacing
  <2>16. ASSUME NEW h \in Hours, WriteLogs(h) PROVE Registered'
    <3>1. /\ pc' = "index" /\ files' = [files EXCEPT ![h] = @ \o byHour[h]]
          /\ byHour' = [byHour EXCEPT ![h] = <<>>]
      BY <2>16 DEF WriteLogs
    <3>2. Known(h, files[h] \o byHour[h], registry') /\ Known(h, <<>>, registry')
      BY <1>5, <2>2, KnownWrites
    <3>3. \A k \in Hours : Known(k, files'[k], registry') /\ Known(k, byHour'[k], registry')
      BY <1>5, <2>2, <3>1, <3>2
    <3> QED BY <2>6, <3>1, <3>3 DEF Registered, Replacing
  <2>17. CASE EnsureIndex \/ SaveMeta \/ SaveRegistry
    <3>1. pc' \in {"apply", "saveRegistry", "notify"} /\ UNCHANGED <<files, byHour, registry>>
      BY <2>17 DEF EnsureIndex, SaveMeta, SaveRegistry
    <3> QED BY <2>2, <2>6, <3>1 DEF Registered, Replacing
  <2>18. CASE Notify
    <3>1. pc' = "idle" /\ byHour' = NoFiles /\ files' = files BY <2>18 DEF Notify, Return
    <3>2. \A h \in Hours : Known(h, byHour'[h], registry')
      BY <3>1, Empties, KnownWrites
    <3> QED BY <2>2, <2>6, <3>1, <3>2 DEF Registered, Replacing
  <2> QED
    BY <1>7, <2>7, <2>8, <2>9, <2>10, <2>11, <2>12, <2>13, <2>14, <2>15, <2>16, <2>17, <2>18
       DEF PoolNext, PushStep
<1> QED BY <1>2, <1>4, <1>6, <1>7 DEF FaultsNext, Clear

LEMMA FaultsRegistered == FaultsSpec => [](FaultsTypeOK /\ RInv)
<1>1. FaultsInit => FaultsTypeOK /\ RInv
  <2> SUFFICES ASSUME FaultsInit PROVE RInv
    BY InitTypeOK, FaultBoundsAssumption DEF FaultsInit, FaultsTypeOK, ClearPcValues
  <2> QED BY Empties DEF FaultsInit, Init, RInv, Registered, Replacing, Known
<1>2. FaultsTypeOK /\ RInv /\ [FaultsNext]_allVars => (FaultsTypeOK /\ RInv)'
  BY FaultsStepTypeOK, StepRegistered
<1> QED BY <1>1, <1>2, PTL DEF FaultsSpec

\* Whichever write of a push fails, every stored uid is one the registry in memory knows,
\* so that it will be replaced and not pushed again: for any batches.
THEOREM FaultsStoredRegistered == FaultsSpec => []StoredIsRegistered
<1>1. RInv => StoredIsRegistered
  <2> SUFFICES ASSUME RInv, Undisturbed, NEW u \in Uids, Holds(files[HourOf[u]], u) # {}
               PROVE  registry[u] # "none"
    BY DEF StoredIsRegistered
  <2>1. u \in UidsIn(files[HourOf[u]]) BY DEF Holds, UidsIn
  <2> QED BY <2>1, HourOfAssumption DEF RInv, Registered, Known
<1> QED BY <1>1, FaultsRegistered, PTL

-----------------------------------------------------------------------------
(* De-duplication under errors *)

\* While nothing but I/O errors has happened: no uid occurs twice in a file, in a queue or
\* in what is about to be written back, and none that is queued is stored or still to come.
Distinct ==
    /\ OnePerUid(todo)
    /\ \A h \in Hours : OnePerUid(files[h]) /\ OnePerUid(byHour[h])
    /\ \A h \in Hours : UidsIn(byHour[h]) \cap (UidsIn(files[h]) \cup UidsIn(todo)) = {}
    /\ pc \in {"create", "rewrite"} =>
           /\ OnePerUid(buf) /\ Current.uid \in UidsIn(buf)
           /\ UidsIn(buf) \cap UidsIn(byHour[CurHour]) = {}
    /\ pc = "append" => Current.uid \notin UidsIn(files[CurHour])
    /\ pc \in {"idle", "saveRegistry", "notify"} => byHour = NoFiles

DInv == Undisturbed => Distinct

\* A rewrite of distinct uids, whole or cut short, keeps them distinct and adds none.
LEMMA RewriteUids ==
    ASSUME NEW f \in Seq(Record), NEW r \in Record, OnePerUid(f), r.uid \in UidsIn(f)
    PROVE  /\ OnePerUid(ReplaceFirst(f, r)) /\ UidsIn(ReplaceFirst(f, r)) \subseteq UidsIn(f)
           /\ \A p \in Prefixes(ReplaceFirst(f, r)) : OnePerUid(p) /\ UidsIn(p) \subseteq UidsIn(f)
<1>1. /\ ReplaceFirst(f, r) \in Seq(Record) /\ DOMAIN ReplaceFirst(f, r) = DOMAIN f
      /\ \A i \in DOMAIN f : ReplaceFirst(f, r)[i].uid = f[i].uid
  BY ReplaceFirstUids
<1>2. OnePerUid(ReplaceFirst(f, r)) /\ UidsIn(ReplaceFirst(f, r)) \subseteq UidsIn(f)
  BY <1>1 DEF OnePerUid, UidsIn
<1> QED BY <1>1, <1>2, PrefixUids

LEMMA StepDistinct ==
    ASSUME DistinctBatches, FaultsTypeOK, RInv, DInv, [FaultsNext]_allVars
    PROVE  DInv'
<1> SUFFICES ASSUME Undisturbed' PROVE Distinct'
  BY DEF DInv
<1>1. TypeOK BY DEF FaultsTypeOK
<1>2. Undisturbed /\ ~Crash /\ ~ClearActive /\ ~ClearActiveFails
  BY FaultBoundsAssumption DEF FaultsTypeOK, Undisturbed, FaultsNext, Crash, ClearActive, ClearActiveFails,
     Clear, ClearArchive, ClearMeta, ClearRegistry, ClearFails, IoError, Restart, faultVars, allVars
<1>3. Registered /\ Distinct BY <1>2 DEF RInv, DInv
<1>4. ~Restart /\ ~ClearArchive /\ ~ClearMeta /\ ~ClearRegistry /\ ~ClearFails
  BY <1>3 DEF Registered, Restart, ClearArchive, ClearMeta, ClearRegistry, ClearFails
<1>5. /\ files \in [Hours -> Seq(Record)] /\ byHour \in [Hours -> Seq(Record)]
      /\ buf \in Seq(Record) /\ registry \in Registry /\ todo \in Seq(Record)
  BY <1>1 DEF TypeOK
<1>6. todo # <<>> => /\ CurHour \in Hours /\ Current \in Record /\ CurHour = HourOf[Current.uid]
                     /\ OnePerUid(Tail(todo)) /\ UidsIn(Tail(todo)) \subseteq UidsIn(todo)
                     /\ Current.uid \in UidsIn(todo) \ UidsIn(Tail(todo))
  BY <1>1, <1>3, <1>5, CurrentType, TailUids DEF CurHour, Current, Distinct
<1>7. Replacing => todo # <<>> BY <1>1 DEF TypeOK, Replacing
<1> USE DEF storeVars, chanVars, callVars
<1>8. CASE UNCHANGED allVars
  BY <1>3, <1>8 DEF allVars, poolVars, faultVars, Distinct, Current, CurHour
<1>9. CASE IoError
  <2>1. pc' = "idle" /\ byHour' = NoFiles /\ todo' = <<>>
    BY <1>9 DEF IoError, Return
  <2>2. \A h \in Hours : OnePerUid(files'[h])
    <3>1. CASE TornRewrite
      <4>1. /\ pc = "rewrite"
            /\ \E p \in Prefixes(ReplaceFirst(buf, Current)) : files' = [files EXCEPT ![CurHour] = p]
        BY <3>1 DEF TornRewrite
      <4>2. /\ Current \in Record /\ CurHour \in Hours /\ OnePerUid(buf)
            /\ Current.uid \in UidsIn(buf)
        BY <1>3, <1>6, <1>7, <4>1 DEF Distinct, Replacing
      <4>3. \A p \in Prefixes(ReplaceFirst(buf, Current)) : OnePerUid(p)
        BY <1>5, <4>2, RewriteUids
      <4> QED BY <1>3, <1>5, <4>1, <4>2, <4>3 DEF Distinct
    <3>2. CASE TornAppend
      <4>1. PICK h \in Hours : \E p \in Prefixes(byHour[h]) : files' = [files EXCEPT ![h] = @ \o p]
        BY <3>2 DEF TornAppend
      <4>2. PICK p \in Prefixes(byHour[h]) : files' = [files EXCEPT ![h] = @ \o p]
        BY <4>1
      <4>3. /\ p \in Seq(Record) /\ OnePerUid(p) /\ UidsIn(p) \subseteq UidsIn(byHour[h])
            /\ OnePerUid(files[h]) /\ UidsIn(byHour[h]) \cap UidsIn(files[h]) = {}
        BY <1>3, <1>5, PrefixUids DEF Distinct
      <4>4. OnePerUid(files[h] \o p) BY <1>5, <4>3, ConcatUids
      <4> QED BY <1>3, <1>5, <4>2, <4>4 DEF Distinct
    <3>3. CASE files' = files BY <1>3, <3>3 DEF Distinct
    <3> QED BY <1>9, <3>1, <3>2, <3>3 DEF IoError, TornSave, NothingWritten
  <2> QED BY <2>1, <2>2, Empties DEF Distinct
<1>10. ASSUME NEW b \in Batches, PushBegin(b) PROVE Distinct'
  <2>1. /\ pc = "idle" /\ pc' = "apply" /\ todo' = b /\ UNCHANGED <<files, byHour>>
        /\ byHour = NoFiles
    BY <1>3, <1>10 DEF PushBegin, Distinct
  <2>2. OnePerUid(b) BY DEF DistinctBatches
  <2>3. \A h \in Hours : UidsIn(byHour[h]) = {} BY <2>1, Empties
  <2> QED BY <1>3, <2>1, <2>2, <2>3 DEF Distinct
<1>11. CASE ApplyPush
  <2>1. /\ pc' = "apply" /\ todo # <<>> /\ todo' = Tail(todo) /\ files' = files
        /\ registry[Current.uid] = "none"
        /\ byHour' = [byHour EXCEPT ![CurHour] = Append(@, Current)]
    BY <1>11 DEF ApplyPush, Decision
  <2>2. Current.uid \notin UidsIn(files[CurHour]) /\ Current.uid \notin UidsIn(byHour[CurHour])
    BY <1>3, <1>6, <2>1 DEF Registered, Known
  <2>3. /\ OnePerUid(Append(byHour[CurHour], Current))
        /\ UidsIn(Append(byHour[CurHour], Current)) = UidsIn(byHour[CurHour]) \cup {Current.uid}
    BY <1>3, <1>5, <1>6, <2>1, <2>2, AppendUids DEF Distinct
  <2>4. \A h \in Hours : byHour'[h] = IF h = CurHour THEN Append(byHour[CurHour], Current)
                                                     ELSE byHour[h]
    BY <1>5, <1>6, <2>1
  <2>5. \A h \in Hours : OnePerUid(byHour'[h]) BY <1>3, <2>3, <2>4 DEF Distinct
  <2>6. \A h \in Hours : UidsIn(byHour'[h]) \cap (UidsIn(files[h]) \cup UidsIn(Tail(todo))) = {}
    <3> SUFFICES ASSUME NEW h \in Hours
                 PROVE  UidsIn(byHour'[h]) \cap (UidsIn(files[h]) \cup UidsIn(Tail(todo))) = {}
      OBVIOUS
    <3>1. UidsIn(byHour[h]) \cap (UidsIn(files[h]) \cup UidsIn(Tail(todo))) = {}
      BY <1>3, <1>6, <2>1 DEF Distinct
    <3>2. CASE h = CurHour BY <1>6, <2>1, <2>2, <2>3, <2>4, <3>1, <3>2
    <3>3. CASE h # CurHour BY <2>4, <3>1, <3>3
    <3> QED BY <3>2, <3>3
  <2> QED BY <1>3, <1>6, <2>1, <2>5, <2>6 DEF Distinct
<1>12. CASE ApplyReplace
  <2>1. pc' = "read" /\ UNCHANGED <<files, byHour, todo>> BY <1>12 DEF ApplyReplace
  <2> QED BY <1>3, <2>1 DEF Distinct
<1>13. CASE ApplySkip \/ Register
  <2>1. /\ pc' = "apply" /\ todo # <<>> /\ todo' = Tail(todo) /\ UNCHANGED <<files, byHour>>
    BY <1>7, <1>13 DEF ApplySkip, Register, Replacing
  <2> QED BY <1>3, <1>6, <2>1 DEF Distinct
<1>14. CASE ReplaceRead
  <2>1. /\ pc = "read" /\ buf' = files[CurHour] /\ UNCHANGED <<files, byHour, todo>>
        /\ pc' = IF Holds(files[CurHour], Current.uid) # {} THEN "create" ELSE "append"
    BY <1>14 DEF ReplaceRead
  <2>2. CurHour \in Hours BY <1>6, <1>7, <2>1 DEF Replacing
  <2>3. Holds(files[CurHour], Current.uid) # {} <=> Current.uid \in UidsIn(files[CurHour])
    BY DEF Holds, UidsIn
  <2>4. OnePerUid(buf') /\ UidsIn(buf') \cap UidsIn(byHour[CurHour]) = {}
    BY <1>3, <2>1, <2>2 DEF Distinct
  <2>5. CurHour' = CurHour /\ Current' = Current BY <2>1 DEF CurHour, Current
  <2> QED BY <1>3, <2>1, <2>3, <2>4, <2>5 DEF Distinct
<1>15. CASE ReplaceCreate
  <2>1. /\ pc = "create" /\ pc' = "rewrite" /\ files' = [files EXCEPT ![CurHour] = <<>>]
        /\ UNCHANGED <<byHour, todo, buf>>
    BY <1>15 DEF ReplaceCreate
  <2>2. \A h \in Hours : files'[h] = files[h] \/ files'[h] = <<>> BY <1>5, <2>1
  <2>3. \A h \in Hours : OnePerUid(files'[h]) /\ UidsIn(files'[h]) \subseteq UidsIn(files[h])
    BY <1>3, <2>2, Empties DEF Distinct
  <2>4. CurHour' = CurHour /\ Current' = Current BY <2>1 DEF CurHour, Current
  <2> QED BY <1>3, <2>1, <2>3, <2>4 DEF Distinct
<1>16. CASE ReplaceRewrite
  <2>1. /\ pc = "rewrite" /\ pc' = "register" /\ UNCHANGED <<byHour, todo>>
        /\ files' = [files EXCEPT ![CurHour] = ReplaceFirst(buf, Current)]
    BY <1>16 DEF ReplaceRewrite
  <2>2. /\ CurHour \in Hours /\ Current \in Record /\ todo # <<>>
        /\ OnePerUid(ReplaceFirst(buf, Current))
        /\ UidsIn(ReplaceFirst(buf, Current)) \subseteq UidsIn(buf)
        /\ UidsIn(buf) \cap UidsIn(byHour[CurHour]) = {}
    BY <1>3, <1>5, <1>6, <1>7, <2>1, RewriteUids DEF Distinct, Replacing
  <2>3. \A h \in Hours : OnePerUid(files'[h]) BY <1>3, <1>5, <2>1, <2>2 DEF Distinct
  <2>4. \A h \in Hours : UidsIn(byHour[h]) \cap (UidsIn(files'[h]) \cup UidsIn(todo)) = {}
    BY <1>3, <1>5, <2>1, <2>2 DEF Distinct
  <2> QED BY <1>3, <2>1, <2>3, <2>4 DEF Distinct
<1>17. CASE ReplaceAppend
  <2>1. /\ pc = "append" /\ pc' = "register" /\ UNCHANGED <<byHour, todo>>
        /\ files' = [files EXCEPT ![CurHour] = Append(@, Current)]
    BY <1>17 DEF ReplaceAppend
  <2>2. /\ CurHour \in Hours /\ Current \in Record /\ Current.uid \in UidsIn(todo)
    BY <1>6, <1>7, <2>1 DEF Replacing
  <2>3. /\ OnePerUid(Append(files[CurHour], Current))
        /\ UidsIn(Append(files[CurHour], Current)) = UidsIn(files[CurHour]) \cup {Current.uid}
    BY <1>3, <1>5, <2>1, <2>2, AppendUids DEF Distinct
  <2>4. \A h \in Hours : files'[h] = IF h = CurHour THEN Append(files[CurHour], Current)
                                                    ELSE files[h]
    BY <1>5, <2>1, <2>2
  <2>5. \A h \in Hours : OnePerUid(files'[h]) BY <1>3, <2>3, <2>4 DEF Distinct
  <2>6. \A h \in Hours : UidsIn(byHour[h]) \cap (UidsIn(files'[h]) \cup UidsIn(todo)) = {}
    BY <1>3, <2>2, <2>3, <2>4 DEF Distinct
  <2> QED BY <1>3, <2>1, <2>5, <2>6 DEF Distinct
<1>18. ASSUME NEW h \in Hours, WriteLogs(h) PROVE Distinct'
  <2>1. /\ pc' = "index" /\ todo' = todo /\ files' = [files EXCEPT ![h] = @ \o byHour[h]]
        /\ byHour' = [byHour EXCEPT ![h] = <<>>]
    BY <1>18 DEF WriteLogs
  <2>2. OnePerUid(files[h] \o byHour[h])
    BY <1>3, <1>5, ConcatUids DEF Distinct
  <2>3. \A k \in Hours : /\ k # h => files'[k] = files[k] /\ byHour'[k] = byHour[k]
                         /\ files'[h] = files[h] \o byHour[h] /\ byHour'[h] = <<>>
    BY <1>5, <2>1
  <2>4. \A k \in Hours : OnePerUid(files'[k]) /\ OnePerUid(byHour'[k])
    BY <1>3, <2>2, <2>3, Empties DEF Distinct
  <2>5. \A k \in Hours : UidsIn(byHour'[k]) \cap (UidsIn(files'[k]) \cup UidsIn(todo)) = {}
    <3>1. UidsIn(byHour'[h]) = {} BY <2>3, Empties
    <3> QED BY <1>3, <2>3, <3>1 DEF Distinct
  <2> QED BY <1>3, <2>1, <2>4, <2>5 DEF Distinct
<1>19. CASE EnsureIndex \/ SaveMeta \/ SaveRegistry
  <2>1. /\ pc' \in {"apply", "saveRegistry", "notify"} /\ UNCHANGED <<files, byHour, todo>>
        /\ pc' \in {"saveRegistry", "notify"} => byHour = NoFiles
    BY <1>3, <1>19 DEF EnsureIndex, SaveMeta, SaveRegistry, Distinct
  <2> QED BY <1>3, <2>1 DEF Distinct
<1>20. CASE Notify
  <2>1. pc' = "idle" /\ byHour' = NoFiles /\ files' = files /\ todo' = <<>>
    BY <1>20 DEF Notify, Return
  <2> QED BY <1>3, <2>1, Empties DEF Distinct
<1> QED
  BY <1>2, <1>4, <1>8, <1>9, <1>10, <1>11, <1>12, <1>13, <1>14, <1>15, <1>16, <1>17, <1>18,
     <1>19, <1>20 DEF FaultsNext, Clear, PoolNext, PushStep

\* I/O errors alone never break de-duplication: if no batch repeats a uid, no hour file
\* ever holds one twice, whichever writes fail, and how many, and whatever is pushed again.
THEOREM FaultsUnique == ASSUME DistinctBatches PROVE FaultsSpec => []UniqueDespiteErrors
<1>1. FaultsInit => DInv
  BY Empties DEF FaultsInit, Init, DInv, Distinct
<1>2. FaultsTypeOK /\ RInv /\ DInv /\ [FaultsNext]_allVars => DInv'
  BY StepDistinct
<1>3. DInv => UniqueDespiteErrors
  BY DEF DInv, Distinct, UniqueDespiteErrors, UniqueRecords
<1> QED BY <1>1, <1>2, <1>3, FaultsRegistered, PTL DEF FaultsSpec

-----------------------------------------------------------------------------
(* The order of persist_all *)

\* A registered uid's hour is indexed, or its record is queued, or written and about to
\* be indexed.
Covered(h) == meta.tier[h] # "none" \/ byHour[h] # <<>> \/ (pc = "index" /\ cur.hour = h)

\* Without errors and Rebuilds: the registry never runs ahead of the index by more than
\* the push under way, and the registry file never runs ahead of the index in memory, nor,
\* where both files can be loaded, of the index file.
IndexFirst ==
    /\ clearPc = "off"
    /\ pc # "down" => \A u \in Uids : registry[u] # "none" => Covered(HourOf[u])
    /\ pc # "down" /\ diskRegistry # Torn =>
           \A u \in Uids : diskRegistry[u] # "none" => meta.tier[HourOf[u]] # "none"
    /\ Torn \notin {diskMeta, diskRegistry} =>
           \A u \in Uids : diskRegistry[u] # "none" => diskMeta.tier[HourOf[u]] # "none"
    /\ pc \in {"idle", "saveRegistry", "notify", "down"} => byHour = NoFiles
    /\ pc = "saveRegistry" => diskMeta = meta
    /\ Replacing => registry[Current.uid] # "none"

XInv == (errors = 0 /\ clears = 0) => IndexFirst

\* ensure_index adds an hour to the index and takes none from it.
LEMMA EnsureIndexTiers ==
    ASSUME TypeOK, EnsureIndex
    PROVE  /\ cur.hour \in Hours
           /\ meta'.tier[cur.hour] # "none"
           /\ \A h \in Hours : meta.tier[h] # "none" => meta'.tier[h] # "none"
<1>1. cur \in [hour : Hours, count : Nat] BY DEF EnsureIndex, TypeOK
<1>2. /\ meta = [version |-> meta.version, tier |-> meta.tier, count |-> meta.count]
      /\ meta.tier \in [Hours -> Tiers]
  BY DEF TypeOK, Meta
<1>3. CASE meta.tier[cur.hour] = "none"
  <2>1. meta' = [meta EXCEPT !.version = @ + 1, !.tier[cur.hour] = "active",
                             !.count[cur.hour] = @ + cur.count]
    BY <1>3 DEF EnsureIndex
  <2>2. meta'.tier = [meta.tier EXCEPT ![cur.hour] = "active"] BY <1>2, <2>1
  <2> QED BY <1>1, <1>2, <2>2
<1>4. CASE meta.tier[cur.hour] # "none"
  <2>1. meta' = [meta EXCEPT !.count[cur.hour] = @ + cur.count]
    BY <1>4 DEF EnsureIndex
  <2>2. meta'.tier = meta.tier BY <1>2, <2>1
  <2> QED BY <1>1, <1>4, <2>2
<1> QED BY <1>3, <1>4

\* A push keeps the order, whatever the pool has been through before.
LEMMA PushIndexFirst ==
    ASSUME TypeOK, IndexFirst, PoolNext, UNCHANGED faultVars
    PROVE  IndexFirst'
<1>1. /\ byHour \in [Hours -> Seq(Record)] /\ registry \in Registry
      /\ \A u \in Uids : HourOf[u] \in Hours
  BY HourOfAssumption DEF TypeOK
<1>2. /\ todo # <<>> => /\ CurHour \in Hours /\ Current \in Record /\ Current.uid \in Uids
                        /\ CurHour = HourOf[Current.uid] /\ Current.class # "none"
      /\ Replacing => todo # <<>>
  BY CurrentType DEF CurHour, Current, TypeOK, Replacing, Classes
<1> USE DEF storeVars, chanVars, callVars
<1>3. ASSUME NEW b \in Batches, PushBegin(b) PROVE IndexFirst'
  <2>1. /\ pc = "idle" /\ pc' = "apply" /\ clearPc' = clearPc
        /\ UNCHANGED <<meta, registry, diskMeta, diskRegistry, byHour, cur>>
    BY <1>3 DEF PushBegin, faultVars
  <2> QED BY <2>1 DEF IndexFirst, Covered, Replacing
<1>4. CASE ApplyPush
  <2>1. /\ pc = "apply" /\ pc' = "apply" /\ todo # <<>> /\ clearPc' = clearPc
        /\ byHour' = [byHour EXCEPT ![CurHour] = Append(@, Current)]
        /\ registry' = [registry EXCEPT ![Current.uid] = Current.class]
        /\ UNCHANGED <<meta, diskMeta, diskRegistry>>
    BY <1>4 DEF ApplyPush, faultVars
  <2>2. Append(byHour[CurHour], Current) # <<>> BY <1>1, <1>2, <2>1
  <2>3. \A h \in Hours : byHour[h] # <<>> => byHour'[h] # <<>> BY <1>1, <1>2, <2>1, <2>2
  <2>4. byHour'[CurHour] # <<>> BY <1>1, <1>2, <2>1, <2>2
  <2>5. ASSUME NEW u \in Uids, registry'[u] # "none" PROVE Covered(HourOf[u])'
    <3>1. CASE u = Current.uid BY <1>2, <2>1, <2>4, <3>1 DEF Covered
    <3>2. CASE u # Current.uid
      <4>1. registry[u] # "none" BY <1>1, <2>1, <2>5, <3>2 DEF Registry
      <4>2. Covered(HourOf[u]) BY <2>1, <4>1 DEF IndexFirst
      <4> QED BY <1>1, <2>1, <2>3, <4>2 DEF Covered
    <3> QED BY <3>1, <3>2
  <2> QED BY <2>1, <2>5 DEF IndexFirst, Replacing
<1>5. CASE ApplyReplace
  <2>1. /\ pc = "apply" /\ pc' = "read" /\ clearPc' = clearPc /\ registry[Current.uid] # "none"
        /\ UNCHANGED <<meta, registry, diskMeta, diskRegistry, byHour, todo, cur>>
    BY <1>5 DEF ApplyReplace, Decision, faultVars
  <2> QED BY <2>1 DEF IndexFirst, Covered, Replacing, Current
<1>6. CASE ApplySkip
  <2>1. /\ pc = "apply" /\ pc' = "apply" /\ clearPc' = clearPc
        /\ UNCHANGED <<meta, registry, diskMeta, diskRegistry, byHour, cur>>
    BY <1>6 DEF ApplySkip, faultVars
  <2> QED BY <2>1 DEF IndexFirst, Covered, Replacing
<1>7. CASE (ReplaceRead \/ ReplaceCreate \/ ReplaceRewrite \/ ReplaceAppend)
  <2>1. /\ Replacing /\ pc \in {"read", "create", "rewrite", "append"}
        /\ pc' \in {"create", "rewrite", "append", "register"} /\ clearPc' = clearPc
        /\ UNCHANGED <<meta, registry, diskMeta, diskRegistry, byHour, todo, cur>>
    BY <1>7 DEF ReplaceRead, ReplaceCreate, ReplaceRewrite, ReplaceAppend, faultVars, Replacing
  <2> QED BY <2>1 DEF IndexFirst, Covered, Replacing, Current
<1>8. CASE Register
  <2>1. /\ pc = "register" /\ pc' = "apply" /\ clearPc' = clearPc
        /\ registry' = [registry EXCEPT ![Current.uid] = Current.class]
        /\ UNCHANGED <<meta, diskMeta, diskRegistry, byHour, cur>>
    BY <1>8 DEF Register, faultVars
  <2>2. todo # <<>> /\ registry[Current.uid] # "none"
    BY <1>2, <2>1 DEF IndexFirst, Replacing
  <2>3. \A u \in Uids : registry'[u] # "none" => registry[u] # "none"
    BY <1>1, <1>2, <2>1, <2>2 DEF Registry
  <2> QED BY <2>1, <2>3 DEF IndexFirst, Covered, Replacing
<1>9. ASSUME NEW h \in Hours, WriteLogs(h) PROVE IndexFirst'
  <2>1. /\ pc = "apply" /\ pc' = "index" /\ clearPc' = clearPc
        /\ byHour' = [byHour EXCEPT ![h] = <<>>] /\ cur' = [hour |-> h, count |-> Len(byHour[h])]
        /\ UNCHANGED <<meta, registry, diskMeta, diskRegistry>>
    BY <1>9 DEF WriteLogs, faultVars
  <2>2. cur'.hour = h /\ \A k \in Hours : k # h => byHour'[k] = byHour[k] BY <1>1, <2>1
  <2>3. \A k \in Hours : Covered(k) => Covered(k)' BY <2>1, <2>2 DEF Covered
  <2> QED BY <1>1, <2>1, <2>3 DEF IndexFirst, Replacing
<1>10. CASE EnsureIndex
  <2>1. /\ pc = "index" /\ pc' = "apply" /\ clearPc' = clearPc
        /\ UNCHANGED <<registry, diskMeta, diskRegistry, byHour>>
    BY <1>10 DEF EnsureIndex, faultVars
  <2>2. /\ meta'.tier[cur.hour] # "none"
        /\ \A k \in Hours : meta.tier[k] # "none" => meta'.tier[k] # "none"
    BY <1>10, EnsureIndexTiers
  <2>3. \A k \in Hours : Covered(k) => Covered(k)' BY <2>1, <2>2 DEF Covered
  <2> QED BY <1>1, <2>1, <2>2, <2>3 DEF IndexFirst, Replacing
<1>11. CASE SaveMeta
  <2>1. /\ pc = "apply" /\ pc' = "saveRegistry" /\ clearPc' = clearPc /\ byHour = NoFiles
        /\ diskMeta' = meta /\ UNCHANGED <<meta, registry, diskRegistry, byHour>>
    BY <1>11 DEF SaveMeta, faultVars
  <2> QED BY <2>1 DEF IndexFirst, Covered, Replacing
<1>12. CASE SaveRegistry
  <2>1. /\ pc = "saveRegistry" /\ pc' = "notify" /\ clearPc' = clearPc
        /\ diskRegistry' = registry /\ UNCHANGED <<meta, registry, diskMeta, byHour>>
    BY <1>12 DEF SaveRegistry, faultVars
  <2>2. byHour = NoFiles /\ diskMeta = meta BY <2>1 DEF IndexFirst
  <2>3. \A u \in Uids : registry[u] # "none" => meta.tier[HourOf[u]] # "none"
    BY <1>1, <2>1, <2>2, Empties DEF IndexFirst, Covered
  <2>4. \A u \in Uids : registry[u] # "none" => Covered(HourOf[u])'
    BY <2>1, <2>3 DEF Covered
  <2> QED BY <2>1, <2>2, <2>3, <2>4 DEF IndexFirst, Replacing
<1>13. CASE Notify
  <2>1. /\ pc = "notify" /\ pc' = "idle" /\ clearPc' = clearPc /\ byHour' = NoFiles
        /\ UNCHANGED <<meta, registry, diskMeta, diskRegistry>>
    BY <1>13 DEF Notify, Return, faultVars
  <2>2. byHour = NoFiles BY <2>1 DEF IndexFirst
  <2> QED BY <2>1, <2>2 DEF IndexFirst, Covered, Replacing
<1> QED
  BY <1>3, <1>4, <1>5, <1>6, <1>7, <1>8, <1>9, <1>10, <1>11, <1>12, <1>13 DEF PoolNext, PushStep

LEMMA StepIndexFirst ==
    ASSUME FaultsTypeOK, XInv, [FaultsNext]_allVars
    PROVE  XInv'
<1> SUFFICES ASSUME errors' = 0, clears' = 0 PROVE IndexFirst'
  BY DEF XInv
<1>1. TypeOK BY DEF FaultsTypeOK
<1>2. errors = 0 /\ clears = 0 /\ ~IoError /\ ~ClearActive /\ ~ClearActiveFails
  BY FaultBoundsAssumption DEF FaultsTypeOK, FaultsNext, Crash, ClearActive, ClearActiveFails,
     Clear, ClearArchive, ClearMeta, ClearRegistry, ClearFails, IoError, Restart, faultVars, allVars
<1>3. IndexFirst BY <1>2 DEF XInv
<1>4. ~ClearArchive /\ ~ClearMeta /\ ~ClearRegistry /\ ~ClearFails
  BY <1>3 DEF IndexFirst, ClearArchive, ClearMeta, ClearRegistry, ClearFails
<1> USE DEF storeVars, chanVars, callVars
<1>5. CASE UNCHANGED allVars
  BY <1>3, <1>5 DEF allVars, poolVars, faultVars, IndexFirst, Covered, Replacing, Current
<1>6. CASE Crash
  <2>1. /\ pc' = "down" /\ byHour' = NoFiles /\ clearPc' = "off"
        /\ Torn \in {diskMeta', diskRegistry'} \/ UNCHANGED <<diskMeta, diskRegistry>>
    BY <1>6 DEF Crash, TornRewrite, TornAppend, TornSave, TornClear
  <2> QED BY <1>3, <2>1 DEF IndexFirst, Replacing
<1>7. CASE Restart
  <2>1. /\ pc = "down" /\ Torn \notin {diskMeta, diskRegistry} /\ pc' = "idle"
        /\ meta' = diskMeta /\ registry' = diskRegistry
        /\ UNCHANGED <<diskMeta, diskRegistry, byHour, clearPc>>
    BY <1>7 DEF Restart, faultVars
  <2>2. \A u \in Uids : diskRegistry[u] # "none" => diskMeta.tier[HourOf[u]] # "none"
    BY <1>3, <2>1 DEF IndexFirst
  <2> QED BY <1>3, <2>1, <2>2 DEF IndexFirst, Covered, Replacing
<1>8. CASE PoolNext /\ UNCHANGED faultVars BY <1>1, <1>3, <1>8, PushIndexFirst
<1> QED BY <1>2, <1>4, <1>5, <1>6, <1>7, <1>8 DEF FaultsNext, Clear

\* The metadata file is saved before the registry file, and a crash between the two, or
\* inside one, any number of times, leaves no uid known to the next start whose hour the
\* next start will not find in its index.
THEOREM FaultsIndexedOnDisk == FaultsSpec => []KnownIsIndexedOnDisk
<1>1. FaultsInit => XInv
  BY Empties DEF FaultsInit, Init, XInv, IndexFirst, Replacing
<1>2. FaultsTypeOK /\ XInv /\ [FaultsNext]_allVars => XInv'
  BY StepIndexFirst
<1>3. XInv => KnownIsIndexedOnDisk
  BY DEF XInv, IndexFirst, KnownIsIndexedOnDisk
<1> QED BY <1>1, <1>2, <1>3, FaultsTypeCorrect, PTL DEF FaultsSpec

-----------------------------------------------------------------------------
(* Rule 3 in memory *)

\* A replace under way is one that rule 3 allows, whatever has been cleared since.
Allowed == Replacing => ~(registry[Current.uid] = "official" /\ Current.class = "calculate")

LEMMA StepAllowed ==
    ASSUME FaultsTypeOK, Allowed, [FaultsNext]_allVars
    PROVE  Allowed'
<1>1. TypeOK BY DEF FaultsTypeOK
<1> USE DEF storeVars, chanVars, callVars, Replacing
<1>2. CASE ApplyReplace
  <2>1. /\ UNCHANGED <<registry, todo>>
        /\ ~(registry[Current.uid] = "official" /\ Current.class = "calculate")
    BY <1>2 DEF ApplyReplace, Decision
  <2> QED BY <2>1 DEF Allowed, Current
<1>3. CASE ReplaceRead \/ ReplaceCreate \/ ReplaceRewrite \/ ReplaceAppend
  <2>1. Replacing /\ UNCHANGED <<registry, todo>>
    BY <1>3 DEF ReplaceRead, ReplaceCreate, ReplaceRewrite, ReplaceAppend
  <2> QED BY <2>1 DEF Allowed, Current
<1>4. CASE Clear
  <2>1. pc' = pc /\ todo' = todo /\ (registry' = registry \/ registry' = EmptyRegistry)
    BY <1>4 DEF Clear, ClearActive, ClearActiveFails, ClearArchive, ClearMeta, ClearRegistry,
       ClearFails, poolVars
  <2>2. Replacing => Current.uid \in Uids
    BY <1>1, CurrentType DEF TypeOK
  <2> QED BY <2>1, <2>2, Empties DEF Allowed, Current
<1>5. CASE UNCHANGED allVars BY <1>5 DEF allVars, poolVars, Allowed, Current
<1>6. CASE PushStep /\ ~ApplyReplace /\ ~(ReplaceRead \/ ReplaceCreate \/ ReplaceRewrite \/ ReplaceAppend)
  <2>1. ~Replacing'
    BY <1>6 DEF PushStep, ApplyPush, ApplySkip, Register, WriteLogs, EnsureIndex, SaveMeta,
       SaveRegistry, Notify, Return
  <2> QED BY <2>1 DEF Allowed
<1>7. CASE (\E b \in Batches : PushBegin(b)) \/ IoError \/ Crash \/ Restart
  <2>1. ~Replacing' BY <1>7 DEF PushBegin, IoError, Return, Crash, Restart
  <2> QED BY <2>1 DEF Allowed
<1> QED BY <1>2, <1>3, <1>4, <1>5, <1>6, <1>7 DEF FaultsNext, PoolNext

\* Rule 3 in memory: while the process lives and no Rebuild is running, a uid that is
\* registered as official stays official, errors and interleavings notwithstanding.
THEOREM FaultsKeepsOfficial == FaultsSpec => OfficialStaysRegistered
<1>1. FaultsInit => Allowed BY DEF FaultsInit, Init, Allowed, Replacing
<1>2. FaultsTypeOK /\ Allowed /\ [FaultsNext]_allVars => Allowed'
  BY StepAllowed
<1>3. FaultsTypeOK /\ Allowed /\ [FaultsNext]_allVars =>
        [(pc # "down" /\ pc' # "down" /\ clearPc = "off") =>
            \A u \in Uids : registry[u] = "official" => registry'[u] = "official"]_allVars
  <2> SUFFICES ASSUME FaultsTypeOK, Allowed, FaultsNext, pc # "down", pc' # "down",
                      clearPc = "off", NEW u \in Uids, registry[u] = "official"
               PROVE  registry'[u] = "official"
    OBVIOUS
  <2> USE DEF storeVars, chanVars, callVars
  <2>1. TypeOK BY DEF FaultsTypeOK
  <2>2. CASE ApplyPush
    <3>1. /\ todo # <<>> /\ registry' = [registry EXCEPT ![Current.uid] = Current.class]
          /\ registry[Current.uid] = "none"
      BY <2>2 DEF ApplyPush, Decision
    <3> QED BY <2>1, <3>1 DEF TypeOK, Registry
  <2>3. CASE Register
    <3>1. /\ todo # <<>> /\ registry' = [registry EXCEPT ![Current.uid] = Current.class]
          /\ ~(registry[Current.uid] = "official" /\ Current.class = "calculate")
      BY <2>1, <2>3 DEF Register, TypeOK, Allowed, Replacing
    <3>2. Current.class \in {"official", "calculate"} BY <2>1, <3>1, CurrentType DEF Classes
    <3> QED BY <2>1, <3>1, <3>2 DEF TypeOK, Registry
  <2>4. CASE ~ApplyPush /\ ~Register
    <3>1. registry' = registry
      BY <2>4 DEF FaultsNext, PoolNext, PushStep, PushBegin, ApplyReplace, ApplySkip, ReplaceRead,
         ReplaceCreate, ReplaceRewrite, ReplaceAppend, WriteLogs, EnsureIndex, SaveMeta,
         SaveRegistry, Notify, IoError, Crash, Restart, Clear, ClearActive, ClearActiveFails,
         ClearArchive, ClearMeta, ClearRegistry, ClearFails, poolVars
    <3> QED BY <3>1
  <2> QED BY <2>2, <2>3, <2>4
<1> QED BY <1>1, <1>2, <1>3, FaultsTypeCorrect, PTL DEF FaultsSpec, OfficialStaysRegistered
=============================================================================
