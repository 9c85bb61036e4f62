--------------------------- MODULE DataPoolProofs ---------------------------
(***************************************************************************)
(* Proofs about the data pool (DataPool), for every set of uids, hours,    *)
(* payloads and batches and every bound.                                   *)
(*                                                                         *)
(* A push rewrites an hour file in two steps and registers a replaced uid  *)
(* in a third, so neither the files nor the registry agree with anything   *)
(* half way.  The invariant is stated about the contents and the registry  *)
(* that the step under way is about to restore, where both always agree.   *)
(***************************************************************************)
EXTENDS DataPool, FiniteSetTheorems, TLAPS

\* The uids a sequence of records holds.
UidsIn(f) == {f[i].uid : i \in DOMAIN f}

\* The registry gives every record of the sequence its class.
Agree(f, R) == \A i \in DOMAIN f : R[f[i].uid] = f[i].class

\* The hour files, and the registry, when the half-done replace is done.
Contents == [h \in Hours |-> Content(h)]
Restored  == IF pc = "register"
            THEN [registry EXCEPT ![Current.uid] = Current.class]
            ELSE registry

\* Contents C, queues B, registry R and the rest T of the batch agree: what is
\* queued is new, what is stored or queued is at its home hour and registered with
\* the class it has, and no uid occurs twice.
Consistent(C, B, R, T) ==
    /\ OnePerUid(T)
    /\ \A h \in Hours : OnePerUid(C[h]) /\ OnePerUid(B[h])
    /\ \A h \in Hours : UidsIn(B[h]) \cap (UidsIn(C[h]) \cup UidsIn(T)) = {}
    /\ \A h \in Hours : \A u \in UidsIn(C[h]) \cup UidsIn(B[h]) : HourOf[u] = h
    /\ \A h \in Hours : Agree(C[h], R) /\ Agree(B[h], R)

\* What is registered is stored or queued.
AllHeld(C, B, R) ==
    \A u \in Uids : R[u] # "none" =>
        u \in UidsIn(C[HourOf[u]]) \cup UidsIn(B[HourOf[u]])

\* Where the call is and what that says of its locals.
Control ==
    /\ pc # "down"
    /\ pc \in {"idle", "saveRegistry", "notify"} => todo = <<>> /\ byHour = NoFiles
    /\ pc = "index" => todo = <<>>
    /\ pc \in {"read", "create", "rewrite", "append"} => Decision(Current) = "replace"
    /\ pc = "register" => registry[Current.uid] # "none"
    /\ pc \in {"create", "rewrite"} => Current.uid \in UidsIn(buf)
    /\ pc = "create"  => buf = files[CurHour]
    /\ pc = "rewrite" => files[CurHour] = <<>>
    /\ pc = "append"  => Current.uid \notin UidsIn(files[CurHour])

\* Of any pool, and of one whose registry knows only what its files hold.
CInv == TypeOK /\ Control /\ Consistent(Contents, byHour, Restored, todo)
IInv == CInv /\ pc # "append" /\ AllHeld(Contents, byHour, Restored)

-----------------------------------------------------------------------------
(* Sequences of records *)

\* Appending a record whose uid is new keeps uids distinct.
LEMMA AppendUids ==
    ASSUME NEW f \in Seq(Record), NEW r \in Record
    PROVE  /\ UidsIn(Append(f, r)) = UidsIn(f) \cup {r.uid}
           /\ OnePerUid(f) /\ r.uid \notin UidsIn(f) => OnePerUid(Append(f, r))
<1>1. /\ DOMAIN Append(f, r) = DOMAIN f \cup {Len(f) + 1}
      /\ \A i \in DOMAIN f : Append(f, r)[i] = f[i]
      /\ Append(f, r)[Len(f) + 1] = r
  OBVIOUS
<1>2. UidsIn(Append(f, r)) = UidsIn(f) \cup {r.uid}
  BY <1>1 DEF UidsIn
<1>3. OnePerUid(f) /\ r.uid \notin UidsIn(f) => OnePerUid(Append(f, r))
  BY <1>1 DEF UidsIn, OnePerUid
<1> QED BY <1>2, <1>3

\* Writing a queue to a file that holds none of its uids keeps uids distinct.
LEMMA ConcatUids ==
    ASSUME NEW f \in Seq(Record), NEW g \in Seq(Record)
    PROVE  /\ UidsIn(f \o g) = UidsIn(f) \cup UidsIn(g)
           /\ OnePerUid(f) /\ OnePerUid(g) /\ UidsIn(f) \cap UidsIn(g) = {}
                  => OnePerUid(f \o g)
           /\ \A R : Agree(f, R) /\ Agree(g, R) => Agree(f \o g, R)
<1>1. /\ f \o g \in Seq(Record) /\ Len(f \o g) = Len(f) + Len(g)
      /\ \A i \in 1..Len(f) : (f \o g)[i] = f[i]
      /\ \A i \in 1..Len(g) : (f \o g)[Len(f) + i] = g[i]
  OBVIOUS
<1>2. /\ DOMAIN f = 1..Len(f) /\ DOMAIN g = 1..Len(g)
      /\ DOMAIN (f \o g) = 1..(Len(f) + Len(g))
      /\ Len(f) \in Nat /\ Len(g) \in Nat
  BY <1>1
<1>3. ASSUME NEW i \in DOMAIN (f \o g)
      PROVE  \/ i \in DOMAIN f /\ (f \o g)[i] = f[i]
             \/ /\ i \notin DOMAIN f /\ i - Len(f) \in DOMAIN g
                /\ (f \o g)[i] = g[i - Len(f)]
  <2>1. CASE i \in 1..Len(f) BY <2>1, <1>1, <1>2
  <2>2. CASE i \notin 1..Len(f)
    <3>1. i - Len(f) \in 1..Len(g) /\ i = Len(f) + (i - Len(f)) BY <2>2, <1>2
    <3> QED BY <3>1, <2>2, <1>1, <1>2
  <2> QED BY <2>1, <2>2
<1>4. UidsIn(f \o g) = UidsIn(f) \cup UidsIn(g)
  <2>1. UidsIn(f \o g) \subseteq UidsIn(f) \cup UidsIn(g) BY <1>3 DEF UidsIn
  <2>2. UidsIn(f) \subseteq UidsIn(f \o g) BY <1>1, <1>2 DEF UidsIn
  <2>3. UidsIn(g) \subseteq UidsIn(f \o g)
    <3>1. \A i \in DOMAIN g : Len(f) + i \in DOMAIN (f \o g) BY <1>2
    <3> QED BY <3>1, <1>1, <1>2 DEF UidsIn
  <2> QED BY <2>1, <2>2, <2>3
<1>5. ASSUME OnePerUid(f), OnePerUid(g), UidsIn(f) \cap UidsIn(g) = {}
      PROVE  OnePerUid(f \o g)
  <2> SUFFICES ASSUME NEW i \in DOMAIN (f \o g), NEW j \in DOMAIN (f \o g),
                      (f \o g)[i].uid = (f \o g)[j].uid
               PROVE  i = j
    BY DEF OnePerUid
  <2>1. i \in DOMAIN f <=> j \in DOMAIN f
    <3>1. \A m \in DOMAIN f, n \in DOMAIN g : f[m].uid # g[n].uid
      BY <1>5 DEF UidsIn
    <3> QED BY <3>1, <1>3
  <2>2. CASE i \in DOMAIN f BY <2>1, <2>2, <1>3, <1>5 DEF OnePerUid
  <2>3. CASE i \notin DOMAIN f
    <3>1. i - Len(f) = j - Len(f) BY <2>1, <2>3, <1>3, <1>5 DEF OnePerUid
    <3> QED BY <3>1, <1>2
  <2> QED BY <2>2, <2>3
<1>6. ASSUME NEW R, Agree(f, R), Agree(g, R)
      PROVE  Agree(f \o g, R)
  BY <1>3, <1>6 DEF Agree
<1> QED BY <1>4, <1>5, <1>6

\* replace_in_hour on a file of distinct uids: the record of that uid, and no
\* other, is exchanged.
LEMMA ReplaceFirstUids ==
    ASSUME NEW f \in Seq(Record), NEW r \in Record,
           OnePerUid(f), r.uid \in UidsIn(f)
    PROVE  /\ ReplaceFirst(f, r) \in Seq(Record)
           /\ DOMAIN ReplaceFirst(f, r) = DOMAIN f
           /\ \A i \in DOMAIN f :
                 ReplaceFirst(f, r)[i] = IF f[i].uid = r.uid THEN r ELSE f[i]
<1>1. PICK k \in DOMAIN f : f[k].uid = r.uid BY DEF UidsIn
<1>2. Holds(f, r.uid) = {k} BY <1>1 DEF Holds, OnePerUid
<1> DEFINE first == CHOOSE i \in Holds(f, r.uid) : \A j \in Holds(f, r.uid) : i <= j
<1>3. k \in Nat /\ k <= k BY <1>1
<1>4. first = k BY <1>2, <1>3
<1>5. ReplaceFirst(f, r) = [f EXCEPT ![k] = r] BY <1>4 DEF ReplaceFirst
<1>6. \A i \in DOMAIN f : f[i].uid = r.uid <=> i = k BY <1>1 DEF OnePerUid
<1> QED BY <1>1, <1>5, <1>6

-----------------------------------------------------------------------------
(* Type correctness *)

\* A notification sent on the broadcast leaves a queue of notifications.
LEMMA SendType ==
    ASSUME NEW n \in Notification, chan \in Seq(Notification), lagged \in BOOLEAN,
           Send(n)
    PROVE  chan' \in Seq(Notification) /\ lagged' \in BOOLEAN
<1>1. CASE Len(chan) < ChanCap BY <1>1 DEF Send
<1>2. CASE ~(Len(chan) < ChanCap)
  <2>1. chan # <<>> BY <1>2, BoundsAssumption
  <2> QED BY <1>2, <2>1 DEF Send
<1> QED BY <1>1, <1>2

LEMMA ReplaceFirstType ==
    ASSUME NEW f \in Seq(Record), NEW r \in Record
    PROVE  ReplaceFirst(f, r) \in Seq(Record)
<1> DEFINE first == CHOOSE i \in Holds(f, r.uid) : \A j \in Holds(f, r.uid) : i <= j
<1>1. ReplaceFirst(f, r) = [f EXCEPT ![first] = r] BY DEF ReplaceFirst
<1> HIDE DEF first
<1>2. f \in [1..Len(f) -> Record] /\ Len(f) \in Nat OBVIOUS
<1>3. [f EXCEPT ![first] = r] \in [1..Len(f) -> Record] BY <1>2
<1>4. [f EXCEPT ![first] = r] \in Seq(Record) BY <1>2, <1>3
<1> QED BY <1>1, <1>4

\* The loop's record and its hour, while records are left.
LEMMA CurrentType ==
    ASSUME TypeOK, todo # <<>>
    PROVE  /\ Current \in Record /\ Current.uid \in Uids /\ Current.class \in Classes
           /\ CurHour \in Hours /\ Tail(todo) \in Seq(Record)
<1>1. Current \in Record /\ Tail(todo) \in Seq(Record) BY DEF TypeOK, Current
<1>2. Current.uid \in Uids /\ Current.class \in Classes BY <1>1 DEF Record
<1>3. CurHour \in Hours BY <1>2, HourOfAssumption DEF CurHour, Current
<1> QED BY <1>1, <1>2, <1>3

LEMMA InitTypeOK == Init => TypeOK
<1>1. EmptyMeta \in Meta BY DEF EmptyMeta, Meta, Tiers
<1>2. EmptyRegistry \in Registry BY DEF EmptyRegistry, Registry
<1>3. NoFiles \in [Hours -> Seq(Record)] BY DEF NoFiles
<1>4. <<>> \in Seq(Record) /\ <<>> \in Seq(Notification) OBVIOUS
<1> SUFFICES ASSUME Init PROVE TypeOK
  OBVIOUS
<1>5. /\ files \in [Hours -> Seq(Record)] /\ byHour \in [Hours -> Seq(Record)]
      /\ meta \in Meta /\ diskMeta \in Meta \cup {Torn}
      /\ registry \in Registry /\ diskRegistry \in Registry \cup {Torn}
  BY <1>1, <1>2, <1>3 DEF Init
<1>6. /\ todo \in Seq(Record) /\ buf \in Seq(Record) /\ chan \in Seq(Notification)
      /\ affected \subseteq Hours /\ lagged \in BOOLEAN /\ pushes \in Nat
      /\ cur \in [hour : Hours, count : Nat] \cup {<<>>}
  BY <1>4 DEF Init
<1>7. pc = "idle" BY DEF Init
<1> QED BY <1>5, <1>6, <1>7 DEF TypeOK, PcValues

\* Every step of the pool keeps the variables in their types, and the control
\* points inside the loop keep a record to work on.
LEMMA StepTypeOK == TypeOK /\ [PoolNext]_poolVars => TypeOK'
<1> SUFFICES ASSUME TypeOK, [PoolNext]_poolVars PROVE TypeOK'
  OBVIOUS
<1> USE DEF PcValues, storeVars, chanVars, callVars
<1>1. ASSUME NEW b \in Batches, PushBegin(b) PROVE TypeOK'
  BY <1>1, BatchesAssumption DEF PushBegin, TypeOK
<1>2. CASE ApplyPush
  <2>1. todo # <<>> BY <1>2 DEF ApplyPush
  <2>2. registry' \in Registry /\ byHour' \in [Hours -> Seq(Record)] /\ affected' \subseteq Hours
    BY <1>2, <2>1, CurrentType DEF ApplyPush, TypeOK, Registry
  <2> QED BY <1>2, <2>1, <2>2, CurrentType DEF ApplyPush, TypeOK
<1>3. CASE ApplyReplace
  BY <1>3, CurrentType DEF ApplyReplace, TypeOK
<1>4. CASE ApplySkip
  BY <1>4, CurrentType DEF ApplySkip, TypeOK
<1>5. CASE ReplaceRead
  BY <1>5, CurrentType DEF ReplaceRead, TypeOK
<1>6. CASE ReplaceCreate
  BY <1>6, CurrentType DEF ReplaceCreate, TypeOK
<1>7. CASE ReplaceRewrite
  <2>1. todo # <<>> /\ buf \in Seq(Record) BY <1>7 DEF ReplaceRewrite, TypeOK
  <2>2. ReplaceFirst(buf, Current) \in Seq(Record) BY <2>1, CurrentType, ReplaceFirstType
  <2> QED BY <1>7, <2>1, <2>2, CurrentType DEF ReplaceRewrite, TypeOK
<1>8. CASE ReplaceAppend
  <2>1. todo # <<>> BY <1>8 DEF ReplaceAppend, TypeOK
  <2>2. Append(files[CurHour], Current) \in Seq(Record) BY <2>1, CurrentType DEF TypeOK
  <2> QED BY <1>8, <2>1, <2>2, CurrentType DEF ReplaceAppend, TypeOK
<1>9. CASE Register
  <2>1. todo # <<>> BY <1>9 DEF Register, TypeOK
  <2>2. registry' \in Registry BY <1>9, <2>1, CurrentType DEF Register, TypeOK, Registry
  <2> QED BY <1>9, <2>1, <2>2, CurrentType DEF Register, TypeOK
<1>10. ASSUME NEW h \in Hours, WriteLogs(h) PROVE TypeOK'
  <2>1. files[h] \o byHour[h] \in Seq(Record) BY DEF TypeOK
  <2>2. Len(byHour[h]) \in Nat BY DEF TypeOK
  <2> QED BY <1>10, <2>1, <2>2 DEF WriteLogs, TypeOK
<1>11. CASE EnsureIndex
  <2>1. cur \in [hour : Hours, count : Nat] BY <1>11 DEF EnsureIndex, TypeOK
  <2>2. meta' \in Meta
    <3>1. /\ meta.version \in Nat /\ meta.tier \in [Hours -> Tiers]
          /\ meta.count \in [Hours -> Nat] /\ meta.count[cur.hour] + cur.count \in Nat
      BY <2>1 DEF TypeOK, Meta
    <3>2. CASE meta.tier[cur.hour] = "none"
      <4>1. meta' = [meta EXCEPT !.version = @ + 1, !.tier[cur.hour] = "active",
                                 !.count[cur.hour] = @ + cur.count]
        BY <1>11, <3>2 DEF EnsureIndex
      <4>2. /\ [meta.tier EXCEPT ![cur.hour] = "active"] \in [Hours -> Tiers]
            /\ [meta.count EXCEPT ![cur.hour] = @ + cur.count] \in [Hours -> Nat]
        BY <3>1, <2>1 DEF Tiers
      <4>3. meta' = [version |-> meta.version + 1,
                     tier    |-> [meta.tier EXCEPT ![cur.hour] = "active"],
                     count   |-> [meta.count EXCEPT ![cur.hour] = @ + cur.count]]
        BY <4>1 DEF TypeOK, Meta
      <4> QED BY <4>2, <4>3, <3>1 DEF Meta
    <3>3. CASE meta.tier[cur.hour] # "none"
      <4>1. meta' = [meta EXCEPT !.count[cur.hour] = @ + cur.count]
        BY <1>11, <3>3 DEF EnsureIndex
      <4> QED BY <4>1, <3>1, <2>1 DEF TypeOK, Meta
    <3> QED BY <3>2, <3>3
  <2>3. [type |-> "meta", keys |-> {cur.hour}] \in Notification
    BY <2>1 DEF Notification
  <2>4. chan' \in Seq(Notification) /\ lagged' \in BOOLEAN
    BY <1>11, <2>3, SendType DEF EnsureIndex, TypeOK
  <2> QED BY <1>11, <2>2, <2>4 DEF EnsureIndex, TypeOK
<1>12. CASE SaveMeta
  BY <1>12 DEF SaveMeta, TypeOK
<1>13. CASE SaveRegistry
  BY <1>13 DEF SaveRegistry, TypeOK
<1>14. CASE Notify
  <2>1. [type |-> "pushed", keys |-> affected] \in Notification BY DEF Notification, TypeOK
  <2>2. chan' \in Seq(Notification) /\ lagged' \in BOOLEAN
    BY <1>14, <2>1, SendType DEF Notify, TypeOK
  <2> QED BY <1>14, <2>2 DEF Notify, Return, NoFiles, TypeOK
<1>15. CASE UNCHANGED poolVars
  BY <1>15 DEF poolVars, TypeOK
<1> QED
  BY <1>1, <1>2, <1>3, <1>4, <1>5, <1>6, <1>7, <1>8, <1>9, <1>10, <1>11, <1>12,
     <1>13, <1>14, <1>15 DEF PoolNext, PushStep

\* Type correctness of the data pool.
THEOREM PoolTypeCorrect == PoolSpec => []TypeOK
<1>1. Init => TypeOK BY InitTypeOK
<1>2. TypeOK /\ [PoolNext]_poolVars => TypeOK' BY StepTypeOK
<1> QED BY <1>1, <1>2, PTL DEF PoolSpec

-----------------------------------------------------------------------------
(* What each kind of step does to contents, queues, registry and batch *)

LEMMA TailUids ==
    ASSUME NEW T \in Seq(Record), T # <<>>, OnePerUid(T)
    PROVE  /\ OnePerUid(Tail(T))
           /\ UidsIn(Tail(T)) \subseteq UidsIn(T)
           /\ Head(T).uid \in UidsIn(T) \ UidsIn(Tail(T))
<1>1. /\ Tail(T) \in Seq(Record) /\ Len(Tail(T)) = Len(T) - 1 /\ Len(T) \in Nat \ {0}
      /\ \A i \in 1..Len(Tail(T)) : Tail(T)[i] = T[i + 1]
      /\ Head(T) = T[1]
  OBVIOUS
<1>2. /\ DOMAIN T = 1..Len(T) /\ DOMAIN Tail(T) = 1..Len(Tail(T)) /\ 1 \in DOMAIN T
      /\ \A i \in DOMAIN Tail(T) : i + 1 \in DOMAIN T /\ i + 1 # 1
  BY <1>1
<1>3. OnePerUid(Tail(T))
  <2> SUFFICES ASSUME NEW i \in DOMAIN Tail(T), NEW j \in DOMAIN Tail(T),
                      Tail(T)[i].uid = Tail(T)[j].uid
               PROVE  i = j
    BY DEF OnePerUid
  <2>1. i + 1 = j + 1 BY <1>1, <1>2 DEF OnePerUid
  <2> QED BY <2>1, <1>2
<1>4. UidsIn(Tail(T)) \subseteq UidsIn(T) BY <1>1, <1>2 DEF UidsIn
<1>5. Head(T).uid \in UidsIn(T) BY <1>1, <1>2 DEF UidsIn
<1>6. Head(T).uid \notin UidsIn(Tail(T)) BY <1>1, <1>2 DEF UidsIn, OnePerUid
<1> QED BY <1>3, <1>4, <1>5, <1>6

\* A record that is done with (skipped, or replaced and registered) leaves the batch.
LEMMA ConsistentDone ==
    ASSUME NEW C, NEW B, NEW R, NEW T \in Seq(Record), T # <<>>, Consistent(C, B, R, T)
    PROVE  Consistent(C, B, R, Tail(T))
<1>1. OnePerUid(Tail(T)) /\ UidsIn(Tail(T)) \subseteq UidsIn(T) BY TailUids DEF Consistent
<1> QED BY <1>1 DEF Consistent

\* A uid the registry agrees on is registered, and registering another uid
\* disturbs nothing.
LEMMA AgreeUids ==
    ASSUME NEW f \in Seq(Record), NEW R \in Registry, Agree(f, R)
    PROVE  /\ \A u \in UidsIn(f) : u \in Uids /\ R[u] # "none"
           /\ \A u \in Uids, c \in Classes :
                  u \notin UidsIn(f) => Agree(f, [R EXCEPT ![u] = c])
<1>1. \A i \in DOMAIN f : f[i] \in Record OBVIOUS
<1>2. \A i \in DOMAIN f : f[i].uid \in Uids /\ f[i].class \in Classes
  BY <1>1 DEF Record
<1>3. \A u \in UidsIn(f) : u \in Uids /\ R[u] # "none"
  BY <1>2 DEF UidsIn, Agree, Classes
<1>4. ASSUME NEW u \in Uids, NEW c \in Classes, u \notin UidsIn(f)
      PROVE  Agree(f, [R EXCEPT ![u] = c])
  BY <1>2, <1>4 DEF UidsIn, Agree, Registry
<1> QED BY <1>3, <1>4

\* Push: a uid that is not registered is neither stored nor queued, so queueing
\* it makes no duplicate.
LEMMA ConsistentPush ==
    ASSUME NEW C \in [Hours -> Seq(Record)], NEW B \in [Hours -> Seq(Record)],
           NEW R \in Registry, NEW T \in Seq(Record), T # <<>>, Consistent(C, B, R, T),
           NEW r \in Record, r = Head(T), R[r.uid] = "none",
           NEW h \in Hours, h = HourOf[r.uid]
    PROVE  LET B1 == [B EXCEPT ![h] = Append(@, r)]
               R1 == [R EXCEPT ![r.uid] = r.class]
           IN  Consistent(C, B1, R1, Tail(T)) /\ (AllHeld(C, B, R) => AllHeld(C, B1, R1))
<1> DEFINE B1 == [B EXCEPT ![h] = Append(@, r)]
           R1 == [R EXCEPT ![r.uid] = r.class]
<1>1. r.uid \in Uids /\ r.class \in Classes /\ r.class # "none" BY DEF Record, Classes
<1>2. /\ OnePerUid(Tail(T)) /\ UidsIn(Tail(T)) \subseteq UidsIn(T)
      /\ r.uid \in UidsIn(T) /\ r.uid \notin UidsIn(Tail(T))
  BY TailUids DEF Consistent
<1>3. /\ \A k \in Hours : B1[k] = IF k = h THEN Append(B[h], r) ELSE B[k]
      /\ \A k \in Hours : C[k] \in Seq(Record) /\ B[k] \in Seq(Record)
      /\ \A u \in Uids : R1[u] = IF u = r.uid THEN r.class ELSE R[u]
  BY <1>1 DEF Registry
<1>4. \A k \in Hours : /\ r.uid \notin UidsIn(C[k]) /\ r.uid \notin UidsIn(B[k])
                       /\ Agree(C[k], R1) /\ Agree(B[k], R1)
  BY <1>1, <1>3, AgreeUids DEF Consistent
<1>5. /\ UidsIn(B1[h]) = UidsIn(B[h]) \cup {r.uid}
      /\ OnePerUid(B1[h])
  BY <1>3, <1>4, AppendUids DEF Consistent
<1>6. Agree(B1[h], R1)
  <2>1. \A i \in DOMAIN Append(B[h], r) :
           \/ i \in DOMAIN B[h] /\ Append(B[h], r)[i] = B[h][i]
           \/ Append(B[h], r)[i] = r
    BY <1>3
  <2> QED BY <2>1, <1>1, <1>3, <1>4 DEF Agree
<1> HIDE DEF B1, R1
<1>queued. \A k \in Hours :
              UidsIn(B1[k]) = IF k = h THEN UidsIn(B[h]) \cup {r.uid} ELSE UidsIn(B[k])
  BY <1>3, <1>5
<1>7. \A k \in Hours : OnePerUid(C[k]) /\ OnePerUid(B1[k])
  BY <1>3, <1>5 DEF Consistent
<1>8. \A k \in Hours : UidsIn(B1[k]) \cap (UidsIn(C[k]) \cup UidsIn(Tail(T))) = {}
  <2> SUFFICES ASSUME NEW k \in Hours
               PROVE  UidsIn(B1[k]) \cap (UidsIn(C[k]) \cup UidsIn(Tail(T))) = {}
    OBVIOUS
  <2>1. UidsIn(B[k]) \cap (UidsIn(C[k]) \cup UidsIn(T)) = {} BY DEF Consistent
  <2>2. UidsIn(Tail(T)) \subseteq UidsIn(T) /\ r.uid \notin UidsIn(Tail(T)) BY <1>2
  <2>3. r.uid \notin UidsIn(C[k]) BY <1>4
  <2>4. UidsIn(B1[k]) \subseteq UidsIn(B[k]) \cup {r.uid} BY <1>queued
  <2> QED BY <2>1, <2>2, <2>3, <2>4
<1>9. \A k \in Hours : \A u \in UidsIn(C[k]) \cup UidsIn(B1[k]) : HourOf[u] = k
  <2>1. \A k \in Hours : \A u \in UidsIn(C[k]) \cup UidsIn(B[k]) : HourOf[u] = k
    BY DEF Consistent
  <2>2. SUFFICES ASSUME NEW k \in Hours, NEW u \in UidsIn(C[k]) \cup UidsIn(B1[k])
                 PROVE  HourOf[u] = k
    OBVIOUS
  <2>3. CASE k # h BY <2>1, <2>3, <1>queued
  <2>4. CASE k = h
    <3>1. u \in UidsIn(C[k]) \cup UidsIn(B[k]) \/ u = r.uid BY <2>4, <1>queued
    <3> QED BY <2>1, <2>4, <3>1
  <2> QED BY <2>3, <2>4
<1>10. AllHeld(C, B, R) => AllHeld(C, B1, R1)
  BY <1>1, <1>3, <1>5, HourOfAssumption DEF AllHeld
<1>11. \A k \in Hours : Agree(C[k], R1) /\ Agree(B1[k], R1)
  BY <1>3, <1>4, <1>6
<1>12. Consistent(C, B1, R1, Tail(T)) BY <1>2, <1>7, <1>8, <1>9, <1>11 DEF Consistent
<1> QED BY <1>10, <1>12 DEF B1, R1

\* Replace: the record of the uid is exchanged where it is, and its class noted.
LEMMA ConsistentReplace ==
    ASSUME NEW C \in [Hours -> Seq(Record)], NEW B \in [Hours -> Seq(Record)],
           NEW R \in Registry, NEW T, Consistent(C, B, R, T),
           NEW r \in Record, NEW h \in Hours, h = HourOf[r.uid],
           r.uid \in UidsIn(C[h])
    PROVE  LET C1 == [C EXCEPT ![h] = ReplaceFirst(C[h], r)]
               R1 == [R EXCEPT ![r.uid] = r.class]
           IN  Consistent(C1, B, R1, T) /\ (AllHeld(C, B, R) => AllHeld(C1, B, R1))
<1> DEFINE C1 == [C EXCEPT ![h] = ReplaceFirst(C[h], r)]
           R1 == [R EXCEPT ![r.uid] = r.class]
<1>1. r.uid \in Uids /\ r.class \in Classes BY DEF Record
<1>2. /\ \A k \in Hours : C1[k] = IF k = h THEN ReplaceFirst(C[h], r) ELSE C[k]
      /\ \A k \in Hours : C[k] \in Seq(Record) /\ B[k] \in Seq(Record)
      /\ \A u \in Uids : R1[u] = IF u = r.uid THEN r.class ELSE R[u]
  BY <1>1 DEF Registry
<1>3. /\ C1[h] \in Seq(Record) /\ DOMAIN C1[h] = DOMAIN C[h]
      /\ \A i \in DOMAIN C[h] : C1[h][i] = IF C[h][i].uid = r.uid THEN r ELSE C[h][i]
  BY <1>2, ReplaceFirstUids DEF Consistent
<1> HIDE DEF C1, R1
<1>4. \A i \in DOMAIN C[h] : C1[h][i].uid = C[h][i].uid BY <1>3
<1>5. UidsIn(C1[h]) = UidsIn(C[h]) /\ OnePerUid(C1[h])
  <2>1. UidsIn(C1[h]) = UidsIn(C[h]) BY <1>3, <1>4 DEF UidsIn
  <2>2. OnePerUid(C[h]) BY DEF Consistent
  <2>3. OnePerUid(C1[h]) BY SMTT(30), <2>2, <1>3, <1>4 DEF OnePerUid
  <2> QED BY <2>1, <2>3
<1>6. Agree(C1[h], R1)
  <2>1. \A i \in DOMAIN C[h] : C[h][i] \in Record BY <1>2
  <2>2. \A i \in DOMAIN C[h] : C[h][i].uid \in Uids BY <2>1 DEF Record
  <2>3. Agree(C[h], R) BY DEF Consistent
  <2> QED BY SMTT(30), <2>2, <2>3, <1>2, <1>3, <1>4 DEF Agree
<1>7. \A k \in Hours : r.uid \notin UidsIn(B[k]) /\ (k # h => r.uid \notin UidsIn(C[k]))
  BY DEF Consistent
<1>8. \A k \in Hours : Agree(C1[k], R1) /\ Agree(B[k], R1)
  BY <1>1, <1>2, <1>6, <1>7, AgreeUids DEF Consistent, R1
<1>9. \A k \in Hours : UidsIn(C1[k]) = UidsIn(C[k]) /\ OnePerUid(C1[k])
  BY <1>2, <1>5 DEF Consistent
<1>10. ASSUME AllHeld(C, B, R) PROVE AllHeld(C1, B, R1)
  <2>1. \A u \in Uids : UidsIn(C1[HourOf[u]]) = UidsIn(C[HourOf[u]])
    BY <1>9, HourOfAssumption
  <2>2. \A u \in Uids : R[u] # "none" => u \in UidsIn(C[HourOf[u]]) \cup UidsIn(B[HourOf[u]])
    BY <1>10 DEF AllHeld
  <2>3. r.uid \in UidsIn(C1[h]) BY <1>5
  <2>4. \A u \in Uids : R1[u] # "none" => u \in UidsIn(C1[HourOf[u]]) \cup UidsIn(B[HourOf[u]])
    BY ZenonT(40), <2>1, <2>2, <2>3, <1>2
  <2> QED BY <2>4 DEF AllHeld
<1>11. Consistent(C1, B, R1, T) BY <1>8, <1>9 DEF Consistent
<1> QED BY <1>10, <1>11 DEF C1, R1

\* Replace, of a uid the hour file does not hold: its record is appended.
LEMMA ConsistentAppend ==
    ASSUME NEW C \in [Hours -> Seq(Record)], NEW B \in [Hours -> Seq(Record)],
           NEW R \in Registry, NEW T, Consistent(C, B, R, T),
           NEW r \in Record, r.uid \in UidsIn(T), NEW h \in Hours, h = HourOf[r.uid],
           r.uid \notin UidsIn(C[h])
    PROVE  Consistent([C EXCEPT ![h] = Append(@, r)], B, [R EXCEPT ![r.uid] = r.class], T)
<1> DEFINE C1 == [C EXCEPT ![h] = Append(@, r)]
           R1 == [R EXCEPT ![r.uid] = r.class]
<1>1. r.uid \in Uids /\ r.class \in Classes BY DEF Record
<1>2. /\ \A k \in Hours : C1[k] = IF k = h THEN Append(C[h], r) ELSE C[k]
      /\ \A k \in Hours : C[k] \in Seq(Record) /\ B[k] \in Seq(Record)
      /\ \A u \in Uids : R1[u] = IF u = r.uid THEN r.class ELSE R[u]
  BY <1>1 DEF Registry
<1>3. \A k \in Hours : /\ r.uid \notin UidsIn(C[k]) /\ r.uid \notin UidsIn(B[k])
                       /\ Agree(C[k], R1) /\ Agree(B[k], R1)
  <2>1. \A k \in Hours : r.uid \notin UidsIn(C[k]) /\ r.uid \notin UidsIn(B[k])
    BY DEF Consistent
  <2> QED BY <2>1, <1>1, <1>2, AgreeUids DEF Consistent
<1>4. UidsIn(C1[h]) = UidsIn(C[h]) \cup {r.uid} /\ OnePerUid(C1[h])
  BY <1>2, <1>3, AppendUids DEF Consistent
<1>5. Agree(C1[h], R1)
  <2>1. \A i \in DOMAIN Append(C[h], r) :
           \/ i \in DOMAIN C[h] /\ Append(C[h], r)[i] = C[h][i]
           \/ Append(C[h], r)[i] = r
    BY <1>2
  <2> QED BY <2>1, <1>1, <1>2, <1>3 DEF Agree
<1> HIDE DEF C1, R1
<1>6. \A k \in Hours : UidsIn(C1[k]) = IF k = h THEN UidsIn(C[h]) \cup {r.uid} ELSE UidsIn(C[k])
  BY <1>2, <1>4
<1>7. \A k \in Hours : OnePerUid(C1[k]) /\ OnePerUid(B[k]) /\ Agree(C1[k], R1) /\ Agree(B[k], R1)
  <2>1. \A k \in Hours : C1[k] = IF k = h THEN C1[h] ELSE C[k] BY <1>2
  <2>2. \A k \in Hours : OnePerUid(C[k]) /\ OnePerUid(B[k]) BY DEF Consistent
  <2> QED BY <2>1, <2>2, <1>3, <1>4, <1>5
<1>8. \A k \in Hours : UidsIn(B[k]) \cap (UidsIn(C1[k]) \cup UidsIn(T)) = {}
  BY <1>3, <1>6 DEF Consistent
<1>9. \A k \in Hours : \A u \in UidsIn(C1[k]) \cup UidsIn(B[k]) : HourOf[u] = k
  <2> SUFFICES ASSUME NEW k \in Hours, NEW u \in UidsIn(C1[k]) \cup UidsIn(B[k])
               PROVE  HourOf[u] = k
    OBVIOUS
  <2>1. u \in UidsIn(C[k]) \cup UidsIn(B[k]) \/ (k = h /\ u = r.uid) BY <1>6
  <2> QED BY <2>1 DEF Consistent
<1>10. Consistent(C1, B, R1, T) BY <1>7, <1>8, <1>9 DEF Consistent
<1> QED BY <1>10 DEF C1, R1

\* Write: an hour's queue moves to the end of its file.
LEMMA ConsistentWrite ==
    ASSUME NEW C \in [Hours -> Seq(Record)], NEW B \in [Hours -> Seq(Record)],
           NEW R, NEW T, Consistent(C, B, R, T), NEW h \in Hours
    PROVE  LET C1 == [C EXCEPT ![h] = @ \o B[h]]
               B1 == [B EXCEPT ![h] = <<>>]
           IN  Consistent(C1, B1, R, T) /\ (AllHeld(C, B, R) => AllHeld(C1, B1, R))
<1> DEFINE C1 == [C EXCEPT ![h] = @ \o B[h]]
           B1 == [B EXCEPT ![h] = <<>>]
<1>1. /\ \A k \in Hours : C1[k] = IF k = h THEN C[h] \o B[h] ELSE C[k]
      /\ \A k \in Hours : B1[k] = IF k = h THEN <<>> ELSE B[k]
      /\ C[h] \in Seq(Record) /\ B[h] \in Seq(Record)
  OBVIOUS
<1>2. UidsIn(<<>>) = {} /\ OnePerUid(<<>>) /\ Agree(<<>>, R)
  BY DEF UidsIn, OnePerUid, Agree
<1>3. /\ UidsIn(C1[h]) = UidsIn(C[h]) \cup UidsIn(B[h])
      /\ OnePerUid(C1[h]) /\ Agree(C1[h], R)
  BY <1>1, ConcatUids DEF Consistent
<1> HIDE DEF C1, B1
<1>4. \A k \in Hours : OnePerUid(C1[k]) /\ OnePerUid(B1[k])
  BY <1>1, <1>2, <1>3 DEF Consistent
<1>5. \A k \in Hours : UidsIn(B1[k]) \cap (UidsIn(C1[k]) \cup UidsIn(T)) = {}
  BY <1>1, <1>2, <1>3 DEF Consistent
<1>6. \A k \in Hours : UidsIn(C1[k]) \cup UidsIn(B1[k]) = UidsIn(C[k]) \cup UidsIn(B[k])
  BY <1>1, <1>2, <1>3
<1>7. \A k \in Hours : Agree(C1[k], R) /\ Agree(B1[k], R)
  BY <1>1, <1>2, <1>3 DEF Consistent
<1>8. AllHeld(C, B, R) => AllHeld(C1, B1, R) BY <1>6, HourOfAssumption DEF AllHeld
<1>9. Consistent(C1, B1, R, T) BY <1>4, <1>5, <1>6, <1>7 DEF Consistent
<1> QED BY <1>8, <1>9 DEF C1, B1

\* A batch of distinct uids fits when nothing is queued.
LEMMA ConsistentBegin ==
    ASSUME NEW C, NEW R, NEW T, Consistent(C, NoFiles, R, T), NEW b, OnePerUid(b)
    PROVE  Consistent(C, NoFiles, R, b)
<1>1. \A h \in Hours : UidsIn(NoFiles[h]) = {} BY DEF UidsIn, NoFiles
<1> QED BY <1>1 DEF Consistent

-----------------------------------------------------------------------------
(* The steps of the pool, by what they do to contents, queues, registry and  *)
(* batch: begin one, queue a record, be done with one, exchange one, add one *)
(* to its hour file, write a queue, or nothing.                              *)

\* What the variables must say for Contents and Restored to be well typed.
LEMMA ContentsType ==
    ASSUME TypeOK
    PROVE  /\ Contents \in [Hours -> Seq(Record)] /\ byHour \in [Hours -> Seq(Record)]
           /\ Restored \in Registry /\ todo \in Seq(Record)
           /\ \A h \in Hours : Contents[h] = Content(h)
<1>1. \A h \in Hours : Content(h) \in Seq(Record) BY DEF Content, TypeOK
<1>2. Restored \in Registry
  <2>1. CASE pc = "register"
    <3>1. todo # <<>> BY <2>1 DEF TypeOK
    <3> QED BY <2>1, <3>1, CurrentType DEF Restored, TypeOK, Registry
  <2>2. CASE pc # "register" BY <2>2 DEF Restored, TypeOK
  <2> QED BY <2>1, <2>2
<1> QED BY <1>1, <1>2 DEF Contents, TypeOK

Begins(b) == /\ byHour = NoFiles /\ byHour' = NoFiles /\ todo' = b
             /\ Contents' = Contents /\ Restored' = Restored

Registers == Restored' = [Restored EXCEPT ![Current.uid] = Current.class]

Queues == /\ todo # <<>> /\ todo' = Tail(todo)
          /\ Restored[Current.uid] = "none" /\ Registers
          /\ byHour' = [byHour EXCEPT ![CurHour] = Append(@, Current)]
          /\ Contents' = Contents

Passes == /\ todo # <<>> /\ todo' = Tail(todo)
          /\ Contents' = Contents /\ Restored' = Restored /\ byHour' = byHour

Exchanges == /\ todo # <<>> /\ todo' = todo /\ byHour' = byHour
             /\ Restored[Current.uid] # "none" /\ Registers
             /\ Current.uid \in UidsIn(Contents[CurHour])
             /\ Contents' = [Contents EXCEPT ![CurHour] = ReplaceFirst(Contents[CurHour], Current)]

Adds == /\ todo # <<>> /\ todo' = todo /\ byHour' = byHour
        /\ Restored[Current.uid] # "none" /\ Registers
        /\ Current.uid \notin UidsIn(Contents[CurHour])
        /\ Contents' = [Contents EXCEPT ![CurHour] = Append(@, Current)]

Writes(h) == /\ byHour' = [byHour EXCEPT ![h] = <<>>]
             /\ Contents' = [Contents EXCEPT ![h] = @ \o byHour[h]]
             /\ Restored' = Restored /\ todo' = todo

Stays == Contents' = Contents /\ Restored' = Restored /\ byHour' = byHour /\ todo' = todo

\* Whatever a step does, it leaves the call where the invariant's Control says.
LEMMA StepControl == ASSUME TypeOK, Control, [PoolNext]_poolVars PROVE Control'
<1> USE DEF storeVars, chanVars, callVars
<1>1. ASSUME NEW b \in Batches, PushBegin(b) PROVE Control'
  BY <1>1 DEF PushBegin, Control
<1>2. CASE ApplyPush BY <1>2 DEF ApplyPush, Control
<1>3. CASE ApplyReplace
  <2>1. Decision(Current) = "replace" /\ Decision(Current)' = Decision(Current)
    BY <1>3 DEF ApplyReplace, Decision, Current
  <2> QED BY <1>3, <2>1 DEF ApplyReplace, Control
<1>4. CASE ApplySkip BY <1>4 DEF ApplySkip, Control
<1>5. CASE ReplaceRead
  <2>1. /\ Decision(Current) = "replace" /\ Decision(Current)' = Decision(Current)
        /\ Current' = Current /\ CurHour' = CurHour /\ files' = files
    BY <1>5 DEF ReplaceRead, Control, Decision, Current, CurHour
  <2>2. Holds(files[CurHour], Current.uid) # {} <=> Current.uid \in UidsIn(files[CurHour])
    BY DEF Holds, UidsIn
  <2> QED BY <1>5, <2>1, <2>2 DEF ReplaceRead, Control
<1>6. CASE ReplaceCreate
  <2>1. /\ todo # <<>> /\ buf' = buf /\ pc' = "rewrite" /\ Current.uid \in UidsIn(buf)
        /\ Decision(Current) = "replace" /\ Decision(Current)' = Decision(Current)
        /\ Current' = Current /\ CurHour' = CurHour
        /\ files' = [files EXCEPT ![CurHour] = <<>>]
    BY <1>6 DEF ReplaceCreate, Control, TypeOK, Decision, Current, CurHour
  <2>2. CurHour \in Hours BY <2>1, CurrentType
  <2>3. files'[CurHour] = <<>> BY <2>1, <2>2 DEF TypeOK
  <2> QED BY <2>1, <2>3 DEF Control
<1>7. CASE ReplaceRewrite \/ ReplaceAppend
  <2>1. /\ pc' = "register" /\ registry' = registry /\ Current' = Current
        /\ Decision(Current) = "replace"
    BY <1>7 DEF ReplaceRewrite, ReplaceAppend, Control, Current
  <2>2. registry[Current.uid] # "none" BY <2>1 DEF Decision
  <2> QED BY <2>1, <2>2 DEF Control
<1>8. CASE Register BY <1>8 DEF Register, Control
<1>9. ASSUME NEW h \in Hours, WriteLogs(h) PROVE Control' BY <1>9 DEF WriteLogs, Control
<1>10. CASE EnsureIndex BY <1>10 DEF EnsureIndex, Control
<1>11. CASE SaveMeta BY <1>11 DEF SaveMeta, Control
<1>12. CASE SaveRegistry BY <1>12 DEF SaveRegistry, Control
<1>13. CASE Notify BY <1>13 DEF Notify, Return, Control
<1>14. CASE UNCHANGED poolVars BY <1>14 DEF poolVars, Control, Decision, Current, CurHour
<1> QED
  BY <1>1, <1>2, <1>3, <1>4, <1>5, <1>6, <1>7, <1>8, <1>9, <1>10, <1>11, <1>12,
     <1>13, <1>14 DEF PoolNext, PushStep

LEMMA PoolSteps ==
    ASSUME TypeOK, Control, [PoolNext]_poolVars
    PROVE  \/ \E b \in Batches : PushBegin(b) /\ Begins(b)
           \/ ApplyPush /\ Queues
           \/ (ApplySkip \/ Register) /\ Passes
           \/ ReplaceRewrite /\ Exchanges
           \/ ReplaceAppend /\ Adds
           \/ \E h \in Hours : WriteLogs(h) /\ Writes(h)
           \/ /\ Stays
              /\ ~ReplaceRewrite /\ ~ReplaceAppend /\ ~ApplyPush /\ ~\E h \in Hours : WriteLogs(h)
<1> USE DEF storeVars, chanVars, callVars
<1>1. \A h \in Hours : Contents[h] = Content(h) BY ContentsType
<1>2. ASSUME NEW b \in Batches, PushBegin(b) PROVE Begins(b)
  BY <1>2 DEF PushBegin, Control, Contents, Content, Restored, Begins
<1>3. CASE ApplyPush
  <2>1. /\ pc = "apply" /\ pc' = "apply" /\ registry[Current.uid] = "none" /\ todo # <<>>
    BY <1>3 DEF ApplyPush, Decision
  <2>2. Contents' = Contents /\ Restored = registry /\ Restored' = registry'
    BY <1>3, <2>1 DEF ApplyPush, Contents, Content, Restored
  <2>3. Queues BY <1>3, <2>1, <2>2 DEF ApplyPush, Queues, Registers
  <2> QED BY <1>3, <2>3
<1>4. CASE ApplySkip
  <2>1. Passes BY <1>4 DEF ApplySkip, Contents, Content, Restored, Passes
  <2> QED BY <1>4, <2>1
<1>5. CASE Register
  <2>1. /\ pc = "register" /\ pc' = "apply" /\ todo # <<>> /\ todo' = Tail(todo)
        /\ files' = files /\ byHour' = byHour
        /\ registry' = [registry EXCEPT ![Current.uid] = Current.class]
    BY <1>5 DEF Register, TypeOK
  <2>2. Passes BY <2>1 DEF Contents, Content, Restored, Passes
  <2> QED BY <1>5, <2>2
<1>6. ASSUME ReplaceRewrite \/ ReplaceAppend
      PROVE  /\ todo # <<>> /\ todo' = todo /\ byHour' = byHour /\ Registers
             /\ Restored[Current.uid] # "none" /\ Current \in Record /\ CurHour \in Hours
             /\ \A h \in Hours : h # CurHour => Contents'[h] = Contents[h]
             /\ Contents[CurHour] = IF pc = "rewrite" THEN buf ELSE files[CurHour]
             /\ Contents'[CurHour] = files'[CurHour]
  <2>1. /\ pc \in {"rewrite", "append"} /\ pc' = "register" /\ todo # <<>> /\ todo' = todo
        /\ registry' = registry /\ byHour' = byHour /\ Decision(Current) = "replace"
        /\ Current' = Current /\ CurHour' = CurHour
        /\ \E f : files' = [files EXCEPT ![CurHour] = f]
    BY <1>6 DEF ReplaceRewrite, ReplaceAppend, Control, TypeOK, Current, CurHour
  <2>2. Current \in Record /\ CurHour \in Hours BY <2>1, CurrentType
  <2>3. Restored = registry /\ registry[Current.uid] # "none"
    BY <2>1 DEF Restored, Decision
  <2>4. Registers BY <2>1, <2>3 DEF Registers, Restored
  <2>5. /\ \A h \in Hours : Contents'[h] = files'[h]
        /\ Contents[CurHour] = IF pc = "rewrite" THEN buf ELSE files[CurHour]
        /\ \A h \in Hours : h # CurHour => Contents[h] = files[h]
    BY <2>1, <2>2 DEF Contents, Content
  <2>6. \A h \in Hours : h # CurHour => files'[h] = files[h] BY <2>1, <2>2 DEF TypeOK
  <2> QED BY <2>1, <2>2, <2>3, <2>4, <2>5, <2>6
<1>7. ASSUME NEW f, ReplaceRewrite \/ ReplaceAppend, files'[CurHour] = f
      PROVE  Contents' = [Contents EXCEPT ![CurHour] = f]
  <2>1. Contents' = [h \in Hours |-> Contents'[h]] BY DEF Contents
  <2>2. Contents = [h \in Hours |-> Contents[h]] BY DEF Contents
  <2> HIDE DEF Contents
  <2> QED BY <1>6, <1>7, <2>1, <2>2
<1>8. CASE ReplaceRewrite
  <2>1. files'[CurHour] = ReplaceFirst(buf, Current) /\ pc = "rewrite" /\ Current.uid \in UidsIn(buf)
    BY <1>6, <1>8 DEF ReplaceRewrite, TypeOK, Control
  <2>2. Contents' = [Contents EXCEPT ![CurHour] = ReplaceFirst(buf, Current)] BY <1>7, <1>8, <2>1
  <2>3. Exchanges BY <1>6, <1>8, <2>1, <2>2 DEF Exchanges
  <2> QED BY <1>8, <2>3
<1>9. CASE ReplaceAppend
  <2>1. /\ files'[CurHour] = Append(files[CurHour], Current) /\ pc = "append"
        /\ Current.uid \notin UidsIn(files[CurHour])
    BY <1>6, <1>9 DEF ReplaceAppend, TypeOK, Control
  <2>2. Contents' = [Contents EXCEPT ![CurHour] = Append(files[CurHour], Current)]
    BY <1>7, <1>9, <2>1
  <2>3. Contents[CurHour] = files[CurHour] BY <1>6, <1>9, <2>1
  <2>4. Adds BY <1>6, <1>9, <2>1, <2>2, <2>3 DEF Adds
  <2> QED BY <1>9, <2>4
<1>10. ASSUME NEW h \in Hours, WriteLogs(h) PROVE Writes(h)
  <2>1. /\ pc = "apply" /\ pc' = "index" /\ todo' = todo /\ registry' = registry
        /\ byHour' = [byHour EXCEPT ![h] = <<>>] /\ files' = [files EXCEPT ![h] = @ \o byHour[h]]
    BY <1>10 DEF WriteLogs
  <2>2. Contents = files /\ Contents' = files' /\ Restored' = Restored
    BY <2>1 DEF Contents, Content, Restored, TypeOK
  <2> QED BY <2>1, <2>2 DEF Writes
<1> DEFINE Others == ~ReplaceRewrite /\ ~ReplaceAppend /\ ~ApplyPush /\ ~\E h \in Hours : WriteLogs(h)
<1>11. CASE ReplaceCreate
  <2>1. /\ pc = "create" /\ pc' = "rewrite" /\ todo # <<>> /\ todo' = todo
        /\ buf = files[CurHour] /\ buf' = buf /\ registry' = registry /\ byHour' = byHour
        /\ files' = [files EXCEPT ![CurHour] = <<>>]
    BY <1>11 DEF ReplaceCreate, Control, TypeOK
  <2>2. CurHour \in Hours BY <2>1, CurrentType
  <2>3. \A h \in Hours : Content(h)' = Content(h)
    BY <2>1, <2>2 DEF Content, CurHour, TypeOK
  <2>4. Contents' = Contents /\ Restored' = Restored BY <2>1, <2>3 DEF Contents, Restored
  <2>5. Others BY <2>1 DEF ReplaceRewrite, ReplaceAppend, ApplyPush, WriteLogs
  <2> QED BY <2>1, <2>4, <2>5 DEF Stays
<1>12. CASE ApplyReplace
  <2>1. /\ pc = "apply" /\ pc' = "read" /\ todo # <<>> /\ Decision(Current) = "replace"
        /\ files' = files /\ registry' = registry /\ byHour' = byHour /\ todo' = todo
    BY <1>12 DEF ApplyReplace
  <2>2. Stays BY <2>1 DEF Contents, Content, Restored, Stays
  <2>3. Others BY <2>1 DEF ReplaceRewrite, ReplaceAppend, ApplyPush, WriteLogs
  <2> QED BY <2>2, <2>3
<1>13. CASE ReplaceRead \/ EnsureIndex \/ SaveRegistry \/ Notify
  <2>1. /\ pc \in {"read", "index", "saveRegistry", "notify"} /\ pc' \notin {"register", "rewrite"}
        /\ files' = files /\ registry' = registry /\ byHour' = byHour /\ todo' = todo
    BY <1>13 DEF ReplaceRead, EnsureIndex, SaveRegistry, Notify, Return, Control
  <2>2. Stays BY <2>1 DEF Contents, Content, Restored, Stays
  <2>3. Others BY <2>1 DEF ReplaceRewrite, ReplaceAppend, ApplyPush, WriteLogs
  <2> QED BY <2>2, <2>3
<1>14. CASE SaveMeta
  <2>1. /\ pc = "apply" /\ pc' = "saveRegistry" /\ todo = <<>> /\ byHour = NoFiles
        /\ files' = files /\ registry' = registry /\ byHour' = byHour /\ todo' = todo
    BY <1>14 DEF SaveMeta
  <2>2. Stays BY <2>1 DEF Contents, Content, Restored, Stays
  <2>3. Others BY <2>1 DEF ReplaceRewrite, ReplaceAppend, ApplyPush, WriteLogs, NoFiles
  <2> QED BY <2>2, <2>3
<1>15. CASE UNCHANGED poolVars
  <2>1. Stays BY <1>15 DEF poolVars, Contents, Content, Restored, Stays, Current, CurHour
  <2>2. ~ReplaceRewrite /\ ~ReplaceAppend BY <1>15 DEF poolVars, ReplaceRewrite, ReplaceAppend
  <2>3. ~ApplyPush
    <3>1. CASE ApplyPush
      <4>1. todo # <<>> /\ todo' = Tail(todo) /\ todo' = todo BY <1>15, <3>1 DEF poolVars, ApplyPush
      <4>2. todo \in Seq(Record) BY DEF TypeOK
      <4>3. \A T \in Seq(Record) : T # <<>> => Len(Tail(T)) = Len(T) - 1 /\ Len(T) \in Nat
        OBVIOUS
      <4> QED BY <4>1, <4>2, <4>3
    <3> QED BY <3>1
  <2>4. ~\E h \in Hours : WriteLogs(h) BY <1>15 DEF poolVars, WriteLogs
  <2> QED BY <2>1, <2>2, <2>3, <2>4
<1> QED
  BY <1>2, <1>3, <1>4, <1>5, <1>8, <1>9, <1>10, <1>11, <1>12, <1>13, <1>14, <1>15
     DEF PoolNext, PushStep

-----------------------------------------------------------------------------
(* The inductive invariants *)

\* An empty pool and an empty registry fit.
LEMMA InitIInv == Init => IInv
<1> SUFFICES ASSUME Init PROVE IInv
  OBVIOUS
<1>1. TypeOK BY InitTypeOK
<1>2. Control /\ pc # "append" BY DEF Init, Control
<1>3. Contents = NoFiles /\ Restored = EmptyRegistry
  BY DEF Init, Contents, Content, Restored, NoFiles
<1>4. /\ UidsIn(<<>>) = {} /\ OnePerUid(<<>>)
      /\ \A h \in Hours : Agree(NoFiles[h], EmptyRegistry)
  BY DEF UidsIn, OnePerUid, Agree, NoFiles
<1>5. /\ Consistent(NoFiles, NoFiles, EmptyRegistry, <<>>)
      /\ AllHeld(NoFiles, NoFiles, EmptyRegistry)
  BY <1>4 DEF Consistent, AllHeld, NoFiles, EmptyRegistry
<1> QED BY <1>1, <1>2, <1>3, <1>5 DEF IInv, CInv, Init

\* The hour of the loop's record, and where its uid is.
LEMMA CurrentPlace ==
    ASSUME CInv, todo # <<>>
    PROVE  /\ Current \in Record /\ CurHour \in Hours /\ Current = Head(todo)
           /\ Current.uid \in UidsIn(todo) /\ CurHour = HourOf[Current.uid]
           /\ Current.uid \notin UidsIn(byHour[CurHour])
           /\ AllHeld(Contents, byHour, Restored) /\ Restored[Current.uid] # "none"
                  => Current.uid \in UidsIn(Contents[CurHour])
<1>1. TypeOK /\ Consistent(Contents, byHour, Restored, todo) BY DEF CInv
<1>2. /\ Current \in Record /\ CurHour \in Hours /\ Current.uid \in Uids
  BY <1>1, CurrentType
<1>3. Current.uid \in UidsIn(todo)
  BY <1>1, TailUids DEF Consistent, Current, TypeOK
<1>4. CurHour = HourOf[Current.uid] /\ Current = Head(todo) BY DEF CurHour, Current
<1>5. Current.uid \notin UidsIn(byHour[CurHour]) BY <1>1, <1>2, <1>3 DEF Consistent
<1>6. AllHeld(Contents, byHour, Restored) /\ Restored[Current.uid] # "none"
          => Current.uid \in UidsIn(Contents[CurHour])
  BY <1>1, <1>2, <1>4, <1>5 DEF AllHeld
<1> QED BY <1>2, <1>3, <1>4, <1>5, <1>6

\* Every step of the pool keeps the invariants, if a batch names no uid twice.
LEMMA StepInvariants ==
    ASSUME DistinctBatches, CInv, [PoolNext]_poolVars
    PROVE  CInv' /\ (IInv => IInv')
<1>1. TypeOK /\ Control /\ Consistent(Contents, byHour, Restored, todo) BY DEF CInv
<1>2. TypeOK' /\ Control' BY <1>1, StepTypeOK, StepControl
<1>3. /\ Contents \in [Hours -> Seq(Record)] /\ byHour \in [Hours -> Seq(Record)]
      /\ Restored \in Registry /\ todo \in Seq(Record)
      /\ \A h \in Hours : Contents[h] = Content(h)
  BY <1>1, ContentsType
<1> DEFINE Done == /\ Consistent(Contents', byHour', Restored', todo')
                   /\ AllHeld(Contents, byHour, Restored) => AllHeld(Contents', byHour', Restored')
<1>4. ASSUME NEW b \in Batches, Begins(b) PROVE Done
  <2>1. OnePerUid(b) BY DEF DistinctBatches
  <2>2. Consistent(Contents, NoFiles, Restored, b)
    BY <1>1, <1>4, <2>1, ConsistentBegin DEF Begins
  <2> QED BY <1>4, <2>2 DEF Begins
<1>5. ASSUME Queues PROVE Done
  <2>1. todo # <<>> /\ Restored[Current.uid] = "none" BY <1>5 DEF Queues
  <2>2. /\ Current \in Record /\ CurHour \in Hours /\ Current = Head(todo)
        /\ CurHour = HourOf[Current.uid]
    BY <2>1, CurrentPlace
  <2> HIDE DEF Done
  <2>3. LET B1 == [byHour EXCEPT ![CurHour] = Append(@, Current)]
            R1 == [Restored EXCEPT ![Current.uid] = Current.class]
        IN  /\ Consistent(Contents, B1, R1, Tail(todo))
            /\ AllHeld(Contents, byHour, Restored) => AllHeld(Contents, B1, R1)
    BY <1>1, <1>3, <2>1, <2>2, ConsistentPush
  <2> QED BY <1>5, <2>3 DEF Queues, Registers, Done
<1>6. ASSUME Passes PROVE Done
  <2>1. Consistent(Contents, byHour, Restored, Tail(todo))
    BY <1>1, <1>3, <1>6, ConsistentDone DEF Passes
  <2> QED BY <1>6, <2>1 DEF Passes
<1>7. ASSUME Exchanges PROVE Done
  <2>1. todo # <<>> /\ Current.uid \in UidsIn(Contents[CurHour]) BY <1>7 DEF Exchanges
  <2>2. Current \in Record /\ CurHour \in Hours /\ CurHour = HourOf[Current.uid]
    BY <2>1, CurrentPlace
  <2> HIDE DEF Done
  <2>3. LET C1 == [Contents EXCEPT ![CurHour] = ReplaceFirst(Contents[CurHour], Current)]
            R1 == [Restored EXCEPT ![Current.uid] = Current.class]
        IN  /\ Consistent(C1, byHour, R1, todo)
            /\ AllHeld(Contents, byHour, Restored) => AllHeld(C1, byHour, R1)
    BY <1>1, <1>3, <2>1, <2>2, ConsistentReplace
  <2> QED BY <1>7, <2>3 DEF Exchanges, Registers, Done
<1>8. ASSUME Adds PROVE Done
  <2>1. /\ todo # <<>> /\ Current.uid \notin UidsIn(Contents[CurHour])
        /\ Restored[Current.uid] # "none"
    BY <1>8 DEF Adds
  <2>2. /\ Current \in Record /\ CurHour \in Hours /\ CurHour = HourOf[Current.uid]
        /\ Current.uid \in UidsIn(todo) /\ ~AllHeld(Contents, byHour, Restored)
    BY <2>1, CurrentPlace
  <2>3. Consistent([Contents EXCEPT ![CurHour] = Append(@, Current)], byHour,
                   [Restored EXCEPT ![Current.uid] = Current.class], todo)
    BY <1>1, <1>3, <2>1, <2>2, ConsistentAppend
  <2> QED BY <1>8, <2>2, <2>3 DEF Adds, Registers
<1>9. ASSUME NEW h \in Hours, Writes(h) PROVE Done
  <2> HIDE DEF Done
  <2>1. LET C1 == [Contents EXCEPT ![h] = @ \o byHour[h]]
            B1 == [byHour EXCEPT ![h] = <<>>]
        IN  /\ Consistent(C1, B1, Restored, todo)
            /\ AllHeld(Contents, byHour, Restored) => AllHeld(C1, B1, Restored)
    BY <1>1, <1>3, ConsistentWrite
  <2> QED BY <1>9, <2>1 DEF Writes, Done
<1>10. ASSUME Stays PROVE Done BY <1>1, <1>10 DEF Stays
<1>11. Done BY <1>1, <1>4, <1>5, <1>6, <1>7, <1>8, <1>9, <1>10, PoolSteps
<1>12. CInv' BY <1>2, <1>11 DEF CInv
<1>13. ASSUME IInv PROVE pc' # "append"
  <2> SUFFICES ASSUME pc' = "append" PROVE FALSE
    OBVIOUS
  <2>1. CASE UNCHANGED poolVars BY <1>13, <2>1 DEF poolVars, IInv
  <2>2. CASE PoolNext
    <3>1. ReplaceRead
      BY <1>13, <2>2 DEF PoolNext, PushStep, PushBegin, ApplyPush, ApplyReplace, ApplySkip,
         ReplaceCreate, ReplaceRewrite, ReplaceAppend, Register, WriteLogs, EnsureIndex,
         SaveMeta, SaveRegistry, Notify, Return, IInv
    <3>2. /\ pc = "read" /\ todo # <<>> /\ Holds(files[CurHour], Current.uid) = {}
      BY <1>1, <3>1 DEF ReplaceRead, TypeOK
    <3>3. /\ Restored[Current.uid] # "none" /\ CurHour \in Hours
      BY <1>1, <3>2, CurrentType DEF Restored, Control, Decision
    <3>4. Current.uid \in UidsIn(files[CurHour])
      BY <1>3, <1>13, <3>2, <3>3, CurrentPlace DEF IInv, Content
    <3> QED BY <3>2, <3>4 DEF UidsIn, Holds
  <2> QED BY <2>1, <2>2
<1>14. IInv => IInv' BY <1>11, <1>12, <1>13 DEF IInv
<1> QED BY <1>12, <1>14

\* The invariant holds for ever.
LEMMA PoolInvariant == ASSUME DistinctBatches PROVE PoolSpec => []IInv
<1>1. Init => IInv BY InitIInv
<1>2. IInv /\ [PoolNext]_poolVars => IInv' BY StepInvariants DEF IInv
<1> QED BY <1>1, <1>2, PTL DEF PoolSpec

-----------------------------------------------------------------------------
(* The index *)

\* The index counts what is stored, but for the hour that is about to be indexed.
AtIndex(h) == pc = "index" /\ cur.hour = h
Unindexed(h) == IF AtIndex(h) THEN cur.count ELSE 0

IndexCounts ==
    \A h \in Hours :
        /\ meta.count[h] + Unindexed(h) = Len(Contents[h])
        /\ ~AtIndex(h) => (meta.tier[h] = "none" <=> Contents[h] = <<>>)
        /\ AtIndex(h) => Contents[h] # <<>>

LEMMA InitIndexed == Init => IndexCounts
<1> SUFFICES ASSUME Init PROVE IndexCounts
  OBVIOUS
<1>1. \A h \in Hours : Contents[h] = <<>> /\ ~AtIndex(h) /\ Unindexed(h) = 0
  BY DEF Init, Contents, Content, NoFiles, AtIndex, Unindexed
<1> QED BY <1>1 DEF IndexCounts, Init, EmptyMeta

LEMMA StepIndexed ==
    ASSUME IInv, IndexCounts, [PoolNext]_poolVars
    PROVE  IndexCounts'
<1>1. TypeOK /\ Control BY DEF IInv, CInv
<1>2. /\ Contents \in [Hours -> Seq(Record)] /\ byHour \in [Hours -> Seq(Record)]
      /\ meta.count \in [Hours -> Nat]
  BY <1>1, ContentsType DEF TypeOK, Meta
<1>3. CASE ReplaceRewrite /\ Exchanges
  <2> DEFINE old == Contents[CurHour]
  <2>1. /\ pc = "rewrite" /\ pc' = "register" /\ meta' = meta
    BY <1>3 DEF ReplaceRewrite
  <2>2. /\ Current \in Record /\ CurHour \in Hours /\ Current.uid \in UidsIn(old)
        /\ OnePerUid(old) /\ old \in Seq(Record)
        /\ Contents' = [Contents EXCEPT ![CurHour] = ReplaceFirst(old, Current)]
    BY <1>2, <1>3, CurrentPlace DEF Exchanges, IInv, CInv, Consistent
  <2>old. Contents[CurHour] = old OBVIOUS
  <2> HIDE DEF old
  <2>3. /\ ReplaceFirst(old, Current) \in Seq(Record) /\ old \in Seq(Record)
        /\ DOMAIN ReplaceFirst(old, Current) = DOMAIN old
    BY <1>2, <2>2, ReplaceFirstUids
  <2>4. Len(ReplaceFirst(old, Current)) = Len(old)
    BY <2>3
  <2>5. \A f, g \in Seq(Record) : Len(f) = Len(g) => (f = <<>> <=> g = <<>>)
    OBVIOUS
  <2>6. \A h \in Hours : /\ Len(Contents'[h]) = Len(Contents[h])
                         /\ Contents'[h] = <<>> <=> Contents[h] = <<>>
    BY <1>2, <2>2, <2>3, <2>4, <2>5, <2>old
  <2>7. \A h \in Hours : ~AtIndex(h) /\ ~AtIndex(h)' /\ Unindexed(h) = 0 /\ Unindexed(h)' = 0
    BY <2>1 DEF AtIndex, Unindexed
  <2> QED BY <2>1, <2>6, <2>7 DEF IndexCounts
<1>4. ASSUME NEW h \in Hours, WriteLogs(h), Writes(h)
      PROVE  IndexCounts'
  <2>1. /\ pc = "apply" /\ pc' = "index" /\ meta' = meta /\ byHour[h] # <<>>
        /\ cur' = [hour |-> h, count |-> Len(byHour[h])]
    BY <1>4 DEF WriteLogs
  <2>2. \A k \in Hours : /\ ~AtIndex(k) /\ Unindexed(k) = 0 /\ (AtIndex(k)' <=> k = h)
                         /\ Unindexed(k)' = IF k = h THEN Len(byHour[h]) ELSE 0
    BY <2>1 DEF AtIndex, Unindexed
  <2>3. /\ Len(byHour[h]) \in Nat \ {0}
        /\ Len(Contents[h] \o byHour[h]) = Len(Contents[h]) + Len(byHour[h])
        /\ Contents[h] \o byHour[h] # <<>>
    BY <1>2, <2>1
  <2>4. \A k \in Hours : Contents'[k] = IF k = h THEN Contents[h] \o byHour[h]
                                              ELSE Contents[k]
    BY <1>2, <1>4 DEF Writes
  <2>5. \A k \in Hours : /\ meta.count[k] = Len(Contents[k])
                         /\ meta.tier[k] = "none" <=> Contents[k] = <<>>
    BY <1>2, <2>2 DEF IndexCounts
  <2>6. ASSUME NEW k \in Hours PROVE meta.count[k] + Unindexed(k)' = Len(Contents'[k])
    <3>1. CASE k = h BY <3>1, <2>2, <2>3, <2>4, <2>5
    <3>2. CASE k # h
      <4>1. Unindexed(k)' = 0 /\ Contents'[k] = Contents[k] BY <3>2, <2>2, <2>4
      <4> QED BY <4>1, <1>2, <2>5
    <3> QED BY <3>1, <3>2
  <2>7. \A k \in Hours : AtIndex(k)' => Contents'[k] # <<>>
    BY <2>2, <2>3, <2>4
  <2>8. \A k \in Hours : ~AtIndex(k)' => (meta.tier[k] = "none" <=> Contents'[k] = <<>>)
    BY <2>2, <2>4, <2>5
  <2> QED BY <2>1, <2>6, <2>7, <2>8 DEF IndexCounts
<1>5. CASE EnsureIndex
  <2>1. /\ pc = "index" /\ pc' = "apply" /\ cur \in [hour : Hours, count : Nat]
    BY <1>1, <1>5 DEF EnsureIndex, TypeOK
  <2>2. Contents' = Contents
    BY <1>5, <2>1 DEF EnsureIndex, Contents, Content
  <2>3. /\ meta'.count = [meta.count EXCEPT ![cur.hour] = @ + cur.count]
        /\ \A h \in Hours : meta'.tier[h] = IF h = cur.hour /\ meta.tier[h] = "none"
                                             THEN "active" ELSE meta.tier[h]
    <3>1. meta = [version |-> meta.version, tier |-> meta.tier, count |-> meta.count]
          /\ meta.tier \in [Hours -> Tiers]
      BY <1>1 DEF TypeOK, Meta
    <3>2. CASE meta.tier[cur.hour] = "none"
      <4>1. meta' = [meta EXCEPT !.version = @ + 1, !.tier[cur.hour] = "active",
                                 !.count[cur.hour] = @ + cur.count]
        BY <1>5, <3>2 DEF EnsureIndex
      <4>2. /\ meta'.count = [meta.count EXCEPT ![cur.hour] = @ + cur.count]
            /\ meta'.tier = [meta.tier EXCEPT ![cur.hour] = "active"]
        BY <4>1, <3>1
      <4> QED BY <4>2, <3>1, <3>2
    <3>3. CASE meta.tier[cur.hour] # "none"
      <4>1. meta' = [meta EXCEPT !.count[cur.hour] = @ + cur.count]
        BY <1>5, <3>3 DEF EnsureIndex
      <4> QED BY <4>1, <3>1, <3>3
    <3> QED BY <3>2, <3>3
  <2>4. \A h \in Hours : /\ AtIndex(h) <=> h = cur.hour
                         /\ Unindexed(h) = IF h = cur.hour THEN cur.count ELSE 0
                         /\ ~AtIndex(h)' /\ Unindexed(h)' = 0
    BY <2>1 DEF AtIndex, Unindexed
  <2>5. \A h \in Hours : /\ meta'.count[h] = Len(Contents[h])
                         /\ meta'.tier[h] = "none" <=> Contents[h] = <<>>
    <3> SUFFICES ASSUME NEW h \in Hours
                 PROVE  /\ meta'.count[h] = Len(Contents[h])
                        /\ meta'.tier[h] = "none" <=> Contents[h] = <<>>
      OBVIOUS
    <3>1. meta'.count[h] = Len(Contents[h]) BY <1>2, <2>1, <2>3, <2>4 DEF IndexCounts
    <3>2. CASE h # cur.hour
      <4>1. meta.tier[h] = "none" <=> Contents[h] = <<>> BY <3>2, <2>4 DEF IndexCounts
      <4>2. meta'.tier[h] = meta.tier[h] BY <3>2, <2>3
      <4> QED BY <4>1, <4>2, <3>1
    <3>3. CASE h = cur.hour
      <4>1. Contents[h] # <<>> BY <3>3, <2>4 DEF IndexCounts
      <4>2. meta'.tier[h] # "none" BY <3>3, <2>3
      <4> QED BY <4>1, <4>2, <3>1
    <3> QED BY <3>1, <3>2, <3>3
  <2> QED BY <1>2, <2>2, <2>4, <2>5 DEF IndexCounts
<1>6. ASSUME Contents' = Contents, meta' = meta, pc # "index", pc' # "index"
      PROVE  IndexCounts'
  BY <1>6 DEF IndexCounts, AtIndex, Unindexed
<1>7. CASE \E b \in Batches : PushBegin(b) /\ Begins(b)
  BY <1>6, <1>7 DEF PushBegin, Begins, storeVars
<1>8. CASE ApplyPush /\ Queues BY <1>6, <1>8 DEF ApplyPush, Queues
<1>9. CASE (ApplySkip \/ Register) /\ Passes
  BY <1>6, <1>9 DEF ApplySkip, Register, Passes, storeVars
<1>10. CASE Stays /\ ~ReplaceRewrite /\ ~ReplaceAppend /\ ~ApplyPush /\ ~\E h \in Hours : WriteLogs(h)
  <2>1. CASE EnsureIndex BY <1>5, <2>1
  <2>2. CASE UNCHANGED poolVars
    BY <1>10, <2>2 DEF Stays, IndexCounts, AtIndex, Unindexed, poolVars
  <2>3. CASE PoolNext /\ ~EnsureIndex
    <3>1. meta' = meta /\ pc # "index" /\ pc' # "index"
      BY <1>10, <2>3 DEF PoolNext, PushStep, PushBegin, ApplyReplace, ApplySkip, ReplaceRead,
         ReplaceCreate, Register, SaveMeta, SaveRegistry, Notify, Return, storeVars
    <3> QED BY <1>6, <1>10, <3>1 DEF Stays
  <2> QED BY <2>1, <2>2, <2>3
<1>11. ~ReplaceAppend BY DEF ReplaceAppend, IInv
<1> QED BY <1>1, <1>3, <1>4, <1>7, <1>8, <1>9, <1>10, <1>11, PoolSteps

-----------------------------------------------------------------------------
(* The properties *)

\* De-duplication: if no batch repeats a uid, no hour file ever holds a uid
\* twice, half-done rewrites included.
THEOREM PoolUnique == ASSUME DistinctBatches PROVE PoolSpec => []UniqueRecords
<1>1. IInv => UniqueRecords
  <2> SUFFICES ASSUME IInv, NEW h \in Hours PROVE OnePerUid(files[h])
    BY DEF UniqueRecords
  <2>1. CASE pc = "rewrite" /\ h = CurHour
    <3>1. files[h] = <<>> BY <2>1 DEF IInv, CInv, Control
    <3> QED BY <3>1 DEF OnePerUid
  <2>2. CASE ~(pc = "rewrite" /\ h = CurHour)
    <3>1. Contents[h] = files[h] BY <2>2 DEF Contents, Content
    <3> QED BY <3>1 DEF IInv, CInv, Consistent
  <2> QED BY <2>1, <2>2
<1> QED BY <1>1, PoolInvariant, PTL

\* When push_datalogs has returned, a restart would load what is in memory.
PersistedWhenIdle == pc = "idle" => diskMeta = meta /\ diskRegistry = registry

\* This is so whatever the batches.
THEOREM PoolPersisted == PoolSpec => []PersistedWhenIdle
<1> DEFINE Saved == /\ pc = "idle" => diskMeta = meta /\ diskRegistry = registry
                    /\ pc = "saveRegistry" => diskMeta = meta
                    /\ pc = "notify" => diskMeta = meta /\ diskRegistry = registry
<1>1. Init => Saved BY DEF Init
<1>2. Saved /\ [PoolNext]_poolVars => Saved'
  BY DEF PoolNext, PushStep, PushBegin, ApplyPush, ApplyReplace, ApplySkip, ReplaceRead,
         ReplaceCreate, ReplaceRewrite, ReplaceAppend, Register, WriteLogs, EnsureIndex,
         SaveMeta, SaveRegistry, Notify, Return, poolVars, storeVars, callVars, chanVars
<1>3. Saved => PersistedWhenIdle BY DEF PersistedWhenIdle
<1> QED BY <1>1, <1>2, <1>3, PTL DEF PoolSpec

\* Between two calls the registry, in memory and saved, and the files say the same of
\* every uid.
THEOREM PoolRegistryMatches ==
    ASSUME DistinctBatches PROVE PoolSpec => []RegistryMatchesStore
<1>1. IInv /\ PersistedWhenIdle => RegistryMatchesStore
  <2> SUFFICES ASSUME IInv, PersistedWhenIdle, pc = "idle", NEW u \in Uids
               PROVE  IF Holds(files[HourOf[u]], u) = {}
                      THEN registry[u] = "none"
                      ELSE registry[u] = ClassIn(files[HourOf[u]], u)
    BY DEF RegistryMatchesStore, PersistedWhenIdle
  <2> DEFINE f == files[HourOf[u]]
  <2>1. HourOf[u] \in Hours BY HourOfAssumption
  <2>2. Contents[HourOf[u]] = f /\ Restored = registry
    BY <2>1 DEF Contents, Content, Restored
  <2>3. UidsIn(byHour[HourOf[u]]) = {}
    BY <2>1 DEF IInv, CInv, Control, NoFiles, UidsIn
  <2>4. Agree(f, registry) /\ (registry[u] # "none" => u \in UidsIn(f))
    BY <2>1, <2>2, <2>3 DEF IInv, CInv, Consistent, AllHeld
  <2> HIDE DEF f
  <2>5. CASE Holds(f, u) = {}
    <3>1. u \notin UidsIn(f) BY <2>5 DEF Holds, UidsIn
    <3> QED BY <2>4, <2>5, <3>1 DEF f
  <2>6. CASE Holds(f, u) # {}
    <3> DEFINE k == CHOOSE i \in DOMAIN f : f[i].uid = u
    <3>1. k \in DOMAIN f /\ f[k].uid = u BY <2>6 DEF Holds
    <3>2. registry[u] = f[k].class BY <2>4, <3>1 DEF Agree
    <3> QED BY <2>6, <3>2 DEF f, ClassIn
  <2> QED BY <2>5, <2>6
<1> QED BY <1>1, PoolInvariant, PoolPersisted, PTL

\* A pool over a registry that knows more than its files hold has nothing to correct.
LEMMA ReopenedCInv == ASSUME IsFiniteSet(Uids) PROVE ReopenedInit => CInv
<1> SUFFICES ASSUME ReopenedInit PROVE CInv
  OBVIOUS
<1>1. PICK R \in Registry, archived \in SUBSET Hours :
         LET n(h) == Cardinality({u \in Uids : HourOf[u] = h /\ R[u] # "none"})
             M == [version |-> 0,
                   tier  |-> [h \in Hours |-> IF h \in archived THEN "daily" ELSE "none"],
                   count |-> [h \in Hours |-> IF h \in archived THEN n(h) ELSE 0]]
         IN  registry = R /\ diskRegistry = R /\ meta = M /\ diskMeta = M
  BY DEF ReopenedInit
<1> DEFINE n(h) == Cardinality({u \in Uids : HourOf[u] = h /\ R[u] # "none"})
<1>2. ASSUME NEW h PROVE n(h) \in Nat
  <2>1. {u \in Uids : HourOf[u] = h /\ R[u] # "none"} \subseteq Uids OBVIOUS
  <2> QED BY <2>1, FS_Subset, FS_CardinalityType
<1> HIDE DEF n
<1>3. meta \in Meta
  <2>1. meta = [version |-> 0,
                tier  |-> [h \in Hours |-> IF h \in archived THEN "daily" ELSE "none"],
                count |-> [h \in Hours |-> IF h \in archived THEN n(h) ELSE 0]]
    BY <1>1 DEF n
  <2>2. [h \in Hours |-> IF h \in archived THEN "daily" ELSE "none"] \in [Hours -> Tiers]
    BY DEF Tiers
  <2>3. [h \in Hours |-> IF h \in archived THEN n(h) ELSE 0] \in [Hours -> Nat] BY <1>2
  <2> QED BY <2>1, <2>2, <2>3 DEF Meta
<1>4. /\ pc = "idle" /\ todo = <<>> /\ files = NoFiles /\ byHour = NoFiles
      /\ registry \in Registry /\ diskRegistry = registry /\ diskMeta = meta
  BY <1>1 DEF ReopenedInit
<1>5. NoFiles \in [Hours -> Seq(Record)] /\ <<>> \in Seq(Record) /\ <<>> \in Seq(Notification)
  BY DEF NoFiles
<1>6. TypeOK
  <2>1. /\ buf = <<>> /\ cur = <<>> /\ chan = <<>> /\ lagged = FALSE /\ pushes = 0 /\ affected = {}
    BY DEF ReopenedInit
  <2> QED BY <1>3, <1>4, <1>5, <2>1 DEF TypeOK, PcValues
<1>7. Control BY <1>4 DEF Control
<1>8. Contents = NoFiles BY <1>4 DEF Contents, Content, NoFiles
<1>9. UidsIn(<<>>) = {} /\ OnePerUid(<<>>) /\ \A h \in Hours : Agree(NoFiles[h], Restored)
  BY DEF UidsIn, OnePerUid, Agree, NoFiles
<1>10. Consistent(NoFiles, NoFiles, Restored, <<>>) BY <1>9 DEF Consistent, NoFiles
<1> QED BY <1>4, <1>6, <1>7, <1>8, <1>10 DEF CInv

\* Between two calls what is consistent is stored, with nothing queued or half written.
LEMMA ConsistentStores == ASSUME CInv PROVE StoredAsRegistered
<1> SUFFICES ASSUME pc = "idle", NEW u \in Uids
             PROVE  /\ OnePerUid(files[HourOf[u]])
                    /\ Holds(files[HourOf[u]], u) # {} => registry[u] = ClassIn(files[HourOf[u]], u)
  BY DEF StoredAsRegistered
<1> DEFINE f == files[HourOf[u]]
           k == CHOOSE i \in DOMAIN f : f[i].uid = u
<1>1. HourOf[u] \in Hours BY HourOfAssumption
<1>2. Contents[HourOf[u]] = f /\ Restored = registry
  BY <1>1 DEF Contents, Content, Restored
<1>3. OnePerUid(f) /\ Agree(f, registry) BY <1>1, <1>2 DEF CInv, Consistent
<1>4. ASSUME Holds(f, u) # {} PROVE registry[u] = ClassIn(f, u)
  <2>1. k \in DOMAIN f /\ f[k].uid = u BY <1>4 DEF Holds
  <2>2. registry[u] = f[k].class BY <1>3, <2>1 DEF Agree
  <2> QED BY <2>2 DEF ClassIn
<1> QED BY <1>3, <1>4

\* However far the registry is ahead of the hour files when the pool is opened, what is
\* stored between two calls is stored once, and registered with the class it has: a
\* replacement that finds no record is appended, and the next one finds it.
THEOREM PoolStoredAsRegistered ==
    ASSUME DistinctBatches, IsFiniteSet(Uids)
    PROVE  ReopenedSpec => []StoredAsRegistered
<1>1. ReopenedInit => CInv BY ReopenedCInv
<1>2. CInv /\ [PoolNext]_poolVars => CInv' BY StepInvariants
<1>3. CInv => StoredAsRegistered BY ConsistentStores
<1> QED BY <1>1, <1>2, <1>3, PTL DEF ReopenedSpec

\* Between two calls the index, in memory and saved, counts every hour exactly: replaces are never counted,
\* and no hour is stored that is not indexed.
THEOREM PoolIndexMatches ==
    ASSUME DistinctBatches PROVE PoolSpec => []IndexMatchesStore
<1>1. Init => IndexCounts BY InitIndexed
<1>2. IInv /\ IndexCounts /\ [PoolNext]_poolVars => IndexCounts' BY StepIndexed
<1>3. IInv /\ IndexCounts /\ PersistedWhenIdle => IndexMatchesStore
  <2> SUFFICES ASSUME IInv, IndexCounts, PersistedWhenIdle, pc = "idle", NEW h \in Hours
               PROVE  /\ meta.count[h] = Len(files[h])
                      /\ meta.tier[h] = "none" <=> files[h] = <<>>
    BY DEF IndexMatchesStore, PersistedWhenIdle
  <2>1. Contents[h] = files[h] /\ ~AtIndex(h) /\ Unindexed(h) = 0
    BY DEF Contents, Content, AtIndex, Unindexed
  <2>2. meta.count[h] \in Nat BY DEF IInv, CInv, TypeOK, Meta
  <2> QED BY <2>1, <2>2 DEF IndexCounts
<1> QED BY <1>1, <1>2, <1>3, PoolInvariant, PoolPersisted, PTL DEF PoolSpec

-----------------------------------------------------------------------------
(* The data pool implements the replace-or-push rules (ReplaceOrPush): the   *)
(* record kept for a uid is the one queued for it or the one its hour file   *)
(* holds, and every step of the pool either accepts one record, as the rules *)
(* allow, or keeps what is kept.                                             *)

\* The record kept for u in contents C and queues B: DataPool's Accepted.
Kept(C, B, u) ==
    LET h == HourOf[u]
        In(f) == f[CHOOSE i \in DOMAIN f : f[i].uid = u]
    IN  CASE Holds(B[h], u) # {} -> In(B[h])
          [] Holds(C[h], u) # {} -> In(C[h])
          [] OTHER               -> [class |-> "none"]

\* What is kept, when contents and queues fit: CHOOSE has one candidate only.
LEMMA KeptIs ==
    ASSUME NEW C, NEW B, NEW R, NEW T, Consistent(C, B, R, T), NEW u \in Uids,
           NEW h \in Hours, h = HourOf[u]
    PROVE  /\ \A i \in DOMAIN B[h] : B[h][i].uid = u => Kept(C, B, u) = B[h][i]
           /\ \A i \in DOMAIN C[h] : C[h][i].uid = u => Kept(C, B, u) = C[h][i]
           /\ u \notin UidsIn(B[h]) \cup UidsIn(C[h]) => Kept(C, B, u) = [class |-> "none"]
<1> DEFINE In(f) == f[CHOOSE i \in DOMAIN f : f[i].uid = u]
<1>1. \A f : \A i \in DOMAIN f : OnePerUid(f) /\ f[i].uid = u => In(f) = f[i]
  BY DEF OnePerUid
<1>2. \A f : Holds(f, u) = {} <=> u \notin UidsIn(f) BY DEF Holds, UidsIn
<1>3. OnePerUid(B[h]) /\ OnePerUid(C[h]) /\ UidsIn(B[h]) \cap UidsIn(C[h]) = {}
  BY DEF Consistent
<1>4. Kept(C, B, u) = CASE Holds(B[h], u) # {} -> In(B[h])
                        [] Holds(C[h], u) # {} -> In(C[h])
                        [] OTHER               -> [class |-> "none"]
  BY DEF Kept
<1> HIDE DEF In
<1>5. ASSUME NEW i \in DOMAIN B[h], B[h][i].uid = u PROVE Kept(C, B, u) = B[h][i]
  <2>1. u \in UidsIn(B[h]) /\ In(B[h]) = B[h][i] BY <1>1, <1>3, <1>5 DEF UidsIn
  <2>2. Holds(B[h], u) # {} /\ Holds(C[h], u) = {} BY <2>1, <1>2, <1>3
  <2> QED BY <2>1, <2>2, <1>4
<1>6. ASSUME NEW i \in DOMAIN C[h], C[h][i].uid = u PROVE Kept(C, B, u) = C[h][i]
  <2>1. u \in UidsIn(C[h]) /\ In(C[h]) = C[h][i] BY <1>1, <1>3, <1>6 DEF UidsIn
  <2>2. u \notin UidsIn(B[h]) BY <2>1, <1>3
  <2>3. Holds(B[h], u) = {} /\ Holds(C[h], u) # {} BY <2>1, <2>2, <1>2
  <2> QED BY <2>1, <2>3, <1>4
<1>7. ASSUME u \notin UidsIn(B[h]) \cup UidsIn(C[h]) PROVE Kept(C, B, u) = [class |-> "none"]
  BY <1>7, <1>2, <1>4
<1> QED BY <1>5, <1>6, <1>7

\* What is kept is what the abstract store holds.
LEMMA AcceptedIsKept ==
    ASSUME NEW u \in Uids
    PROVE  Accepted(u) = Kept(Contents, byHour, u)
<1>1. HourOf[u] \in Hours BY HourOfAssumption
<1>2. Contents[HourOf[u]] = Content(HourOf[u]) BY <1>1 DEF Contents
<1> QED BY <1>2 DEF Accepted, Kept

\* The records of u, stored or queued at its hour: at most one when all fits.
KeptRecords(C, B, u) == LET h == HourOf[u]
                      IN  {B[h][i] : i \in Holds(B[h], u)} \cup {C[h][i] : i \in Holds(C[h], u)}

LEMMA KeptIsTheRecord ==
    ASSUME NEW C, NEW B, NEW R, NEW T, Consistent(C, B, R, T), NEW u \in Uids
    PROVE  /\ \A x \in KeptRecords(C, B, u) : Kept(C, B, u) = x
           /\ KeptRecords(C, B, u) = {} => Kept(C, B, u) = [class |-> "none"]
<1> DEFINE h == HourOf[u]
<1>1. h \in Hours BY HourOfAssumption
<1>2. KeptRecords(C, B, u) =
        {B[h][i] : i \in Holds(B[h], u)} \cup {C[h][i] : i \in Holds(C[h], u)}
  BY DEF KeptRecords
<1>3. \A f, i : i \in Holds(f, u) <=> i \in DOMAIN f /\ f[i].uid = u BY DEF Holds
<1>4. \A x \in KeptRecords(C, B, u) : Kept(C, B, u) = x BY <1>1, <1>2, <1>3, KeptIs
<1>5. ASSUME KeptRecords(C, B, u) = {} PROVE Kept(C, B, u) = [class |-> "none"]
  <2>1. Holds(B[h], u) = {} /\ Holds(C[h], u) = {} BY <1>2, <1>5
  <2>2. u \notin UidsIn(B[h]) \cup UidsIn(C[h]) BY <2>1 DEF Holds, UidsIn
  <2> QED BY <1>1, <2>2, KeptIs
<1> QED BY <1>4, <1>5

\* The same records, the same record kept.
LEMMA KeptSame ==
    ASSUME NEW C, NEW B, NEW R, NEW T, Consistent(C, B, R, T),
           NEW C1, NEW B1, NEW R1, NEW T1, Consistent(C1, B1, R1, T1),
           NEW u \in Uids, KeptRecords(C1, B1, u) = KeptRecords(C, B, u)
    PROVE  Kept(C1, B1, u) = Kept(C, B, u)
<1>1. CASE KeptRecords(C, B, u) = {} BY <1>1, KeptIsTheRecord
<1>2. CASE KeptRecords(C, B, u) # {}
  <2>1. PICK x \in KeptRecords(C, B, u) : TRUE BY <1>2
  <2> QED BY <2>1, KeptIsTheRecord
<1> QED BY <1>1, <1>2

-----------------------------------------------------------------------------
(* What each kind of step does to the records of a uid *)

LEMMA PushRecords ==
    ASSUME byHour \in [Hours -> Seq(Record)], Current \in Record,
           CurHour \in Hours, CurHour = HourOf[Current.uid],
           byHour' = [byHour EXCEPT ![CurHour] = Append(@, Current)],
           Contents' = Contents, NEW u \in Uids
    PROVE  /\ u # Current.uid =>
                  KeptRecords(Contents', byHour', u) = KeptRecords(Contents, byHour, u)
           /\ u = Current.uid => Current \in KeptRecords(Contents', byHour', u)
<1> DEFINE k == HourOf[u]
           q == byHour[CurHour]
<1>1. k \in Hours /\ q \in Seq(Record) BY HourOfAssumption
<1>2. /\ DOMAIN Append(q, Current) = DOMAIN q \cup {Len(q) + 1}
      /\ Len(q) + 1 \notin DOMAIN q
      /\ \A i \in DOMAIN q : Append(q, Current)[i] = q[i]
      /\ Append(q, Current)[Len(q) + 1] = Current
  BY <1>1
<1>3. byHour'[k] = IF k = CurHour THEN Append(q, Current) ELSE byHour[k] BY <1>1
<1>4. k = CurHour => byHour[k] = q OBVIOUS
<1> HIDE DEF q
<1>5. ASSUME u # Current.uid
      PROVE  KeptRecords(Contents', byHour', u) = KeptRecords(Contents, byHour, u)
  <2> DEFINE q0 == byHour[k]
             q1 == byHour'[k]
  <2>1. q1 = (IF k = CurHour THEN Append(q, Current) ELSE q0) /\ (k = CurHour => q0 = q)
    BY <1>3, <1>4
  <2>2. Contents'[k] = Contents[k] OBVIOUS
  <2> HIDE DEF q0, q1
  <2>3. Holds(q1, u) = Holds(q0, u) BY <1>2, <1>5, <2>1 DEF Holds
  <2>4. \A i \in Holds(q0, u) : q1[i] = q0[i] BY <1>2, <2>1 DEF Holds
  <2>5. {q1[i] : i \in Holds(q1, u)} = {q0[i] : i \in Holds(q0, u)} BY <2>3, <2>4
  <2> QED BY <2>2, <2>5 DEF KeptRecords, q0, q1
<1>6. ASSUME u = Current.uid PROVE Current \in KeptRecords(Contents', byHour', u)
  <2>1. Len(q) + 1 \in Holds(byHour'[k], u) /\ byHour'[k][Len(q) + 1] = Current
    BY <1>2, <1>3, <1>6 DEF Holds
  <2> QED BY <2>1 DEF KeptRecords
<1> QED BY <1>5, <1>6

LEMMA ReplaceRecords ==
    ASSUME Contents \in [Hours -> Seq(Record)], Current \in Record,
           CurHour \in Hours, CurHour = HourOf[Current.uid],
           OnePerUid(Contents[CurHour]), Current.uid \in UidsIn(Contents[CurHour]),
           Contents' = [Contents EXCEPT ![CurHour] = ReplaceFirst(Contents[CurHour], Current)],
           byHour' = byHour, NEW u \in Uids
    PROVE  /\ u # Current.uid =>
                  KeptRecords(Contents', byHour', u) = KeptRecords(Contents, byHour, u)
           /\ u = Current.uid => Current \in KeptRecords(Contents', byHour', u)
<1> DEFINE k == HourOf[u]
           c == Contents[CurHour]
<1>1. k \in Hours /\ c \in Seq(Record) BY HourOfAssumption
<1>2. /\ DOMAIN ReplaceFirst(c, Current) = DOMAIN c
      /\ \A i \in DOMAIN c :
            ReplaceFirst(c, Current)[i] = IF c[i].uid = Current.uid THEN Current ELSE c[i]
  BY <1>1, ReplaceFirstUids
<1>3. Contents'[k] = IF k = CurHour THEN ReplaceFirst(c, Current) ELSE Contents[k] BY <1>1
<1>4. ASSUME u # Current.uid
      PROVE  KeptRecords(Contents', byHour', u) = KeptRecords(Contents, byHour, u)
  <2>1. CASE k # CurHour BY <1>3, <2>1 DEF KeptRecords
  <2>2. CASE k = CurHour
    <3>1. Contents'[k] = ReplaceFirst(c, Current) /\ Contents[k] = c BY <1>3, <2>2
    <3> HIDE DEF c
    <3>2. Holds(Contents'[k], u) = Holds(Contents[k], u) BY <1>2, <1>4, <3>1 DEF Holds
    <3>3. \A i \in Holds(Contents[k], u) : Contents'[k][i] = Contents[k][i]
      BY <1>2, <1>4, <3>1 DEF Holds
    <3> QED BY <3>2, <3>3 DEF KeptRecords
  <2> QED BY <2>1, <2>2
<1>5. ASSUME u = Current.uid PROVE Current \in KeptRecords(Contents', byHour', u)
  <2>1. PICK i \in DOMAIN c : c[i].uid = Current.uid BY DEF UidsIn
  <2>2. i \in Holds(Contents'[k], u) /\ Contents'[k][i] = Current
    BY <2>1, <1>2, <1>3, <1>5 DEF Holds
  <2> QED BY <2>2 DEF KeptRecords
<1> QED BY <1>4, <1>5

LEMMA ConcatElements ==
    ASSUME NEW f \in Seq(Record), NEW g \in Seq(Record)
    PROVE  /\ \A i \in DOMAIN (f \o g) : \/ i \in DOMAIN f /\ (f \o g)[i] = f[i]
                                       \/ \E j \in DOMAIN g : (f \o g)[i] = g[j]
           /\ \A i \in DOMAIN f : i \in DOMAIN (f \o g) /\ (f \o g)[i] = f[i]
           /\ \A j \in DOMAIN g : \E i \in DOMAIN (f \o g) : (f \o g)[i] = g[j]
<1>1. /\ f \o g \in Seq(Record) /\ Len(f \o g) = Len(f) + Len(g)
      /\ \A i \in 1..Len(f) : (f \o g)[i] = f[i]
      /\ \A i \in 1..Len(g) : (f \o g)[Len(f) + i] = g[i]
  OBVIOUS
<1>2. /\ DOMAIN f = 1..Len(f) /\ DOMAIN g = 1..Len(g)
      /\ DOMAIN (f \o g) = 1..(Len(f) + Len(g))
      /\ Len(f) \in Nat /\ Len(g) \in Nat
  BY <1>1
<1>3. ASSUME NEW i \in DOMAIN (f \o g), i \notin DOMAIN f
      PROVE  \E j \in DOMAIN g : (f \o g)[i] = g[j]
  <2>1. i - Len(f) \in DOMAIN g /\ i = Len(f) + (i - Len(f)) BY <1>2, <1>3
  <2> QED BY <2>1, <1>1, <1>2
<1>4. \A j \in DOMAIN g : Len(f) + j \in DOMAIN (f \o g) BY <1>2
<1>5. \A j \in DOMAIN g : (f \o g)[Len(f) + j] = g[j] BY <1>1, <1>2
<1>6. \A j \in DOMAIN g : \E i \in DOMAIN (f \o g) : (f \o g)[i] = g[j]
  <2> TAKE j \in DOMAIN g
  <2> WITNESS Len(f) + j \in DOMAIN (f \o g)
  <2> QED BY <1>5
<1>7. \A i \in DOMAIN f : i \in DOMAIN (f \o g) /\ (f \o g)[i] = f[i] BY <1>1, <1>2
<1> QED BY <1>3, <1>6, <1>7

LEMMA ConcatRecords ==
    ASSUME NEW f \in Seq(Record), NEW g \in Seq(Record), NEW u
    PROVE  {(f \o g)[i] : i \in Holds(f \o g, u)}
              = {f[i] : i \in Holds(f, u)} \cup {g[i] : i \in Holds(g, u)}
<1> DEFINE w == f \o g
<1>1. /\ \A i \in DOMAIN w : (i \in DOMAIN f /\ w[i] = f[i]) \/ (\E j \in DOMAIN g : w[i] = g[j])
      /\ \A i \in DOMAIN f : i \in DOMAIN w /\ w[i] = f[i]
      /\ \A j \in DOMAIN g : \E i \in DOMAIN w : w[i] = g[j]
  BY ConcatElements
<1> HIDE DEF w
<1>2. \A s, i : i \in Holds(s, u) <=> i \in DOMAIN s /\ s[i].uid = u BY DEF Holds
<1>3. ASSUME NEW i \in Holds(w, u)
      PROVE  w[i] \in {f[m] : m \in Holds(f, u)} \cup {g[m] : m \in Holds(g, u)}
  <2>1. i \in DOMAIN w /\ w[i].uid = u BY <1>2
  <2>2. CASE i \in DOMAIN f /\ w[i] = f[i]
    <3>1. i \in Holds(f, u) BY <2>1, <2>2, <1>2
    <3> QED BY <2>2, <3>1
  <2>3. CASE \E j \in DOMAIN g : w[i] = g[j]
    <3>1. PICK j \in DOMAIN g : w[i] = g[j] BY <2>3
    <3>2. j \in Holds(g, u) BY <2>1, <3>1, <1>2
    <3> QED BY <3>1, <3>2
  <2> QED BY <1>1, <2>1, <2>2, <2>3
<1>4. ASSUME NEW i \in Holds(f, u) PROVE f[i] \in {w[m] : m \in Holds(w, u)}
  <2>1. i \in DOMAIN w /\ w[i] = f[i] /\ w[i].uid = u BY <1>1, <1>2
  <2>2. i \in Holds(w, u) BY <2>1, <1>2
  <2> QED BY <2>1, <2>2
<1>5. ASSUME NEW j \in Holds(g, u) PROVE g[j] \in {w[m] : m \in Holds(w, u)}
  <2>1. PICK i \in DOMAIN w : w[i] = g[j] BY <1>1, <1>2
  <2>2. i \in Holds(w, u) BY <2>1, <1>2
  <2> QED BY <2>1, <2>2
<1> QED BY <1>3, <1>4, <1>5 DEF w

LEMMA WriteRecords ==
    ASSUME NEW C \in [Hours -> Seq(Record)], NEW B \in [Hours -> Seq(Record)],
           NEW h \in Hours, NEW u \in Uids
    PROVE  KeptRecords([C EXCEPT ![h] = @ \o B[h]], [B EXCEPT ![h] = <<>>], u) = KeptRecords(C, B, u)
<1> DEFINE C1 == [C EXCEPT ![h] = @ \o B[h]]
           B1 == [B EXCEPT ![h] = <<>>]
           k == HourOf[u]
<1>1. k \in Hours BY HourOfAssumption
<1>2. /\ C1[k] = IF k = h THEN C[h] \o B[h] ELSE C[k]
      /\ B1[k] = IF k = h THEN <<>> ELSE B[k]
  BY <1>1
<1> SUFFICES KeptRecords(C1, B1, u) = KeptRecords(C, B, u)
  OBVIOUS
<1> HIDE DEF C1, B1
<1>3. CASE k # h BY <1>2, <1>3 DEF KeptRecords
<1>4. CASE k = h
  <2>1. /\ C1[k] = C[k] \o B[k] /\ B1[k] = <<>> BY <1>2, <1>4
  <2>2. C[k] \in Seq(Record) /\ B[k] \in Seq(Record) BY <1>1
  <2>3. Holds(B1[k], u) = {} BY <2>1 DEF Holds
  <2>4. KeptRecords(C1, B1, u) = {(C[k] \o B[k])[i] : i \in Holds(C[k] \o B[k], u)}
    BY <2>1, <2>3 DEF KeptRecords
  <2>5. KeptRecords(C, B, u) = {C[k][i] : i \in Holds(C[k], u)} \cup {B[k][i] : i \in Holds(B[k], u)}
    BY DEF KeptRecords
  <2> QED BY <2>2, <2>4, <2>5, ConcatRecords
<1> QED BY <1>3, <1>4

-----------------------------------------------------------------------------
(* The refinement *)

\* What one step of the pool does to the records kept.
Accepts(r) == /\ ~(r.class = "calculate" /\ Accepted(r.uid).class = "official")
              /\ \A u \in Uids : Accepted(u)' = IF u = r.uid THEN r ELSE Accepted(u)

LEMMA StepAccepts ==
    ASSUME DistinctBatches, IInv, [PoolNext]_poolVars
    PROVE  \/ \A u \in Uids : Accepted(u)' = Accepted(u)
           \/ \E r \in Record : Accepts(r)
<1>1. /\ TypeOK /\ Control /\ Consistent(Contents, byHour, Restored, todo)
      /\ AllHeld(Contents, byHour, Restored)
      /\ CInv /\ Consistent(Contents', byHour', Restored', todo')
  BY StepInvariants DEF IInv, CInv
<1>2. /\ Contents \in [Hours -> Seq(Record)] /\ byHour \in [Hours -> Seq(Record)]
      /\ Restored \in Registry
  BY <1>1, ContentsType
<1>3. \A u \in Uids : Accepted(u) = Kept(Contents, byHour, u) BY AcceptedIsKept
<1>4. \A u \in Uids : Accepted(u)' = Kept(Contents', byHour', u)
  <2> SUFFICES ASSUME NEW u \in Uids PROVE Accepted(u)' = Kept(Contents', byHour', u)
    OBVIOUS
  <2>1. HourOf[u] \in Hours BY HourOfAssumption
  <2>2. Contents'[HourOf[u]] = Content(HourOf[u])' BY <2>1 DEF Contents
  <2> QED BY <2>2 DEF Accepted, Kept
<1>5. ASSUME todo # <<>>
      PROVE  /\ Current \in Record /\ CurHour \in Hours /\ CurHour = HourOf[Current.uid]
             /\ Current.uid \in Uids /\ Current.uid \notin UidsIn(byHour[CurHour])
  BY <1>1, <1>5, CurrentPlace, CurrentType
<1>one. ASSUME NEW r \in Record, r.uid \in Uids, r \in KeptRecords(Contents', byHour', r.uid),
               \A u \in Uids : u # r.uid =>
                   KeptRecords(Contents', byHour', u) = KeptRecords(Contents, byHour, u)
        PROVE  \A u \in Uids : Accepted(u)' = IF u = r.uid THEN r ELSE Accepted(u)
  <2>1. ASSUME NEW u \in Uids, u # r.uid PROVE Accepted(u)' = Accepted(u)
    <3>1. KeptRecords(Contents', byHour', u) = KeptRecords(Contents, byHour, u) BY <1>one, <2>1
    <3>2. Kept(Contents', byHour', u) = Kept(Contents, byHour, u) BY <1>1, <3>1, KeptSame
    <3> QED BY <3>2, <1>3, <1>4
  <2>2. Kept(Contents', byHour', r.uid) = r BY <1>1, <1>one, KeptIsTheRecord
  <2> QED BY <2>1, <2>2, <1>4, <1>one
<1>6. CASE Queues
  <2>1. /\ todo # <<>> /\ Contents' = Contents /\ Restored[Current.uid] = "none"
        /\ byHour' = [byHour EXCEPT ![CurHour] = Append(@, Current)]
    BY <1>6 DEF Queues
  <2>here. /\ Current \in Record /\ CurHour \in Hours /\ CurHour = HourOf[Current.uid]
           /\ Current.uid \in Uids /\ Current.uid \notin UidsIn(byHour[CurHour])
    BY <1>5, <2>1
  <2>2. /\ \A u \in Uids : u # Current.uid =>
              KeptRecords(Contents', byHour', u) = KeptRecords(Contents, byHour, u)
        /\ Current \in KeptRecords(Contents', byHour', Current.uid)
    <3>1. \A u \in Uids :
             /\ u # Current.uid =>
                   KeptRecords(Contents', byHour', u) = KeptRecords(Contents, byHour, u)
             /\ u = Current.uid => Current \in KeptRecords(Contents', byHour', u)
      BY <1>2, <2>here, <2>1, PushRecords
    <3> QED BY <3>1, <2>here
  <2>3. \A u \in Uids : Accepted(u)' = IF u = Current.uid THEN Current ELSE Accepted(u)
    BY <1>one, <2>here, <2>2
  <2>4. Current.uid \notin UidsIn(Contents[CurHour])
    BY <1>1, <1>2, <2>here, <2>1, AgreeUids DEF Consistent
  <2>5. Accepted(Current.uid) = [class |-> "none"]
    BY <1>1, <1>3, <2>here, <2>1, <2>4, KeptIs
  <2> QED BY <2>here, <2>1, <2>3, <2>5 DEF Accepts
<1>7. CASE ReplaceRewrite /\ Exchanges
  <2>1. /\ todo # <<>> /\ byHour' = byHour /\ Current.uid \in UidsIn(Contents[CurHour])
        /\ Contents' = [Contents EXCEPT ![CurHour] = ReplaceFirst(Contents[CurHour], Current)]
    BY <1>7 DEF Exchanges
  <2>here. /\ Current \in Record /\ CurHour \in Hours /\ CurHour = HourOf[Current.uid]
           /\ Current.uid \in Uids
    BY <1>5, <2>1
  <2>2. OnePerUid(Contents[CurHour]) /\ Agree(Contents[CurHour], Restored)
    BY <1>1, <2>here, <2>1 DEF Consistent
  <2>3. /\ \A u \in Uids : u # Current.uid =>
              KeptRecords(Contents', byHour', u) = KeptRecords(Contents, byHour, u)
        /\ Current \in KeptRecords(Contents', byHour', Current.uid)
    <3>1. \A u \in Uids :
             /\ u # Current.uid =>
                   KeptRecords(Contents', byHour', u) = KeptRecords(Contents, byHour, u)
             /\ u = Current.uid => Current \in KeptRecords(Contents', byHour', u)
      BY <1>2, <2>here, <2>1, <2>2, ReplaceRecords
    <3> QED BY <3>1, <2>here
  <2>4. \A u \in Uids : Accepted(u)' = IF u = Current.uid THEN Current ELSE Accepted(u)
    BY <1>one, <2>here, <2>3
  <2>5. Accepted(Current.uid).class = Restored[Current.uid]
    <3>1. PICK i \in DOMAIN Contents[CurHour] : Contents[CurHour][i].uid = Current.uid
      BY <2>1 DEF UidsIn
    <3>2. Accepted(Current.uid) = Contents[CurHour][i]
      BY <1>1, <1>3, <2>here, <2>1, <3>1, KeptIs
    <3> QED BY <2>2, <3>1, <3>2 DEF Agree
  <2>6. ~(Current.class = "calculate" /\ Restored[Current.uid] = "official")
    BY <1>1, <1>7 DEF ReplaceRewrite, Restored, Control, Decision
  <2> QED BY <2>here, <2>1, <2>4, <2>5, <2>6 DEF Accepts
<1>8. ASSUME NEW h \in Hours, Writes(h) PROVE \A u \in Uids : Accepted(u)' = Accepted(u)
  <2>1. \A u \in Uids : KeptRecords(Contents', byHour', u) = KeptRecords(Contents, byHour, u)
    BY <1>2, <1>8, WriteRecords DEF Writes
  <2> QED BY <1>1, <1>3, <1>4, <2>1, KeptSame
<1>9. ASSUME Contents' = Contents, byHour' = byHour
      PROVE  \A u \in Uids : Accepted(u)' = Accepted(u)
  BY <1>3, <1>4, <1>9
<1>10. CASE (\E b \in Batches : Begins(b)) \/ Passes \/ Stays
  <2>1. Contents' = Contents /\ byHour' = byHour BY <1>10 DEF Begins, Passes, Stays
  <2> QED BY <1>9, <2>1
<1>11. ~ReplaceAppend BY DEF ReplaceAppend, IInv
<1> QED BY <1>1, <1>6, <1>7, <1>8, <1>10, <1>11, PoolSteps

\* The data pool implements the replace-or-push rules: with batches that name no
\* uid twice, each step is an Accept of the abstract specification or leaves its
\* store alone.
THEOREM PoolImplementsRules == ASSUME DistinctBatches PROVE PoolSpec => ImplementsRules
<1>1. Init => Abstract!Init
  <2> SUFFICES ASSUME Init, NEW u \in Uids PROVE Accepted(u) = [class |-> "none"]
    BY DEF Abstract!Init, Abstract!NoRecord
  <2>1. HourOf[u] \in Hours BY HourOfAssumption
  <2> QED BY <2>1 DEF Init, Accepted, Content, NoFiles, Holds
<1>2. IInv /\ [PoolNext]_poolVars => [Abstract!Next]_([u \in Uids |-> Accepted(u)])
  <2> SUFFICES ASSUME IInv, [PoolNext]_poolVars
               PROVE  \/ Abstract!Next
                      \/ [u \in Uids |-> Accepted(u)]' = [u \in Uids |-> Accepted(u)]
    OBVIOUS
  <2>1. CASE \A u \in Uids : Accepted(u)' = Accepted(u) BY <2>1
  <2>2. ASSUME NEW r \in Record, Accepts(r) PROVE Abstract!Next
    <3>1. r \in Abstract!Record /\ r.uid \in Uids
      BY DEF Record, Classes, Abstract!Record, Abstract!Classes
    <3>2. ~Abstract!Yields(r) BY <2>2, <3>1 DEF Accepts, Abstract!Yields
    <3>3. [u \in Uids |-> Accepted(u)]' = [[u \in Uids |-> Accepted(u)] EXCEPT ![r.uid] = r]
      BY <2>2, <3>1 DEF Accepts
    <3> QED BY <3>1, <3>2, <3>3 DEF Abstract!Next, Abstract!Accept
  <2> QED BY <2>1, <2>2, StepAccepts
<1> QED BY <1>1, <1>2, PoolInvariant, PTL DEF PoolSpec, ImplementsRules, Abstract!Spec

\* Rule 3 seen from outside: once an official record is kept for a uid an official
\* one is kept for ever, and no record is ever lost, whatever is pushed later.
THEOREM PoolKeepsOfficial == ASSUME DistinctBatches PROVE PoolSpec => Abstract!OfficialKept
<1>1. IInv /\ [PoolNext]_poolVars
         => [Abstract!KeepsOfficial]_([u \in Uids |-> Accepted(u)])
  <2> SUFFICES ASSUME IInv, [PoolNext]_poolVars, NEW u \in Uids
               PROVE  /\ Accepted(u).class = "official" => Accepted(u)'.class = "official"
                      /\ Accepted(u).class # "none"     => Accepted(u)'.class # "none"
    BY DEF Abstract!KeepsOfficial
  <2>1. CASE \A w \in Uids : Accepted(w)' = Accepted(w) BY <2>1
  <2>2. ASSUME NEW r \in Record, Accepts(r)
        PROVE  /\ Accepted(u).class = "official" => Accepted(u)'.class = "official"
               /\ Accepted(u).class # "none"     => Accepted(u)'.class # "none"
    <3>1. CASE u # r.uid BY <2>2, <3>1 DEF Accepts
    <3>2. CASE u = r.uid
      <4>1. Accepted(u)' = r /\ r.class \in Classes BY <2>2, <3>2 DEF Accepts, Record
      <4>2. ~(r.class = "calculate" /\ Accepted(u).class = "official")
        BY <2>2, <3>2 DEF Accepts
      <4> QED BY <4>1, <4>2 DEF Classes
    <3> QED BY <3>1, <3>2
  <2> QED BY <2>1, <2>2, StepAccepts
<1> QED BY <1>1, PoolInvariant, PTL DEF PoolSpec, Abstract!OfficialKept
=============================================================================
