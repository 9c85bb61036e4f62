--------------------------- MODULE CollectorProofs ---------------------------
(***************************************************************************)
(* Proofs about one source and its coordinator (Collector), for every      *)
(* number of sessions, length of the tools' files, channel capacity and    *)
(* number of faults.  First what the store's operations, a reading of a    *)
(* transcript and an answer of the language server do, and the types,      *)
(* which say where the marks can be.  Then the way of a call's record from *)
(* the language server through the store, the batch and the channel to the *)
(* pool: none is left behind by the marks (FetchedIsKept, MarkedIsFetched),*)
(* and none is delivered twice (DeliveredOnce).  Then what the records say:*)
(* the amounts of the Codex records (CodexExact) and the estimates made    *)
(* from transcripts (EstimateStable), however the reading of a file is cut *)
(* up, and which lines of a session file an incremental collection may     *)
(* leave out (ReadOrSlipped).                                              *)
(*                                                                         *)
(* A round reads an offset, fetches without the lock, appends, and moves   *)
(* the marks in three steps more; what it owes in between is part of the   *)
(* invariants.  The session it is at when a Rebuild resets the store is    *)
(* none of their concern (raced): there the marks do pass what is lost, as *)
(* TLC finds (MCRebuildMidFetch).                                          *)
(***************************************************************************)
EXTENDS Collector, Induction, TLAPS

-----------------------------------------------------------------------------
(* The numbers of a set in order *)

LEMMA InOrderRange ==
    ASSUME NEW S, NEW n \in Nat
    PROVE  IsSeq(InOrder(S, n)) /\ Range(InOrder(S, n)) = S \cap (1 .. n)
<1> DEFINE Rec(f, k) == f = [i \in 0 .. k |-> IF i = 0 THEN <<>>
                                              ELSE IF i \in S THEN Append(f[i - 1], i) ELSE f[i - 1]]
           upTo == CHOOSE f : Rec(f, n)
<1>1. \E f : Rec(f, n)
  <2> DEFINE K == {k \in Nat : \E f : Rec(f, k)}
  <2>1. 0 \in K
    <3>1. Rec([i \in 0 .. 0 |-> <<>>], 0) OBVIOUS
    <3> QED BY <3>1
  <2>2. ASSUME NEW k \in Nat, k \in K PROVE k + 1 \in K
    <3>1. PICK f : Rec(f, k) BY <2>2
    <3> DEFINE g == [i \in 0 .. k + 1 |-> IF i <= k THEN f[i]
                                          ELSE IF k + 1 \in S THEN Append(f[k], k + 1) ELSE f[k]]
               h == [i \in 0 .. k + 1 |-> IF i = 0 THEN <<>>
                                          ELSE IF i \in S THEN Append(g[i - 1], i) ELSE g[i - 1]]
    <3>2. ASSUME NEW i \in 0 .. k + 1 PROVE g[i] = h[i]
      <4>1. CASE i = 0 BY <3>1, <4>1
      <4>2. CASE i # 0 /\ i <= k
        <5>1. i \in 0 .. k /\ i - 1 \in 0 .. k + 1 /\ i - 1 <= k BY <4>2
        <5>2. g[i] = f[i] /\ g[i - 1] = f[i - 1] BY <4>2, <5>1
        <5>3. f[i] = IF i \in S THEN Append(f[i - 1], i) ELSE f[i - 1] BY <3>1, <4>2, <5>1
        <5> QED BY <4>2, <5>2, <5>3
      <4>3. CASE i = k + 1
        <5>1. i # 0 /\ ~(i <= k) /\ i - 1 = k /\ k \in 0 .. k + 1 /\ k <= k BY <4>3
        <5>2. g[k] = f[k] BY <5>1
        <5> QED BY <4>3, <5>1, <5>2
      <4> QED BY <4>1, <4>2, <4>3
    <3>3. g = h BY <3>2
    <3> HIDE DEF g
    <3>4. Rec(g, k + 1) BY <3>3
    <3> HIDE DEF Rec
    <3>5. \E e : Rec(e, k + 1) BY <3>4
    <3> QED BY <3>5
  <2> HIDE DEF K
  <2>3. n \in K BY <2>1, <2>2, SetInduction
  <2> QED BY <2>3 DEF K
<1>2. Rec(upTo, n) BY <1>1
<1>3. InOrder(S, n) = upTo[n] BY DEF InOrder
<1> HIDE DEF upTo
<1> DEFINE K == {k \in Nat : IsSeq(upTo[k]) /\ Range(upTo[k]) = S \cap (1 .. k)}
<1>4. 0 \in K
  <2>1. upTo[0] = <<>> BY <1>2
  <2> QED BY <2>1, EmptyIsSeq
<1>5. ASSUME NEW k \in 0 .. n - 1, k \in K PROVE k + 1 \in K
  <2>1. upTo[k + 1] = IF k + 1 \in S THEN Append(upTo[k], k + 1) ELSE upTo[k]
    <3>1. k + 1 \in 0 .. n /\ k + 1 # 0 /\ (k + 1) - 1 = k OBVIOUS
    <3> QED BY <1>2, <3>1
  <2>2. IsSeq(upTo[k]) /\ Range(upTo[k]) = S \cap (1 .. k) /\ k \in Nat BY <1>5
  <2>3. 1 .. k + 1 = (1 .. k) \cup {k + 1} BY <2>2
  <2>4. CASE k + 1 \in S
    <3>1. upTo[k + 1] = Append(upTo[k], k + 1) BY <2>1, <2>4
    <3>2. IsSeq(upTo[k + 1]) /\ Range(upTo[k + 1]) = Range(upTo[k]) \cup {k + 1}
      BY <2>2, <3>1, AppendIsSeq
    <3> QED BY <2>2, <2>3, <2>4, <3>2
  <2>5. CASE k + 1 \notin S BY <2>1, <2>2, <2>3, <2>5
  <2> QED BY <2>4, <2>5
<1> HIDE DEF K
<1>6. 0 .. n \subseteq K BY <1>4, <1>5, BoundedInduction
<1> QED BY <1>3, <1>6 DEF K

-----------------------------------------------------------------------------
(* The store *)

\* What a store is made of.  Its only consumer reads it to the end every time, so
\* that the cursor is back at 0 whenever there is one.
IsStore(st) ==
    /\ st \in [entries : {st.entries}, cursors : {st.cursors},
               offsets : [Sessions -> Nat], mtimes : [Sessions -> Nat], dirty : BOOLEAN]
    /\ IsSeq(st.entries)
    /\ DOMAIN st.cursors \subseteq {"framework"}
    /\ st.cursors = [c \in DOMAIN st.cursors |-> 0]

Disks == [offsets : [Sessions -> Nat], mtimes : [Sessions -> Nat]]

LEMMA StoreAppended ==
    ASSUME NEW st, NEW logs, IsStore(st), IsSeq(logs)
    PROVE  /\ IsStore(Appended(st, logs))
           /\ Range(Appended(st, logs).entries) = Range(st.entries) \cup Range(logs)
           /\ Appended(st, logs).offsets = st.offsets /\ Appended(st, logs).mtimes = st.mtimes
<1> DEFINE ap == Appended(st, logs)
<1>1. ap = [entries |-> st.entries \o logs, cursors |-> st.cursors, offsets |-> st.offsets,
            mtimes |-> st.mtimes, dirty |-> st.dirty]
  <2>1. ASSUME NEW e
        PROVE  [st EXCEPT !.entries = e] = [entries |-> e, cursors |-> st.cursors,
                   offsets |-> st.offsets, mtimes |-> st.mtimes, dirty |-> st.dirty]
    BY DEF IsStore
  <2>2. ap = [st EXCEPT !.entries = st.entries \o logs] BY Zenon DEF Appended
  <2> HIDE DEF ap
  <2> QED BY <2>1, <2>2, Zenon
<1> HIDE DEF ap
<1>2. IsSeq(ap.entries) /\ Range(ap.entries) = Range(st.entries) \cup Range(logs)
  BY <1>1, ConcatIsSeq DEF IsStore
<1>3. IsStore(ap) BY <1>1, <1>2 DEF IsStore
<1> QED BY <1>1, <1>2, <1>3 DEF ap

LEMMA StoreAdvanced ==
    ASSUME NEW st, NEW s \in Sessions, NEW n \in Nat, IsStore(st)
    PROVE  /\ IsStore(AdvanceOffset(st, s, n))
           /\ AdvanceOffset(st, s, n).entries = st.entries
           /\ AdvanceOffset(st, s, n).mtimes = st.mtimes
           /\ \A t \in Sessions : AdvanceOffset(st, s, n).offsets[t] =
                  IF t = s /\ n > st.offsets[s] THEN n ELSE st.offsets[t]
<1>1. CASE n > st.offsets[s]
  <2> DEFINE ad == [entries |-> st.entries, cursors |-> st.cursors,
                    offsets |-> [st.offsets EXCEPT ![s] = n], mtimes |-> st.mtimes, dirty |-> TRUE]
  <2>1. AdvanceOffset(st, s, n) = ad BY <1>1 DEF AdvanceOffset, IsStore
  <2>2. ad.offsets \in [Sessions -> Nat] BY DEF IsStore
  <2>3. IsStore(ad) BY <2>2 DEF IsStore
  <2>4. \A t \in Sessions : ad.offsets[t] = IF t = s THEN n ELSE st.offsets[t] BY DEF IsStore
  <2> QED BY <1>1, <2>1, <2>3, <2>4
<1>2. CASE ~(n > st.offsets[s]) BY <1>2 DEF AdvanceOffset
<1> QED BY <1>1, <1>2

LEMMA StoreUpdated ==
    ASSUME NEW st, NEW s \in Sessions, NEW n \in Nat, IsStore(st)
    PROVE  /\ IsStore(UpdateMtime(st, s, n))
           /\ UpdateMtime(st, s, n).entries = st.entries
           /\ UpdateMtime(st, s, n).offsets = st.offsets
           /\ \A t \in Sessions : UpdateMtime(st, s, n).mtimes[t] =
                  IF t = s /\ n > st.mtimes[s] THEN n ELSE st.mtimes[t]
<1>1. CASE n > st.mtimes[s]
  <2> DEFINE up == [entries |-> st.entries, cursors |-> st.cursors, offsets |-> st.offsets,
                    mtimes |-> [st.mtimes EXCEPT ![s] = n], dirty |-> TRUE]
  <2>1. UpdateMtime(st, s, n) = up BY <1>1 DEF UpdateMtime, IsStore
  <2>2. up.mtimes \in [Sessions -> Nat] BY DEF IsStore
  <2>3. IsStore(up) BY <2>2 DEF IsStore
  <2>4. \A t \in Sessions : up.mtimes[t] = IF t = s THEN n ELSE st.mtimes[t] BY DEF IsStore
  <2> QED BY <1>1, <2>1, <2>3, <2>4
<1>2. CASE ~(n > st.mtimes[s]) BY <1>2 DEF UpdateMtime
<1> QED BY <1>1, <1>2

LEMMA StoreOpened ==
    ASSUME NEW saved \in Disks
    PROVE  /\ IsStore(Open(saved)) /\ Open(saved).entries = <<>>
           /\ Open(saved).offsets = saved.offsets /\ Open(saved).mtimes = saved.mtimes
<1>1. DOMAIN <<>> = {} /\ <<>> = [c \in {} |-> 0] OBVIOUS
<1>2. Open(saved) = [entries |-> <<>>, cursors |-> <<>>, offsets |-> saved.offsets,
                     mtimes |-> saved.mtimes, dirty |-> FALSE]
  BY DEF Open
<1>3. saved.offsets \in [Sessions -> Nat] /\ saved.mtimes \in [Sessions -> Nat] BY DEF Disks
<1>4. IsStore(Open(saved)) BY <1>1, <1>2, <1>3, EmptyIsSeq DEF IsStore
<1> QED BY <1>2, <1>4

\* A pull hands over everything and leaves nothing.
LEMMA StorePulled ==
    ASSUME NEW st, IsStore(st)
    PROVE  /\ Pulled(st, "framework") = st.entries
           /\ IsStore(AfterPull(st, "framework")) /\ AfterPull(st, "framework").entries = <<>>
           /\ AfterPull(st, "framework").offsets = st.offsets
           /\ AfterPull(st, "framework").mtimes = st.mtimes
<1> DEFINE q == st.entries
           n == Len(q)
<1>1. /\ q \in Seq(Range(q)) /\ n \in Nat BY DEF IsStore, IsSeq
<1>2. CursorOf(st, "framework") = 0 BY DEF CursorOf, IsStore
<1>3. SubSeq(q, 1, n) = q BY <1>1
<1>4. Pulled(st, "framework") = q
  <2>1. Pulled(st, "framework") = SubSeq(q, 0 + 1, n) BY <1>2 DEF Pulled
  <2> QED BY <1>3, <2>1
<1>5. CASE q = <<>>
  <2>1. AfterPull(st, "framework") = st BY <1>4, <1>5 DEF AfterPull
  <2> QED BY <1>4, <1>5, <2>1
<1>6. CASE q # <<>>
  <2> DEFINE moved == Moved(st, "framework")
             after == [entries |-> <<>>, cursors |-> [c \in {"framework"} |-> 0],
                       offsets |-> st.offsets, mtimes |-> st.mtimes, dirty |-> st.dirty]
  <2>1. moved = [c \in {"framework"} |-> n]
    <3>1. DOMAIN st.cursors \cup {"framework"} = {"framework"} BY DEF IsStore
    <3> QED BY <3>1 DEF Moved
  <2>2. DOMAIN moved = {"framework"} /\ moved["framework"] = n BY <2>1
  <2>3. {moved[d] : d \in DOMAIN moved} = {n} BY <2>2
  <2>4. Min({moved[d] : d \in DOMAIN moved}) = n
    <3>1. n \in Int BY <1>1
    <3>2. Min({n}) = n BY <3>1, MinOfOne
    <3> QED BY <2>3, <3>2, Zenon
  <2>5. SubSeq(q, n + 1, n) = <<>> BY <1>1
  <2>6. [d \in DOMAIN moved |-> moved[d] - n] = [c \in {"framework"} |-> 0]
    <3>1. n - n = 0 BY <1>1
    <3> QED BY <2>1, <3>1
  <2>7. AfterPull(st, "framework") =
            [st EXCEPT !.entries = SubSeq(q, n + 1, Len(q)),
                       !.cursors = [d \in DOMAIN moved |-> moved[d] - n]]
    BY <1>4, <1>6, <2>4 DEF AfterPull
  <2>8. AfterPull(st, "framework") =
            [st EXCEPT !.entries = <<>>, !.cursors = [c \in {"framework"} |-> 0]]
    BY <2>5, <2>6, <2>7
  <2>9. AfterPull(st, "framework") = after BY <2>8 DEF IsStore
  <2>10. IsStore(after) BY EmptyIsSeq DEF IsStore
  <2> QED BY <1>4, <2>9, <2>10
<1> QED BY <1>5, <1>6

LEMMA StoreFlushed ==
    ASSUME NEW st, NEW saved \in Disks, IsStore(st)
    PROVE  /\ Flushed(st, saved) \in Disks /\ FlushCut(st, saved) \in Disks
           /\ FlushCut(st, saved).offsets = st.offsets /\ FlushCut(st, saved).mtimes = saved.mtimes
           /\ Flushed(st, saved).offsets \in {st.offsets, saved.offsets}
           /\ Flushed(st, saved).mtimes \in {st.mtimes, saved.mtimes}
           /\ IsStore([st EXCEPT !.dirty = FALSE])
           /\ [st EXCEPT !.dirty = FALSE].entries = st.entries
           /\ [st EXCEPT !.dirty = FALSE].offsets = st.offsets
           /\ [st EXCEPT !.dirty = FALSE].mtimes = st.mtimes
<1>1. /\ st.offsets \in [Sessions -> Nat] /\ st.mtimes \in [Sessions -> Nat]
      /\ saved.offsets \in [Sessions -> Nat] /\ saved.mtimes \in [Sessions -> Nat]
  BY DEF IsStore, Disks
<1>2. FlushCut(st, saved) = [offsets |-> st.offsets, mtimes |-> saved.mtimes]
  BY DEF FlushCut, SaveOffsets, Disks
<1>3. FlushCut(st, saved) \in Disks BY <1>1, <1>2 DEF Disks
<1>4. SaveMtimes(st, FlushCut(st, saved)) = [offsets |-> st.offsets, mtimes |-> st.mtimes]
  BY <1>2 DEF SaveMtimes
<1>5. Flushed(st, saved) \in {saved, [offsets |-> st.offsets, mtimes |-> st.mtimes]}
  BY <1>4 DEF Flushed, FlushCut
<1>6. Flushed(st, saved) \in Disks BY <1>1, <1>5 DEF Disks
<1>7. [st EXCEPT !.dirty = FALSE] = [entries |-> st.entries, cursors |-> st.cursors,
            offsets |-> st.offsets, mtimes |-> st.mtimes, dirty |-> FALSE]
  <2>1. ASSUME NEW d
        PROVE  [st EXCEPT !.dirty = d] = [entries |-> st.entries, cursors |-> st.cursors,
                   offsets |-> st.offsets, mtimes |-> st.mtimes, dirty |-> d]
    BY DEF IsStore
  <2> QED BY <2>1, Zenon
<1>8. IsStore([st EXCEPT !.dirty = FALSE]) BY <1>7 DEF IsStore
<1> QED BY <1>2, <1>3, <1>5, <1>6, <1>7, <1>8

-----------------------------------------------------------------------------
(* The reading of a transcript *)

ReadStates == [lines : Nat, cumulative : Nat, atModel : Nat]

\* StatesFrom is what its recursion says it is.
LEMMA StatesStep ==
    ASSUME NEW s, NEW state, NEW to \in Nat, state.lines \in Nat, state.lines <= to
    PROVE  /\ StatesFrom(s, state, to)[0] = state
           /\ \A k \in 0 .. to - state.lines - 1 :
                  StatesFrom(s, state, to)[k + 1] =
                      AfterLine(Line[s][state.lines + (k + 1)], StatesFrom(s, state, to)[k])
<1> DEFINE n == to - state.lines
           next(i, st) == AfterLine(Line[s][state.lines + i], st)
           Rec(f, k) == f = [i \in 0 .. k |-> IF i = 0 THEN state ELSE next(i, f[i - 1])]
           at == CHOOSE f : Rec(f, n)
<1> HIDE DEF next
<1>1. n \in Nat OBVIOUS
<1> HIDE DEF n
<1>2. \E f : Rec(f, n)
  <2> DEFINE K == {k \in Nat : \E f : Rec(f, k)}
  <2>1. 0 \in K
    <3>1. Rec([i \in 0 .. 0 |-> state], 0) OBVIOUS
    <3> HIDE DEF Rec
    <3>2. \E f : Rec(f, 0) BY <3>1
    <3> QED BY <3>2
  <2>2. ASSUME NEW k \in Nat, k \in K PROVE k + 1 \in K
    <3>1. PICK f : Rec(f, k) BY <2>2
    <3> DEFINE g == [i \in 0 .. k + 1 |-> IF i <= k THEN f[i] ELSE next(k + 1, f[k])]
               h == [i \in 0 .. k + 1 |-> IF i = 0 THEN state ELSE next(i, g[i - 1])]
    <3>2. ASSUME NEW i \in 0 .. k + 1 PROVE g[i] = h[i]
      <4>1. CASE i = 0 BY <3>1, <4>1
      <4>2. CASE i # 0 /\ i <= k
        <5>1. i \in 0 .. k /\ i - 1 \in 0 .. k + 1 /\ i - 1 <= k BY <4>2
        <5>2. g[i] = f[i] /\ g[i - 1] = f[i - 1] BY <4>2, <5>1
        <5>3. f[i] = next(i, f[i - 1]) BY <3>1, <4>2, <5>1
        <5> QED BY <4>2, <5>2, <5>3
      <4>3. CASE i = k + 1
        <5>1. i # 0 /\ ~(i <= k) /\ i - 1 = k /\ k \in 0 .. k + 1 /\ k <= k BY <4>3
        <5>2. g[k] = f[k] BY <5>1
        <5> QED BY <4>3, <5>1, <5>2
      <4> QED BY <4>1, <4>2, <4>3
    <3>3. g = h BY <3>2
    <3> HIDE DEF g
    <3>4. Rec(g, k + 1) BY <3>3
    <3> HIDE DEF Rec
    <3>5. \E e : Rec(e, k + 1) BY <3>4
    <3> QED BY <3>5
  <2> HIDE DEF K
  <2>3. n \in K BY <1>1, <2>1, <2>2, SetInduction
  <2> QED BY <2>3 DEF K
<1>3. Rec(at, n) BY <1>2
<1>4. StatesFrom(s, state, to) = at BY DEF StatesFrom, n, next
<1> HIDE DEF at
<1>5. at[0] = state BY <1>1, <1>3
<1>6. ASSUME NEW k \in 0 .. n - 1 PROVE at[k + 1] = next(k + 1, at[k])
  <2>1. k + 1 \in 0 .. n /\ k + 1 # 0 /\ (k + 1) - 1 = k BY <1>1
  <2> QED BY <1>3, <2>1
<1> QED BY <1>4, <1>5, <1>6 DEF n, next

\* A state counts its lines, and the last model has not seen more than there was.
SoundState(st) == st \in ReadStates /\ st.atModel <= st.cumulative

LEMMA StatesSound ==
    ASSUME NEW s \in Sessions, NEW state, SoundState(state),
           NEW to \in Nat, state.lines <= to, to <= MaxMtime
    PROVE  \A k \in 0 .. to - state.lines :
               /\ SoundState(StatesFrom(s, state, to)[k])
               /\ StatesFrom(s, state, to)[k].lines = state.lines + k
<1> DEFINE at == StatesFrom(s, state, to)
           n == to - state.lines
           K == {k \in Nat : SoundState(at[k]) /\ at[k].lines = state.lines + k}
<1>1. state.lines \in Nat /\ n \in Nat BY DEF SoundState, ReadStates
<1>2. /\ at[0] = state
      /\ \A k \in 0 .. n - 1 : at[k + 1] = AfterLine(Line[s][state.lines + (k + 1)], at[k])
  BY <1>1, StatesStep
<1> HIDE DEF at, n
<1>3. 0 \in K BY <1>1, <1>2
<1>4. ASSUME NEW k \in 0 .. n - 1, k \in K PROVE k + 1 \in K
  <2> DEFINE line == Line[s][state.lines + (k + 1)]
             st == at[k]
  <2>1. k \in Nat /\ SoundState(st) /\ st.lines = state.lines + k BY <1>4
  <2>2. line.size \in Nat
    <3>1. state.lines + (k + 1) \in 1 .. MaxMtime BY <1>1, IngestAssumption DEF n
    <3> QED BY <3>1, IngestAssumption
  <2>3. at[k + 1] = AfterLine(line, st) BY <1>2, Zenon
  <2> HIDE DEF line, st
  <2>4. at[k + 1] = [lines |-> st.lines + 1, cumulative |-> st.cumulative + line.size,
                     atModel |-> IF line.kind = "other" THEN st.atModel ELSE st.cumulative + line.size]
    BY <2>3 DEF AfterLine
  <2>5. st.lines \in Nat /\ st.cumulative \in Nat /\ st.atModel \in Nat /\ st.atModel <= st.cumulative
    BY <2>1 DEF SoundState, ReadStates
  <2>6. st.lines + 1 \in Nat /\ st.cumulative + line.size \in Nat
        /\ st.cumulative <= st.cumulative + line.size
    BY <2>2, <2>5
  <2>7. SoundState(at[k + 1]) BY <2>4, <2>5, <2>6 DEF SoundState, ReadStates
  <2>8. at[k + 1].lines = state.lines + (k + 1)
    <3>1. at[k + 1].lines = st.lines + 1 BY <2>4
    <3>2. st.lines + 1 = state.lines + (k + 1) BY <1>1, <2>1
    <3> QED BY <3>1, <3>2
  <2> QED BY <2>1, <2>7, <2>8
<1> HIDE DEF K
<1>5. 0 .. n \subseteq K BY <1>1, <1>3, <1>4, BoundedInduction
<1> QED BY <1>5 DEF K, n, at

\* Reading further on changes nothing of what was read, and reading from a state that
\* was reached before goes on as if it had never stopped.
LEMMA StatesResumed ==
    ASSUME NEW s, NEW m \in Nat, NEW to \in Nat, m <= to,
           NEW state, state = StatesFrom(s, NothingRead, m)[m], state.lines = m
    PROVE  /\ \A k \in 0 .. m : StatesFrom(s, NothingRead, m)[k] = StatesFrom(s, NothingRead, to)[k]
           /\ \A k \in 0 .. to - m : StatesFrom(s, state, to)[k] = StatesFrom(s, NothingRead, to)[m + k]
<1> DEFINE short == StatesFrom(s, NothingRead, m)
           long == StatesFrom(s, NothingRead, to)
           on == StatesFrom(s, state, to)
<1>1. NothingRead.lines = 0 BY DEF NothingRead
<1>2. /\ short[0] = NothingRead
      /\ \A k \in 0 .. m - 1 : short[k + 1] = AfterLine(Line[s][k + 1], short[k])
  <2>1. /\ short[0] = NothingRead
        /\ \A k \in 0 .. m - 0 - 1 : short[k + 1] = AfterLine(Line[s][0 + (k + 1)], short[k])
    BY <1>1, StatesStep
  <2> HIDE DEF short
  <2>2. ASSUME NEW k \in 0 .. m - 1 PROVE k \in 0 .. m - 0 - 1 /\ 0 + (k + 1) = k + 1 OBVIOUS
  <2> QED BY <2>1, <2>2
<1>3. /\ long[0] = NothingRead
      /\ \A k \in 0 .. to - 1 : long[k + 1] = AfterLine(Line[s][k + 1], long[k])
  <2>1. /\ long[0] = NothingRead
        /\ \A k \in 0 .. to - 0 - 1 : long[k + 1] = AfterLine(Line[s][0 + (k + 1)], long[k])
    BY <1>1, StatesStep
  <2> HIDE DEF long
  <2>2. ASSUME NEW k \in 0 .. to - 1 PROVE k \in 0 .. to - 0 - 1 /\ 0 + (k + 1) = k + 1 OBVIOUS
  <2> QED BY <2>1, <2>2
<1>4. /\ on[0] = state
      /\ \A k \in 0 .. to - m - 1 : on[k + 1] = AfterLine(Line[s][m + (k + 1)], on[k])
  BY StatesStep
<1>5. state = short[m] OBVIOUS
<1> HIDE DEF short, long, on
<1>6. \A k \in 0 .. m : short[k] = long[k]
  <2> DEFINE K == {k \in Nat : short[k] = long[k]}
  <2>1. 0 \in K BY <1>2, <1>3
  <2>2. ASSUME NEW k \in 0 .. m - 1, k \in K PROVE k + 1 \in K
    <3>1. k \in 0 .. to - 1 /\ k + 1 \in Nat OBVIOUS
    <3> QED BY <1>2, <1>3, <2>2, <3>1
  <2> HIDE DEF K
  <2>3. 0 .. m \subseteq K BY <2>1, <2>2, BoundedInduction
  <2> QED BY <2>3 DEF K
<1>7. \A k \in 0 .. to - m : on[k] = long[m + k]
  <2> DEFINE K == {k \in Nat : on[k] = long[m + k]}
  <2>1. 0 \in K
    <3>1. on[0] = long[m] BY <1>4, <1>5, <1>6
    <3>2. m + 0 = m OBVIOUS
    <3> QED BY <3>1, <3>2
  <2>2. ASSUME NEW k \in 0 .. to - m - 1, k \in K PROVE k + 1 \in K
    <3>1. m + k \in 0 .. to - 1 /\ k + 1 \in Nat /\ m + (k + 1) = (m + k) + 1 OBVIOUS
    <3>2. on[k] = long[m + k] BY <2>2
    <3>3. on[k + 1] = AfterLine(Line[s][m + (k + 1)], on[k]) BY <1>4
    <3>4. long[(m + k) + 1] = AfterLine(Line[s][(m + k) + 1], long[m + k]) BY <1>3, <3>1
    <3>5. on[k + 1] = long[m + (k + 1)] BY <3>1, <3>2, <3>3, <3>4
    <3> QED BY <3>1, <3>5
  <2> HIDE DEF K
  <2>3. to - m \in Nat OBVIOUS
  <2>4. 0 .. to - m \subseteq K BY <2>1, <2>2, <2>3, BoundedInduction
  <2> QED BY <2>4 DEF K
<1> QED BY <1>6, <1>7 DEF short, long, on

\* The calls of a transcript up to a line, each with what it is estimated at.
LEMMA EstimatesRange ==
    ASSUME NEW s, NEW state, NEW to \in Nat, state.lines \in Nat, state.lines <= to
    PROVE  /\ IsSeq(EstimatesFrom(s, state, to))
           /\ \A r : r \in Range(EstimatesFrom(s, state, to)) <=>
                  \E c \in state.lines + 1 .. to :
                      /\ Line[s][c].kind # "other"
                      /\ r = Estimated(s, c, UsageOf(Line[s][c],
                                 StatesFrom(s, state, to)[c - state.lines - 1]))
<1> DEFINE at == StatesFrom(s, state, to)
           some == {c \in state.lines + 1 .. to : Line[s][c].kind # "other"}
           calls == InOrder(some, to)
           est(c) == Estimated(s, c, UsageOf(Line[s][c], at[c - state.lines - 1]))
           q == [n \in 1 .. Len(calls) |-> est(calls[n])]
<1>1. EstimatesFrom(s, state, to) = q BY DEF EstimatesFrom
<1> HIDE DEF at
<1>2. IsSeq(calls) /\ Range(calls) = some
  <2>1. IsSeq(calls) /\ Range(calls) = some \cap (1 .. to) BY InOrderRange
  <2>2. some \subseteq 1 .. to OBVIOUS
  <2> HIDE DEF some, calls
  <2> QED BY <2>1, <2>2
<1> HIDE DEF some, calls, est
<1>3. Len(calls) \in Nat /\ DOMAIN calls = 1 .. Len(calls) BY <1>2 DEF IsSeq
<1>4. IsSeq(q)
  <2> DEFINE S == {est(calls[n]) : n \in 1 .. Len(calls)}
  <2>1. q \in [1 .. Len(calls) -> S] OBVIOUS
  <2>2. q \in Seq(S) BY <1>3, <2>1
  <2> QED BY <2>2, SeqIsSeq
<1>5. ASSUME NEW r PROVE r \in Range(q) <=> \E c \in some : r = est(c)
  <2>1. r \in Range(q) <=> \E n \in 1 .. Len(calls) : r = est(calls[n]) BY DEF Range
  <2>2. \A c : c \in some <=> \E n \in 1 .. Len(calls) : c = calls[n]
    BY <1>2, <1>3 DEF Range
  <2> QED BY <2>1, <2>2
<1> HIDE DEF q
<1>6. ASSUME NEW r
      PROVE r \in Range(q) <=> \E c \in state.lines + 1 .. to : Line[s][c].kind # "other" /\ r = est(c)
  BY <1>5 DEF some
<1> QED BY <1>1, <1>4, <1>6 DEF est, at

-----------------------------------------------------------------------------
(* Types *)

Rounds ==
    [at : {"sleep", "pick", "rpc", "advance", "mark", "transcripts", "estimates"},
     todo : SUBSET Sessions, listed : [Sessions -> Nat], covered : SUBSET Sessions,
     cur : SUBSET Sessions, start : Nat, stored : Nat, next : Nat, fetched : BOOLEAN]

SessTypes ==
    /\ sess \in [Sessions -> Seq(Nat)] /\ mtime \in [Sessions -> 0 .. MaxMtime]
    /\ \A s \in Sessions : Len(sess[s]) <= mtime[s]
    /\ \A s \in Sessions : \A i \in 1 .. Len(sess[s]) : sess[s][i] \in 1 .. mtime[s]

\* The marks are behind the sessions, and those on disk behind those in memory.
StoreTypes ==
    /\ IsStore(store) /\ disk \in Disks
    /\ \A s \in Sessions : /\ store.offsets[s] <= Len(sess[s]) /\ store.mtimes[s] <= mtime[s]
                           /\ disk.offsets[s] <= store.offsets[s]
                           /\ disk.mtimes[s] <= store.mtimes[s]

RoundTypes ==
    /\ round \in Rounds
    /\ \A s \in Sessions : round.listed[s] <= mtime[s]
    /\ round.at \in {"rpc", "advance", "mark"} => round.cur # {}
    /\ round.at = "advance" => \A s \in Sessions : round.cur = {s} => round.next <= Len(sess[s])

ReadTypes ==
    /\ toff \in [Sessions -> ReadStates] /\ IsSeq(parsed)
    /\ \A s \in Sessions : SoundState(toff[s]) /\ toff[s].lines <= Len(sess[s])

TaskTypes ==
    /\ kind \in Kinds
    /\ rebuild \in {"none", "store", "transcripts", "broadcast"}
    /\ rebuild \in {"store", "transcripts"} => Streams
    /\ stamps \in Seq(Nat) /\ shown \in 0 .. Len(stamps) /\ now \in Nat \ {0}
    /\ last = Never \/ last \in 1 .. now
    /\ task \in {"idle", "send"} /\ IsSeq(batch) /\ (batch # <<>> => task = "send")
    /\ IsSeq(chan) /\ Len(chan) <= ChanCap /\ \A b \in Range(chan) : IsSeq(b)

Types == SessTypes /\ StoreTypes /\ RoundTypes /\ ReadTypes /\ TaskTypes

\* What a step does to the sessions: nothing, or something is added at a later time.
SessGrow ==
    \A s \in Sessions :
        /\ mtime[s] <= mtime'[s] /\ Len(sess[s]) <= Len(sess'[s])
        /\ \A i \in 1 .. Len(sess[s]) : sess'[s][i] = sess[s][i]
        /\ \A i \in 1 .. Len(sess'[s]) : i > Len(sess[s]) => sess'[s][i] > mtime[s]

LEMMA SameSess ==
    ASSUME SessTypes, UNCHANGED <<sess, mtime>>
    PROVE  SessTypes' /\ SessGrow
<1>1. SessTypes' BY DEF SessTypes
<1>2. SessGrow
  <2>1. \A s \in Sessions : mtime[s] \in Nat /\ Len(sess[s]) \in Nat
    BY IngestAssumption DEF SessTypes
  <2> QED BY <2>1 DEF SessGrow
<1> QED BY <1>1, <1>2

LEMMA WorkSess ==
    ASSUME SessTypes, NEW s \in Sessions, Work(s)
    PROVE  SessTypes' /\ SessGrow
<1>1. /\ mtime[s] < MaxMtime /\ mtime' = [mtime EXCEPT ![s] = @ + 1]
      /\ sess' = [sess EXCEPT ![s] = Append(@, mtime'[s])] \/ sess' = sess
  BY DEF Work
<1>2. mtime \in [Sessions -> 0 .. MaxMtime] /\ sess \in [Sessions -> Seq(Nat)] /\ MaxMtime \in Nat
  BY IngestAssumption DEF SessTypes
<1>3. mtime[s] \in Nat /\ mtime'[s] = mtime[s] + 1 /\ mtime'[s] \in 0 .. MaxMtime
      /\ \A t \in Sessions : t # s => mtime'[t] = mtime[t]
  BY <1>1, <1>2
<1>4. mtime' \in [Sessions -> 0 .. MaxMtime] BY <1>1, <1>2, <1>3
<1>5. \A t \in Sessions : /\ mtime[t] \in Nat /\ mtime'[t] \in Nat /\ mtime[t] <= mtime'[t]
                        /\ sess[t] \in Seq(Nat) /\ Len(sess[t]) \in Nat /\ Len(sess[t]) <= mtime[t]
                        /\ \A i \in 1 .. Len(sess[t]) : sess[t][i] \in 1 .. mtime[t]
  <2> TAKE t \in Sessions
  <2>1. mtime[t] \in Nat /\ mtime'[t] \in Nat BY <1>2, <1>4
  <2>2. mtime[t] <= mtime'[t]
    <3>1. CASE t = s BY <1>3, <3>1
    <3>2. CASE t # s BY <1>3, <2>1, <3>2
    <3> QED BY <3>1, <3>2
  <2>3. sess[t] \in Seq(Nat) /\ Len(sess[t]) \in Nat BY <1>2
  <2>4. Len(sess[t]) <= mtime[t] /\ \A i \in 1 .. Len(sess[t]) : sess[t][i] \in 1 .. mtime[t]
    BY DEF SessTypes
  <2> QED BY <2>1, <2>2, <2>3, <2>4
<1>6. CASE sess' = sess
  <2>1. SessTypes' BY <1>2, <1>4, <1>5, <1>6 DEF SessTypes
  <2>2. SessGrow BY <1>5, <1>6 DEF SessGrow
  <2> QED BY <2>1, <2>2
<1>7. CASE sess' = [sess EXCEPT ![s] = Append(@, mtime'[s])]
  <2> DEFINE new == Append(sess[s], mtime'[s])
  <2>1. /\ new \in Seq(Nat) /\ Len(new) = Len(sess[s]) + 1 /\ new[Len(sess[s]) + 1] = mtime'[s]
        /\ \A i \in 1 .. Len(sess[s]) : new[i] = sess[s][i]
    BY <1>5
  <2>2. sess'[s] = new /\ \A t \in Sessions : t # s => sess'[t] = sess[t] BY <1>2, <1>7
  <2>3. sess' \in [Sessions -> Seq(Nat)]
    <3>1. sess' = [sess EXCEPT ![s] = new] BY <1>7
    <3> HIDE DEF new
    <3> QED BY <1>2, <2>1, <3>1
  <2> HIDE DEF new
  <2>4. ASSUME NEW t \in Sessions
        PROVE  /\ Len(sess'[t]) <= mtime'[t] /\ Len(sess[t]) <= Len(sess'[t])
               /\ \A i \in 1 .. Len(sess[t]) : sess'[t][i] = sess[t][i]
               /\ \A i \in 1 .. Len(sess'[t]) :
                      /\ sess'[t][i] \in 1 .. mtime'[t]
                      /\ i > Len(sess[t]) => sess'[t][i] > mtime[t]
    <3>1. CASE t = s
      <4>1. ASSUME NEW i \in 1 .. Len(new)
            PROVE  new[i] \in 1 .. mtime'[s] /\ (i > Len(sess[s]) => new[i] > mtime[s])
        <5>1. CASE i <= Len(sess[s])
          <6>1. i \in 1 .. Len(sess[s]) BY <1>5, <2>1, <5>1
          <6>2. new[i] \in 1 .. mtime[s] BY <1>5, <2>1, <6>1
          <6> QED BY <1>3, <1>5, <5>1, <6>1, <6>2
        <5>2. CASE ~(i <= Len(sess[s]))
          <6>1. i = Len(sess[s]) + 1 BY <1>5, <2>1, <5>2
          <6> QED BY <1>3, <1>5, <2>1, <6>1
        <5> QED BY <5>1, <5>2
      <4>2. Len(new) <= mtime'[s] /\ Len(sess[s]) <= Len(new) BY <1>3, <1>5, <2>1
      <4> QED BY <2>1, <2>2, <3>1, <4>1, <4>2
    <3>2. CASE t # s
      <4>1. sess'[t] = sess[t] /\ mtime'[t] = mtime[t] BY <1>3, <2>2, <3>2
      <4> QED BY <1>5, <4>1
    <3> QED BY <3>1, <3>2
  <2>5. SessTypes' BY <1>4, <2>3, <2>4 DEF SessTypes
  <2>6. SessGrow BY <1>5, <2>4 DEF SessGrow
  <2> QED BY <2>5, <2>6
<1> QED BY <1>1, <1>6, <1>7

\* The marks and offsets stay behind sessions that only grow.
LEMMA StoreKept ==
    ASSUME SessTypes, SessTypes', StoreTypes, SessGrow, UNCHANGED <<store, disk>>
    PROVE  StoreTypes'
<1>1. \A s \in Sessions :
          /\ store.offsets[s] \in Nat /\ store.mtimes[s] \in Nat
          /\ Len(sess[s]) \in Nat /\ Len(sess'[s]) \in Nat /\ mtime[s] \in Nat /\ mtime'[s] \in Nat
  BY IngestAssumption DEF SessTypes, StoreTypes, IsStore
<1>2. \A s \in Sessions : store.offsets[s] <= Len(sess'[s]) /\ store.mtimes[s] <= mtime'[s]
  BY <1>1 DEF StoreTypes, SessGrow
<1> QED BY <1>2 DEF StoreTypes

LEMMA RoundKept ==
    ASSUME SessTypes, SessTypes', RoundTypes, SessGrow, UNCHANGED round
    PROVE  RoundTypes'
<1>1. \A s \in Sessions :
          /\ Len(sess[s]) \in Nat /\ Len(sess'[s]) \in Nat /\ mtime[s] \in Nat /\ mtime'[s] \in Nat
          /\ round.listed[s] \in Nat /\ round.next \in Nat
  BY IngestAssumption DEF SessTypes, RoundTypes, Rounds
<1>2. \A s \in Sessions : round.listed[s] <= mtime'[s]
  BY <1>1 DEF RoundTypes, SessGrow
<1>3. round.at = "advance" => \A s \in Sessions : round.cur = {s} => round.next <= Len(sess'[s])
  BY <1>1 DEF RoundTypes, SessGrow
<1> QED BY <1>2, <1>3 DEF RoundTypes

LEMMA ReadKept ==
    ASSUME SessTypes, SessTypes', ReadTypes, SessGrow, UNCHANGED <<toff, parsed>>
    PROVE  ReadTypes'
<1>1. \A s \in Sessions :
          Len(sess[s]) \in Nat /\ Len(sess'[s]) \in Nat /\ toff[s].lines \in Nat
  BY DEF SessTypes, ReadTypes, ReadStates
<1>2. \A s \in Sessions : toff[s].lines <= Len(sess'[s]) BY <1>1 DEF ReadTypes, SessGrow
<1> QED BY <1>2 DEF ReadTypes

IngestTypes == SessTypes /\ StoreTypes /\ RoundTypes /\ ReadTypes

LEMMA WorkTypes ==
    ASSUME IngestTypes, NEW s \in Sessions, Work(s)
    PROVE  IngestTypes' /\ SessGrow
<1>1. SessTypes' /\ SessGrow BY WorkSess DEF IngestTypes
<1>2. UNCHANGED <<store, disk, round, toff, parsed>> BY DEF Work
<1> QED BY <1>1, <1>2, StoreKept, RoundKept, ReadKept DEF IngestTypes

LEMMA RpcFailTypes ==
    ASSUME IngestTypes, NEW s \in Sessions, RpcFail(s)
    PROVE  IngestTypes'
<1>1. SessTypes' /\ SessGrow BY SameSess DEF IngestTypes, RpcFail
<1>2. StoreTypes' /\ ReadTypes' BY <1>1, StoreKept, ReadKept DEF IngestTypes, RpcFail
<1>3. RoundTypes'
  <2>1. round \in Rounds /\ round' = [round EXCEPT !.at = "mark", !.fetched = FALSE]
        /\ round.cur = {s}
    BY DEF IngestTypes, RoundTypes, RpcFail
  <2>2. round' \in Rounds /\ round'.at = "mark" /\ round'.cur = {s} /\ round'.listed = round.listed
    BY <2>1 DEF Rounds
  <2> QED BY <2>2 DEF IngestTypes, RoundTypes, RpcFail
<1> QED BY <1>1, <1>2, <1>3 DEF IngestTypes

LEMMA NoRoundTypes == NoRound \in Rounds /\ NoRound.at = "sleep" /\ NoRound.listed = NoMarks
  BY DEF NoRound, Rounds, NoMarks

LEMMA ListTypes ==
    ASSUME IngestTypes, NEW listed \in SUBSET Sessions, IngestList(listed)
    PROVE  IngestTypes'
<1>1. SessTypes' /\ SessGrow BY SameSess DEF IngestTypes, IngestList
<1>2. StoreTypes' /\ ReadTypes' BY <1>1, StoreKept, ReadKept DEF IngestTypes, IngestList
<1>3. RoundTypes'
  <2> DEFINE l == [s \in Sessions |-> IF s \in listed THEN mtime[s] ELSE 0]
  <2>1. \A s \in Sessions : mtime[s] \in Nat BY IngestAssumption DEF IngestTypes, SessTypes
  <2>2. l \in [Sessions -> Nat] /\ \A s \in Sessions : l[s] <= mtime[s] BY <2>1
  <2>3. round' = [NoRound EXCEPT !.at = "pick", !.todo = listed, !.listed = l] BY DEF IngestList
  <2> HIDE DEF l
  <2>4. round' \in Rounds /\ round'.at = "pick" /\ round'.listed = l
    BY <2>2, <2>3, NoRoundTypes DEF Rounds
  <2>5. mtime' = mtime BY DEF IngestList
  <2> QED BY <2>2, <2>4, <2>5 DEF RoundTypes
<1> QED BY <1>1, <1>2, <1>3 DEF IngestTypes

\* A round at rest, or past the sessions.
LEMMA RestTypes ==
    ASSUME SessTypes', round' \in Rounds, round'.listed = NoMarks,
           round'.at \in {"sleep", "pick", "transcripts", "estimates"}
    PROVE  RoundTypes'
<1>1. \A s \in Sessions : mtime'[s] \in Nat BY IngestAssumption DEF SessTypes
<1>2. \A s \in Sessions : round'.listed[s] = 0 BY DEF NoMarks
<1> QED BY <1>1, <1>2 DEF RoundTypes

LEMMA OfflineTypes ==
    ASSUME IngestTypes, IngestOffline
    PROVE  IngestTypes'
<1>1. SessTypes' /\ SessGrow BY SameSess DEF IngestTypes, IngestOffline
<1>2. StoreTypes' /\ ReadTypes' BY <1>1, StoreKept, ReadKept DEF IngestTypes, IngestOffline
<1>3. round' = [NoRound EXCEPT !.at = "transcripts"] BY DEF IngestOffline
<1>4. round' \in Rounds /\ round'.at = "transcripts" /\ round'.listed = NoMarks
  BY <1>3, NoRoundTypes DEF Rounds
<1>5. RoundTypes' BY <1>1, <1>4, RestTypes
<1> QED BY <1>1, <1>2, <1>5 DEF IngestTypes

LEMMA PickTypes ==
    ASSUME IngestTypes, NEW s \in Sessions, PickSkip(s) \/ PickFetch(s)
    PROVE  IngestTypes'
<1>1. SessTypes' /\ SessGrow BY SameSess DEF IngestTypes, PickSkip, PickFetch
<1>2. StoreTypes' /\ ReadTypes' BY <1>1, StoreKept, ReadKept DEF IngestTypes, PickSkip, PickFetch
<1>3. RoundTypes'
  <2>1. round \in Rounds /\ round.at = "pick" BY DEF IngestTypes, RoundTypes, PickSkip, PickFetch
  <2>2. store.offsets[s] \in Nat /\ store.mtimes[s] \in Nat BY DEF IngestTypes, StoreTypes, IsStore
  <2>3. CASE PickSkip(s)
    <3>1. round' = [round EXCEPT !.todo = round.todo \ {s}, !.covered = round.covered \cup {s}]
      BY <2>3 DEF PickSkip
    <3>2. round' \in Rounds /\ round'.at = "pick" /\ round'.listed = round.listed
      BY <2>1, <3>1 DEF Rounds
    <3> QED BY <2>3, <3>2 DEF IngestTypes, RoundTypes, PickSkip
  <2>4. CASE PickFetch(s)
    <3>1. round' = [round EXCEPT !.at = "rpc", !.cur = {s}, !.todo = round.todo \ {s},
                        !.start = store.offsets[s], !.stored = store.mtimes[s]]
      BY <2>4 DEF PickFetch
    <3>2. round' \in Rounds /\ round'.at = "rpc" /\ round'.listed = round.listed /\ round'.cur = {s}
      BY <2>1, <2>2, <3>1 DEF Rounds
    <3> QED BY <2>4, <3>2 DEF IngestTypes, RoundTypes, PickFetch
  <2> QED BY <2>3, <2>4
<1> QED BY <1>1, <1>2, <1>3 DEF IngestTypes

\* What an answer does: the store gets the calls that name no step and those at or
\* past the offset read before, and the next offset is past every step there is.
LEMMA AnswerEffect ==
    ASSUME SessTypes, StoreTypes, RoundTypes, NEW s \in Sessions, RpcAnswer(s)
    PROVE  /\ IsStore(store') /\ store'.offsets = store.offsets /\ store'.mtimes = store.mtimes
           /\ \A r : r \in Range(store'.entries) <=>
                  \/ r \in Range(store.entries)
                  \/ \E i \in 1 .. Len(sess[s]) :
                        /\ StepIndices(s, i) = {} \/ i > round.start
                        /\ r = Fetched(s, i)
           /\ round' \in Rounds
           /\ round' = [round EXCEPT !.at = round'.at, !.next = round'.next, !.fetched = round'.fetched]
           /\ round'.at = IF round'.next > round.start THEN "advance" ELSE "mark"
           /\ \A i \in 1 .. Len(sess[s]) : StepIndices(s, i) # {} => i <= round'.next
           /\ round'.at = "advance" => round'.next <= Len(sess[s])
<1> DEFINE n == Len(sess[s])
           past(i) == StepIndices(s, i) = {} \/ \E k \in StepIndices(s, i) : k >= round.start
           some == {i \in 1 .. n : past(i)}
           new  == PastStart(s, round.start)
           all  == UNION {StepIndices(s, i) : i \in 1 .. n}
           next == IF all = {} THEN round.start ELSE Max(all) + 1
           got  == [m \in 1 .. Len(new) |-> Fetched(s, new[m])]
<1>1. /\ store' = Appended(store, got)
      /\ round' = [round EXCEPT !.at = IF next > round.start THEN "advance" ELSE "mark",
                       !.next = next, !.fetched = new # <<>>]
  BY Zenon DEF RpcAnswer
<1>2. n \in Nat /\ round \in Rounds /\ round.start \in Nat /\ IsStore(store)
  BY DEF SessTypes, RoundTypes, Rounds, StoreTypes
<1> HIDE DEF n
<1>3. \A i \in 1 .. n : StepIndices(s, i) \subseteq {i - 1} /\ (StepIndices(s, i) # {} => i - 1 \in StepIndices(s, i))
  BY DEF StepIndices
<1>4. IsSeq(new) /\ Range(new) = some
  <2>1. new = InOrder(some, n) BY DEF PastStart, n
  <2>2. IsSeq(InOrder(some, n)) /\ Range(InOrder(some, n)) = some \cap (1 .. n) BY <1>2, InOrderRange
  <2>3. some \subseteq 1 .. n OBVIOUS
  <2> HIDE DEF some, new
  <2> QED BY <2>1, <2>2, <2>3
<1>5. \A i \in 1 .. n : i \in some <=> StepIndices(s, i) = {} \/ i > round.start
  <2> SUFFICES ASSUME NEW i \in 1 .. n
               PROVE  (\E k \in StepIndices(s, i) : k >= round.start) <=>
                          StepIndices(s, i) # {} /\ i > round.start
    OBVIOUS
  <2> QED BY <1>2, <1>3
<1>6. IsSeq(got) /\ \A r : r \in Range(got) <=> \E i \in some : r = Fetched(s, i)
  <2> HIDE DEF some, new
  <2>1. Len(new) \in Nat /\ DOMAIN new = 1 .. Len(new) BY <1>4 DEF IsSeq
  <2>2. IsSeq(got)
    <3>1. got \in [1 .. Len(new) -> {Fetched(s, new[m]) : m \in 1 .. Len(new)}] OBVIOUS
    <3>2. got \in Seq({Fetched(s, new[m]) : m \in 1 .. Len(new)}) BY <2>1, <3>1
    <3> QED BY <3>2, SeqIsSeq
  <2>3. ASSUME NEW r PROVE r \in Range(got) <=> \E i \in some : r = Fetched(s, i)
    <3>1. r \in Range(got) <=> \E m \in 1 .. Len(new) : r = Fetched(s, new[m]) BY DEF Range
    <3>2. \A i : i \in some <=> \E m \in 1 .. Len(new) : i = new[m] BY <1>4, <2>1 DEF Range
    <3> QED BY <3>1, <3>2
  <2> QED BY <2>2, <2>3
<1>7. all \subseteq 0 .. n - 1
  BY <1>2, <1>3
<1>8. next \in Nat /\ (next > round.start => next <= n)
      /\ \A i \in 1 .. n : StepIndices(s, i) # {} => i <= next
  <2>1. CASE all = {}
    <3>1. \A i \in 1 .. n : StepIndices(s, i) = {} BY <2>1
    <3> QED BY <1>2, <2>1, <3>1
  <2>2. CASE all # {}
    <3>1. n - 1 \in Nat BY <1>2, <1>7, <2>2
    <3>2. Max(all) \in all /\ \A y \in all : y <= Max(all) BY <1>7, <2>2, <3>1, MaxOfBounded
    <3>3. \A i \in 1 .. n : StepIndices(s, i) # {} => i - 1 \in all BY <1>3
    <3>4. next = Max(all) + 1 BY <2>2
    <3> HIDE DEF all, next
    <3>5. Max(all) \in 0 .. n - 1 BY <1>7, <3>2
    <3> QED BY <1>2, <3>2, <3>3, <3>4, <3>5
  <2> QED BY <2>1, <2>2
<1> HIDE DEF some, got, next, new
<1>9. /\ IsStore(store') /\ store'.offsets = store.offsets /\ store'.mtimes = store.mtimes
      /\ Range(store'.entries) = Range(store.entries) \cup Range(got)
  BY <1>1, <1>2, <1>6, StoreAppended
<1>10. \A r : r \in Range(store'.entries) <=>
                  \/ r \in Range(store.entries)
                  \/ \E i \in 1 .. n : (StepIndices(s, i) = {} \/ i > round.start) /\ r = Fetched(s, i)
  <2>1. some \subseteq 1 .. n BY DEF some
  <2> QED BY <1>5, <1>6, <1>9, <2>1
<1>11. /\ round' \in Rounds /\ round'.next = next
       /\ round' = [round EXCEPT !.at = round'.at, !.next = round'.next, !.fetched = round'.fetched]
       /\ round'.at = IF next > round.start THEN "advance" ELSE "mark"
  <2> DEFINE a == IF next > round.start THEN "advance" ELSE "mark"
             f == new # <<>>
  <2>1. a \in {"advance", "mark"} /\ f \in BOOLEAN OBVIOUS
  <2>2. round' = [round EXCEPT !.at = a, !.next = next, !.fetched = f] BY <1>1
  <2> HIDE DEF a, f
  <2>3. round' \in Rounds /\ round'.next = next /\ round'.at = a /\ round'.fetched = f
    BY <1>2, <1>8, <2>1, <2>2 DEF Rounds
  <2> QED BY <2>2, <2>3 DEF a
<1> QED BY <1>8, <1>9, <1>10, <1>11 DEF n

LEMMA AnswerTypes ==
    ASSUME IngestTypes, NEW s \in Sessions, RpcAnswer(s)
    PROVE  IngestTypes'
<1>1. SessTypes' /\ SessGrow BY SameSess DEF IngestTypes, RpcAnswer
<1>2. ReadTypes' BY <1>1, ReadKept DEF IngestTypes, RpcAnswer
<1>3. /\ IsStore(store') /\ store'.offsets = store.offsets /\ store'.mtimes = store.mtimes
      /\ round' \in Rounds
      /\ round' = [round EXCEPT !.at = round'.at, !.next = round'.next, !.fetched = round'.fetched]
      /\ round'.at = IF round'.next > round.start THEN "advance" ELSE "mark"
      /\ round'.at = "advance" => round'.next <= Len(sess[s])
  BY AnswerEffect DEF IngestTypes
<1>4. /\ round.cur = {s} /\ disk' = disk /\ sess' = sess /\ mtime' = mtime BY DEF RpcAnswer
<1>5. StoreTypes' BY <1>3, <1>4 DEF IngestTypes, StoreTypes
<1>6. round'.cur = {s} /\ round'.listed = round.listed
  BY <1>3, <1>4 DEF IngestTypes, RoundTypes, Rounds
<1>7. RoundTypes' BY <1>3, <1>4, <1>6 DEF IngestTypes, RoundTypes
<1> QED BY <1>1, <1>2, <1>5, <1>7 DEF IngestTypes

LEMMA AdvanceTypes ==
    ASSUME IngestTypes, NEW s \in Sessions, Advance(s)
    PROVE  IngestTypes'
<1>1. SessTypes' /\ SessGrow BY SameSess DEF IngestTypes, Advance
<1>2. ReadTypes' BY <1>1, ReadKept DEF IngestTypes, Advance
<1>3. /\ round.at = "advance" /\ round.cur = {s} /\ store' = AdvanceOffset(store, s, round.next)
      /\ round' = [round EXCEPT !.at = "mark"] /\ disk' = disk /\ sess' = sess /\ mtime' = mtime
  BY DEF Advance
<1>4. round \in Rounds /\ round.next \in Nat /\ round.next <= Len(sess[s]) /\ IsStore(store)
  BY <1>3 DEF IngestTypes, RoundTypes, Rounds, StoreTypes
<1>5. /\ IsStore(store') /\ store'.mtimes = store.mtimes
      /\ \A t \in Sessions : store'.offsets[t] =
             IF t = s /\ round.next > store.offsets[s] THEN round.next ELSE store.offsets[t]
  BY <1>3, <1>4, StoreAdvanced
<1>6. \A t \in Sessions : store'.offsets[t] <= Len(sess[t]) /\ disk.offsets[t] <= store'.offsets[t]
  <2>1. \A t \in Sessions : /\ disk.offsets[t] \in Nat /\ store.offsets[t] \in Nat
                          /\ disk.offsets[t] <= store.offsets[t] /\ store.offsets[t] <= Len(sess[t])
    BY DEF IngestTypes, StoreTypes, IsStore, Disks
  <2> QED BY <1>4, <1>5, <2>1
<1>7. StoreTypes' BY <1>3, <1>5, <1>6 DEF IngestTypes, StoreTypes
<1>8. round' \in Rounds /\ round'.at = "mark" /\ round'.cur = {s} /\ round'.listed = round.listed
  BY <1>3, <1>4 DEF Rounds
<1>9. RoundTypes' BY <1>3, <1>8 DEF IngestTypes, RoundTypes
<1> QED BY <1>1, <1>2, <1>7, <1>9 DEF IngestTypes

\* The listed time is stored, or nothing is.
LEMMA MarkEffect ==
    ASSUME StoreTypes, RoundTypes, NEW s \in Sessions, Mark(s)
    PROVE  /\ IsStore(store') /\ store'.offsets = store.offsets /\ store'.entries = store.entries
           /\ \A t \in Sessions :
                  \/ store'.mtimes[t] = store.mtimes[t]
                  \/ /\ t = s /\ store'.mtimes[t] = round.listed[t] /\ store.mtimes[t] <= round.listed[t]
                     /\ round.fetched \/ round.listed[s] > round.stored
                     /\ round.listed[s] > 0
           /\ round' = [NoRound EXCEPT !.at = "pick", !.todo = round.todo,
                            !.listed = round.listed, !.covered = round.covered \cup {s}]
           /\ round' \in Rounds /\ round'.at = "pick" /\ round'.listed = round.listed
<1>1. round \in Rounds /\ round.listed[s] \in Nat /\ IsStore(store) /\ store.mtimes[s] \in Nat
  BY DEF RoundTypes, Rounds, StoreTypes, IsStore
<1>2. /\ IsStore(store') /\ store'.offsets = store.offsets /\ store'.entries = store.entries
      /\ \A t \in Sessions :
             \/ store'.mtimes[t] = store.mtimes[t]
             \/ /\ t = s /\ store'.mtimes[t] = round.listed[t] /\ store.mtimes[t] <= round.listed[t]
                /\ round.fetched \/ round.listed[s] > round.stored
                /\ round.listed[s] > 0
  <2>1. CASE (round.fetched \/ round.listed[s] > round.stored) /\ round.listed[s] > 0
    <3>1. store' = UpdateMtime(store, s, round.listed[s]) BY <2>1 DEF Mark
    <3> QED BY <1>1, <2>1, <3>1, StoreUpdated
  <2>2. CASE ~((round.fetched \/ round.listed[s] > round.stored) /\ round.listed[s] > 0)
    BY <1>1, <2>2 DEF Mark
  <2> QED BY <2>1, <2>2
<1>3. round' = [NoRound EXCEPT !.at = "pick", !.todo = round.todo,
                    !.listed = round.listed, !.covered = round.covered \cup {s}]
  BY DEF Mark, NextSession
<1>4. round' \in Rounds /\ round'.at = "pick" /\ round'.listed = round.listed
  BY <1>1, <1>3, NoRoundTypes DEF Rounds
<1> QED BY <1>2, <1>3, <1>4

LEMMA MarkTypes ==
    ASSUME IngestTypes, NEW s \in Sessions, Mark(s)
    PROVE  IngestTypes'
<1>1. SessTypes' /\ SessGrow BY SameSess DEF IngestTypes, Mark
<1>2. ReadTypes' BY <1>1, ReadKept DEF IngestTypes, Mark
<1>3. disk' = disk /\ sess' = sess /\ mtime' = mtime BY DEF Mark
<1>4. /\ IsStore(store') /\ store'.offsets = store.offsets
      /\ \A t \in Sessions :
             \/ store'.mtimes[t] = store.mtimes[t]
             \/ store'.mtimes[t] = round.listed[t] /\ store.mtimes[t] <= round.listed[t]
      /\ round' \in Rounds /\ round'.at = "pick" /\ round'.listed = round.listed
  BY MarkEffect DEF IngestTypes
<1>5. \A t \in Sessions : store'.mtimes[t] <= mtime[t] /\ disk.mtimes[t] <= store'.mtimes[t]
  <2>1. \A t \in Sessions : /\ disk.mtimes[t] \in Nat /\ store.mtimes[t] \in Nat /\ round.listed[t] \in Nat
                          /\ disk.mtimes[t] <= store.mtimes[t] /\ store.mtimes[t] <= mtime[t]
                          /\ round.listed[t] <= mtime[t]
    BY DEF IngestTypes, StoreTypes, IsStore, Disks, RoundTypes, Rounds
  <2> QED BY <1>4, <2>1
<1>6. StoreTypes' BY <1>3, <1>4, <1>5 DEF IngestTypes, StoreTypes
<1>7. RoundTypes' BY <1>3, <1>4 DEF IngestTypes, RoundTypes
<1> QED BY <1>1, <1>2, <1>6, <1>7 DEF IngestTypes

LEMMA FlushTypes ==
    ASSUME IngestTypes, Flush
    PROVE  IngestTypes'
<1>1. SessTypes' /\ SessGrow BY SameSess DEF IngestTypes, Flush
<1>2. ReadTypes' BY <1>1, ReadKept DEF IngestTypes, Flush
<1>3. sess' = sess /\ mtime' = mtime /\ disk' = Flushed(store, disk)
      /\ store' = [store EXCEPT !.dirty = FALSE]
      /\ round' = [NoRound EXCEPT !.at = "transcripts", !.covered = round.covered]
  BY DEF Flush
<1>4. /\ disk' \in Disks /\ IsStore(store')
      /\ store'.offsets = store.offsets /\ store'.mtimes = store.mtimes
      /\ disk'.offsets \in {store.offsets, disk.offsets} /\ disk'.mtimes \in {store.mtimes, disk.mtimes}
  BY <1>3, StoreFlushed DEF IngestTypes, StoreTypes
<1>5. \A s \in Sessions : disk'.offsets[s] <= store.offsets[s] /\ disk'.mtimes[s] <= store.mtimes[s]
  <2>1. \A s \in Sessions : store.offsets[s] \in Nat /\ store.mtimes[s] \in Nat
    BY DEF IngestTypes, StoreTypes, IsStore
  <2> QED BY <1>4, <2>1 DEF IngestTypes, StoreTypes
<1>6. StoreTypes' BY <1>3, <1>4, <1>5 DEF IngestTypes, StoreTypes
<1>7. round.covered \in SUBSET Sessions BY DEF IngestTypes, RoundTypes, Rounds
<1>8. round' \in Rounds /\ round'.at = "transcripts" /\ round'.listed = NoMarks
  BY <1>3, <1>7, NoRoundTypes DEF Rounds
<1>9. RoundTypes' BY <1>1, <1>8, RestTypes
<1> QED BY <1>1, <1>2, <1>6, <1>9 DEF IngestTypes

\* What the transcript pass reads: every session not covered, from where it stopped.
LEMMA ReadEffect ==
    ASSUME SessTypes, ReadTypes, ReadTranscripts
    PROVE  /\ IsSeq(parsed')
           /\ \A r : r \in Range(parsed') <=>
                  \E s \in Sessions \ round.covered : r \in Range(EstimatesFrom(s, toff[s], Len(sess[s])))
           /\ toff' \in [Sessions -> ReadStates]
           /\ \A s \in Sessions :
                  /\ SoundState(toff'[s]) /\ toff'[s].lines <= Len(sess[s])
                  /\ \/ s \in round.covered /\ toff'[s] = toff[s]
                     \/ /\ s \notin round.covered /\ toff'[s].lines = Len(sess[s])
                        /\ toff'[s] = StatesFrom(s, toff[s], Len(sess[s]))[Len(sess[s]) - toff[s].lines]
<1> DEFINE missed == SetToSeq(Sessions \ round.covered)
           read(s) == EstimatesFrom(s, Resumed(s), Len(sess[s]))
           qs == [n \in 1 .. Len(missed) |-> read(missed[n])]
           end(s) == StatesFrom(s, toff[s], Len(sess[s]))[Len(sess[s]) - toff[s].lines]
<1>1. \A s \in Sessions : /\ SoundState(toff[s]) /\ toff[s] \in ReadStates
                        /\ toff[s].lines \in Nat /\ toff[s].lines <= Len(sess[s])
                        /\ Len(sess[s]) \in Nat /\ Len(sess[s]) <= MaxMtime
  <2> TAKE s \in Sessions
  <2>1. Len(sess[s]) \in Nat /\ Len(sess[s]) <= mtime[s] /\ mtime[s] \in 0 .. MaxMtime BY DEF SessTypes
  <2>2. Len(sess[s]) <= MaxMtime BY <2>1, IngestAssumption
  <2> QED BY <2>1, <2>2 DEF ReadTypes, ReadStates
<1>2. \A s \in Sessions : Resumed(s) = toff[s] BY <1>1 DEF Resumed
<1>3. \A s \in Sessions : read(s) = EstimatesFrom(s, toff[s], Len(sess[s])) BY <1>2
<1>4. \A s \in Sessions : IsSeq(read(s)) BY <1>1, <1>3, EstimatesRange
<1>5. /\ missed \in Seq(Sessions \ round.covered) /\ Range(missed) = Sessions \ round.covered
  <2>1. IsFiniteSet(Sessions \ round.covered) BY IngestAssumption, FS_Subset
  <2> QED BY <2>1, RangeOfSetToSeq
<1>6. /\ Len(missed) \in Nat /\ DOMAIN missed = 1 .. Len(missed)
      /\ \A n \in 1 .. Len(missed) : missed[n] \in Sessions
  <2> HIDE DEF missed
  <2> QED BY <1>5
<1>7. parsed' = FlattenSeq(qs) BY DEF ReadTranscripts
<1> HIDE DEF read
<1>8. /\ IsSeq(parsed')
      /\ \A r : r \in Range(parsed') <=> \E n \in 1 .. Len(missed) : r \in Range(qs[n])
  <2> HIDE DEF missed
  <2>1. qs = [i \in 1 .. Len(missed) |-> qs[i]] OBVIOUS
  <2>2. \A i \in 1 .. Len(missed) : IsSeq(qs[i]) BY <1>4, <1>6
  <2> HIDE DEF qs
  <2> QED BY <1>6, <1>7, <2>1, <2>2, FlattenedSeq
<1>9. \A r : r \in Range(parsed') <=>
          \E s \in Sessions \ round.covered : r \in Range(EstimatesFrom(s, toff[s], Len(sess[s])))
  <2> HIDE DEF missed
  <2>1. \A s : s \in Sessions \ round.covered <=> \E n \in 1 .. Len(missed) : s = missed[n]
    BY <1>5, <1>6 DEF Range
  <2> TAKE r
  <2>2. r \in Range(parsed') <=> \E n \in 1 .. Len(missed) : r \in Range(read(missed[n])) BY <1>8
  <2>3. r \in Range(parsed') <=> \E s \in Sessions \ round.covered : r \in Range(read(s))
    BY <2>1, <2>2
  <2> QED BY <1>3, <2>3
<1>10. \A s \in Sessions : SoundState(end(s)) /\ end(s).lines = Len(sess[s])
  <2> TAKE s \in Sessions
  <2> DEFINE k == Len(sess[s]) - toff[s].lines
             to == Len(sess[s])
             state == toff[s]
  <2>1. k \in 0 .. to - state.lines /\ state.lines + k = to /\ state.lines \in Nat
        /\ SoundState(state) /\ to \in Nat /\ state.lines <= to /\ to <= MaxMtime
    BY <1>1
  <2> HIDE DEF k, to, state
  <2>2. SoundState(StatesFrom(s, state, to)[k]) /\ StatesFrom(s, state, to)[k].lines = state.lines + k
    BY <2>1, StatesSound
  <2>3. end(s) = StatesFrom(s, state, to)[k] BY DEF k, to, state
  <2> QED BY <2>1, <2>2, <2>3 DEF to
<1>11. toff' = [s \in Sessions |-> IF s \in round.covered THEN toff[s] ELSE end(s)]
  <2>1. toff' = [s \in Sessions |-> IF s \in round.covered THEN toff[s]
                  ELSE StatesFrom(s, Resumed(s), Len(sess[s]))[Len(sess[s]) - Resumed(s).lines]]
    BY DEF ReadTranscripts
  <2> QED BY <1>2, <2>1
<1> HIDE DEF end
<1>12. toff' \in [Sessions -> ReadStates] BY <1>1, <1>10, <1>11 DEF SoundState
<1>13. \A s \in Sessions :
          /\ SoundState(toff'[s]) /\ toff'[s].lines <= Len(sess[s])
          /\ \/ s \in round.covered /\ toff'[s] = toff[s]
             \/ s \notin round.covered /\ toff'[s].lines = Len(sess[s]) /\ toff'[s] = end(s)
  <2> TAKE s \in Sessions
  <2>1. CASE s \in round.covered BY <1>1, <1>11, <2>1
  <2>2. CASE s \notin round.covered
    <3>1. toff'[s] = end(s) BY <1>11, <2>2
    <3> QED BY <1>1, <1>10, <2>2, <3>1
  <2> QED BY <2>1, <2>2
<1> QED BY <1>8, <1>9, <1>12, <1>13 DEF end

LEMMA TranscriptTypes ==
    ASSUME IngestTypes, ReadTranscripts \/ AppendEstimates \/ SkipTranscripts
    PROVE  IngestTypes'
<1>1. SessTypes' /\ SessGrow
  BY SameSess DEF IngestTypes, ReadTranscripts, AppendEstimates, SkipTranscripts
<1>2. CASE ReadTranscripts
  <2>1. StoreTypes' BY <1>1, <1>2, StoreKept DEF IngestTypes, ReadTranscripts
  <2>2. round' \in Rounds /\ round'.at = "estimates" /\ round'.listed = NoMarks
    <3>1. round' = [NoRound EXCEPT !.at = "estimates"] BY <1>2 DEF ReadTranscripts
    <3> QED BY <3>1, NoRoundTypes DEF Rounds
  <2>3. RoundTypes' BY <1>1, <2>2, RestTypes
  <2>4. sess' = sess BY <1>2 DEF ReadTranscripts
  <2>5. ReadTypes' BY <1>2, <2>4, ReadEffect DEF IngestTypes, ReadTypes
  <2> QED BY <1>1, <2>1, <2>3, <2>5 DEF IngestTypes
<1>3. CASE AppendEstimates
  <2>1. /\ store' = Appended(store, parsed) /\ parsed' = <<>> /\ round' = NoRound
        /\ sess' = sess /\ mtime' = mtime /\ disk' = disk /\ toff' = toff
    BY <1>3 DEF AppendEstimates
  <2>2. IsStore(store') /\ store'.offsets = store.offsets /\ store'.mtimes = store.mtimes
    BY <2>1, StoreAppended DEF IngestTypes, StoreTypes, ReadTypes
  <2>3. StoreTypes' BY <2>1, <2>2 DEF IngestTypes, StoreTypes
  <2>4. RoundTypes' BY <1>1, <2>1, RestTypes, NoRoundTypes
  <2>5. ReadTypes' BY <2>1, EmptyIsSeq DEF IngestTypes, ReadTypes
  <2> QED BY <1>1, <2>3, <2>4, <2>5 DEF IngestTypes
<1>4. CASE SkipTranscripts
  <2>1. StoreTypes' /\ ReadTypes' BY <1>1, <1>4, StoreKept, ReadKept DEF IngestTypes, SkipTranscripts
  <2>2. RoundTypes'
    <3>1. round' = NoRound BY <1>4 DEF SkipTranscripts
    <3> QED BY <1>1, <3>1, RestTypes, NoRoundTypes
  <2> QED BY <1>1, <2>1, <2>2 DEF IngestTypes
<1> QED BY <1>2, <1>3, <1>4

LEMMA IngestStepTypes ==
    ASSUME IngestTypes, IngestStep
    PROVE  IngestTypes'
<1>1. ASSUME NEW s \in Sessions, Work(s) PROVE IngestTypes' BY <1>1, WorkTypes
<1>2. ASSUME NEW s \in Sessions, RpcFail(s) PROVE IngestTypes' BY <1>2, RpcFailTypes
<1>3. CASE ListSome BY <1>3, ListTypes DEF ListSome
<1>4. CASE IngestOffline BY <1>4, OfflineTypes
<1>5. CASE FetchStep BY <1>5, PickTypes, AnswerTypes, AdvanceTypes, MarkTypes DEF FetchStep
<1>6. CASE Flush BY <1>6, FlushTypes
<1>7. CASE TranscriptStep BY <1>7, TranscriptTypes DEF TranscriptStep
<1> QED BY <1>1, <1>2, <1>3, <1>4, <1>5, <1>6, <1>7 DEF IngestStep

\* A collection finds finitely many records.
LEMMA FileLogsFinite ==
    ASSUME NEW since, stamps \in Seq(Nat), shown \in 0 .. Len(stamps)
    PROVE  IsFiniteSet(FileLogs(since))
<1> DEFINE file == SubSeq(stamps, 1, shown)
<1>1. Len(file) \in Nat
  <2>1. file \in Seq(Nat) OBVIOUS
  <2> HIDE DEF file
  <2> QED BY <2>1
<1> HIDE DEF file
<1>2. IsFiniteSet(1 .. Len(file)) BY <1>1, FS_Interval
<1>3. IsFiniteSet(Claude!ClaudeLogs(file, since))
  <2> DEFINE lines == Claude!Loaded(file, since)
             f == [i \in lines |-> Claude!Kept(lines, ClaudeScript[i].key)]
             g == [i \in Range(f) |-> Claude!FileLog(i, file[i], ClaudeScript[i].total)]
  <2>1. IsFiniteSet(lines) BY <1>2, FS_Subset DEF Claude!Loaded
  <2> HIDE DEF lines
  <2>2. IsFiniteSet(Range(f))
    <3>1. f = [i \in lines |-> f[i]] OBVIOUS
    <3> HIDE DEF f
    <3> QED BY <2>1, <3>1, FiniteRange
  <2>3. Range(f) = {Claude!Kept(lines, ClaudeScript[i].key) : i \in lines} BY DEF Range
  <2> HIDE DEF f
  <2>4. IsFiniteSet(Range(g))
    <3>1. g = [i \in Range(f) |-> g[i]] OBVIOUS
    <3> HIDE DEF g
    <3> QED BY <2>2, <3>1, FiniteRange
  <2>5. Claude!ClaudeLogs(file, since) = {g[i] : i \in Range(f)}
    BY <2>3 DEF Claude!ClaudeLogs, lines
  <2>6. Range(g) = {g[i] : i \in Range(f)} BY DEF Range
  <2> QED BY <2>4, <2>5, <2>6
<1>4. IsFiniteSet(Codex!CodexLogs(file, since))
  <2> DEFINE lines == Codex!Loaded(file, since)
             some == {k \in lines : Codex!CodexAmount(k, lines) > 0}
             g == [i \in some |-> Codex!FileLog(i, file[i], Codex!CodexAmount(i, lines))]
  <2>1. IsFiniteSet(lines) BY <1>2, FS_Subset DEF Codex!Loaded
  <2> HIDE DEF lines
  <2>2. IsFiniteSet(some) BY <2>1, FS_Subset
  <2> HIDE DEF some
  <2>3. IsFiniteSet(Range(g))
    <3>1. g = [i \in some |-> g[i]] OBVIOUS
    <3> HIDE DEF g
    <3> QED BY <2>2, <3>1, FiniteRange
  <2>4. Codex!CodexLogs(file, since) = {Codex!FileLog(i, file[i], Codex!CodexAmount(i, lines)) : i \in some}
    BY DEF Codex!CodexLogs, lines, some
  <2>5. Range(g) = {Codex!FileLog(i, file[i], Codex!CodexAmount(i, lines)) : i \in some} BY DEF Range
  <2> QED BY <2>3, <2>4, <2>5
<1>5. FileLogs(since) = IF kind = "claude" THEN Claude!ClaudeLogs(file, since)
                        ELSE Codex!CodexLogs(file, since)
  BY DEF FileLogs, file
<1> QED BY <1>3, <1>4, <1>5

LEMMA FileBatch ==
    ASSUME NEW since, TaskTypes
    PROVE  IsSeq(SetToSeq(FileLogs(since))) /\ Range(SetToSeq(FileLogs(since))) = FileLogs(since)
<1>1. IsFiniteSet(FileLogs(since)) BY FileLogsFinite DEF TaskTypes
<1>2. SetToSeq(FileLogs(since)) \in Seq(FileLogs(since))
      /\ Range(SetToSeq(FileLogs(since))) = FileLogs(since)
  BY <1>1, RangeOfSetToSeq
<1> QED BY <1>2, SeqIsSeq

\* Nothing but a source's own state is touched by its steps.
LEMMA IngestSame == ASSUME IngestTypes, UNCHANGED ingestVars PROVE IngestTypes'
  BY SameSess, StoreKept, RoundKept, ReadKept DEF IngestTypes, ingestVars

LEMMA StoreOnly ==
    ASSUME IngestTypes, UNCHANGED <<sess, mtime, disk, round, toff, parsed>>,
           IsStore(store'), store'.offsets = store.offsets, store'.mtimes = store.mtimes
    PROVE  IngestTypes'
<1>1. SessTypes' /\ SessGrow BY SameSess DEF IngestTypes
<1>2. RoundTypes' /\ ReadTypes' BY <1>1, RoundKept, ReadKept DEF IngestTypes
<1>3. StoreTypes' BY DEF IngestTypes, StoreTypes
<1> QED BY <1>1, <1>2, <1>3 DEF IngestTypes

\* An empty store over what is on disk, or over nothing.
LEMMA Reopened ==
    ASSUME IngestTypes, NEW saved \in Disks, UNCHANGED <<sess, mtime>>,
           disk' = saved, store' = Open(saved),
           \A s \in Sessions : saved.offsets[s] <= Len(sess[s]) /\ saved.mtimes[s] <= mtime[s],
           toff' = [s \in Sessions |-> NothingRead]
    PROVE  /\ SessTypes' /\ SessGrow /\ StoreTypes'
           /\ (parsed' \in {parsed, <<>>} => ReadTypes')
<1>1. SessTypes' /\ SessGrow BY SameSess DEF IngestTypes
<1>2. /\ IsStore(store') /\ store'.offsets = saved.offsets /\ store'.mtimes = saved.mtimes
  BY StoreOpened
<1>3. StoreTypes'
  <2>1. \A s \in Sessions : saved.offsets[s] \in Nat /\ saved.mtimes[s] \in Nat BY DEF Disks
  <2> QED BY <1>2, <2>1 DEF StoreTypes
<1>4. ASSUME parsed' \in {parsed, <<>>} PROVE ReadTypes'
  <2>1. NothingRead \in ReadStates /\ SoundState(NothingRead) /\ NothingRead.lines = 0
    BY DEF NothingRead, ReadStates, SoundState
  <2>2. toff' \in [Sessions -> ReadStates] BY <2>1
  <2>3. IsSeq(parsed') BY <1>4, EmptyIsSeq DEF IngestTypes, ReadTypes
  <2>4. \A s \in Sessions : toff'[s] = NothingRead /\ Len(sess'[s]) \in Nat
    BY <1>1 DEF SessTypes
  <2> QED BY <2>1, <2>2, <2>3, <2>4 DEF ReadTypes
<1> QED BY <1>1, <1>3, <1>4

LEMMA EmptyDiskTypes == EmptyDisk \in Disks /\ \A s \in Sessions : EmptyDisk.offsets[s] = 0 /\ EmptyDisk.mtimes[s] = 0
  BY DEF EmptyDisk, Disks, NoMarks

LEMMA RebuildTypes ==
    ASSUME IngestTypes, RebuildStore \/ RebuildTranscripts
    PROVE  IngestTypes'
<1>1. CASE RebuildStore
  <2>1. /\ disk' = EmptyDisk /\ store' = Open(EmptyDisk)
        /\ UNCHANGED <<sess, mtime, round, toff, parsed>>
    BY <1>1 DEF RebuildStore
  <2>2. SessTypes' /\ SessGrow BY <2>1, SameSess DEF IngestTypes
  <2>3. IsStore(store') /\ store'.offsets = EmptyDisk.offsets /\ store'.mtimes = EmptyDisk.mtimes
    BY <2>1, StoreOpened, EmptyDiskTypes
  <2>4. \A s \in Sessions : Len(sess'[s]) \in Nat /\ mtime'[s] \in Nat
    BY <2>2, IngestAssumption DEF SessTypes
  <2>5. StoreTypes' BY <2>1, <2>3, <2>4, EmptyDiskTypes DEF StoreTypes
  <2>6. RoundTypes' /\ ReadTypes' BY <2>1, <2>2, RoundKept, ReadKept DEF IngestTypes
  <2> QED BY <2>2, <2>5, <2>6 DEF IngestTypes
<1>2. CASE RebuildTranscripts
  <2>1. /\ toff' = [s \in Sessions |-> NothingRead]
        /\ UNCHANGED <<sess, mtime, store, disk, round, parsed>>
    BY <1>2 DEF RebuildTranscripts
  <2>2. SessTypes' /\ SessGrow BY <2>1, SameSess DEF IngestTypes
  <2>3. StoreTypes' /\ RoundTypes' BY <2>1, <2>2, StoreKept, RoundKept DEF IngestTypes
  <2>4. NothingRead \in ReadStates /\ SoundState(NothingRead) /\ NothingRead.lines = 0
    BY DEF NothingRead, ReadStates, SoundState
  <2>5. \A s \in Sessions : toff'[s] = NothingRead /\ Len(sess'[s]) \in Nat
    BY <2>1, <2>2 DEF SessTypes
  <2>6. ReadTypes' BY <2>1, <2>4, <2>5 DEF ReadTypes, IngestTypes
  <2> QED BY <2>2, <2>3, <2>6 DEF IngestTypes
<1> QED BY <1>1, <1>2

\* What the files hold when the process ends: what they held, or with one of a
\* flush's or a rebuild's two saves done.
Cuts == {disk, FlushCut(store, disk), RebuildCut(disk)}

LEMMA CutsBehind ==
    ASSUME StoreTypes, NEW saved \in Cuts
    PROVE  /\ saved \in Disks
           /\ \A s \in Sessions : saved.offsets[s] <= store.offsets[s] /\ saved.mtimes[s] <= store.mtimes[s]
<1>1. \A s \in Sessions :
          /\ disk.offsets[s] \in Nat /\ store.offsets[s] \in Nat
          /\ disk.offsets[s] <= store.offsets[s] /\ disk.mtimes[s] <= store.mtimes[s]
  BY DEF StoreTypes, IsStore, Disks
<1>2. CASE saved = disk BY <1>1, <1>2 DEF StoreTypes
<1>3. CASE saved = FlushCut(store, disk)
  <2>1. saved \in Disks /\ saved.offsets = store.offsets /\ saved.mtimes = disk.mtimes
    BY <1>3, ZenonT(40), StoreFlushed DEF StoreTypes
  <2> QED BY <1>1, <2>1
<1>4. CASE saved = RebuildCut(disk)
  <2>1. NoMarks \in [Sessions -> Nat] /\ \A s \in Sessions : NoMarks[s] = 0 BY DEF NoMarks
  <2>2. saved \in Disks /\ saved.offsets = NoMarks /\ saved.mtimes = disk.mtimes
    BY <1>4, <2>1 DEF RebuildCut, StoreTypes, Disks
  <2> QED BY <1>1, <2>1, <2>2
<1> QED BY <1>2, <1>3, <1>4 DEF Cuts

LEMMA CrashRestarts == ASSUME Crash PROVE \E saved \in Cuts : Restart(saved)
  BY DEF Crash, Cuts

LEMMA RestartTypes ==
    ASSUME IngestTypes, NEW saved \in Cuts, Restart(saved)
    PROVE  IngestTypes'
<1>1. /\ disk' = saved /\ store' = Open(saved) /\ toff' = [s \in Sessions |-> NothingRead]
      /\ round' = NoRound /\ parsed' = <<>> /\ UNCHANGED <<sess, mtime>>
  BY DEF Restart
<1>2. saved \in Disks BY CutsBehind DEF IngestTypes
<1>3. \A s \in Sessions : saved.offsets[s] <= Len(sess[s]) /\ saved.mtimes[s] <= mtime[s]
  <2>1. \A s \in Sessions :
            /\ saved.offsets[s] \in Nat /\ store.offsets[s] \in Nat /\ Len(sess[s]) \in Nat
            /\ saved.mtimes[s] \in Nat /\ store.mtimes[s] \in Nat /\ mtime[s] \in Nat
            /\ store.offsets[s] <= Len(sess[s]) /\ store.mtimes[s] <= mtime[s]
    BY <1>2, IngestAssumption DEF IngestTypes, SessTypes, StoreTypes, IsStore, Disks
  <2>2. \A s \in Sessions : saved.offsets[s] <= store.offsets[s] /\ saved.mtimes[s] <= store.mtimes[s]
    BY CutsBehind DEF IngestTypes
  <2> QED BY <2>1, <2>2
<1>4. SessTypes' /\ SessGrow /\ StoreTypes' /\ ReadTypes' BY <1>1, <1>2, <1>3, Reopened
<1>5. RoundTypes' BY <1>1, <1>4, RestTypes, NoRoundTypes
<1> QED BY <1>4, <1>5 DEF IngestTypes

LEMMA TaskKept ==
    ASSUME TaskTypes, UNCHANGED <<kind, rebuild, fileVars, last, task, batch, chan>>
    PROVE  TaskTypes'
  BY DEF TaskTypes, fileVars, Streams

LEMMA FileStepTypes ==
    ASSUME Types, Stamp \/ Show \/ Tick
    PROVE  Types'
<1>1. IngestTypes /\ IngestTypes'
  BY IngestSame DEF Types, IngestTypes, Stamp, Show, Tick
<1>2. UNCHANGED <<kind, rebuild, last, task, batch, chan>> BY DEF Stamp, Show, Tick, taskVars, rebuildVars
<1>3. /\ stamps \in Seq(Nat) /\ Len(stamps) \in Nat /\ shown \in 0 .. Len(stamps) /\ now \in Nat \ {0}
      /\ last = Never \/ last \in 1 .. now
  BY DEF TaskTypes, Types
<1>4. /\ stamps' \in Seq(Nat) /\ shown' \in 0 .. Len(stamps') /\ now' \in Nat \ {0}
      /\ last = Never \/ last \in 1 .. now'
  <2>1. CASE Stamp
    <3>1. stamps' = Append(stamps, now) /\ shown' = shown /\ now' = now BY <2>1 DEF Stamp
    <3> QED BY <1>3, <3>1
  <2>2. CASE Show
    <3>1. stamps' = stamps /\ shown < Len(stamps) /\ shown' = shown + 1 /\ now' = now BY <2>2 DEF Show
    <3> QED BY <1>3, <3>1
  <2>3. CASE Tick
    <3>1. stamps' = stamps /\ shown' = shown /\ now' = now + 1 BY <2>3 DEF Tick
    <3> QED BY <1>3, <3>1
  <2> QED BY <2>1, <2>2, <2>3
<1>5. TaskTypes' BY <1>2, <1>4 DEF TaskTypes, Types, Streams
<1> QED BY <1>1, <1>5 DEF Types, IngestTypes

LEMMA CollectTypes ==
    ASSUME Types, NEW since, since = Never \/ since = last, Collect(since)
    PROVE  Types'
<1>1. IngestTypes /\ TaskTypes BY DEF Types, IngestTypes
<1>2. CASE CollectStore(since)
  <2>1. /\ batch' = Pulled(store, "framework") /\ store' = AfterPull(store, "framework")
        /\ last' = since /\ task' = "send" /\ UNCHANGED <<sess, mtime, disk, round, toff, parsed>>
        /\ UNCHANGED <<kind, rebuild, fileVars, chan>>
    BY <1>2 DEF CollectStore, NotTheStore, rebuildVars
  <2>2. IsSeq(batch') /\ IngestTypes'
    BY <1>1, <2>1, StorePulled, StoreOnly DEF IngestTypes, StoreTypes, IsStore
  <2>3. TaskTypes' BY <1>1, <2>1, <2>2 DEF TaskTypes, fileVars, Streams
  <2> QED BY <2>2, <2>3 DEF Types, IngestTypes
<1>3. CASE CollectFiles(since)
  <2>1. /\ batch' = SetToSeq(FileLogs(since)) /\ last' = since /\ task' = "send"
        /\ UNCHANGED ingestVars /\ UNCHANGED <<kind, rebuild, fileVars, chan>>
    BY <1>3 DEF CollectFiles
  <2>2. IsSeq(batch') BY <1>1, <2>1, FileBatch
  <2>3. IngestTypes' BY <1>1, <2>1, IngestSame
  <2>4. TaskTypes' BY <1>1, <2>1, <2>2 DEF TaskTypes, fileVars, Streams
  <2> QED BY <2>3, <2>4 DEF Types, IngestTypes
<1>4. CASE CollectError(since)
  <2>1. /\ last' = since /\ UNCHANGED <<sess, mtime, store, disk, round, toff, parsed>>
        /\ UNCHANGED <<kind, rebuild, fileVars, task, batch, chan>>
    BY <1>4 DEF CollectError, NotFaults, rebuildVars
  <2>2. IngestTypes' BY <1>1, <2>1, StoreOnly DEF IngestTypes, StoreTypes
  <2>3. TaskTypes' BY <1>1, <2>1 DEF TaskTypes, fileVars, Streams
  <2> QED BY <2>2, <2>3 DEF Types, IngestTypes
<1> QED BY <1>2, <1>3, <1>4 DEF Collect

LEMMA SendTypes ==
    ASSUME Types, Send
    PROVE  Types'
<1>1. IngestTypes' BY IngestSame DEF Types, IngestTypes, Send
<1>2. UNCHANGED <<kind, rebuild, fileVars>> /\ last' = now /\ batch' = <<>> /\ task' = "idle"
      /\ (chan' = chan \/ (Len(chan) < ChanCap /\ chan' = Append(chan, batch)))
  BY DEF Send, rebuildVars
<1>3. IsSeq(chan') /\ Len(chan') <= ChanCap /\ \A b \in Range(chan') : IsSeq(b)
  <2>1. IsSeq(chan) /\ Len(chan) <= ChanCap /\ IsSeq(batch) /\ \A b \in Range(chan) : IsSeq(b)
    BY DEF Types, TaskTypes
  <2>2. CASE chan' = chan BY <2>1, <2>2
  <2>3. CASE Len(chan) < ChanCap /\ chan' = Append(chan, batch)
    <3>1. IsSeq(chan') /\ Range(chan') = Range(chan) \cup {batch}
          /\ Len(chan') = Len(chan) + 1 /\ Len(chan) \in Nat
      BY <2>1, <2>3, AppendIsSeq
    <3> QED BY <2>1, <2>3, <3>1, CollectorAssumption
  <2> QED BY <1>2, <2>2, <2>3
<1>4. TaskTypes'
  <2>1. now' = now /\ stamps' = stamps /\ shown' = shown BY <1>2 DEF fileVars
  <2>2. now \in 1 .. now BY DEF Types, TaskTypes
  <2>3. IsSeq(batch') BY <1>2, EmptyIsSeq
  <2> QED BY <1>2, <1>3, <2>1, <2>2, <2>3 DEF Types, TaskTypes, Streams
<1> QED BY <1>1, <1>4 DEF Types, IngestTypes

\* A batch leaves the channel.
LEMMA TakeTypes ==
    ASSUME Types, Ingest \/ IngestError
    PROVE  Types'
<1>1. UNCHANGED <<sess, mtime, store, disk, round, toff, parsed>>
  BY DEF Ingest, IngestError, ingestVars, NotFaults
<1>2. IngestTypes' BY <1>1, StoreOnly DEF Types, IngestTypes, StoreTypes
<1>3. chan # <<>> /\ chan' = Tail(chan) /\ UNCHANGED <<kind, rebuild, fileVars, last, task, batch>>
  BY DEF Ingest, IngestError, taskVars, rebuildVars
<1>4. IsSeq(chan') /\ Len(chan') <= ChanCap /\ \A b \in Range(chan') : IsSeq(b)
  <2>1. IsSeq(chan) /\ Len(chan) <= ChanCap /\ \A b \in Range(chan) : IsSeq(b)
    BY DEF Types, TaskTypes
  <2>2. IsSeq(chan') /\ Range(chan) = {Head(chan)} \cup Range(chan')
        /\ Len(chan') = Len(chan) - 1 /\ Len(chan) \in Nat
    BY <1>3, <2>1, HeadTailIsSeq
  <2> QED BY <2>1, <2>2, CollectorAssumption
<1>5. TaskTypes' BY <1>3, <1>4 DEF Types, TaskTypes, fileVars, Streams
<1> QED BY <1>2, <1>5 DEF Types, IngestTypes

LEMMA CommandTypes ==
    ASSUME Types, Upsert \/ ClearStorage \/ RebuildStep \/ Crash
    PROVE  Types'
<1>1. CASE Upsert
  <2>1. UNCHANGED <<sess, mtime, store, disk, round, toff, parsed>>
        /\ UNCHANGED <<kind, rebuild, fileVars, last, task, batch, chan>>
    BY <1>1 DEF Upsert, NotFaults, rebuildVars
  <2> QED BY <2>1, StoreOnly, TaskKept DEF Types, IngestTypes, StoreTypes
<1>2. CASE ClearStorage
  <2>1. UNCHANGED <<sess, mtime, store, disk, round, toff, parsed>>
        /\ UNCHANGED <<kind, fileVars, last, task, batch, chan>>
        /\ rebuild' = IF Streams THEN "store" ELSE "broadcast"
    BY <1>2 DEF ClearStorage, NotFaults, taskVars
  <2>2. IngestTypes' BY <2>1, StoreOnly DEF Types, IngestTypes, StoreTypes
  <2>3. TaskTypes' BY <2>1 DEF Types, TaskTypes, fileVars, Streams
  <2> QED BY <2>2, <2>3 DEF Types, IngestTypes
<1>3. CASE RebuildStep
  <2>1. IngestTypes'
    <3>1. CASE Broadcast BY <3>1, IngestSame DEF Types, IngestTypes, Broadcast
    <3> QED BY <1>3, <3>1, RebuildTypes DEF Types, IngestTypes, RebuildStep, ResetStore, ResetTranscripts
  <2>2. UNCHANGED <<kind, fileVars, last, task, batch, chan>>
    BY <1>3 DEF RebuildStep, ResetStore, ResetTranscripts, Broadcast, taskVars
  <2>3. rebuild' \in {"none", "transcripts", "broadcast"} /\ (rebuild' = "transcripts" => Streams)
    BY <1>3 DEF RebuildStep, ResetStore, ResetTranscripts, Broadcast, Streams
  <2>4. TaskTypes' BY <2>2, <2>3 DEF Types, TaskTypes, fileVars, Streams
  <2> QED BY <2>1, <2>4 DEF Types, IngestTypes
<1>4. CASE Crash
  <2>1. IngestTypes' BY <1>4, CrashRestarts, RestartTypes DEF Types, IngestTypes
  <2>2. last' = Never /\ task' = "idle" /\ batch' = <<>> /\ chan' = <<>> /\ rebuild' = "none"
        /\ UNCHANGED <<kind, fileVars>>
    BY <1>4 DEF Crash
  <2>3. Len(chan') = 0 /\ Range(chan') = {} /\ IsSeq(batch') /\ IsSeq(chan') BY <2>2, EmptyIsSeq
  <2>4. TaskTypes' BY <2>2, <2>3, CollectorAssumption DEF Types, TaskTypes, fileVars
  <2> QED BY <2>1, <2>4 DEF Types, IngestTypes
<1> QED BY <1>1, <1>2, <1>3, <1>4

LEMMA TypesInit == Init => Types
<1> SUFFICES ASSUME Init PROVE Types
  OBVIOUS
<1>1. /\ sess = [s \in Sessions |-> <<>>] /\ mtime = NoMarks /\ disk = EmptyDisk
      /\ store = Open(EmptyDisk) /\ round = NoRound
      /\ toff = [s \in Sessions |-> NothingRead] /\ parsed = <<>>
      /\ kind \in Kinds /\ stamps = <<>> /\ shown = 0 /\ now = 1 /\ last = Never
      /\ task = "idle" /\ batch = <<>> /\ chan = <<>> /\ rebuild = "none"
  BY DEF Init, IngestInit
<1>2. SessTypes
  <2>1. <<>> \in Seq(Nat) /\ Len(<<>>) = 0 OBVIOUS
  <2>2. \A s \in Sessions : sess[s] = <<>> /\ mtime[s] = 0 BY <1>1 DEF NoMarks
  <2>3. sess \in [Sessions -> Seq(Nat)] /\ mtime \in [Sessions -> 0 .. MaxMtime]
    BY <1>1, <2>1, IngestAssumption DEF NoMarks
  <2> QED BY <2>1, <2>2, <2>3 DEF SessTypes
<1>3. StoreTypes
  <2>1. IsStore(store) /\ store.offsets = disk.offsets /\ store.mtimes = disk.mtimes
    BY <1>1, StoreOpened, EmptyDiskTypes
  <2>2. \A s \in Sessions : Len(sess[s]) \in Nat /\ mtime[s] \in Nat
    BY <1>2, IngestAssumption DEF SessTypes
  <2> QED BY <1>1, <2>1, <2>2, EmptyDiskTypes DEF StoreTypes
<1>4. RoundTypes
  <2>1. \A s \in Sessions : NoMarks[s] = 0 /\ mtime[s] = 0 BY <1>1 DEF NoMarks
  <2> QED BY <1>1, <2>1, NoRoundTypes DEF RoundTypes
<1>5. ReadTypes
  <2>1. NothingRead \in ReadStates /\ SoundState(NothingRead) /\ NothingRead.lines = 0
    BY DEF NothingRead, ReadStates, SoundState
  <2>2. \A s \in Sessions : toff[s] = NothingRead /\ Len(sess[s]) \in Nat BY <1>1, <1>2 DEF SessTypes
  <2> QED BY <1>1, <2>1, <2>2, EmptyIsSeq DEF ReadTypes
<1>6. TaskTypes
  <2>1. <<>> \in Seq(Nat) /\ Len(<<>>) = 0 /\ Range(<<>>) = {} /\ IsSeq(<<>>) BY EmptyIsSeq
  <2> QED BY <1>1, <2>1, CollectorAssumption DEF TaskTypes
<1> QED BY <1>2, <1>3, <1>4, <1>5, <1>6 DEF Types

LEMMA TypesStep == Types /\ [Next]_vars => Types'
<1> SUFFICES ASSUME Types, [Next]_vars PROVE Types'
  OBVIOUS
<1>1. CASE UNCHANGED vars
  <2>1. UNCHANGED ingestVars /\ UNCHANGED <<kind, rebuild, fileVars, last, task, batch, chan>>
    BY <1>1 DEF vars, taskVars, rebuildVars
  <2> QED BY <2>1, IngestSame, TaskKept DEF Types, IngestTypes
<1>2. CASE IngestStep
  <2>1. UNCHANGED <<kind, rebuild, fileVars, last, task, batch, chan>>
    BY <1>2 DEF IngestStep, OnlyIngest, taskVars, rebuildVars
  <2> QED BY <1>2, <2>1, IngestStepTypes, TaskKept DEF Types, IngestTypes
<1>3. CASE Stamp \/ Show \/ Tick BY <1>3, FileStepTypes
<1>4. CASE Wake \/ ReceiveCommand BY <1>4, CollectTypes DEF Wake, ReceiveCommand
<1>5. CASE Send BY <1>5, SendTypes
<1>6. CASE Ingest \/ IngestError BY <1>6, TakeTypes
<1>7. CASE Upsert \/ ClearStorage \/ RebuildStep \/ Crash BY <1>7, CommandTypes
<1> QED BY <1>1, <1>2, <1>3, <1>4, <1>5, <1>6, <1>7 DEF Next

LEMMA TypesHold == Spec => []Types
  BY TypesInit, TypesStep, PTL DEF Spec

\* CollectorTypeOK follows: a session's offset and times never pass what there is
\* of it, neither those in memory nor those on disk; the cursor is where the store
\* ends, and the channel holds no more than its capacity.
THEOREM CollectorTypeCorrect == Spec => []CollectorTypeOK
<1>1. Types => CollectorTypeOK
  <2> SUFFICES ASSUME Types PROVE CollectorTypeOK
    OBVIOUS
  <2>1. ASSUME NEW s \in Sessions
        PROVE  /\ Len(sess[s]) <= mtime[s] /\ mtime[s] <= MaxMtime
               /\ store.offsets[s] \in 0..Len(sess[s]) /\ disk.offsets[s] \in 0..Len(sess[s])
               /\ store.mtimes[s] \in 0..mtime[s] /\ disk.mtimes[s] \in 0..mtime[s]
               /\ toff[s].lines \in 0..Len(sess[s])
               /\ toff[s].atModel <= toff[s].cumulative
    <3>1. /\ Len(sess[s]) <= mtime[s] /\ mtime[s] \in 0 .. MaxMtime /\ Len(sess[s]) \in Nat
      BY DEF Types, SessTypes
    <3>2. /\ store.offsets[s] \in Nat /\ disk.offsets[s] \in Nat
          /\ store.mtimes[s] \in Nat /\ disk.mtimes[s] \in Nat
          /\ store.offsets[s] <= Len(sess[s]) /\ store.mtimes[s] <= mtime[s]
          /\ disk.offsets[s] <= store.offsets[s] /\ disk.mtimes[s] <= store.mtimes[s]
      BY DEF Types, StoreTypes, IsStore, Disks
    <3>3. toff[s].lines \in Nat /\ toff[s].lines <= Len(sess[s]) /\ toff[s].atModel <= toff[s].cumulative
      BY DEF Types, ReadTypes, ReadStates, SoundState
    <3> QED BY SMTT(30), <3>1, <3>2, <3>3, IngestAssumption
  <2>2. \A c \in DOMAIN store.cursors : store.cursors[c] \in 0..Len(store.entries)
    <3>1. Len(store.entries) \in Nat /\ store.cursors = [c \in DOMAIN store.cursors |-> 0]
      BY DEF Types, StoreTypes, IsStore, IsSeq
    <3> QED BY <3>1
  <2>3. shown <= Len(stamps) BY DEF Types, TaskTypes
  <2> QED BY <2>1, <2>2, <2>3 DEF CollectorTypeOK, Types, TaskTypes
<1> QED BY <1>1, TypesHold, PTL

-----------------------------------------------------------------------------
(* Where the records are *)

Carrying == UNION {Range(b) : b \in Range(chan)}

Recs == Range(store.entries) \cup Range(batch) \cup Carrying \cup pool \cup lost \cup cleared

LEMMA RecsAccounted == \A r : Accounted(r) <=> r \in Recs
<1>1. UNION {Range(chan[n]) : n \in DOMAIN chan} = Carrying BY DEF Carrying, Range
<1> QED BY <1>1 DEF Accounted, Travelling, Recs

\* A step of a source that keeps a store adds to it; no other part is touched.
LEMMA EntriesKept ==
    ASSUME IngestTypes, IngestStep
    PROVE  Range(store.entries) \subseteq Range(store'.entries)
<1>1. IsStore(store) BY DEF IngestTypes, StoreTypes
<1>2. ASSUME NEW s \in Sessions, Work(s) \/ RpcFail(s) \/ PickSkip(s) \/ PickFetch(s)
      PROVE  store' = store
  BY <1>2 DEF Work, RpcFail, PickSkip, PickFetch
<1>3. CASE ListSome \/ IngestOffline \/ ReadTranscripts \/ SkipTranscripts
  BY <1>3 DEF ListSome, IngestList, IngestOffline, ReadTranscripts, SkipTranscripts
<1>4. ASSUME NEW s \in Sessions, RpcAnswer(s)
      PROVE  Range(store.entries) \subseteq Range(store'.entries)
  BY <1>4, AnswerEffect DEF IngestTypes
<1>5. ASSUME NEW s \in Sessions, Advance(s) PROVE store'.entries = store.entries
  <2>1. store' = AdvanceOffset(store, s, round.next) /\ round.next \in Nat
    BY <1>5 DEF Advance, IngestTypes, RoundTypes, Rounds
  <2> QED BY <1>1, <2>1, StoreAdvanced
<1>6. ASSUME NEW s \in Sessions, Mark(s) PROVE store'.entries = store.entries
  BY <1>6, MarkEffect DEF IngestTypes
<1>7. CASE Flush
  <2>1. store' = [store EXCEPT !.dirty = FALSE] /\ disk \in Disks
    BY <1>7 DEF Flush, IngestTypes, StoreTypes
  <2> QED BY <1>1, <2>1, StoreFlushed
<1>8. CASE AppendEstimates
  <2>1. store' = Appended(store, parsed) /\ IsSeq(parsed)
    BY <1>8 DEF AppendEstimates, IngestTypes, ReadTypes
  <2> QED BY <1>1, <2>1, StoreAppended
<1> QED BY <1>2, <1>3, <1>4, <1>5, <1>6, <1>7, <1>8 DEF IngestStep, FetchStep, TranscriptStep

\* No step but a reset of the store loses sight of a record, nor does the collection
\* of all files.
LEMMA RecsKept ==
    ASSUME Types, [Next]_vars, ~ResetStore, lost \subseteq lost', cleared \subseteq cleared'
    PROVE  Recs \subseteq Recs'
<1>1. CASE UNCHANGED <<store, batch, chan, pool, lost, cleared>>
  BY <1>1 DEF Recs, Carrying
<1>2. CASE IngestStep
  <2>1. UNCHANGED <<batch, chan, pool, lost, cleared>> BY <1>2 DEF IngestStep, OnlyIngest, taskVars, rebuildVars
  <2>2. Range(store.entries) \subseteq Range(store'.entries) BY <1>2, EntriesKept DEF Types, IngestTypes
  <2> QED BY <2>1, <2>2 DEF Recs, Carrying
<1>3. ASSUME NEW since, CollectStore(since) PROVE Recs \subseteq Recs'
  <2>1. batch = <<>> /\ Range(batch) = {} BY <1>3, EmptyIsSeq DEF CollectStore, Types, TaskTypes
  <2>2. batch' = Pulled(store, "framework") /\ UNCHANGED <<chan, pool, lost, cleared>> BY <1>3 DEF CollectStore, rebuildVars
  <2>3. batch' = store.entries BY <2>2, StorePulled DEF Types, StoreTypes
  <2> QED BY <2>1, <2>2, <2>3 DEF Recs, Carrying
<1>4. CASE Send
  <2>1. UNCHANGED <<store, pool, lost, cleared>> /\ (\/ batch = <<>> /\ chan' = chan
                                                     \/ chan' = Append(chan, batch))
    BY <1>4 DEF Send, ingestVars, rebuildVars
  <2>2. CASE batch = <<>> /\ chan' = chan
    <3>1. Range(batch) = {} BY <2>2, EmptyIsSeq
    <3> QED BY <2>1, <2>2, <3>1 DEF Recs, Carrying
  <2>3. CASE chan' = Append(chan, batch)
    <3>1. Range(chan') = Range(chan) \cup {batch} BY <2>3, AppendIsSeq DEF Types, TaskTypes
    <3> QED BY <2>1, <3>1 DEF Recs, Carrying
  <2> QED BY <2>1, <2>2, <2>3
<1>5. CASE Ingest \/ IngestError
  <2>1. /\ chan # <<>> /\ chan' = Tail(chan) /\ UNCHANGED <<store, batch>>
        /\ pool \cup lost \cup Range(Head(chan)) \subseteq pool' \cup lost' /\ cleared' = cleared
    BY <1>5 DEF Ingest, IngestError, ingestVars, taskVars, NotFaults, rebuildVars
  <2>2. Range(chan) = {Head(chan)} \cup Range(chan') BY <2>1, HeadTailIsSeq DEF Types, TaskTypes
  <2> QED BY <2>1, <2>2 DEF Recs, Carrying
<1>6. CASE Crash
  <2>1. lost' = lost \cup InMemory /\ pool' = pool /\ cleared' = cleared BY <1>6 DEF Crash
  <2>2. UNION {Range(chan[n]) : n \in DOMAIN chan} = Carrying BY DEF Carrying, Range
  <2> QED BY <2>1, <2>2 DEF Recs, InMemory
<1>7. CASE Stamp \/ Show \/ Tick \/ Upsert \/ ResetTranscripts \/ Broadcast
  BY <1>1, <1>7 DEF Stamp, Show, Tick, Upsert, ResetTranscripts, RebuildTranscripts, Broadcast, NotFaults,
                    ingestVars, taskVars, rebuildVars
<1>8. CASE UNCHANGED vars BY <1>1, <1>8 DEF vars, ingestVars, taskVars, rebuildVars
<1>9. CASE Wake \/ ReceiveCommand
  <2>1. PICK since : Collect(since) BY <1>9 DEF Wake, ReceiveCommand
  <2>2. CASE CollectFiles(since)
    <3>1. batch = <<>> /\ Range(batch) = {} BY <2>2, EmptyIsSeq DEF CollectFiles, Types, TaskTypes
    <3>2. UNCHANGED <<store, chan, pool>> BY <2>2 DEF CollectFiles, ingestVars
    <3> QED BY <3>1, <3>2 DEF Recs, Carrying
  <2>3. CASE CollectError(since) BY <1>1, <2>3 DEF CollectError, NotFaults, rebuildVars
  <2> QED BY <1>3, <2>1, <2>2, <2>3 DEF Collect
<1>10. CASE ClearStorage
  <2>1. UNCHANGED <<store, batch, chan, lost>> /\ cleared' = cleared \cup (pool \ pool')
    BY <1>10 DEF ClearStorage, taskVars
  <2> QED BY <2>1 DEF Recs, Carrying
<1> QED BY <1>2, <1>4, <1>5, <1>6, <1>7, <1>8, <1>9, <1>10 DEF Next, RebuildStep

LEMMA LostKept ==
    ASSUME [Next]_vars, ~ResetStore, Streams \/ \A since : ~CollectFiles(since)
    PROVE  lost \subseteq lost' /\ cleared \subseteq cleared' /\ raced' = raced
  BY DEF Next, IngestStep, OnlyIngest, Stamp, Show, Tick, Wake, ReceiveCommand, Collect, CollectStore,
         CollectFiles, CollectError, Send, Ingest, IngestError, Upsert, ClearStorage, RebuildStep,
         ResetTranscripts, Broadcast, Crash, vars, rebuildVars

-----------------------------------------------------------------------------
(* The inductive invariant of FetchedIsKept and MarkedIsFetched *)

\* Sources that read files have no sessions and no rounds.
FilesOnly == ~Streams => round.cur = {} /\ \A s \in Sessions : sess[s] = <<>>

OffsetsKept ==
    \A s \in Sessions \ raced : \A i \in 1 .. Len(sess[s]) :
        StepIndices(s, i) # {} /\ i <= store.offsets[s] => Fetched(s, i) \in Recs

MarksKept ==
    \A s \in Sessions \ raced : \A i \in 1 .. Len(sess[s]) :
        sess[s][i] <= store.mtimes[s] => s \in failed \/ Fetched(s, i) \in Recs

\* What the round owes of the session it is at: the offset it read is not past the
\* store's; what lies below the next offset has been appended; and so has what had
\* happened by the listed time, if that time is going to be stored.
RoundKeeps ==
    \A s \in Sessions \ raced : round.cur = {s} =>
        /\ round.at = "rpc" => round.start <= store.offsets[s]
        /\ round.at = "advance" => \A i \in 1 .. Len(sess[s]) :
               StepIndices(s, i) # {} /\ i <= round.next => Fetched(s, i) \in Recs
        /\ round.at \in {"advance", "mark"} /\ (round.fetched \/ round.listed[s] > round.stored) =>
               \A i \in 1 .. Len(sess[s]) :
                   sess[s][i] <= round.listed[s] => s \in failed \/ Fetched(s, i) \in Recs

Delivery == FilesOnly /\ OffsetsKept /\ MarksKept /\ RoundKeeps

\* Marks that do not move forward, while records are kept and sessions grow.
LEMMA MarksBehind ==
    ASSUME Types, Types', SessGrow, Recs \subseteq Recs', failed \subseteq failed', raced' = raced,
           \A s \in Sessions : /\ store'.offsets[s] <= store.offsets[s]
                               /\ store'.mtimes[s] <= store.mtimes[s],
           OffsetsKept, MarksKept
    PROVE  OffsetsKept' /\ MarksKept'
<1>1. \A s \in Sessions :
          /\ Len(sess[s]) \in Nat /\ Len(sess'[s]) \in Nat /\ mtime[s] \in Nat
          /\ store.offsets[s] \in Nat /\ store.mtimes[s] \in Nat
          /\ store'.offsets[s] \in Nat /\ store'.mtimes[s] \in Nat
          /\ store.offsets[s] <= Len(sess[s]) /\ store.mtimes[s] <= mtime[s]
          /\ \A i \in 1 .. Len(sess'[s]) : sess'[s][i] \in Nat
  BY IngestAssumption, SMTT(30) DEF Types, SessTypes, StoreTypes, IsStore
<1>2. OffsetsKept'
  <2> SUFFICES ASSUME NEW s \in Sessions \ raced, NEW i \in 1 .. Len(sess'[s]),
                      StepIndices(s, i) # {}, i <= store'.offsets[s]
               PROVE  Fetched(s, i) \in Recs'
    BY DEF OffsetsKept, StepIndices, Fetched
  <2>1. i \in 1 .. Len(sess[s]) /\ i <= store.offsets[s] BY <1>1
  <2> QED BY <2>1 DEF OffsetsKept
<1>3. MarksKept'
  <2> SUFFICES ASSUME NEW s \in Sessions \ raced, NEW i \in 1 .. Len(sess'[s]),
                      sess'[s][i] <= store'.mtimes[s]
               PROVE  s \in failed' \/ Fetched(s, i) \in Recs'
    BY DEF MarksKept, Fetched
  <2>1. sess'[s][i] <= store.mtimes[s] /\ sess'[s][i] <= mtime[s] BY <1>1
  <2>2. i \in 1 .. Len(sess[s])
    <3>1. ~(i > Len(sess[s])) BY <1>1, <2>1 DEF SessGrow
    <3> QED BY <1>1, <3>1
  <2>3. sess[s][i] <= store.mtimes[s] BY <2>1, <2>2 DEF SessGrow
  <2> QED BY <2>2, <2>3 DEF MarksKept
<1> QED BY <1>2, <1>3

\* A round that stays where it is.
LEMMA RoundStays ==
    ASSUME Types, Types', SessGrow, Recs \subseteq Recs', failed \subseteq failed', raced' = raced,
           UNCHANGED round, store'.offsets = store.offsets, RoundKeeps
    PROVE  RoundKeeps'
<1> SUFFICES ASSUME NEW s \in Sessions \ raced, round.cur = {s}
             PROVE  /\ round.at = "rpc" => round.start <= store'.offsets[s]
                    /\ round.at = "advance" => \A i \in 1 .. Len(sess'[s]) :
                           StepIndices(s, i) # {} /\ i <= round.next => Fetched(s, i) \in Recs'
                    /\ round.at \in {"advance", "mark"} /\ (round.fetched \/ round.listed[s] > round.stored) =>
                           \A i \in 1 .. Len(sess'[s]) :
                               sess'[s][i] <= round.listed[s] => s \in failed' \/ Fetched(s, i) \in Recs'
  BY DEF RoundKeeps, StepIndices, Fetched
<1>1. /\ Len(sess[s]) \in Nat /\ Len(sess'[s]) \in Nat /\ mtime[s] \in Nat
      /\ round.listed[s] \in Nat /\ round.listed[s] <= mtime[s] /\ round.next \in Nat
      /\ \A i \in 1 .. Len(sess'[s]) : sess'[s][i] \in Nat
      /\ round.at = "advance" => round.next <= Len(sess[s])
  <2>1. Len(sess[s]) \in Nat /\ Len(sess'[s]) \in Nat /\ mtime[s] \in Nat
    BY IngestAssumption DEF Types, SessTypes
  <2>2. \A i \in 1 .. Len(sess'[s]) : sess'[s][i] \in Nat BY DEF Types, SessTypes
  <2>3. round.listed[s] \in Nat /\ round.listed[s] <= mtime[s] /\ round.next \in Nat
    BY DEF Types, RoundTypes, Rounds
  <2>4. round.at = "advance" => round.next <= Len(sess[s]) BY DEF Types, RoundTypes
  <2> QED BY <2>1, <2>2, <2>3, <2>4
<1>2. round.at = "rpc" => round.start <= store'.offsets[s] BY DEF RoundKeeps
<1>3. ASSUME round.at = "advance", NEW i \in 1 .. Len(sess'[s]), StepIndices(s, i) # {}, i <= round.next
      PROVE  Fetched(s, i) \in Recs'
  <2>1. i \in 1 .. Len(sess[s]) BY <1>1, <1>3
  <2> QED BY <1>3, <2>1 DEF RoundKeeps
<1>4. ASSUME round.at \in {"advance", "mark"}, round.fetched \/ round.listed[s] > round.stored,
             NEW i \in 1 .. Len(sess'[s]), sess'[s][i] <= round.listed[s]
      PROVE  s \in failed' \/ Fetched(s, i) \in Recs'
  <2>1. i \in 1 .. Len(sess[s])
    <3>1. sess'[s][i] <= mtime[s] BY <1>1, <1>4
    <3>2. ~(i > Len(sess[s])) BY <1>1, <3>1 DEF SessGrow
    <3> QED BY <1>1, <3>2
  <2>2. sess[s][i] <= round.listed[s] BY <1>4, <2>1 DEF SessGrow
  <2> QED BY <1>4, <2>1, <2>2 DEF RoundKeeps
<1> QED BY <1>2, <1>3, <1>4

\* A round at no session owes nothing.
LEMMA RoundAtNone == ASSUME round'.cur = {} \/ round'.at \notin {"rpc", "advance", "mark"} PROVE RoundKeeps'
  BY DEF RoundKeeps

LEMMA DeliveryPick ==
    ASSUME Types, Types', Delivery, Recs \subseteq Recs', raced' = raced, NEW s \in Sessions,
           PickSkip(s) \/ PickFetch(s)
    PROVE  OffsetsKept' /\ MarksKept' /\ RoundKeeps'
<1>1. UNCHANGED <<sess, mtime, store, failed>> BY DEF PickSkip, PickFetch
<1>2. SessGrow BY <1>1, SameSess DEF Types
<1>3. \A t \in Sessions : store.offsets[t] \in Nat /\ store.mtimes[t] \in Nat
  BY DEF Types, StoreTypes, IsStore
<1>4. OffsetsKept' /\ MarksKept' BY <1>1, <1>2, <1>3, MarksBehind DEF Delivery
<1>5. RoundKeeps'
  <2>1. round \in Rounds BY DEF Types, RoundTypes
  <2>2. CASE PickSkip(s)
    <3>1. round' = [round EXCEPT !.todo = @ \ {s}, !.covered = @ \cup {s}] /\ round.at = "pick"
      BY <2>2 DEF PickSkip
    <3>2. round'.at = "pick" BY <2>1, <3>1 DEF Rounds
    <3> QED BY <3>2, RoundAtNone
  <2>3. CASE PickFetch(s)
    <3>1. round' = [round EXCEPT !.at = "rpc", !.cur = {s}, !.todo = @ \ {s},
                        !.start = store.offsets[s], !.stored = store.mtimes[s]]
      BY <2>3 DEF PickFetch
    <3>2. round'.at = "rpc" /\ round'.cur = {s} /\ round'.start = store.offsets[s]
      BY <2>1, <3>1 DEF Rounds
    <3>3. \A t \in Sessions : round'.cur = {t} => round'.start <= store'.offsets[t]
      BY <1>1, <1>3, <3>2
    <3> QED BY <3>2, <3>3 DEF RoundKeeps
  <2> QED BY <2>2, <2>3
<1> QED BY <1>4, <1>5

\* A session whose fetch fails is among the failed when its time is going to be stored.
LEMMA DeliveryFail ==
    ASSUME Types, Types', Delivery, Recs \subseteq Recs', raced' = raced, NEW s \in Sessions, RpcFail(s)
    PROVE  OffsetsKept' /\ MarksKept' /\ RoundKeeps'
<1>1. /\ UNCHANGED <<sess, mtime, store>> /\ round.cur = {s}
      /\ round' = [round EXCEPT !.at = "mark", !.fetched = FALSE]
      /\ failed' = IF round.listed[s] > round.stored THEN failed \cup {s} ELSE failed
  BY DEF RpcFail
<1>2. SessGrow BY <1>1, SameSess DEF Types
<1>3. \A t \in Sessions : store.offsets[t] \in Nat /\ store.mtimes[t] \in Nat
  BY DEF Types, StoreTypes, IsStore
<1>4. OffsetsKept' /\ MarksKept' BY <1>1, <1>2, <1>3, MarksBehind DEF Delivery
<1>5. RoundKeeps'
  <2>1. /\ round'.at = "mark" /\ round'.cur = {s} /\ round'.fetched = FALSE
        /\ round'.listed = round.listed /\ round'.stored = round.stored
    BY <1>1 DEF Types, RoundTypes, Rounds
  <2>2. round'.listed[s] > round'.stored => s \in failed' BY <1>1, <2>1
  <2>3. ASSUME NEW t \in Sessions, round'.cur = {t} PROVE t = s BY <2>1, <2>3
  <2> QED BY <2>1, <2>2, <2>3 DEF RoundKeeps
<1> QED BY <1>4, <1>5

\* After an answer every call of the session has been appended, then or before.
LEMMA DeliveryAnswer ==
    ASSUME Types, Types', Delivery, Recs \subseteq Recs', raced' = raced, NEW s \in Sessions, RpcAnswer(s)
    PROVE  OffsetsKept' /\ MarksKept' /\ RoundKeeps'
<1>1. /\ UNCHANGED <<sess, mtime>> /\ round.at = "rpc" /\ round.cur = {s} /\ failed' = failed \ {s}
  BY DEF RpcAnswer
<1>2. /\ store'.offsets = store.offsets /\ store'.mtimes = store.mtimes
      /\ \A r : r \in Range(store'.entries) <=>
             \/ r \in Range(store.entries)
             \/ \E i \in 1 .. Len(sess[s]) :
                   /\ StepIndices(s, i) = {} \/ i > round.start
                   /\ r = Fetched(s, i)
      /\ round' = [round EXCEPT !.at = round'.at, !.next = round'.next, !.fetched = round'.fetched]
  BY AnswerEffect DEF Types
<1>3. /\ round.start \in Nat /\ store.offsets[s] \in Nat /\ Len(sess[s]) \in Nat
      /\ s \notin raced => round.start <= store.offsets[s]
  BY <1>1 DEF Types, SessTypes, RoundTypes, Rounds, StoreTypes, IsStore, Delivery, RoundKeeps
<1>4. ASSUME s \notin raced, NEW i \in 1 .. Len(sess[s]) PROVE Fetched(s, i) \in Recs'
  <2>1. CASE StepIndices(s, i) = {} \/ i > round.start
    <3>1. Fetched(s, i) \in Range(store'.entries) BY <1>2, <2>1
    <3> QED BY <3>1 DEF Recs
  <2>2. CASE StepIndices(s, i) # {} /\ ~(i > round.start)
    <3>1. i <= store.offsets[s] BY <1>3, <1>4, <2>2
    <3> QED BY <1>4, <2>2, <3>1 DEF Delivery, OffsetsKept
  <2> QED BY <2>1, <2>2
<1>5. OffsetsKept'
  <2> SUFFICES ASSUME NEW t \in Sessions \ raced, NEW i \in 1 .. Len(sess[t]),
                      StepIndices(t, i) # {}, i <= store.offsets[t]
               PROVE  Fetched(t, i) \in Recs'
    BY <1>1, <1>2 DEF OffsetsKept, StepIndices, Fetched
  <2> QED BY DEF Delivery, OffsetsKept
<1>6. MarksKept'
  <2> SUFFICES ASSUME NEW t \in Sessions \ raced, NEW i \in 1 .. Len(sess[t]), sess[t][i] <= store.mtimes[t]
               PROVE  t \in failed' \/ Fetched(t, i) \in Recs'
    BY <1>1, <1>2 DEF MarksKept, Fetched
  <2>1. CASE t = s BY <1>4, <2>1
  <2>2. CASE t # s BY <1>1, <2>2 DEF Delivery, MarksKept
  <2> QED BY <2>1, <2>2
<1>7. RoundKeeps'
  <2>1. round'.cur = {s} /\ round'.at \in {"advance", "mark"}
    <3>1. round'.cur = round.cur BY <1>2 DEF Types, RoundTypes, Rounds
    <3>2. round'.at \in {"advance", "mark"} BY AnswerEffect DEF Types
    <3> QED BY <1>1, <3>1, <3>2
  <2>2. ASSUME NEW t \in Sessions, round'.cur = {t} PROVE t = s BY <2>1, <2>2
  <2>3. s \notin raced => \A i \in 1 .. Len(sess'[s]) : Fetched(s, i) \in Recs' BY <1>1, <1>4
  <2> SUFFICES ASSUME NEW t \in Sessions \ raced, round'.cur = {t}
               PROVE  \A i \in 1 .. Len(sess'[t]) : Fetched(t, i) \in Recs'
    BY <2>1 DEF RoundKeeps, Fetched
  <2> QED BY <2>2, <2>3
<1> QED BY <1>5, <1>6, <1>7

LEMMA DeliveryAdvance ==
    ASSUME Types, Types', Delivery, Recs \subseteq Recs', raced' = raced, NEW s \in Sessions, Advance(s)
    PROVE  OffsetsKept' /\ MarksKept' /\ RoundKeeps'
<1>1. /\ UNCHANGED <<sess, mtime, failed>> /\ round.at = "advance" /\ round.cur = {s}
      /\ store' = AdvanceOffset(store, s, round.next) /\ round' = [round EXCEPT !.at = "mark"]
  BY DEF Advance
<1>2. /\ store'.mtimes = store.mtimes
      /\ \A t \in Sessions : store'.offsets[t] =
             IF t = s /\ round.next > store.offsets[s] THEN round.next ELSE store.offsets[t]
  BY <1>1, StoreAdvanced DEF Types, StoreTypes, RoundTypes, Rounds
<1>3. OffsetsKept'
  <2> SUFFICES ASSUME NEW t \in Sessions \ raced, NEW i \in 1 .. Len(sess[t]),
                      StepIndices(t, i) # {}, i <= store'.offsets[t]
               PROVE  Fetched(t, i) \in Recs'
    BY <1>1 DEF OffsetsKept, StepIndices, Fetched
  <2>1. CASE t = s /\ round.next > store.offsets[s]
    <3>1. i <= round.next BY <1>2, <2>1
    <3> QED BY <1>1, <2>1, <3>1 DEF Delivery, RoundKeeps
  <2>2. CASE ~(t = s /\ round.next > store.offsets[s])
    <3>1. i <= store.offsets[t] BY <1>2, <2>2
    <3> QED BY <3>1 DEF Delivery, OffsetsKept
  <2> QED BY <2>1, <2>2
<1>4. MarksKept'
  <2> SUFFICES ASSUME NEW t \in Sessions \ raced, NEW i \in 1 .. Len(sess[t]), sess[t][i] <= store.mtimes[t]
               PROVE  t \in failed \/ Fetched(t, i) \in Recs'
    BY <1>1, <1>2 DEF MarksKept, Fetched
  <2> QED BY DEF Delivery, MarksKept
<1>5. RoundKeeps'
  <2>1. /\ round'.at = "mark" /\ round'.cur = {s} /\ round'.fetched = round.fetched
        /\ round'.listed = round.listed /\ round'.stored = round.stored
    BY <1>1 DEF Types, RoundTypes, Rounds
  <2>2. ASSUME NEW t \in Sessions, round'.cur = {t} PROVE t = s BY <2>1, <2>2
  <2>3. s \notin raced /\ (round.fetched \/ round.listed[s] > round.stored) =>
            \A i \in 1 .. Len(sess[s]) :
                sess[s][i] <= round.listed[s] => s \in failed \/ Fetched(s, i) \in Recs'
    BY <1>1 DEF Delivery, RoundKeeps
  <2> SUFFICES ASSUME NEW t \in Sessions \ raced, round'.cur = {t},
                      round.fetched \/ round.listed[t] > round.stored,
                      NEW i \in 1 .. Len(sess[t]), sess[t][i] <= round.listed[t]
               PROVE  t \in failed \/ Fetched(t, i) \in Recs'
    BY <1>1, <2>1 DEF RoundKeeps, Fetched
  <2> QED BY <2>2, <2>3
<1> QED BY <1>3, <1>4, <1>5

LEMMA DeliveryMark ==
    ASSUME Types, Types', Delivery, Recs \subseteq Recs', raced' = raced, NEW s \in Sessions, Mark(s)
    PROVE  OffsetsKept' /\ MarksKept' /\ RoundKeeps'
<1>1. UNCHANGED <<sess, mtime, failed>> /\ round.at = "mark" /\ round.cur = {s} BY DEF Mark
<1>2. /\ store'.offsets = store.offsets
      /\ \A t \in Sessions :
             \/ store'.mtimes[t] = store.mtimes[t]
             \/ /\ t = s /\ store'.mtimes[t] = round.listed[t]
                /\ round.fetched \/ round.listed[s] > round.stored
      /\ round'.at = "pick"
  BY MarkEffect DEF Types
<1>3. OffsetsKept'
  <2> SUFFICES ASSUME NEW t \in Sessions \ raced, NEW i \in 1 .. Len(sess[t]),
                      StepIndices(t, i) # {}, i <= store.offsets[t]
               PROVE  Fetched(t, i) \in Recs'
    BY <1>1, <1>2 DEF OffsetsKept, StepIndices, Fetched
  <2> QED BY DEF Delivery, OffsetsKept
<1>4. MarksKept'
  <2> SUFFICES ASSUME NEW t \in Sessions \ raced, NEW i \in 1 .. Len(sess[t]), sess[t][i] <= store'.mtimes[t]
               PROVE  t \in failed \/ Fetched(t, i) \in Recs'
    BY <1>1 DEF MarksKept, Fetched
  <2>1. CASE store'.mtimes[t] = store.mtimes[t] BY <2>1 DEF Delivery, MarksKept
  <2>2. CASE /\ t = s /\ store'.mtimes[t] = round.listed[t]
             /\ round.fetched \/ round.listed[s] > round.stored
    <3>1. sess[s][i] <= round.listed[s] BY <2>2
    <3>2. s \in failed \/ Fetched(s, i) \in Recs BY <1>1, <2>2, <3>1 DEF Delivery, RoundKeeps
    <3> QED BY <2>2, <3>2
  <2> QED BY <1>2, <2>1, <2>2
<1>5. RoundKeeps' BY <1>2, RoundAtNone
<1> QED BY <1>3, <1>4, <1>5

LEMMA DeliveryIngest ==
    ASSUME Types, Types', Delivery, Recs \subseteq Recs', raced' = raced, IngestStep
    PROVE  OffsetsKept' /\ MarksKept' /\ RoundKeeps'
<1>1. \A s \in Sessions : store.offsets[s] \in Nat /\ store.mtimes[s] \in Nat
  BY DEF Types, StoreTypes, IsStore
<1>2. ASSUME SessGrow, UNCHANGED failed, store'.offsets = store.offsets, store'.mtimes = store.mtimes,
             RoundKeeps'
      PROVE  OffsetsKept' /\ MarksKept' /\ RoundKeeps'
  BY <1>1, <1>2, MarksBehind DEF Delivery
<1>3. ASSUME NEW s \in Sessions, Work(s) PROVE OffsetsKept' /\ MarksKept' /\ RoundKeeps'
  <2>1. UNCHANGED <<store, round, failed>> BY <1>3 DEF Work
  <2>2. SessGrow BY <1>3, WorkSess DEF Types
  <2>3. RoundKeeps' BY <2>1, <2>2, RoundStays DEF Delivery
  <2> QED BY <1>2, <2>1, <2>2, <2>3
<1>4. CASE ListSome \/ IngestOffline \/ ReadTranscripts \/ SkipTranscripts
  <2>1. UNCHANGED <<sess, mtime, store, failed>>
    BY <1>4 DEF ListSome, IngestList, IngestOffline, ReadTranscripts, SkipTranscripts
  <2>2. round'.cur = {}
    <3>1. CASE ListSome
      <4>1. PICK l \in SUBSET Sessions : IngestList(l) BY <3>1 DEF ListSome
      <4>2. PICK m : round' = [NoRound EXCEPT !.at = "pick", !.todo = l, !.listed = m]
        BY <4>1 DEF IngestList
      <4> QED BY <4>2 DEF NoRound
    <3>2. CASE IngestOffline BY <3>2 DEF IngestOffline, NoRound
    <3>3. CASE ReadTranscripts
      <4>1. round' = [NoRound EXCEPT !.at = "estimates"] BY <3>3 DEF ReadTranscripts
      <4> QED BY <4>1 DEF NoRound
    <3>4. CASE SkipTranscripts BY <3>4 DEF SkipTranscripts, NoRound
    <3> QED BY <1>4, <3>1, <3>2, <3>3, <3>4
  <2>3. SessGrow BY <2>1, SameSess DEF Types
  <2> QED BY <1>2, <2>1, <2>2, <2>3, RoundAtNone
<1>5. CASE Flush
  <2>1. /\ UNCHANGED <<sess, mtime, failed>> /\ store' = [store EXCEPT !.dirty = FALSE]
        /\ round' = [NoRound EXCEPT !.at = "transcripts", !.covered = round.covered]
    BY <1>5 DEF Flush
  <2>2. store'.offsets = store.offsets /\ store'.mtimes = store.mtimes
    BY <2>1, StoreFlushed DEF Types, StoreTypes
  <2>3. round'.cur = {} BY <2>1 DEF NoRound
  <2>4. SessGrow BY <2>1, SameSess DEF Types
  <2> QED BY <1>2, <2>1, <2>2, <2>3, <2>4, RoundAtNone
<1>6. CASE AppendEstimates
  <2>1. UNCHANGED <<sess, mtime, failed>> /\ store' = Appended(store, parsed) /\ round' = NoRound
    BY <1>6 DEF AppendEstimates
  <2>2. store'.offsets = store.offsets /\ store'.mtimes = store.mtimes
    BY <2>1, StoreAppended DEF Types, StoreTypes, ReadTypes
  <2>3. round'.cur = {} BY <2>1 DEF NoRound
  <2>4. SessGrow BY <2>1, SameSess DEF Types
  <2> QED BY <1>2, <2>1, <2>2, <2>3, <2>4, RoundAtNone
<1>7. ASSUME NEW s \in Sessions, RpcFail(s) \/ PickSkip(s) \/ PickFetch(s) \/ RpcAnswer(s)
                                     \/ Advance(s) \/ Mark(s)
      PROVE  OffsetsKept' /\ MarksKept' /\ RoundKeeps'
  BY <1>7, DeliveryFail, DeliveryPick, DeliveryAnswer, DeliveryAdvance, DeliveryMark
<1> QED BY <1>3, <1>4, <1>5, <1>6, <1>7 DEF IngestStep, FetchStep, TranscriptStep

\* A reset of the store starts over: there are no marks, and the session the round
\* is at becomes the one that is not answered for.
LEMMA DeliveryReset ==
    ASSUME Types, Types', ResetStore
    PROVE  OffsetsKept' /\ MarksKept' /\ RoundKeeps'
<1>1. RebuildStore /\ raced' = round.cur BY DEF ResetStore
<1>2. store' = Open(EmptyDisk) /\ round' = round BY <1>1 DEF RebuildStore
<1>3. \A s \in Sessions : store'.offsets[s] = 0 /\ store'.mtimes[s] = 0
  BY <1>2, StoreOpened, EmptyDiskTypes
<1>4. \A s \in Sessions : \A i \in 1 .. Len(sess'[s]) : sess'[s][i] \in 1 .. mtime'[s]
  BY DEF Types, SessTypes
<1>5. OffsetsKept' BY <1>3 DEF OffsetsKept
<1>6. MarksKept'
  <2> SUFFICES ASSUME NEW s \in Sessions, NEW i \in 1 .. Len(sess'[s]) PROVE ~(sess'[s][i] <= 0)
    BY <1>3 DEF MarksKept
  <2>1. mtime'[s] \in Nat BY IngestAssumption DEF Types, SessTypes
  <2> QED BY <1>4, <2>1
<1>7. RoundKeeps'
  <2>1. \A s \in Sessions \ raced' : round'.cur # {s} BY <1>1, <1>2
  <2> QED BY <2>1 DEF RoundKeeps
<1> QED BY <1>5, <1>6, <1>7

\* What does not touch the marks, or sets them back to those on disk.
LEMMA DeliveryElse ==
    ASSUME Types, Types', Delivery, Recs \subseteq Recs', raced' = raced, Streams, [Next]_vars,
           ~IngestStep, ~ResetStore
    PROVE  OffsetsKept' /\ MarksKept' /\ RoundKeeps'
<1>1. \A s \in Sessions :
          /\ store.offsets[s] \in Nat /\ store.mtimes[s] \in Nat
          /\ disk.offsets[s] <= store.offsets[s] /\ disk.mtimes[s] <= store.mtimes[s]
  BY DEF Types, StoreTypes, IsStore
<1>2. ASSUME UNCHANGED <<sess, mtime, round, failed>>,
             store'.offsets = store.offsets, store'.mtimes = store.mtimes
      PROVE  OffsetsKept' /\ MarksKept' /\ RoundKeeps'
  <2>1. SessGrow BY <1>2, SameSess DEF Types
  <2> QED BY <1>1, <1>2, <2>1, MarksBehind, RoundStays DEF Delivery
<1>3. CASE UNCHANGED <<sess, mtime, store, round, failed>> BY <1>2, <1>3
<1>4. CASE \/ Stamp \/ Show \/ Tick \/ Send \/ Ingest \/ IngestError \/ Upsert \/ UNCHANGED vars
           \/ ClearStorage \/ ResetTranscripts \/ Broadcast
  <2>1. UNCHANGED <<sess, mtime, store, round, failed>>
    BY <1>4 DEF Stamp, Show, Tick, Send, Ingest, IngestError, Upsert, vars, ingestVars, NotFaults,
                ClearStorage, ResetTranscripts, RebuildTranscripts, Broadcast
  <2> QED BY <1>3, <2>1
<1>5. CASE Wake \/ ReceiveCommand
  <2>1. PICK since : Collect(since) BY <1>5 DEF Wake, ReceiveCommand
  <2>2. CollectStore(since) BY <2>1 DEF Collect, CollectFiles, CollectError
  <2>3. UNCHANGED <<sess, mtime, round, failed>> /\ store' = AfterPull(store, "framework")
    BY <2>2 DEF CollectStore, NotTheStore
  <2>4. store'.offsets = store.offsets /\ store'.mtimes = store.mtimes
    BY <2>3, StorePulled DEF Types, StoreTypes
  <2> QED BY <1>2, <2>3, <2>4
<1>6. CASE Crash
  <2>1. PICK saved \in Cuts : Restart(saved) BY <1>6, CrashRestarts
  <2>2. UNCHANGED <<sess, mtime, failed>> /\ round' = NoRound /\ store' = Open(saved) BY <2>1 DEF Restart
  <2>3. saved \in Disks
        /\ \A s \in Sessions : saved.offsets[s] <= store.offsets[s] /\ saved.mtimes[s] <= store.mtimes[s]
    BY CutsBehind DEF Types
  <2>4. store'.offsets = saved.offsets /\ store'.mtimes = saved.mtimes BY <2>2, <2>3, StoreOpened
  <2>5. SessGrow BY <2>2, SameSess DEF Types
  <2>6. RoundKeeps' BY <2>2, RoundAtNone DEF NoRound
  <2> QED BY <2>2, <2>3, <2>4, <2>5, <2>6, MarksBehind DEF Delivery
<1> QED BY <1>4, <1>5, <1>6 DEF Next, RebuildStep

LEMMA DeliveryStep ==
    ASSUME Types, Types', Delivery, [Next]_vars
    PROVE  Delivery'
<1>1. FilesOnly'
  <2>1. kind' = kind
    BY DEF Next, IngestStep, OnlyIngest, Stamp, Show, Tick, Wake, ReceiveCommand, Collect, CollectStore,
           CollectFiles, CollectError, Send, Ingest, IngestError, Upsert, ClearStorage, RebuildStep,
             ResetStore, ResetTranscripts, Broadcast, Crash, vars
  <2>2. CASE Streams BY <2>1, <2>2 DEF FilesOnly, Streams
  <2>3. CASE ~Streams
    <3>1. sess' = sess /\ round'.cur \in {round.cur, {}}
      BY <2>3 DEF Next, IngestStep, Stamp, Show, Tick, Wake, ReceiveCommand, Collect, CollectStore,
             CollectFiles, CollectError, Send, Ingest, IngestError, Upsert, ClearStorage, RebuildStep,
             ResetStore, ResetTranscripts, Broadcast, Crash, vars,
             ingestVars, NotFaults, RebuildStore, RebuildTranscripts, Restart, NotTheStore, NoRound
    <3> QED BY <2>1, <2>3, <3>1 DEF Delivery, FilesOnly, Streams
  <2> QED BY <2>2, <2>3
<1>2. CASE Streams
  <2>1. CASE ResetStore BY <1>1, <2>1, DeliveryReset DEF Delivery
  <2>2. CASE ~ResetStore
    <3>1. Recs \subseteq Recs' /\ raced' = raced BY <1>2, <2>2, LostKept, RecsKept
    <3> QED BY <1>1, <1>2, <2>2, <3>1, DeliveryIngest, DeliveryElse DEF Delivery
  <2> QED BY <2>1, <2>2
<1>3. CASE ~Streams
  <2>1. sess' = sess
    BY <1>3 DEF Next, IngestStep, Stamp, Show, Tick, Wake, ReceiveCommand, Collect, CollectStore,
           CollectFiles, CollectError, Send, Ingest, IngestError, Upsert, ClearStorage, RebuildStep,
             ResetStore, ResetTranscripts, Broadcast, Crash, vars,
           ingestVars, NotFaults, RebuildStore, RebuildTranscripts, Restart
  <2>2. \A s \in Sessions : 1 .. Len(sess'[s]) = {} BY <1>3, <2>1 DEF Delivery, FilesOnly
  <2>3. OffsetsKept' /\ MarksKept' BY <2>2 DEF OffsetsKept, MarksKept
  <2>4. kind' = kind
    BY DEF Next, IngestStep, OnlyIngest, Stamp, Show, Tick, Wake, ReceiveCommand, Collect, CollectStore,
           CollectFiles, CollectError, Send, Ingest, IngestError, Upsert, ClearStorage, RebuildStep,
             ResetStore, ResetTranscripts, Broadcast, Crash, vars
  <2>5. round'.cur = {} BY <1>1, <1>3, <2>4 DEF FilesOnly, Streams
  <2> QED BY <1>1, <2>3, <2>5, RoundAtNone DEF Delivery
<1> QED BY <1>2, <1>3

LEMMA DeliveryInit == Init => Delivery
<1> SUFFICES ASSUME Init PROVE Delivery
  OBVIOUS
<1>1. \A s \in Sessions : sess[s] = <<>> /\ 1 .. Len(sess[s]) = {} BY DEF Init, IngestInit
<1>2. round.cur = {} BY DEF Init, IngestInit, NoRound
<1> QED BY <1>1, <1>2 DEF Delivery, FilesOnly, OffsetsKept, MarksKept, RoundKeeps

LEMMA DeliveryHolds == Spec => []Delivery
<1>1. Types /\ Types' /\ Delivery /\ [Next]_vars => Delivery' BY DeliveryStep
<1> QED BY <1>1, DeliveryInit, TypesHold, PTL DEF Spec

\* FetchedIsKept holds whatever appends, pulls, failed pushes, crashes, restarts and
\* steps of a Rebuild come between the steps of a round: a step offset never passes
\* a call whose record is nowhere, but in a session whose fetch a Rebuild met.
THEOREM CollectorFetchedIsKept == Spec => []FetchedIsKept
<1>1. Delivery => FetchedIsKept
  <2> SUFFICES ASSUME Delivery, NEW c \in Calls, c[1] \notin raced,
                      StepIndices(c[1], c[2]) # {}, c[2] <= store.offsets[c[1]]
               PROVE  Accounted(Fetched(c[1], c[2]))
    BY DEF FetchedIsKept
  <2>1. c[1] \in Sessions /\ c[2] \in 1 .. MaxMtime /\ c[2] <= Len(sess[c[1]]) BY DEF Calls
  <2>2. c[2] \in 1 .. Len(sess[c[1]]) BY <2>1, IngestAssumption
  <2> QED BY <2>1, <2>2, RecsAccounted DEF Delivery, OffsetsKept
<1> QED BY <1>1, DeliveryHolds, PTL

\* MarkedIsFetched, likewise: a stored time never passes a call of the session that
\* was not fetched, unless its last fetch failed or a Rebuild met it.
THEOREM CollectorMarkedIsFetched == Spec => []MarkedIsFetched
<1>1. Delivery => MarkedIsFetched
  <2> SUFFICES ASSUME Delivery, NEW c \in Calls, c[1] \notin raced, sess[c[1]][c[2]] <= store.mtimes[c[1]]
               PROVE  c[1] \in failed \/ Accounted(Fetched(c[1], c[2]))
    BY DEF MarkedIsFetched
  <2>1. c[1] \in Sessions /\ c[2] \in 1 .. MaxMtime /\ c[2] <= Len(sess[c[1]]) BY DEF Calls
  <2>2. c[2] \in 1 .. Len(sess[c[1]]) BY <2>1, IngestAssumption
  <2> QED BY <2>1, <2>2, RecsAccounted DEF Delivery, MarksKept
<1> QED BY <1>1, DeliveryHolds, PTL

-----------------------------------------------------------------------------
(* What a step hands on *)

LEMMA KindStays ==
    ASSUME [Next]_vars
    PROVE  kind' = kind
  BY DEF Next, IngestStep, OnlyIngest, Stamp, Show, Tick, Wake, ReceiveCommand, Collect, CollectStore,
         CollectFiles, CollectError, Send, Ingest, IngestError, Upsert, ClearStorage, RebuildStep,
         ResetStore, ResetTranscripts, Broadcast, Crash, vars

\* What the ingest task and the channel have, after a step and before.
LEMMA Handed ==
    ASSUME Types, [Next]_vars
    PROVE  Range(batch') \cup Carrying' \cup pool' \subseteq
               Range(batch) \cup Carrying \cup pool \cup
               (IF batch' # batch /\ batch' # <<>> THEN Range(batch') ELSE {})
<1>1. CASE UNCHANGED <<batch, chan, pool>> BY <1>1 DEF Carrying
<1>2. CASE IngestStep \/ Stamp \/ Show \/ Tick \/ Upsert \/ RebuildStep \/ UNCHANGED vars
  BY <1>1, <1>2 DEF IngestStep, OnlyIngest, Stamp, Show, Tick, Upsert, RebuildStep, ResetStore,
                    ResetTranscripts, Broadcast, vars, taskVars
<1>3. CASE Wake \/ ReceiveCommand
  <2>1. UNCHANGED <<chan, pool>>
    BY <1>3 DEF Wake, ReceiveCommand, Collect, CollectStore, CollectFiles, CollectError
  <2>2. Range(<<>>) = {} BY EmptyIsSeq
  <2> QED BY <2>1, <2>2 DEF Carrying
<1>4. CASE Send
  <2>1. batch' = <<>> /\ pool' = pool /\ (chan' = chan \/ chan' = Append(chan, batch)) BY <1>4 DEF Send
  <2>2. Range(<<>>) = {} BY EmptyIsSeq
  <2>3. CASE chan' = chan BY <2>1, <2>2, <2>3 DEF Carrying
  <2>4. CASE chan' = Append(chan, batch)
    <3>1. Range(chan') = Range(chan) \cup {batch} BY <2>4, AppendIsSeq DEF Types, TaskTypes
    <3> QED BY <2>1, <2>2, <3>1 DEF Carrying
  <2> QED BY <2>1, <2>3, <2>4
<1>5. CASE Ingest \/ IngestError
  <2>1. chan # <<>> /\ chan' = Tail(chan) /\ batch' = batch /\ pool' \subseteq pool \cup Range(Head(chan))
    BY <1>5 DEF Ingest, IngestError, taskVars
  <2>2. Range(chan) = {Head(chan)} \cup Range(chan') BY <2>1, HeadTailIsSeq DEF Types, TaskTypes
  <2> QED BY <2>1, <2>2 DEF Carrying
<1>6. CASE ClearStorage
  <2>1. UNCHANGED <<batch, chan>> /\ pool' \subseteq pool BY <1>6 DEF ClearStorage, taskVars
  <2> QED BY <2>1 DEF Carrying
<1>7. CASE Crash
  <2>1. batch' = <<>> /\ chan' = <<>> /\ pool' = pool BY <1>7 DEF Crash
  <2>2. Range(<<>>) = {} BY EmptyIsSeq
  <2> QED BY <2>1, <2>2 DEF Carrying
<1> QED BY <1>2, <1>3, <1>4, <1>5, <1>6, <1>7 DEF Next

\* What a step of a source that keeps a store adds to what it has: nothing, or what
\* an answer holds, or what it read of the transcripts.
LEMMA EntriesFrom ==
    ASSUME IngestTypes, IngestStep
    PROVE  /\ \A r \in Range(store'.entries) :
                  \/ r \in Range(store.entries)
                  \/ \E s \in Sessions, i \in Nat : r = Fetched(s, i)
                  \/ r \in Range(parsed)
           /\ \A r \in Range(parsed') :
                  \/ r \in Range(parsed)
                  \/ \E s \in Sessions : r \in Range(EstimatesFrom(s, toff[s], Len(sess[s])))
<1>1. IsStore(store) BY DEF IngestTypes, StoreTypes
<1>2. ASSUME NEW s \in Sessions, Work(s) \/ RpcFail(s) \/ PickSkip(s) \/ PickFetch(s)
      PROVE  store' = store /\ parsed' = parsed
  BY <1>2 DEF Work, RpcFail, PickSkip, PickFetch
<1>3. CASE ListSome \/ IngestOffline \/ SkipTranscripts
  BY <1>3 DEF ListSome, IngestList, IngestOffline, SkipTranscripts
<1>4. ASSUME NEW s \in Sessions, RpcAnswer(s)
      PROVE  /\ \A r \in Range(store'.entries) :
                    r \in Range(store.entries) \/ \E i \in Nat : r = Fetched(s, i)
             /\ parsed' = parsed
  <2>1. parsed' = parsed BY <1>4 DEF RpcAnswer
  <2>2. ASSUME NEW r \in Range(store'.entries)
        PROVE r \in Range(store.entries) \/ \E i \in 1 .. Len(sess[s]) : r = Fetched(s, i)
    BY <1>4, AnswerEffect DEF IngestTypes
  <2>3. 1 .. Len(sess[s]) \subseteq Nat BY DEF IngestTypes, SessTypes
  <2> QED BY <2>1, <2>2, <2>3
<1>5. ASSUME NEW s \in Sessions, Advance(s) PROVE store'.entries = store.entries /\ parsed' = parsed
  <2>1. store' = AdvanceOffset(store, s, round.next) /\ round.next \in Nat /\ parsed' = parsed
    BY <1>5 DEF Advance, IngestTypes, RoundTypes, Rounds
  <2> QED BY <1>1, <2>1, StoreAdvanced
<1>6. ASSUME NEW s \in Sessions, Mark(s) PROVE store'.entries = store.entries /\ parsed' = parsed
  <2>1. parsed' = parsed BY <1>6 DEF Mark
  <2> QED BY <1>6, <2>1, MarkEffect DEF IngestTypes
<1>7. CASE Flush
  <2>1. store' = [store EXCEPT !.dirty = FALSE] /\ disk \in Disks /\ parsed' = parsed
    BY <1>7 DEF Flush, IngestTypes, StoreTypes
  <2>2. store'.entries = store.entries BY <1>1, <2>1, StoreFlushed
  <2> QED BY <2>1, <2>2
<1>8. CASE AppendEstimates
  <2>1. store' = Appended(store, parsed) /\ IsSeq(parsed) /\ parsed' = <<>>
    BY <1>8 DEF AppendEstimates, IngestTypes, ReadTypes
  <2>2. Range(store'.entries) = Range(store.entries) \cup Range(parsed) BY <1>1, <2>1, StoreAppended
  <2> QED BY <2>1, <2>2, EmptyIsSeq
<1>9. CASE ReadTranscripts
  <2>1. store' = store BY <1>9 DEF ReadTranscripts
  <2>2. \A r : r \in Range(parsed') <=>
            \E s \in Sessions \ round.covered : r \in Range(EstimatesFrom(s, toff[s], Len(sess[s])))
    BY <1>9, ReadEffect DEF IngestTypes
  <2> QED BY <2>1, <2>2
<1> QED BY <1>2, <1>3, <1>4, <1>5, <1>6, <1>7, <1>8, <1>9 DEF IngestStep, FetchStep, TranscriptStep

Held == Range(store.entries) \cup Range(batch) \cup Carrying \cup pool \cup Range(parsed)

\* The same of a step of any part.
LEMMA HeldFrom ==
    ASSUME Types, [Next]_vars, Streams
    PROVE  \A r \in Held' : \/ r \in Held
                            \/ \E s \in Sessions, i \in Nat : r = Fetched(s, i)
                            \/ IngestStep /\ \E s \in Sessions : r \in Range(EstimatesFrom(s, toff[s], Len(sess[s])))
<1>1. /\ \A r \in Range(store'.entries) :
             \/ r \in Held
             \/ \E s \in Sessions, i \in Nat : r = Fetched(s, i)
      /\ \A r \in Range(parsed') :
             \/ r \in Held
             \/ IngestStep /\ \E s \in Sessions : r \in Range(EstimatesFrom(s, toff[s], Len(sess[s])))
      /\ Range(batch') \subseteq Held
  <2>1. CASE IngestStep
    <3>1. batch' = batch BY <2>1 DEF IngestStep, OnlyIngest, taskVars
    <3> QED BY <2>1, <3>1, EntriesFrom DEF Types, IngestTypes, Held
  <2>2. CASE Wake \/ ReceiveCommand
    <3>1. \E since : CollectStore(since)
      BY <2>2 DEF Wake, ReceiveCommand, Collect, CollectFiles, CollectError
    <3>2. batch' = Pulled(store, "framework") /\ store' = AfterPull(store, "framework") /\ parsed' = parsed
      BY <3>1 DEF CollectStore, NotTheStore
    <3>3. batch' = store.entries /\ store'.entries = <<>> BY <3>2, StorePulled DEF Types, StoreTypes
    <3> QED BY <3>2, <3>3, EmptyIsSeq DEF Held
  <2>3. CASE ResetStore
    <3>1. store' = Open(EmptyDisk) /\ parsed' = parsed /\ batch' = batch
      BY <2>3 DEF ResetStore, RebuildStore, taskVars
    <3>2. store'.entries = <<>> BY <3>1 DEF Open
    <3> QED BY <3>1, <3>2, EmptyIsSeq DEF Held
  <2>4. CASE Crash
    <3>1. PICK saved \in Cuts : Restart(saved) BY <2>4, CrashRestarts
    <3>2. batch' = <<>> /\ parsed' = <<>> /\ store' = Open(saved) BY <2>4, <3>1 DEF Crash, Restart
    <3>3. store'.entries = <<>> BY <3>2 DEF Open
    <3> QED BY <3>2, <3>3, EmptyIsSeq DEF Held
  <2>5. CASE \/ Stamp \/ Show \/ Tick \/ Send \/ Ingest \/ IngestError \/ Upsert
             \/ ClearStorage \/ ResetTranscripts \/ Broadcast \/ UNCHANGED vars
    <3>1. store' = store /\ parsed' = parsed /\ (batch' = batch \/ batch' = <<>>)
      BY <2>5 DEF Stamp, Show, Tick, Send, Ingest, IngestError, Upsert, ClearStorage, ResetTranscripts,
                  RebuildTranscripts, Broadcast, vars, ingestVars, taskVars, NotFaults
    <3> QED BY <3>1, EmptyIsSeq DEF Held
  <2> QED BY <2>1, <2>2, <2>3, <2>4, <2>5 DEF Next, RebuildStep
<1>2. Carrying' \cup pool' \subseteq Held \cup Range(batch')
  <2>1. Range(batch) \cup Carrying \cup pool \subseteq Held BY DEF Held
  <2> QED BY <2>1, Handed
<1> QED BY <1>1, <1>2 DEF Held

-----------------------------------------------------------------------------
(* How many batches of the channel have a record *)

BatchesOf(r, c) == {n \in 1 .. Len(c) : r \in Range(c[n])}
Batches(r, c) == Cardinality(BatchesOf(r, c))

One(b) == IF b THEN 1 ELSE 0

LEMMA BatchesFinite ==
    ASSUME NEW r, NEW c, IsSeq(c)
    PROVE  IsFiniteSet(BatchesOf(r, c)) /\ Batches(r, c) \in Nat
<1>1. IsFiniteSet(1 .. Len(c)) BY FS_Interval DEF IsSeq
<1>2. IsFiniteSet(BatchesOf(r, c)) BY <1>1, FS_Subset DEF BatchesOf
<1> QED BY <1>2, FS_CardinalityType DEF Batches

LEMMA BatchesNone == \A r : Batches(r, <<>>) = 0
<1> TAKE r
<1>1. BatchesOf(r, <<>>) = {} BY DEF BatchesOf
<1> QED BY <1>1, FS_EmptySet DEF Batches

LEMMA BatchesAppended ==
    ASSUME NEW r, NEW c, NEW b, IsSeq(c)
    PROVE  Batches(r, Append(c, b)) = Batches(r, c) + One(r \in Range(b))
<1> DEFINE d == Append(c, b)
           n == Len(c)
<1>1. n \in Nat /\ Len(d) = n + 1 BY AppendIsSeq
<1>2. d[n + 1] = b /\ \A m \in 1 .. n : d[m] = c[m] BY DEF IsSeq
<1> HIDE DEF d, n
<1>3. BatchesOf(r, d) = BatchesOf(r, c) \cup (IF r \in Range(b) THEN {n + 1} ELSE {})
  <2>1. \A m : m \in 1 .. n + 1 <=> (m \in 1 .. n \/ m = n + 1) BY <1>1
  <2>2. \A m \in 1 .. n : r \in Range(d[m]) <=> r \in Range(c[m]) BY <1>2
  <2>3. r \in Range(d[n + 1]) <=> r \in Range(b) BY <1>2
  <2>4. BatchesOf(r, d) = {m \in 1 .. n + 1 : r \in Range(d[m])} BY <1>1 DEF BatchesOf
  <2>5. BatchesOf(r, c) = {m \in 1 .. n : r \in Range(c[m])} BY DEF BatchesOf, n
  <2> QED BY <2>1, <2>2, <2>3, <2>4, <2>5
<1>4. n + 1 \notin BatchesOf(r, c) BY <1>1 DEF BatchesOf, n
<1>5. IsFiniteSet(BatchesOf(r, c)) /\ Batches(r, c) \in Nat BY BatchesFinite
<1>6. CASE r \in Range(b)
  <2>1. Cardinality(BatchesOf(r, c) \cup {n + 1}) = Cardinality(BatchesOf(r, c)) + 1
    BY <1>4, <1>5, FS_AddElement
  <2>2. BatchesOf(r, d) = BatchesOf(r, c) \cup {n + 1} BY <1>3, <1>6
  <2> QED BY <1>6, <2>1, <2>2 DEF Batches, One, d
<1>7. CASE r \notin Range(b)
  <2>1. BatchesOf(r, d) = BatchesOf(r, c) BY <1>3, <1>7
  <2> QED BY <1>5, <1>7, <2>1 DEF Batches, One, d
<1> QED BY <1>6, <1>7

LEMMA BatchesTaken ==
    ASSUME NEW r, NEW c, IsSeq(c), c # <<>>
    PROVE  Batches(r, c) = Batches(r, Tail(c)) + One(r \in Range(Head(c)))
<1> DEFINE d == Tail(c)
           n == Len(d)
           S == BatchesOf(r, d)
           T == BatchesOf(r, c) \ {1}
           f == [m \in S |-> m + 1]
<1>1. IsSeq(d) /\ n \in Nat /\ Len(c) = n + 1
  <2>1. IsSeq(d) /\ Len(d) = Len(c) - 1 /\ Len(c) \in Nat BY HeadTailIsSeq
  <2>2. Len(d) \in Nat BY <2>1 DEF IsSeq
  <2> HIDE DEF d
  <2> QED BY <2>1, <2>2
<1>2. Head(c) = c[1] /\ \A m \in 1 .. n : d[m] = c[m + 1]
  <2>1. c \in Seq(Range(c)) BY DEF IsSeq
  <2> QED BY <2>1
<1> HIDE DEF d, n
<1>3. S = {m \in 1 .. n : r \in Range(c[m + 1])}
  <2>1. S = {m \in 1 .. n : r \in Range(d[m])} BY DEF BatchesOf, n
  <2> HIDE DEF S
  <2> QED BY <1>2, <2>1
<1>4. T = {m \in 2 .. n + 1 : r \in Range(c[m])}
  <2>1. BatchesOf(r, c) = {m \in 1 .. n + 1 : r \in Range(c[m])} BY <1>1 DEF BatchesOf
  <2>2. \A m : m \in 2 .. n + 1 <=> m \in 1 .. n + 1 /\ m # 1 BY <1>1
  <2> QED BY <2>1, <2>2
<1> HIDE DEF S, T
<1>5. f \in Bijection(S, T)
  <2>1. ASSUME NEW m \in S PROVE m + 1 \in T BY <1>1, <1>3, <1>4, <2>1
  <2>2. ASSUME NEW m \in T PROVE m - 1 \in S /\ m = (m - 1) + 1 BY <1>1, <1>3, <1>4, <2>2
  <2>3. \A a, b \in S : a + 1 = b + 1 => a = b BY <1>1, <1>3
  <2>4. f \in [S -> T] BY <2>1
  <2>5. \A a, b \in S : f[a] = f[b] => a = b BY <2>3
  <2>6. \A t \in T : \E a \in S : f[a] = t BY <2>2
  <2> QED BY <2>4, <2>5, <2>6 DEF Bijection, Injection, Surjection, IsInjective
<1>6. IsFiniteSet(S) /\ Cardinality(T) = Cardinality(S)
  <2>1. IsFiniteSet(S) BY <1>1, BatchesFinite DEF S
  <2>2. ExistsBijection(S, T) BY <1>5 DEF ExistsBijection
  <2> QED BY <2>1, <2>2, FS_Bijection
<1>7. IsFiniteSet(BatchesOf(r, c)) /\ Batches(r, c) \in Nat BY BatchesFinite
<1>8. Cardinality(T) = IF 1 \in BatchesOf(r, c) THEN Cardinality(BatchesOf(r, c)) - 1
                       ELSE Cardinality(BatchesOf(r, c))
  BY <1>7, FS_RemoveElement DEF T
<1>9. 1 \in BatchesOf(r, c) <=> r \in Range(Head(c)) BY <1>1, <1>2 DEF BatchesOf
<1> QED BY <1>6, <1>7, <1>8, <1>9 DEF Batches, One, S, d

-----------------------------------------------------------------------------
(* How often a record is anywhere, and how often it has been handed over *)

IsRecord(r) == r.s \in Sessions /\ r.i \in Nat /\ r.via \in {"rpc", "transcript"}
Counted(r)  == IsRecord(r) /\ StepIndices(r.s, r.i) # {}

Got(r)      == IF r \in DOMAIN sent THEN sent[r] ELSE 0
Waiting(r)  == One(r \in Range(store.entries)) + One(r \in Range(parsed))
OnItsWay(r) == One(r \in Range(batch)) + Batches(r, chan)

\* The marks are past the record: it will not be produced again before they are reset.
Due(r) ==
    IF r.via = "rpc"
    THEN \/ r.i <= store.offsets[r.s]
         \/ round.at = "advance" /\ round.cur = {r.s} /\ r.i <= round.next
    ELSE r.i <= toff[r.s].lines

Owed(r) == One(Due(r))

\* Between the two resets of a Rebuild the transcripts' marks still stand; they will
\* be reset without being counted a second time.
Spare(r) == One(r.via = "transcript" /\ rebuild = "transcripts")

\* The inductive invariant of DeliveredOnce: a fetch starts at an offset that is not
\* behind the store's, and a record has been produced once since the marks were last
\* reset if they are past it, else not at all.
StartAhead == \A s \in Sessions : round.at = "rpc" /\ round.cur = {s} => store.offsets[s] <= round.start

SentTypes ==
    /\ resets \in Nat /\ sent \in [DOMAIN sent -> Nat]
    /\ Streams => (\A r \in Held : IsRecord(r)) /\ (\A r \in DOMAIN sent : Counted(r))
    /\ ~Streams => DOMAIN sent = {}

Copies ==
    Streams => \A r : Counted(r) =>
        Got(r) + Waiting(r) + OnItsWay(r) + Spare(r) <= resets + Owed(r)

Once == StartAhead /\ SentTypes /\ Copies

LEMMA CountsNat ==
    ASSUME Types, SentTypes, NEW r
    PROVE  Got(r) \in Nat /\ Waiting(r) \in Nat /\ OnItsWay(r) \in Nat /\ Batches(r, chan) \in Nat
<1>1. Batches(r, chan) \in Nat BY BatchesFinite DEF Types, TaskTypes
<1>2. Got(r) \in Nat BY DEF Got, SentTypes
<1> QED BY <1>1, <1>2 DEF Waiting, OnItsWay, One

LEMMA StartAheadStep == ASSUME Types, Types', StartAhead, [Next]_vars PROVE StartAhead'
<1>1. \A s \in Sessions : store.offsets[s] \in Nat /\ store'.offsets[s] \in Nat /\ round.start \in Nat
  BY DEF Types, StoreTypes, IsStore, RoundTypes, Rounds
<1>2. CASE round' = round /\ (store'.offsets = store.offsets \/ \A s \in Sessions : store'.offsets[s] = 0)
  BY <1>1, <1>2 DEF StartAhead
<1>3. CASE round'.at # "rpc" BY <1>3 DEF StartAhead
<1>4. ASSUME NEW s \in Sessions, PickFetch(s) PROVE StartAhead'
  <2>1. /\ store' = store
        /\ round' = [round EXCEPT !.at = "rpc", !.cur = {s}, !.todo = @ \ {s},
                         !.start = store.offsets[s], !.stored = store.mtimes[s]]
    BY <1>4 DEF PickFetch
  <2>2. round'.cur = {s} /\ round'.start = store.offsets[s] BY <2>1 DEF Types, RoundTypes, Rounds
  <2>3. \A t \in Sessions : round'.cur = {t} => t = s BY <2>2
  <2> QED BY <1>1, <2>1, <2>2, <2>3 DEF StartAhead
<1>5. CASE IngestStep
  <2>1. round \in Rounds BY DEF Types, RoundTypes
  <2>2. ASSUME NEW s \in Sessions, Work(s) PROVE StartAhead' BY <1>2, <2>2 DEF Work
  <2>3. ASSUME NEW s \in Sessions, RpcFail(s) \/ PickSkip(s) \/ RpcAnswer(s) \/ Advance(s) \/ Mark(s)
        PROVE  round'.at # "rpc"
    <3>1. CASE RpcFail(s)
      <4>1. round' = [round EXCEPT !.at = "mark", !.fetched = FALSE] BY <3>1 DEF RpcFail
      <4> QED BY <2>1, <4>1 DEF Rounds
    <3>2. CASE PickSkip(s)
      <4>1. round' = [round EXCEPT !.todo = @ \ {s}, !.covered = @ \cup {s}] /\ round.at = "pick"
        BY <3>2 DEF PickSkip
      <4> QED BY <2>1, <4>1 DEF Rounds
    <3>3. CASE RpcAnswer(s) BY <3>3, AnswerEffect DEF Types
    <3>4. CASE Advance(s)
      <4>1. round' = [round EXCEPT !.at = "mark"] BY <3>4 DEF Advance
      <4> QED BY <2>1, <4>1 DEF Rounds
    <3>5. CASE Mark(s) BY <3>5, MarkEffect DEF Types
    <3> QED BY <2>3, <3>1, <3>2, <3>3, <3>4, <3>5
  <2>4. CASE ListSome
    <3>1. PICK l \in SUBSET Sessions : IngestList(l) BY <2>4 DEF ListSome
    <3>2. PICK m : round' = [NoRound EXCEPT !.at = "pick", !.todo = l, !.listed = m]
      BY <3>1 DEF IngestList
    <3> QED BY <1>3, <3>2 DEF NoRound
  <2>5. CASE Flush
    <3>1. round' = [NoRound EXCEPT !.at = "transcripts", !.covered = round.covered] BY <2>5 DEF Flush
    <3> QED BY <1>3, <3>1 DEF NoRound
  <2>6. CASE IngestOffline \/ AppendEstimates \/ SkipTranscripts
    BY <1>3, <2>6 DEF IngestOffline, AppendEstimates, SkipTranscripts, NoRound
  <2>7. CASE ReadTranscripts
    <3>1. round' = [NoRound EXCEPT !.at = "estimates"] BY <2>7 DEF ReadTranscripts
    <3> QED BY <1>3, <3>1 DEF NoRound
  <2> QED BY <1>3, <1>4, <1>5, <2>2, <2>3, <2>4, <2>5, <2>6, <2>7 DEF IngestStep, FetchStep, TranscriptStep
<1>6. CASE Wake \/ ReceiveCommand
  <2>1. PICK since : Collect(since) BY <1>6 DEF Wake, ReceiveCommand
  <2>2. CASE CollectStore(since)
    <3>1. round' = round /\ store' = AfterPull(store, "framework") BY <2>2 DEF CollectStore, NotTheStore
    <3> QED BY <1>2, <3>1, StorePulled DEF Types, StoreTypes
  <2>3. CASE CollectFiles(since) \/ CollectError(since)
    BY <1>2, <2>3 DEF CollectFiles, CollectError, NotFaults, ingestVars
  <2> QED BY <2>1, <2>2, <2>3 DEF Collect
<1>7. CASE ResetStore
  <2>1. store' = Open(EmptyDisk) /\ round' = round BY <1>7 DEF ResetStore, RebuildStore
  <2>2. \A s \in Sessions : store'.offsets[s] = 0 BY <2>1, StoreOpened, EmptyDiskTypes
  <2> QED BY <1>2, <2>1, <2>2
<1>8. CASE Crash BY <1>3, <1>8 DEF Crash, Restart, NoRound
<1>9. CASE \/ Stamp \/ Show \/ Tick \/ Send \/ Ingest \/ IngestError \/ Upsert
           \/ ClearStorage \/ ResetTranscripts \/ Broadcast \/ UNCHANGED vars
  BY <1>2, <1>9 DEF Stamp, Show, Tick, Send, Ingest, IngestError, Upsert, ClearStorage,
                    ResetTranscripts, RebuildTranscripts, Broadcast, vars, ingestVars, NotFaults
<1> QED BY <1>5, <1>6, <1>7, <1>8, <1>9 DEF Next, RebuildStep

LEMMA BagsAre == /\ EmptyBag = [e \in {} |-> 1]
                 /\ \A S : SetToBag(S) = [e \in S |-> 1]
                 /\ \A B : BagToSet(B) = DOMAIN B
  BY DEF EmptyBag, SetToBag, BagToSet

\* What the ingest task gets is counted once more.
LEMMA SentEffect ==
    ASSUME sent \in [DOMAIN sent -> Nat], Ingest
    PROVE  /\ sent' \in [DOMAIN sent' -> Nat]
           /\ DOMAIN sent' = DOMAIN sent \cup OnceOnly(Range(Head(chan)))
           /\ \A r : Got(r)' = Got(r) + One(r \in OnceOnly(Range(Head(chan))))
<1> DEFINE S == OnceOnly(Range(Head(chan)))
           B == SetToBag(S)
<1>1. sent' = sent (+) B BY DEF Ingest
<1>2. B = [e \in S |-> 1] /\ DOMAIN B = S BY BagsAre
<1> HIDE DEF S, B
<1>3. sent' = [e \in DOMAIN sent \cup S |->
                  (IF e \in DOMAIN sent THEN sent[e] ELSE 0) + (IF e \in S THEN B[e] ELSE 0)]
  BY <1>1, <1>2 DEF (+)
<1>4. DOMAIN sent' = DOMAIN sent \cup S BY <1>3
<1>5. \A r : Got(r) \in Nat BY DEF Got
<1>6. ASSUME NEW r PROVE Got(r)' = Got(r) + One(r \in S)
  <2>1. CASE r \in DOMAIN sent \cup S
    <3>1. Got(r)' = sent'[r] BY <1>4, <2>1 DEF Got
    <3>2. sent'[r] = Got(r) + (IF r \in S THEN B[r] ELSE 0) BY <1>3, <2>1 DEF Got
    <3> QED BY <1>2, <3>1, <3>2 DEF One
  <2>2. CASE r \notin DOMAIN sent \cup S BY <1>4, <2>2 DEF Got, One
  <2> QED BY <2>1, <2>2
<1>7. ASSUME NEW r \in DOMAIN sent' PROVE sent'[r] \in Nat
  <2>1. sent'[r] = Got(r)' BY <1>7 DEF Got
  <2>2. Got(r)' \in Nat BY <1>5, <1>6 DEF One
  <2> QED BY <2>1, <2>2
<1>8. sent' \in [DOMAIN sent' -> Nat]
  <2>1. sent' = [e \in DOMAIN sent' |-> sent'[e]] BY <1>3, <1>4
  <2> QED BY <1>7, <2>1
<1> QED BY <1>4, <1>6, <1>8 DEF S

\* The pushes, restarts and rebuilds are counted where they happen, and nowhere else.
LEMMA CountStep ==
    ASSUME Types, SentTypes, [Next]_vars
    PROVE  /\ resets' = IF ResetStore \/ Crash THEN resets' ELSE resets
           /\ ResetStore \/ Crash => resets' = resets + 1
           /\ ~Ingest => sent' = sent
<1>1. CASE ResetStore \/ Crash BY <1>1 DEF ResetStore, Crash
<1>2. CASE ~ResetStore /\ ~Crash
  <2>1. CASE UNCHANGED vars BY <1>2, <2>1 DEF vars, ghostVars
  <2>2. CASE IngestStep BY <1>2, <2>2 DEF IngestStep, OnlyIngest, ghostVars
  <2>3. CASE Wake \/ ReceiveCommand
    BY <1>2, <2>3 DEF Wake, ReceiveCommand, Collect, CollectStore, CollectFiles, CollectError, ghostVars
  <2>4. CASE Stamp \/ Show \/ Tick \/ Send \/ Ingest \/ IngestError \/ Upsert
    BY <1>2, <2>4 DEF Stamp, Show, Tick, Send, Ingest, IngestError, Upsert, ghostVars
  <2>5. CASE ClearStorage \/ ResetTranscripts \/ Broadcast
    BY <1>2, <2>5 DEF ClearStorage, ResetTranscripts, Broadcast, ghostVars
  <2> QED BY <1>2, <2>1, <2>2, <2>3, <2>4, <2>5 DEF Next, RebuildStep
<1> QED BY <1>1, <1>2

LEMMA SentTypesStep ==
    ASSUME Types, Types', SentTypes, [Next]_vars
    PROVE  SentTypes'
<1>1. kind' = kind BY KindStays
<1>2. resets' \in Nat BY CountStep DEF SentTypes
<1>3. sent' \in [DOMAIN sent' -> Nat]
  <2>1. CASE Ingest BY <2>1, SentEffect DEF SentTypes
  <2>2. CASE ~Ingest BY <2>2, CountStep DEF SentTypes
  <2> QED BY <2>1, <2>2
<1>4. CASE Streams
  <2>1. \A r \in Held' : IsRecord(r)
    <3> SUFFICES ASSUME NEW r \in Held' PROVE IsRecord(r)
      OBVIOUS
    <3>1. CASE r \in Held BY <1>4, <3>1 DEF SentTypes
    <3>2. CASE \E s \in Sessions, i \in Nat : r = Fetched(s, i) BY <3>2 DEF Fetched, IsRecord
    <3>3. ASSUME NEW s \in Sessions, r \in Range(EstimatesFrom(s, toff[s], Len(sess[s])))
          PROVE  IsRecord(r)
      <4> DEFINE state == toff[s]
                 n == Len(sess[s])
      <4>1. state.lines \in Nat /\ state.lines <= n /\ n \in Nat
        BY DEF Types, ReadTypes, ReadStates, SessTypes
      <4>2. r \in Range(EstimatesFrom(s, state, n)) BY <3>3
      <4> HIDE DEF state, n
      <4>3. PICK c \in state.lines + 1 .. n :
                /\ Line[s][c].kind # "other"
                /\ r = Estimated(s, c, UsageOf(Line[s][c], StatesFrom(s, state, n)[c - state.lines - 1]))
        BY <4>1, <4>2, EstimatesRange
      <4>4. c \in Nat BY <4>1
      <4>5. r.s = s /\ r.i = c /\ r.via = "transcript" BY <4>3 DEF Estimated
      <4> QED BY <4>4, <4>5 DEF IsRecord
    <3> QED BY <1>4, <3>1, <3>2, <3>3, HeldFrom
  <2>2. \A r \in DOMAIN sent' : Counted(r)
    <3>1. CASE Ingest
      <4>1. DOMAIN sent' = DOMAIN sent \cup OnceOnly(Range(Head(chan))) BY <3>1, SentEffect DEF SentTypes
      <4>2. Range(Head(chan)) \subseteq Held
        <5>1. Head(chan) \in Range(chan) BY <3>1, HeadTailIsSeq DEF Ingest, Types, TaskTypes
        <5> QED BY <5>1 DEF Held, Carrying
      <4>3. \A r \in OnceOnly(Range(Head(chan))) : Counted(r)
        BY <1>4, <4>2 DEF OnceOnly, Counted, SentTypes
      <4> QED BY <1>4, <4>1, <4>3 DEF SentTypes
    <3>2. CASE ~Ingest
      <4>1. sent' = sent BY <3>2, CountStep
      <4> QED BY <1>4, <4>1 DEF SentTypes
    <3> QED BY <3>1, <3>2
  <2> QED BY <1>1, <1>2, <1>3, <1>4, <2>1, <2>2 DEF SentTypes, Streams, IsRecord, Counted, StepIndices
<1>5. CASE ~Streams
  <2>1. CASE Ingest
    <3>1. OnceOnly(Range(Head(chan))) = {} BY <1>5 DEF OnceOnly
    <3>2. DOMAIN sent' = {} BY <1>5, <2>1, <3>1, SentEffect DEF SentTypes
    <3> QED BY <1>1, <1>2, <1>3, <1>5, <3>2 DEF SentTypes, Streams
  <2>2. CASE ~Ingest
    <3>1. sent' = sent BY <2>2, CountStep
    <3> QED BY <1>1, <1>2, <1>3, <1>5, <3>1 DEF SentTypes, Streams
  <2> QED BY <2>1, <2>2
<1> QED BY <1>4, <1>5

\* A round may produce a record, if the marks were not past it, and they are then.
LEMMA ProducedOnce ==
    ASSUME Types, Types', Streams, StartAhead, IngestStep, NEW r, Counted(r)
    PROVE  \/ Waiting(r)' <= Waiting(r) /\ (Due(r) => Due(r)')
           \/ Waiting(r)' <= Waiting(r) + 1 /\ ~Due(r) /\ Due(r)'
<1> DEFINE E == r \in Range(store.entries)
           P == r \in Range(parsed)
<1>1. Waiting(r) = One(E) + One(P) /\ Waiting(r)' = One(E') + One(P') BY DEF Waiting
<1>2. /\ r.s \in Sessions /\ r.i \in Nat /\ r.via \in {"rpc", "transcript"}
      /\ StepIndices(r.s, r.i) # {}
  BY DEF Counted, IsRecord
<1>3. /\ \A t \in Sessions : /\ store.offsets[t] \in Nat /\ store'.offsets[t] \in Nat
                             /\ toff[t].lines \in Nat /\ toff'[t].lines \in Nat
                             /\ Len(sess[t]) \in Nat /\ toff[t].lines <= Len(sess[t])
      /\ round \in Rounds /\ round.start \in Nat /\ round.next \in Nat
      /\ round' \in Rounds /\ round'.next \in Nat /\ IsStore(store)
  BY SMTT(30) DEF Types, StoreTypes, IsStore, ReadTypes, ReadStates, SessTypes, RoundTypes, Rounds
<1> HIDE DEF E, P
<1>4. ASSUME E' => E, P' => P, Due(r) => Due(r)' PROVE Waiting(r)' <= Waiting(r) /\ (Due(r) => Due(r)')
  BY <1>1, <1>4 DEF One
<1>5. ASSUME store'.entries = store.entries, parsed' = parsed, toff' = toff,
             store'.offsets = store.offsets, round.at # "advance" \/ round' = round
      PROVE  Waiting(r)' <= Waiting(r) /\ (Due(r) => Due(r)')
  <2>1. E' = E /\ P' = P BY <1>5 DEF E, P
  <2>2. Due(r) => Due(r)' BY <1>5 DEF Due
  <2> QED BY <1>4, <2>1, <2>2
<1>6. ASSUME NEW s \in Sessions, Work(s) \/ RpcFail(s) \/ PickSkip(s) \/ PickFetch(s)
      PROVE  Waiting(r)' <= Waiting(r) /\ (Due(r) => Due(r)')
  BY <1>5, <1>6 DEF Work, RpcFail, PickSkip, PickFetch
<1>7. CASE ListSome \/ IngestOffline \/ SkipTranscripts
  BY <1>5, <1>7 DEF ListSome, IngestList, IngestOffline, SkipTranscripts
<1>8. ASSUME NEW s \in Sessions, Mark(s) PROVE Waiting(r)' <= Waiting(r) /\ (Due(r) => Due(r)')
  <2>1. store'.entries = store.entries /\ store'.offsets = store.offsets
    BY <1>8, MarkEffect DEF Types
  <2> QED BY <1>5, <1>8, <2>1 DEF Mark
<1>9. CASE Flush
  <2>1. store' = [store EXCEPT !.dirty = FALSE] /\ parsed' = parsed /\ toff' = toff /\ round.at = "pick"
    BY <1>9 DEF Flush
  <2>2. store'.entries = store.entries /\ store'.offsets = store.offsets
    BY <2>1, StoreFlushed DEF Types, StoreTypes
  <2> QED BY <1>5, <2>1, <2>2
<1>10. ASSUME NEW s \in Sessions, Advance(s) PROVE Waiting(r)' <= Waiting(r) /\ (Due(r) => Due(r)')
  <2>1. /\ store' = AdvanceOffset(store, s, round.next) /\ parsed' = parsed /\ toff' = toff
        /\ round.at = "advance" /\ round.cur = {s}
    BY <1>10 DEF Advance
  <2>2. /\ store'.entries = store.entries
        /\ \A t \in Sessions : store'.offsets[t] =
               IF t = s /\ round.next > store.offsets[s] THEN round.next ELSE store.offsets[t]
    BY <1>3, <2>1, StoreAdvanced
  <2>3. E' = E /\ P' = P BY <2>1, <2>2 DEF E, P
  <2>4. \A t \in Sessions : store.offsets[t] <= store'.offsets[t] BY <1>3, <2>2
  <2>5. round.next <= store'.offsets[s] BY <1>3, <2>2
  <2>6. Due(r) => Due(r)'
    <3>1. CASE r.via = "rpc" /\ r.i <= store.offsets[r.s]
      <4>1. r.i <= store'.offsets[r.s] BY <1>2, <1>3, <2>4, <3>1
      <4> QED BY <3>1, <4>1 DEF Due
    <3>2. CASE r.via = "rpc" /\ round.cur = {r.s} /\ r.i <= round.next
      <4>1. r.s = s BY <2>1, <3>2
      <4>2. r.i <= store'.offsets[r.s] BY <1>2, <1>3, <2>5, <3>2, <4>1
      <4> QED BY <3>2, <4>2 DEF Due
    <3>3. CASE r.via # "rpc" BY <2>1, <3>3 DEF Due
    <3> QED BY <3>1, <3>2, <3>3 DEF Due
  <2> QED BY <1>4, <2>3, <2>6
<1>11. CASE AppendEstimates
  <2>1. store' = Appended(store, parsed) /\ parsed' = <<>> /\ toff' = toff /\ round.at = "estimates"
    BY <1>11 DEF AppendEstimates
  <2>2. /\ Range(store'.entries) = Range(store.entries) \cup Range(parsed)
        /\ store'.offsets = store.offsets
    BY <1>3, <2>1, StoreAppended DEF Types, ReadTypes
  <2>3. (E' <=> E \/ P) /\ ~P' BY <2>1, <2>2, EmptyIsSeq DEF E, P
  <2>4. Due(r) => Due(r)' BY <2>1, <2>2 DEF Due
  <2> QED BY <1>1, <2>3, <2>4 DEF One
<1>12. ASSUME NEW s \in Sessions, RpcAnswer(s)
       PROVE  \/ Waiting(r)' <= Waiting(r) /\ (Due(r) => Due(r)')
              \/ Waiting(r)' <= Waiting(r) + 1 /\ ~Due(r) /\ Due(r)'
  <2>1. parsed' = parsed /\ toff' = toff /\ round.at = "rpc" /\ round.cur = {s} /\ P' = P
    BY <1>12 DEF RpcAnswer, P
  <2>2. /\ store'.offsets = store.offsets
        /\ \A q : q \in Range(store'.entries) <=>
               \/ q \in Range(store.entries)
               \/ \E i \in 1 .. Len(sess[s]) : /\ StepIndices(s, i) = {} \/ i > round.start
                                               /\ q = Fetched(s, i)
        /\ round' = [round EXCEPT !.at = round'.at, !.next = round'.next, !.fetched = round'.fetched]
        /\ round'.at = IF round'.next > round.start THEN "advance" ELSE "mark"
        /\ \A i \in 1 .. Len(sess[s]) : StepIndices(s, i) # {} => i <= round'.next
    BY <1>12, AnswerEffect DEF Types
  <2>3. Due(r) => Due(r)' BY <2>1, <2>2 DEF Due
  <2>4. CASE E' => E BY <1>4, <2>1, <2>3, <2>4
  <2>5. CASE E' /\ ~E
    <3>1. PICK i \in 1 .. Len(sess[s]) : (StepIndices(s, i) = {} \/ i > round.start) /\ r = Fetched(s, i)
      BY <2>2, <2>5 DEF E
    <3>2. r.s = s /\ r.i = i /\ r.via = "rpc" BY <3>1 DEF Fetched
    <3>3. i > round.start /\ i <= round'.next BY <1>2, <2>2, <3>1, <3>2
    <3>4. ~Due(r)
      <4>1. store.offsets[s] <= round.start BY <2>1 DEF StartAhead
      <4>2. ~(r.i <= store.offsets[r.s]) BY <1>3, <3>2, <3>3, <4>1
      <4> QED BY <2>1, <3>2, <4>2 DEF Due
    <3>5. Due(r)'
      <4>1. round'.at = "advance" BY <1>3, <2>2, <3>3
      <4>2. round'.cur = {s} BY <1>3, <2>1, <2>2 DEF Rounds
      <4> QED BY <3>2, <3>3, <4>1, <4>2 DEF Due
    <3>6. Waiting(r)' <= Waiting(r) + 1 BY <1>1, <2>1 DEF One
    <3> QED BY <3>4, <3>5, <3>6
  <2> QED BY <2>4, <2>5
<1>13. CASE ReadTranscripts
  <2>1. store' = store /\ round.at = "transcripts" BY <1>13 DEF ReadTranscripts
  <2>2. /\ \A q : q \in Range(parsed') <=>
               \E s \in Sessions \ round.covered : q \in Range(EstimatesFrom(s, toff[s], Len(sess[s])))
        /\ \A s \in Sessions :
               \/ s \in round.covered /\ toff'[s] = toff[s]
               \/ s \notin round.covered /\ toff'[s].lines = Len(sess[s])
    BY <1>13, ReadEffect DEF Types
  <2>3. \A s \in Sessions : toff[s].lines <= toff'[s].lines BY <1>3, <2>2
  <2>4. Due(r) => Due(r)'
    <3>1. CASE r.via = "rpc" BY <2>1, <3>1 DEF Due
    <3>2. CASE r.via # "rpc" BY <1>2, <1>3, <2>3, <3>2 DEF Due
    <3> QED BY <3>1, <3>2
  <2>5. E' = E BY <2>1 DEF E
  <2>6. CASE P' => P BY <1>4, <2>4, <2>5, <2>6
  <2>7. CASE P' /\ ~P
    <3>1. PICK s \in Sessions \ round.covered : r \in Range(EstimatesFrom(s, toff[s], Len(sess[s])))
      BY <2>2, <2>7 DEF P
    <3> DEFINE state == toff[s]
               n == Len(sess[s])
    <3>2. state.lines \in Nat /\ state.lines <= n /\ n \in Nat /\ r \in Range(EstimatesFrom(s, state, n))
      BY <1>3, <3>1
    <3> HIDE DEF state, n
    <3>3. PICK c \in state.lines + 1 .. n :
              r = Estimated(s, c, UsageOf(Line[s][c], StatesFrom(s, state, n)[c - state.lines - 1]))
      BY <3>2, EstimatesRange
    <3>4. r.s = s /\ r.i = c /\ r.via = "transcript" BY <3>3 DEF Estimated
    <3>5. ~Due(r)
      <4>1. ~(c <= state.lines) BY <3>2
      <4> QED BY <3>4, <4>1 DEF Due, state
    <3>6. Due(r)'
      <4>1. toff'[s].lines = n BY <2>2, <3>1 DEF n
      <4>2. c <= n BY <3>2
      <4> QED BY <3>4, <4>1, <4>2 DEF Due
    <3>7. Waiting(r)' <= Waiting(r) + 1 BY <1>1, <2>5 DEF One
    <3> QED BY <3>5, <3>6, <3>7
  <2> QED BY <2>6, <2>7
<1> QED BY <1>6, <1>7, <1>8, <1>9, <1>10, <1>11, <1>12, <1>13 DEF IngestStep, FetchStep, TranscriptStep

\* No other step but one that resets the marks lets go of a mark or makes a copy.
LEMMA PassedOn ==
    ASSUME Types, Types', Streams, SentTypes, [Next]_vars, ~IngestStep, ~ResetStore, ~ResetTranscripts,
           ~Crash, NEW r, Counted(r)
    PROVE  /\ Got(r)' + Waiting(r)' + OnItsWay(r)' <= Got(r) + Waiting(r) + OnItsWay(r)
           /\ Due(r)' = Due(r)
<1> DEFINE g == Got(r)
           c == Batches(r, chan)
           e == One(r \in Range(store.entries))
           p == One(r \in Range(parsed))
           b == One(r \in Range(batch))
<1>1. g \in Nat /\ c \in Nat /\ e \in Nat /\ p \in Nat /\ b \in Nat
  BY CountsNat DEF One
<1>2. /\ Got(r) + Waiting(r) + OnItsWay(r) = g + (e + p) + (b + c)
      /\ Got(r)' + Waiting(r)' + OnItsWay(r)' = g' + (e' + p') + (b' + c')
  BY DEF Waiting, OnItsWay
<1>3. One(r \in Range(<<>>)) = 0 BY EmptyIsSeq DEF One
<1>4. ASSUME UNCHANGED <<store, parsed, batch, chan, sent>>
      PROVE  g' = g /\ c' = c /\ e' = e /\ p' = p /\ b' = b
  BY <1>4 DEF Got
<1>5. CASE UNCHANGED <<store, round, toff, parsed, batch, chan, sent>>
  <2>1. Due(r)' = Due(r) BY <1>5 DEF Due
  <2> HIDE DEF g, c, e, p, b
  <2> QED BY <1>1, <1>2, <1>4, <1>5, <2>1
<1>6. CASE Wake \/ ReceiveCommand
  <2>1. PICK since : CollectStore(since)
    BY <1>6 DEF Wake, ReceiveCommand, Collect, CollectFiles, CollectError
  <2>2. /\ batch' = Pulled(store, "framework") /\ store' = AfterPull(store, "framework")
        /\ UNCHANGED <<round, toff, parsed, chan, sent>> /\ batch = <<>>
    BY <2>1 DEF CollectStore, NotTheStore, ghostVars, Types, TaskTypes
  <2>3. batch' = store.entries /\ store'.entries = <<>> /\ store'.offsets = store.offsets
    BY <2>2, StorePulled DEF Types, StoreTypes
  <2>4. Due(r)' = Due(r) BY <2>2, <2>3 DEF Due
  <2>5. b' = e /\ e' = 0 /\ b = 0 /\ p' = p /\ c' = c /\ g' = g
    BY <1>3, <2>2, <2>3 DEF Got
  <2> HIDE DEF g, c, e, p, b
  <2> QED BY <1>1, <1>2, <2>4, <2>5
<1>7. CASE Send
  <2>1. /\ \/ batch = <<>> /\ chan' = chan
           \/ chan' = Append(chan, batch)
        /\ batch' = <<>> /\ UNCHANGED <<store, round, toff, parsed, sent>>
    BY <1>7 DEF Send, ingestVars
  <2>2. Due(r)' = Due(r) BY <2>1 DEF Due
  <2>3. g' = g /\ e' = e /\ p' = p /\ b' = 0 BY <1>3, <2>1 DEF Got
  <2>4. c' = c + b
    <3>1. CASE batch = <<>> /\ chan' = chan
      <4>1. b = 0 /\ c' = c BY <1>3, <3>1
      <4> HIDE DEF b, c
      <4> QED BY <1>1, <4>1
    <3>2. CASE chan' = Append(chan, batch)
      <4>1. Batches(r, Append(chan, batch)) = Batches(r, chan) + One(r \in Range(batch))
        BY BatchesAppended DEF Types, TaskTypes
      <4> QED BY <3>2, <4>1
    <3> QED BY <2>1, <3>1, <3>2
  <2> HIDE DEF g, c, e, p, b
  <2> QED BY <1>1, <1>2, <2>2, <2>3, <2>4
<1>8. CASE Ingest \/ IngestError
  <2>1. /\ chan # <<>> /\ chan' = Tail(chan)
        /\ UNCHANGED <<store, round, toff, parsed, batch>>
    BY <1>8 DEF Ingest, IngestError, ingestVars, taskVars, NotFaults
  <2>2. Due(r)' = Due(r) BY <2>1 DEF Due
  <2>3. e' = e /\ p' = p /\ b' = b BY <2>1
  <2> DEFINE h == One(r \in Range(Head(chan)))
  <2>4. c = c' + h
    <3>1. Batches(r, chan) = Batches(r, Tail(chan)) + One(r \in Range(Head(chan)))
      BY <2>1, BatchesTaken DEF Types, TaskTypes
    <3> QED BY <2>1, <3>1
  <2>5. g' = g + h \/ g' = g
    <3>1. CASE Ingest
      <4>1. Got(r)' = Got(r) + One(r \in OnceOnly(Range(Head(chan)))) BY <3>1, SentEffect DEF SentTypes
      <4>2. r \in OnceOnly(Range(Head(chan))) <=> r \in Range(Head(chan))
        BY DEF OnceOnly, Counted
      <4> QED BY <4>1, <4>2
    <3>2. CASE ~Ingest
      <4>1. sent' = sent BY <3>2, CountStep
      <4> QED BY <4>1 DEF Got
    <3> QED BY <3>1, <3>2
  <2>6. h \in Nat /\ c' \in Nat
    <3>1. c' \in Nat BY BatchesFinite DEF Types, TaskTypes
    <3> QED BY <3>1 DEF One
  <2> HIDE DEF g, c, e, p, b, h
  <2> QED BY <1>1, <1>2, <2>2, <2>3, <2>4, <2>5, <2>6
<1>9. CASE Stamp \/ Show \/ Tick \/ Upsert \/ ClearStorage \/ Broadcast \/ UNCHANGED vars
  <2>1. UNCHANGED <<store, round, toff, parsed, batch, chan, sent>>
    BY <1>9 DEF Stamp, Show, Tick, Upsert, ClearStorage, Broadcast, vars, ingestVars, taskVars,
                ghostVars, NotFaults
  <2> QED BY <1>5, <2>1
<1> QED BY <1>6, <1>7, <1>8, <1>9 DEF Next, RebuildStep

\* Only a Rebuild's steps, and the end of the process, take it on or put it off.
LEMMA SpareStays ==
    ASSUME [Next]_vars, ~ResetStore, ~ResetTranscripts, ~Crash, NEW r
    PROVE  Spare(r)' = Spare(r)
<1>1. rebuild' = rebuild \/ (rebuild # "transcripts" /\ rebuild' # "transcripts")
  BY DEF Next, IngestStep, OnlyIngest, Stamp, Show, Tick, Wake, ReceiveCommand, Collect, CollectStore,
         CollectFiles, CollectError, Send, Ingest, IngestError, Upsert, ClearStorage, RebuildStep,
         Broadcast, vars, rebuildVars
<1> QED BY <1>1 DEF Spare, One

LEMMA CopiesStep ==
    ASSUME Types, Types', Once, SentTypes', [Next]_vars
    PROVE  Copies'
<1> SUFFICES ASSUME Streams, NEW r, Counted(r)
             PROVE  Got(r)' + Waiting(r)' + OnItsWay(r)' + Spare(r)' <= resets' + Owed(r)'
  BY KindStays DEF Copies, Counted, IsRecord, StepIndices, Streams
<1>1. /\ Got(r) \in Nat /\ Waiting(r) \in Nat /\ OnItsWay(r) \in Nat /\ Owed(r) \in 0 .. 1
      /\ Got(r)' \in Nat /\ Waiting(r)' \in Nat /\ OnItsWay(r)' \in Nat /\ Owed(r)' \in 0 .. 1
      /\ Spare(r) \in 0 .. 1 /\ Spare(r)' \in 0 .. 1
      /\ resets \in Nat
      /\ Got(r) + Waiting(r) + OnItsWay(r) + Spare(r) <= resets + Owed(r)
  <2>1. Got(r) \in Nat /\ Waiting(r) \in Nat /\ OnItsWay(r) \in Nat BY CountsNat DEF Once
  <2>2. Got(r)' \in Nat /\ Waiting(r)' \in Nat /\ OnItsWay(r)' \in Nat
    <3>1. Batches(r, chan') \in Nat BY BatchesFinite DEF Types, TaskTypes
    <3>2. Got(r)' \in Nat BY DEF Got, SentTypes
    <3> QED BY <3>1, <3>2 DEF Waiting, OnItsWay, One
  <2>3. Got(r) + Waiting(r) + OnItsWay(r) + Spare(r) <= resets + Owed(r) /\ resets \in Nat
    BY DEF Once, Copies, SentTypes
  <2> QED BY <2>1, <2>2, <2>3 DEF Owed, Spare, One
<1>2. CASE IngestStep
  <2>1. UNCHANGED <<batch, chan, sent, resets, rebuild>>
    BY <1>2 DEF IngestStep, OnlyIngest, taskVars, ghostVars, rebuildVars
  <2>2. Got(r)' = Got(r) /\ OnItsWay(r)' = OnItsWay(r) /\ Spare(r)' = Spare(r)
    BY <2>1 DEF Got, OnItsWay, Spare
  <2>3. \/ Waiting(r)' <= Waiting(r) /\ (Due(r) => Due(r)')
        \/ Waiting(r)' <= Waiting(r) + 1 /\ ~Due(r) /\ Due(r)'
    BY <1>2, ProducedOnce DEF Once
  <2>4. \/ Waiting(r)' <= Waiting(r) /\ Owed(r) <= Owed(r)'
        \/ Waiting(r)' <= Waiting(r) + 1 /\ Owed(r) = 0 /\ Owed(r)' = 1
    BY <2>3 DEF Owed, One
  <2> QED BY <1>1, <2>1, <2>2, <2>4
<1>3. CASE ResetStore
  <2>1. /\ store' = Open(EmptyDisk) /\ resets' = resets + 1 /\ rebuild = "store"
        /\ UNCHANGED <<parsed, toff, batch, chan, sent>>
    BY <1>3 DEF ResetStore, RebuildStore, taskVars
  <2>2. store'.entries = <<>> BY <2>1, StoreOpened, EmptyDiskTypes
  <2>3. Got(r)' = Got(r) /\ OnItsWay(r)' = OnItsWay(r) BY <2>1 DEF Got, OnItsWay
  <2>4. Waiting(r)' <= Waiting(r) BY <2>1, <2>2, EmptyIsSeq DEF Waiting, One
  <2>5. CASE r.via = "rpc"
    <3>1. Spare(r)' = 0 BY <2>5 DEF Spare, One
    <3> QED BY <1>1, <2>1, <2>3, <2>4, <3>1
  <2>6. CASE r.via # "rpc"
    <3>1. Owed(r)' = Owed(r) /\ Spare(r) = 0 BY <2>1, <2>6 DEF Owed, Due, Spare, One
    <3> QED BY <1>1, <2>1, <2>3, <2>4, <3>1
  <2> QED BY <2>5, <2>6
<1>4. CASE ResetTranscripts
  <2>1. /\ rebuild = "transcripts" /\ rebuild' = "broadcast" /\ resets' = resets
        /\ UNCHANGED <<store, round, parsed, batch, chan, sent>>
    BY <1>4 DEF ResetTranscripts, RebuildTranscripts, taskVars, ghostVars
  <2>2. Got(r)' = Got(r) /\ OnItsWay(r)' = OnItsWay(r) /\ Waiting(r)' = Waiting(r)
    BY <2>1 DEF Got, OnItsWay, Waiting
  <2>3. Spare(r)' = 0 BY <2>1 DEF Spare, One
  <2>4. CASE r.via = "transcript"
    <3>1. Spare(r) = 1 BY <2>1, <2>4 DEF Spare, One
    <3> QED BY <1>1, <2>1, <2>2, <2>3, <3>1
  <2>5. CASE r.via = "rpc"
    <3>1. Owed(r)' = Owed(r) BY <2>1, <2>5 DEF Owed, Due
    <3> QED BY <1>1, <2>1, <2>2, <2>3, <3>1
  <2> QED BY <2>4, <2>5 DEF Counted, IsRecord
<1>5. CASE Crash
  <2>1. PICK saved \in Cuts : Restart(saved) BY <1>5, CrashRestarts
  <2>2. /\ batch' = <<>> /\ parsed' = <<>> /\ chan' = <<>> /\ resets' = resets + 1 /\ sent' = sent
        /\ store' = Open(saved) /\ rebuild' = "none"
    BY <1>5, <2>1 DEF Crash, Restart
  <2>3. store'.entries = <<>> BY <2>2 DEF Open
  <2>4. Got(r)' = Got(r) BY <2>2 DEF Got
  <2>5. Waiting(r)' = 0 BY <2>2, <2>3, EmptyIsSeq DEF Waiting, One
  <2>6. OnItsWay(r)' = 0 BY <2>2, EmptyIsSeq, BatchesNone DEF OnItsWay, One
  <2>7. Spare(r)' = 0 BY <2>2 DEF Spare, One
  <2> QED BY <1>1, <2>2, <2>4, <2>5, <2>6, <2>7
<1>6. CASE ~IngestStep /\ ~ResetStore /\ ~ResetTranscripts /\ ~Crash
  <2>1. /\ Got(r)' + Waiting(r)' + OnItsWay(r)' <= Got(r) + Waiting(r) + OnItsWay(r)
        /\ Owed(r)' = Owed(r)
    BY <1>6, PassedOn DEF Once, Owed, One
  <2>2. resets' = resets BY <1>6, CountStep DEF Once
  <2>3. Spare(r)' = Spare(r) BY <1>6, SpareStays
  <2> QED BY <1>1, <2>1, <2>2, <2>3
<1> QED BY <1>2, <1>3, <1>4, <1>5, <1>6

\* DeliveredOnce: of a call that names a step, the ingest task gets the record once,
\* and once more at most for every restart or Rebuild, those in the middle of a round
\* included.
THEOREM CollectorDeliveredOnce == Spec => []DeliveredOnce
<1>1. Init => Once
  <2> SUFFICES ASSUME Init PROVE Once
    OBVIOUS
  <2>1. /\ store = Open(EmptyDisk) /\ batch = <<>> /\ chan = <<>> /\ pool = {} /\ parsed = <<>>
        /\ resets = 0 /\ sent = EmptyBag /\ round.at = "sleep" /\ rebuild = "none"
    BY DEF Init, IngestInit, NoRound
  <2>2. store.entries = <<>> /\ Range(<<>>) = {} BY <2>1, StoreOpened, EmptyDiskTypes, EmptyIsSeq
  <2>3. Held = {} BY <2>1, <2>2 DEF Held, Carrying
  <2>4. sent = [e \in {} |-> 1] /\ DOMAIN sent = {} BY <2>1, BagsAre
  <2>5. SentTypes BY <2>1, <2>3, <2>4 DEF SentTypes
  <2>6. StartAhead BY <2>1 DEF StartAhead
  <2>7. ASSUME NEW r PROVE Got(r) + Waiting(r) + OnItsWay(r) + Spare(r) <= resets + Owed(r)
    <3>1. Got(r) = 0 BY <2>4 DEF Got
    <3>2. Waiting(r) = 0 BY <2>1, <2>2 DEF Waiting, One
    <3>3. OnItsWay(r) = 0 BY <2>1, <2>2, BatchesNone DEF OnItsWay, One
    <3>4. Owed(r) \in {0, 1} /\ Spare(r) = 0 BY <2>1 DEF Owed, Spare, One
    <3> QED BY <2>1, <3>1, <3>2, <3>3, <3>4
  <2> QED BY <2>5, <2>6, <2>7 DEF Once, Copies
<1>2. Types /\ Types' /\ Once /\ [Next]_vars => Once'
  <2> SUFFICES ASSUME Types, Types', Once, [Next]_vars PROVE Once'
    OBVIOUS
  <2>1. StartAhead' BY StartAheadStep DEF Once
  <2>2. SentTypes' BY SentTypesStep DEF Once
  <2>3. Copies' BY <2>2, CopiesStep
  <2> QED BY <2>1, <2>2, <2>3 DEF Once
<1>3. Types /\ Once => DeliveredOnce
  <2> SUFFICES ASSUME Types, Once, NEW r \in BagToSet(sent) PROVE sent[r] <= 1 + resets
    BY DEF DeliveredOnce
  <2>1. r \in DOMAIN sent BY BagsAre
  <2>2. Streams /\ Counted(r) BY <2>1 DEF Once, SentTypes
  <2>3. Got(r) + Waiting(r) + OnItsWay(r) + Spare(r) <= resets + Owed(r) BY <2>2 DEF Once, Copies
  <2>4. /\ Got(r) \in Nat /\ Waiting(r) \in Nat /\ OnItsWay(r) \in Nat /\ resets \in Nat
        /\ Owed(r) \in {0, 1} /\ Spare(r) \in {0, 1}
    BY CountsNat DEF Once, SentTypes, Owed, Spare, One
  <2>5. Got(r) = sent[r] BY <2>1 DEF Got
  <2> QED BY <2>3, <2>4, <2>5
<1> QED BY <1>1, <1>2, <1>3, TypesHold, PTL DEF Spec

-----------------------------------------------------------------------------
(* Codex *)

\* No more is found in a part of a file, with whatever `since`, than in all of it.
LEMMA CodexPart ==
    ASSUME NEW file, NEW full, NEW since, Len(file) \in Nat, Len(full) \in Nat, Len(file) <= Len(full),
           \A i \in 1 .. Len(file) : file[i] = full[i]
    PROVE  Codex!CodexLogs(file, since) \subseteq Codex!CodexLogs(full, Never)
<1> DEFINE some(f, s) == {k \in Codex!Loaded(f, s) : Codex!CodexAmount(k, Codex!Loaded(f, s)) > 0}
<1> SUFFICES ASSUME NEW r \in Codex!CodexLogs(file, since)
             PROVE  r \in Codex!CodexLogs(full, Never)
  OBVIOUS
<1>1. PICK i \in some(file, since) : r = Codex!FileLog(i, file[i], Codex!CodexAmount(i, Codex!Loaded(file, since)))
  BY DEF Codex!CodexLogs
<1>2. i \in Codex!Loaded(file, since) /\ Codex!CodexAmount(i, Codex!Loaded(file, since)) > 0 BY <1>1
<1>3. i \in 1 .. Len(file) BY <1>2 DEF Codex!Loaded
<1>4. i \in 1 .. Len(full) /\ file[i] = full[i] BY <1>3
<1>5. i \in Codex!Loaded(full, Never) BY <1>4 DEF Codex!Loaded, Codex!FromSince
<1>6. Codex!CodexAmount(i, Codex!Loaded(full, Never)) = Codex!CodexAmount(i, Codex!Loaded(file, since))
  BY DEF Codex!CodexAmount
<1>7. i \in some(full, Never) BY <1>2, <1>5, <1>6
<1>8. r = Codex!FileLog(i, full[i], Codex!CodexAmount(i, Codex!Loaded(full, Never))) BY <1>1, <1>4, <1>6
<1> QED BY <1>7, <1>8 DEF Codex!CodexLogs

CodexOnly ==
    kind = "codex" =>
        /\ store.entries = <<>>
        /\ Range(batch) \cup Carrying \cup pool \subseteq Codex!CodexLogs(stamps, Never)

\* The lines of the tool's file stay as they are.
LEMMA StampsGrow ==
    ASSUME Types, [Next]_vars
    PROVE  /\ stamps \in Seq(Nat) /\ stamps' \in Seq(Nat) /\ Len(stamps) <= Len(stamps')
           /\ \A i \in 1 .. Len(stamps) : stamps'[i] = stamps[i]
<1>1. stamps \in Seq(Nat) /\ now \in Nat BY DEF Types, TaskTypes
<1>2. stamps' = stamps \/ stamps' = Append(stamps, now)
  BY DEF Next, IngestStep, OnlyIngest, Stamp, Show, Tick, Wake, ReceiveCommand, Collect, CollectStore,
         CollectFiles, CollectError, Send, Ingest, IngestError, Upsert, ClearStorage, RebuildStep,
         ResetStore, ResetTranscripts, Broadcast, Crash, vars, fileVars
<1>3. CASE stamps' = stamps BY <1>1, <1>3
<1>4. CASE stamps' = Append(stamps, now)
  <2> DEFINE more == Append(stamps, now)
  <2>1. /\ more \in Seq(Nat) /\ Len(stamps) <= Len(more)
        /\ \A i \in 1 .. Len(stamps) : more[i] = stamps[i]
    BY <1>1
  <2> HIDE DEF more
  <2>2. stamps' = more BY <1>4 DEF more
  <2> QED BY <1>1, <2>1, <2>2
<1> QED BY <1>2, <1>3, <1>4

\* A file source's store stays empty; what it collects is in its file.
LEMMA FilesCollected ==
    ASSUME Types, [Next]_vars, ~Streams
    PROVE  /\ store'.entries = store.entries \/ store'.entries = <<>>
           /\ \/ batch' = batch \/ batch' = <<>>
              \/ \E since : /\ CollectFiles(since) /\ Range(batch') = FileLogs(since)
                            /\ since = Never \/ since = last
<1>1. CASE ~(Wake \/ ReceiveCommand \/ ResetStore \/ Crash)
  <2>1. store' = store /\ (batch' = batch \/ batch' = <<>>)
    BY <1>1 DEF Next, IngestStep, Stamp, Show, Tick, Send, Ingest, IngestError, Upsert, ClearStorage,
           RebuildStep, ResetTranscripts, RebuildTranscripts, Broadcast, vars, ingestVars, taskVars, NotFaults
  <2> QED BY <2>1
<1>2. CASE Wake \/ ReceiveCommand
  <2>1. PICK since : Collect(since) /\ (since = Never \/ since = last) BY <1>2 DEF Wake, ReceiveCommand
  <2>2. store' = store
    BY <2>1 DEF Collect, CollectStore, CollectFiles, CollectError, ingestVars, NotFaults
  <2>3. CASE CollectFiles(since)
    <3>1. batch' = SetToSeq(FileLogs(since)) BY <2>3 DEF CollectFiles
    <3>2. Range(batch') = FileLogs(since) BY <3>1, FileBatch DEF Types
    <3> QED BY <2>1, <2>2, <2>3, <3>2
  <2>4. CASE CollectError(since) BY <2>2, <2>4 DEF CollectError
  <2> QED BY <2>1, <2>3, <2>4 DEF Collect, CollectStore
<1>3. CASE ResetStore
  <2>1. batch' = batch /\ store' = Open(EmptyDisk) BY <1>3 DEF ResetStore, RebuildStore, taskVars
  <2> QED BY <2>1, StoreOpened, EmptyDiskTypes
<1>4. CASE Crash
  <2>1. PICK saved \in Cuts : Restart(saved) BY <1>4, CrashRestarts
  <2>2. batch' = <<>> /\ store' = Open(saved) BY <1>4, <2>1 DEF Crash, Restart
  <2>3. store'.entries = <<>> BY <2>2 DEF Open
  <2> QED BY <2>2, <2>3
<1> QED BY <1>1, <1>2, <1>3, <1>4

LEMMA CodexStep ==
    ASSUME Types, CodexOnly, [Next]_vars
    PROVE  CodexOnly'
<1> SUFFICES ASSUME kind' = "codex"
             PROVE  /\ store'.entries = <<>>
                    /\ Range(batch') \cup Carrying' \cup pool' \subseteq Codex!CodexLogs(stamps', Never)
  BY DEF CodexOnly, Codex!CodexLogs, Codex!Loaded, Codex!FromSince, Codex!CodexAmount, Codex!Less,
         Codex!TotalBefore, Codex!FileLog
<1>1. kind = "codex" /\ ~Streams BY KindStays DEF Streams
<1>2. store'.entries = <<>> BY <1>1, FilesCollected DEF CodexOnly
<1>3. Codex!CodexLogs(stamps, Never) \subseteq Codex!CodexLogs(stamps', Never)
  <2>1. Len(stamps) \in Nat /\ Len(stamps') \in Nat BY StampsGrow
  <2> QED BY <2>1, StampsGrow, CodexPart
<1>4. ASSUME batch' # batch, batch' # <<>> PROVE Range(batch') \subseteq Codex!CodexLogs(stamps, Never)
  <2>1. PICK since : Range(batch') = FileLogs(since) BY <1>1, <1>4, FilesCollected
  <2> DEFINE file == SubSeq(stamps, 1, shown)
  <2>2. stamps \in Seq(Nat) /\ shown \in 0 .. Len(stamps) BY DEF Types, TaskTypes
  <2>3. Len(file) \in Nat /\ Len(stamps) \in Nat /\ Len(file) <= Len(stamps)
        /\ \A i \in 1 .. Len(file) : file[i] = stamps[i]
    BY <2>2
  <2>4. FileLogs(since) = Codex!CodexLogs(file, since) BY <1>1 DEF FileLogs
  <2> HIDE DEF file
  <2> QED BY <2>1, <2>3, <2>4, CodexPart
<1>5. Range(batch') \cup Carrying' \cup pool' \subseteq Codex!CodexLogs(stamps, Never)
  BY <1>1, <1>4, Handed DEF CodexOnly
<1> QED BY <1>2, <1>3, <1>5

\* CodexExact: a Codex record has the amount that reading the whole file gives it.
THEOREM CollectorCodexExact == Spec => []CodexExact
<1>1. Init => CodexOnly
  <2> SUFFICES ASSUME Init PROVE CodexOnly
    OBVIOUS
  <2>1. store = Open(EmptyDisk) /\ batch = <<>> /\ chan = <<>> /\ pool = {} BY DEF Init, IngestInit
  <2>2. store.entries = <<>> /\ Range(batch) = {} /\ Range(chan) = {}
    BY <2>1, StoreOpened, EmptyDiskTypes, EmptyIsSeq
  <2> QED BY <2>1, <2>2 DEF CodexOnly, Carrying
<1>2. Types /\ CodexOnly /\ [Next]_vars => CodexOnly' BY CodexStep
<1>3. CodexOnly => CodexExact
  <2> SUFFICES ASSUME CodexOnly, kind = "codex"
               PROVE  Travelling \cup pool \subseteq Codex!CodexLogs(stamps, Never)
    BY DEF CodexExact
  <2>1. UNION {Range(chan[n]) : n \in DOMAIN chan} = Carrying BY DEF Carrying, Range
  <2>2. Range(store.entries) = {} BY EmptyIsSeq DEF CodexOnly
  <2> QED BY <2>1, <2>2 DEF CodexOnly, Travelling
<1> QED BY <1>1, <1>2, <1>3, TypesHold, PTL DEF Spec

-----------------------------------------------------------------------------
(* Estimates *)

\* Going on from where a reading stopped gives what reading on from the start gives.
LEMMA EstimatesOn ==
    ASSUME NEW s \in Sessions, NEW m \in Nat, NEW n \in Nat, m <= n, n <= MaxMtime,
           NEW state, state = StatesFrom(s, NothingRead, m)[m], state.lines = m
    PROVE  /\ Range(EstimatesFrom(s, NothingRead, m)) \subseteq Range(EstimatesFrom(s, NothingRead, n))
           /\ Range(EstimatesFrom(s, state, n)) \subseteq Range(EstimatesFrom(s, NothingRead, n))
           /\ StatesFrom(s, state, n)[n - m] = StatesFrom(s, NothingRead, n)[n]
<1> DEFINE short == StatesFrom(s, NothingRead, m)
           long == StatesFrom(s, NothingRead, n)
           on == StatesFrom(s, state, n)
<1>1. /\ \A k \in 0 .. m : short[k] = long[k]
      /\ \A k \in 0 .. n - m : on[k] = long[m + k]
  BY StatesResumed
<1>2. NothingRead.lines = 0 BY DEF NothingRead
<1>3. \A r : r \in Range(EstimatesFrom(s, NothingRead, n)) <=>
          \E c \in 1 .. n : Line[s][c].kind # "other" /\ r = Estimated(s, c, UsageOf(Line[s][c], long[c - 0 - 1]))
  <2>1. \A r : r \in Range(EstimatesFrom(s, NothingRead, n)) <=>
            \E c \in 0 + 1 .. n : Line[s][c].kind # "other" /\ r = Estimated(s, c, UsageOf(Line[s][c], long[c - 0 - 1]))
    BY <1>2, EstimatesRange
  <2>2. 0 + 1 .. n = 1 .. n OBVIOUS
  <2> HIDE DEF long
  <2> QED BY <2>1, <2>2
<1>4. \A r : r \in Range(EstimatesFrom(s, NothingRead, m)) <=>
          \E c \in 1 .. m : Line[s][c].kind # "other" /\ r = Estimated(s, c, UsageOf(Line[s][c], short[c - 0 - 1]))
  <2>1. \A r : r \in Range(EstimatesFrom(s, NothingRead, m)) <=>
            \E c \in 0 + 1 .. m : Line[s][c].kind # "other" /\ r = Estimated(s, c, UsageOf(Line[s][c], short[c - 0 - 1]))
    BY <1>2, EstimatesRange
  <2>2. 0 + 1 .. m = 1 .. m OBVIOUS
  <2> HIDE DEF short
  <2> QED BY <2>1, <2>2
<1>5. \A r : r \in Range(EstimatesFrom(s, state, n)) <=>
          \E c \in m + 1 .. n : Line[s][c].kind # "other" /\ r = Estimated(s, c, UsageOf(Line[s][c], on[c - m - 1]))
  BY EstimatesRange
<1> HIDE DEF short, long, on
<1>6. ASSUME NEW c \in 1 .. m PROVE c \in 1 .. n /\ short[c - 0 - 1] = long[c - 0 - 1]
  <2>1. c - 0 - 1 \in 0 .. m OBVIOUS
  <2> QED BY <1>1, <2>1
<1>7. ASSUME NEW c \in m + 1 .. n PROVE c \in 1 .. n /\ on[c - m - 1] = long[c - 0 - 1]
  <2>1. c - m - 1 \in 0 .. n - m /\ m + (c - m - 1) = c - 0 - 1 OBVIOUS
  <2>2. on[c - m - 1] = long[m + (c - m - 1)] BY <1>1, <2>1
  <2> QED BY <2>1, <2>2
<1>8. on[n - m] = long[n]
  <2>1. n - m \in 0 .. n - m /\ m + (n - m) = n OBVIOUS
  <2> QED BY <1>1, <2>1
<1>9. Range(EstimatesFrom(s, NothingRead, m)) \subseteq Range(EstimatesFrom(s, NothingRead, n))
  <2> SUFFICES ASSUME NEW r \in Range(EstimatesFrom(s, NothingRead, m))
               PROVE  r \in Range(EstimatesFrom(s, NothingRead, n))
    OBVIOUS
  <2>1. PICK c \in 1 .. m : Line[s][c].kind # "other" /\ r = Estimated(s, c, UsageOf(Line[s][c], short[c - 0 - 1]))
    BY <1>4
  <2> QED BY <1>3, <1>6, <2>1
<1>10. Range(EstimatesFrom(s, state, n)) \subseteq Range(EstimatesFrom(s, NothingRead, n))
  <2> SUFFICES ASSUME NEW r \in Range(EstimatesFrom(s, state, n))
               PROVE  r \in Range(EstimatesFrom(s, NothingRead, n))
    OBVIOUS
  <2>1. PICK c \in m + 1 .. n : Line[s][c].kind # "other" /\ r = Estimated(s, c, UsageOf(Line[s][c], on[c - m - 1]))
    BY <1>5
  <2> QED BY <1>3, <1>7, <2>1
<1> QED BY <1>8, <1>9, <1>10 DEF long, on

LEMMA SessStep ==
    ASSUME Types, [Next]_vars
    PROVE  SessGrow
<1>1. ASSUME NEW s \in Sessions, Work(s) PROVE SessGrow BY <1>1, WorkSess DEF Types
<1>2. CASE ~\E s \in Sessions : Work(s)
  <2>1. sess' = sess /\ mtime' = mtime
    BY <1>2 DEF Next, IngestStep, FetchStep, TranscriptStep, ListSome, IngestList, IngestOffline,
           RpcFail, PickSkip, PickFetch, RpcAnswer, Advance, Mark, Flush, ReadTranscripts,
           AppendEstimates, SkipTranscripts, Stamp, Show, Tick, Wake, ReceiveCommand, Collect,
           CollectStore, CollectFiles, CollectError, Send, Ingest, IngestError, Upsert, ClearStorage,
           RebuildStep, ResetStore, ResetTranscripts, Broadcast, Crash,
           vars, ingestVars, NotFaults, NotTheStore, RebuildStore, RebuildTranscripts, Restart
  <2> QED BY <2>1, SameSess DEF Types
<1> QED BY <1>1, <1>2

\* The saved states of the transcripts change in the transcript pass, and where
\* everything starts over.
LEMMA ReadStep ==
    ASSUME Types, [Next]_vars
    PROVE  \/ toff' = toff
           \/ IngestStep /\ ReadTranscripts
           \/ (ResetTranscripts \/ Crash) /\ toff' = [s \in Sessions |-> NothingRead]
<1>1. CASE ResetTranscripts BY <1>1 DEF ResetTranscripts, RebuildTranscripts
<1>2. CASE Crash BY <1>2 DEF Crash, Restart
<1>3. CASE ~ResetTranscripts /\ ~Crash /\ ~ReadTranscripts
  BY <1>3 DEF Next, IngestStep, FetchStep, TranscriptStep, ListSome, IngestList, IngestOffline,
         Work, RpcFail, PickSkip, PickFetch, RpcAnswer, Advance, Mark, Flush,
         AppendEstimates, SkipTranscripts, Stamp, Show, Tick, Wake, ReceiveCommand, Collect,
         CollectStore, CollectFiles, CollectError, Send, Ingest, IngestError, Upsert,
         ClearStorage, RebuildStep, ResetStore, RebuildStore, Broadcast,
         vars, ingestVars, NotFaults, NotTheStore
<1>4. CASE ReadTranscripts /\ ~ResetTranscripts /\ ~Crash /\ ~IngestStep
  BY <1>4 DEF Next, Stamp, Show, Tick, Wake, ReceiveCommand, Collect,
         CollectStore, CollectFiles, CollectError, Send, Ingest, IngestError, Upsert,
         ClearStorage, RebuildStep, ResetStore, RebuildStore, Broadcast,
         vars, ingestVars, NotFaults, NotTheStore
<1> QED BY <1>1, <1>2, <1>3, <1>4

\* The inductive invariant of EstimateStable: what is held are estimates of a reading
\* in one go, what waits to be appended included, and every saved state is one that
\* such a reading passes through.
InOneGo(r) ==
    r.via = "transcript" =>
        /\ r.s \in Sessions
        /\ r \in Range(EstimatesFrom(r.s, NothingRead, Len(sess[r.s])))

EstimatesSound ==
    Streams =>
        /\ \A r \in Held : InOneGo(r)
        /\ \A s \in Sessions : toff[s] = StatesFrom(s, NothingRead, toff[s].lines)[toff[s].lines]

LEMMA NothingReadSound ==
    /\ SoundState(NothingRead) /\ NothingRead.lines = 0 /\ NothingRead \in ReadStates
    /\ \A s : NothingRead = StatesFrom(s, NothingRead, 0)[0]
<1>1. SoundState(NothingRead) /\ NothingRead.lines = 0 /\ NothingRead \in ReadStates
  BY DEF NothingRead, SoundState, ReadStates
<1>2. ASSUME NEW s PROVE NothingRead = StatesFrom(s, NothingRead, 0)[0]
  BY <1>1, StatesStep
<1> QED BY <1>1, <1>2

LEMMA EstimatesStep ==
    ASSUME Types, Types', EstimatesSound, [Next]_vars
    PROVE  EstimatesSound'
<1> SUFFICES ASSUME Streams
             PROVE  /\ \A r \in Held' : InOneGo(r)'
                    /\ \A s \in Sessions : toff'[s] = StatesFrom(s, NothingRead, toff'[s].lines)[toff'[s].lines]
  BY KindStays DEF EstimatesSound, Streams, StatesFrom, NothingRead, AfterLine
<1>1. \A s \in Sessions :
          /\ Len(sess[s]) \in Nat /\ Len(sess'[s]) \in Nat /\ Len(sess[s]) <= Len(sess'[s])
          /\ Len(sess[s]) <= MaxMtime /\ Len(sess'[s]) <= MaxMtime
          /\ toff[s].lines \in Nat /\ toff[s].lines <= Len(sess[s])
          /\ toff[s] = StatesFrom(s, NothingRead, toff[s].lines)[toff[s].lines]
  <2> TAKE s \in Sessions
  <2>1. Len(sess[s]) \in Nat /\ Len(sess[s]) <= mtime[s] /\ mtime[s] \in 0 .. MaxMtime
    BY DEF Types, SessTypes
  <2>2. Len(sess'[s]) \in Nat /\ Len(sess'[s]) <= mtime'[s] /\ mtime'[s] \in 0 .. MaxMtime
    BY DEF Types, SessTypes
  <2>3. Len(sess[s]) <= Len(sess'[s]) BY SessStep DEF SessGrow
  <2>4. toff[s].lines \in Nat /\ toff[s].lines <= Len(sess[s]) BY DEF Types, ReadTypes, ReadStates
  <2>5. toff[s] = StatesFrom(s, NothingRead, toff[s].lines)[toff[s].lines] BY DEF EstimatesSound
  <2> QED BY <2>1, <2>2, <2>3, <2>4, <2>5, IngestAssumption
<1>2. \A s \in Sessions :
          Range(EstimatesFrom(s, NothingRead, Len(sess[s]))) \subseteq
              Range(EstimatesFrom(s, NothingRead, Len(sess'[s])))
  <2> TAKE s \in Sessions
  <2> DEFINE m == Len(sess[s])
             state == StatesFrom(s, NothingRead, m)[m]
  <2>1. state.lines = m
    <3>1. m \in 0 .. m - NothingRead.lines /\ NothingRead.lines + m = m /\ NothingRead.lines <= m
      BY <1>1, NothingReadSound
    <3>2. StatesFrom(s, NothingRead, m)[m].lines = NothingRead.lines + m
      BY <1>1, <3>1, NothingReadSound, StatesSound
    <3> QED BY <3>1, <3>2
  <2> QED BY <1>1, <2>1, EstimatesOn
<1>3. \A s \in Sessions :
          /\ Range(EstimatesFrom(s, toff[s], Len(sess[s]))) \subseteq
                 Range(EstimatesFrom(s, NothingRead, Len(sess[s])))
          /\ StatesFrom(s, toff[s], Len(sess[s]))[Len(sess[s]) - toff[s].lines] =
                 StatesFrom(s, NothingRead, Len(sess[s]))[Len(sess[s])]
  BY <1>1, EstimatesOn
<1>4. ASSUME NEW r \in Held' PROVE InOneGo(r)'
  <2>1. CASE r \in Held
    <3>1. InOneGo(r) BY <2>1 DEF EstimatesSound
    <3> QED BY <1>2, <3>1 DEF InOneGo, EstimatesFrom
  <2>2. CASE \E s \in Sessions, i \in Nat : r = Fetched(s, i)
    <3>1. r.via = "rpc" BY <2>2 DEF Fetched
    <3> QED BY <3>1 DEF InOneGo
  <2>3. ASSUME NEW s \in Sessions, r \in Range(EstimatesFrom(s, toff[s], Len(sess[s]))) PROVE InOneGo(r)'
    <3>1. r.s = s
      <4> DEFINE state == toff[s]
                 n == Len(sess[s])
      <4>1. state.lines \in Nat /\ state.lines <= n /\ n \in Nat /\ r \in Range(EstimatesFrom(s, state, n))
        BY <1>1, <2>3
      <4> HIDE DEF state, n
      <4>2. \E c \in state.lines + 1 .. n :
                /\ Line[s][c].kind # "other"
                /\ r = Estimated(s, c, UsageOf(Line[s][c], StatesFrom(s, state, n)[c - state.lines - 1]))
        BY <4>1, EstimatesRange
      <4> QED BY <4>2 DEF Estimated
    <3>2. r \in Range(EstimatesFrom(s, NothingRead, Len(sess'[s]))) BY <1>2, <1>3, <2>3
    <3> QED BY <3>1, <3>2 DEF InOneGo, EstimatesFrom
  <2> QED BY <2>1, <2>2, <2>3, HeldFrom
<1>5. ASSUME NEW s \in Sessions
      PROVE  toff'[s] = StatesFrom(s, NothingRead, toff'[s].lines)[toff'[s].lines]
  <2>1. CASE toff' = toff BY <1>1, <2>1
  <2>2. CASE toff' = [t \in Sessions |-> NothingRead]
    <3>1. toff'[s] = NothingRead /\ NothingRead.lines = 0 BY <2>2, NothingReadSound
    <3>2. NothingRead = StatesFrom(s, NothingRead, 0)[0] BY NothingReadSound
    <3> QED BY <3>1, <3>2
  <2>3. CASE ReadTranscripts
    <3>1. \/ toff'[s] = toff[s]
          \/ /\ toff'[s].lines = Len(sess[s])
             /\ toff'[s] = StatesFrom(s, toff[s], Len(sess[s]))[Len(sess[s]) - toff[s].lines]
      BY <2>3, ReadEffect DEF Types
    <3>2. CASE toff'[s] = toff[s] BY <1>1, <3>2
    <3>3. CASE /\ toff'[s].lines = Len(sess[s])
               /\ toff'[s] = StatesFrom(s, toff[s], Len(sess[s]))[Len(sess[s]) - toff[s].lines]
      <4>1. toff'[s] = StatesFrom(s, NothingRead, Len(sess[s]))[Len(sess[s])] BY <1>3, <3>3
      <4> QED BY <3>3, <4>1
    <3> QED BY <3>1, <3>2, <3>3
  <2> QED BY <2>1, <2>2, <2>3, ReadStep
<1> QED BY <1>4, <1>5

\* EstimateStable: however the reading of a transcript is cut up, by rounds that reach
\* its session and rounds that do not, by restarts and by Rebuilds at any point of a
\* round, an estimate is the one that a reading in one go gives.
THEOREM CollectorEstimateStable == Spec => []EstimateStable
<1>1. Init => EstimatesSound
  <2> SUFFICES ASSUME Init PROVE EstimatesSound
    OBVIOUS
  <2>1. /\ store = Open(EmptyDisk) /\ batch = <<>> /\ chan = <<>> /\ pool = {} /\ parsed = <<>>
        /\ toff = [s \in Sessions |-> NothingRead]
    BY DEF Init, IngestInit
  <2>2. store.entries = <<>> /\ Range(<<>>) = {} BY <2>1, StoreOpened, EmptyDiskTypes, EmptyIsSeq
  <2>3. Held = {} BY <2>1, <2>2 DEF Held, Carrying
  <2>4. ASSUME NEW s \in Sessions PROVE toff[s] = StatesFrom(s, NothingRead, toff[s].lines)[toff[s].lines]
    <3>1. toff[s] = NothingRead /\ NothingRead.lines = 0 BY <2>1, NothingReadSound
    <3>2. NothingRead = StatesFrom(s, NothingRead, 0)[0] BY NothingReadSound
    <3> QED BY <3>1, <3>2
  <2> QED BY <2>3, <2>4 DEF EstimatesSound
<1>2. Types /\ Types' /\ EstimatesSound /\ [Next]_vars => EstimatesSound' BY EstimatesStep
<1>3. EstimatesSound => EstimateStable
  <2>1. UNION {Range(chan[n]) : n \in DOMAIN chan} = Carrying BY DEF Carrying, Range
  <2> QED BY <2>1 DEF EstimatesSound, EstimateStable, Held, InOneGo, Travelling
<1> QED BY <1>1, <1>2, <1>3, TypesHold, PTL DEF Spec

-----------------------------------------------------------------------------
(* What is kept of a message *)

\* Which of two lines replaces which is a matter of three ranks, one after the other.
LEMMA ReplaceOrder ==
    ASSUME NEW a \in 1 .. Len(ClaudeScript), NEW b \in 1 .. Len(ClaudeScript), NEW c \in 1 .. Len(ClaudeScript)
    PROVE  /\ ~Claude!ShouldReplace(ClaudeScript[a], ClaudeScript[a])
           /\ (/\ ~Claude!ShouldReplace(ClaudeScript[a], ClaudeScript[b])
               /\ Claude!ShouldReplace(ClaudeScript[c], ClaudeScript[b]))
                  => ~Claude!ShouldReplace(ClaudeScript[a], ClaudeScript[c])
<1>1. /\ ClaudeScript[a].total \in Nat /\ ClaudeScript[b].total \in Nat /\ ClaudeScript[c].total \in Nat
      /\ ClaudeScript[a].side \in BOOLEAN /\ ClaudeScript[b].side \in BOOLEAN /\ ClaudeScript[c].side \in BOOLEAN
      /\ ClaudeScript[a].speed \in BOOLEAN /\ ClaudeScript[b].speed \in BOOLEAN /\ ClaudeScript[c].speed \in BOOLEAN
  BY ScriptAssumption
<1> QED BY <1>1 DEF Claude!ShouldReplace

\* Of the lines of a message one is kept that none of them would replace.
LEMMA ClaudeKept ==
    ASSUME NEW lines, lines \subseteq 1 .. Len(ClaudeScript), NEW i \in lines,
           NEW k, k = Claude!Kept(lines, ClaudeScript[i].key)
    PROVE  /\ k \in lines /\ ClaudeScript[k].key = ClaudeScript[i].key
           /\ ~Claude!ShouldReplace(ClaudeScript[i], ClaudeScript[k])
<1> DEFINE n == Len(ClaudeScript)
           key == ClaudeScript[i].key
           takes(j, e) == /\ j \in lines /\ ClaudeScript[j].key = key
                          /\ e = 0 \/ Claude!ShouldReplace(ClaudeScript[j], ClaudeScript[e])
           next(j, e) == IF takes(j, e) THEN j ELSE e
           Rec(f, m) == f = [j \in 0 .. m |-> IF j = 0 THEN 0 ELSE next(j, f[j - 1])]
           upTo == CHOOSE f : Rec(f, n)
<1>1. n \in Nat BY ScriptAssumption
<1>2. k = upTo[n] BY DEF Claude!Kept
<1> HIDE DEF n
<1> HIDE DEF next
<1>3. \E f : Rec(f, n)
  <2> DEFINE K == {m \in Nat : \E f : Rec(f, m)}
  <2>1. 0 \in K
    <3>1. Rec([j \in 0 .. 0 |-> 0], 0) OBVIOUS
    <3> HIDE DEF Rec
    <3>2. \E f : Rec(f, 0) BY <3>1
    <3> QED BY <3>2
  <2>2. ASSUME NEW m \in Nat, m \in K PROVE m + 1 \in K
    <3>1. PICK f : Rec(f, m) BY <2>2
    <3> DEFINE g == [j \in 0 .. m + 1 |-> IF j <= m THEN f[j] ELSE next(m + 1, f[m])]
               h == [j \in 0 .. m + 1 |-> IF j = 0 THEN 0 ELSE next(j, g[j - 1])]
    <3>2. ASSUME NEW j \in 0 .. m + 1 PROVE g[j] = h[j]
      <4>1. CASE j = 0 BY <3>1, <4>1
      <4>2. CASE j # 0 /\ j <= m
        <5>1. j \in 0 .. m /\ j - 1 \in 0 .. m + 1 /\ j - 1 <= m BY <4>2
        <5>2. g[j] = f[j] /\ g[j - 1] = f[j - 1] BY <4>2, <5>1
        <5>3. f[j] = next(j, f[j - 1]) BY <3>1, <4>2, <5>1
        <5> QED BY <4>2, <5>2, <5>3
      <4>3. CASE j = m + 1
        <5>1. j # 0 /\ ~(j <= m) /\ j - 1 = m /\ m \in 0 .. m + 1 /\ m <= m BY <4>3
        <5>2. g[m] = f[m] BY <5>1
        <5> QED BY <4>3, <5>1, <5>2
      <4> QED BY <4>1, <4>2, <4>3
    <3>3. g = h BY <3>2
    <3> HIDE DEF g
    <3>4. Rec(g, m + 1) BY <3>3
    <3> HIDE DEF Rec
    <3>5. \E e : Rec(e, m + 1) BY <3>4
    <3> QED BY <3>5
  <2> HIDE DEF K
  <2>3. n \in K BY <1>1, <2>1, <2>2, SetInduction
  <2> QED BY <2>3 DEF K
<1>4. Rec(upTo, n) BY <1>3
<1> HIDE DEF upTo
<1>5. upTo[0] = 0 /\ \A m \in 0 .. n - 1 : upTo[m + 1] = next(m + 1, upTo[m])
  <2>1. upTo[0] = 0 BY <1>1, <1>4
  <2>2. ASSUME NEW m \in 0 .. n - 1 PROVE upTo[m + 1] = next(m + 1, upTo[m])
    <3>1. m + 1 \in 0 .. n /\ m + 1 # 0 /\ (m + 1) - 1 = m BY <1>1
    <3> QED BY <1>4, <3>1
  <2> QED BY <2>1, <2>2
<1> DEFINE mine == {j \in lines : ClaudeScript[j].key = key}
           Best(e, m) == /\ e = 0 => \A j \in mine : j > m
                         /\ e # 0 => /\ e \in mine
                                     /\ \A j \in mine : j <= m =>
                                            ~Claude!ShouldReplace(ClaudeScript[j], ClaudeScript[e])
           K == {m \in Nat : Best(upTo[m], m)}
<1> HIDE DEF Rec, key
<1>6. \A j \in mine : j \in 1 .. n /\ j \in 1 .. Len(ClaudeScript) BY DEF n
<1>7. 0 \in K BY <1>5, <1>6
<1>8. ASSUME NEW m \in 0 .. n - 1, m \in K PROVE m + 1 \in K
  <2>1. m \in Nat /\ Best(upTo[m], m) /\ m + 1 # 0 BY <1>8
  <2>2. \A j \in mine : j <= m + 1 <=> (j <= m \/ j = m + 1) BY <1>6, <2>1
  <2> DEFINE e == upTo[m]
  <2>3. upTo[m + 1] = IF takes(m + 1, e) THEN m + 1 ELSE e BY <1>5 DEF next
  <2> HIDE DEF e
  <2>4. takes(m + 1, e) <=> m + 1 \in mine /\ (e = 0 \/ Claude!ShouldReplace(ClaudeScript[m + 1], ClaudeScript[e]))
    OBVIOUS
  <2>5. Best(e, m) BY <2>1 DEF e
  <2> HIDE DEF mine, takes
  <2>6. CASE takes(m + 1, e)
    <3>1. upTo[m + 1] = m + 1 /\ m + 1 \in mine BY <2>3, <2>4, <2>6
    <3>2. ASSUME NEW j \in mine, j <= m + 1
          PROVE  ~Claude!ShouldReplace(ClaudeScript[j], ClaudeScript[m + 1])
      <4>1. CASE j = m + 1 BY <1>6, <4>1, ReplaceOrder
      <4>2. CASE j <= m
        <5>1. e # 0 BY <2>5, <4>2, <1>6, <2>1
        <5>2. e \in mine /\ ~Claude!ShouldReplace(ClaudeScript[j], ClaudeScript[e]) BY <2>5, <4>2, <5>1
        <5>3. Claude!ShouldReplace(ClaudeScript[m + 1], ClaudeScript[e]) BY <2>4, <2>6, <5>1
        <5> QED BY <1>6, <3>1, <5>2, <5>3, ReplaceOrder
      <4> QED BY <2>2, <3>2, <4>1, <4>2
    <3>3. Best(m + 1, m + 1) BY <2>1, <3>1, <3>2
    <3> QED BY <2>1, <3>1, <3>3
  <2>7. CASE ~takes(m + 1, e)
    <3>1. upTo[m + 1] = e BY <2>3, <2>7
    <3>2. Best(e, m + 1)
      <4>1. CASE e = 0
        <5>1. m + 1 \notin mine BY <2>4, <2>7, <4>1
        <5>2. \A j \in mine : j > m BY <2>5, <4>1
        <5>3. \A j \in mine : j > m + 1 BY <1>6, <2>1, <5>1, <5>2
        <5> QED BY <4>1, <5>3
      <4>2. CASE e # 0
        <5>1. m + 1 \in mine => ~Claude!ShouldReplace(ClaudeScript[m + 1], ClaudeScript[e])
          BY <2>4, <2>7, <4>2
        <5> QED BY <2>2, <2>5, <4>2, <5>1
      <4> QED BY <4>1, <4>2
    <3> QED BY <2>1, <3>1, <3>2
  <2> QED BY <2>6, <2>7
<1> HIDE DEF K
<1>9. 0 .. n \subseteq K BY <1>1, <1>7, <1>8, BoundedInduction
<1>10. Best(k, n) BY <1>1, <1>2, <1>9 DEF K
<1>11. i \in mine /\ i \in 1 .. n BY DEF key, n
<1>12. k # 0
  <2>1. ~(i > n) BY <1>1, <1>11
  <2> QED BY <1>10, <1>11, <2>1
<1>13. i <= n BY <1>1, <1>11
<1> QED BY <1>10, <1>11, <1>12, <1>13 DEF key

-----------------------------------------------------------------------------
(* What a collection finds *)

LEMMA CarriedMore ==
    ASSUME NEW i, NEW A, NEW B, A \subseteq B, Carried(i, A)
    PROVE  Carried(i, B)
  BY DEF Carried

\* An amount is a number; it is 0 where the line is passed over.
LEMMA CodexAmountNat ==
    ASSUME NEW i \in 1 .. Len(CodexScript), NEW lines
    PROVE  Codex!CodexAmount(i, lines) \in Nat /\ Codex!CodexAmount(i, lines) = Codex!CodexAmount(i, {})
<1> DEFINE given == {k \in 1 .. i - 1 : CodexScript[k].total > 0}
<1>1. CodexScript[i].last \in Nat /\ CodexScript[i].total \in Nat BY ScriptAssumption
<1>2. Codex!TotalBefore(i) \in Nat
  <2>1. CASE given = {} BY <2>1 DEF Codex!TotalBefore
  <2>2. CASE given # {}
    <3>1. given \subseteq 0 .. i - 1 /\ i - 1 \in Nat OBVIOUS
    <3>2. Max(given) \in given BY <2>2, <3>1, MaxOfBounded
    <3>3. Codex!TotalBefore(i) = CodexScript[Max(given)].total BY <2>2 DEF Codex!TotalBefore, Codex!Max, Max
    <3>4. Max(given) \in 1 .. Len(CodexScript) BY <3>2, ScriptAssumption
    <3> QED BY <3>3, <3>4, ScriptAssumption
  <2> QED BY <2>1, <2>2
<1> QED BY <1>1, <1>2 DEF Codex!CodexAmount, Codex!Less

LEMMA CarriedByFiles ==
    ASSUME Types, ~Streams, Len(stamps) <= ScriptLen, NEW since, NEW i \in 1 .. shown,
           since = Never \/ stamps[i] >= since
    PROVE  Carried(i, FileLogs(since))
<1> DEFINE file == SubSeq(stamps, 1, shown)
<1>1. stamps \in Seq(Nat) /\ shown \in 0 .. Len(stamps) BY DEF Types, TaskTypes
<1>2. Len(file) = shown /\ \A j \in 1 .. shown : file[j] = stamps[j]
  <2>1. file = [j \in 1 .. shown |-> stamps[j]]
    <3>1. (shown - 1) + 1 = shown /\ \A j \in 1 .. shown : (j + 1) - 1 = j BY <1>1
    <3> QED BY <1>1, <3>1
  <2> HIDE DEF file
  <2> QED BY <1>1, <2>1
<1>3. ScriptLen \in Nat /\ shown <= ScriptLen BY <1>1, ScriptAssumption DEF ScriptLen
<1>4. kind \in {"claude", "codex"} BY CollectorAssumption DEF Types, TaskTypes, Streams
<1> HIDE DEF file
<1>5. CASE kind = "claude"
  <2> DEFINE lines == Claude!Loaded(file, since)
             k == Claude!Kept(lines, ClaudeScript[i].key)
  <2>1. i \in lines BY <1>2 DEF Claude!Loaded, Claude!FromSince
  <2>2. lines \subseteq 1 .. Len(ClaudeScript)
    <3>1. lines \subseteq 1 .. shown BY <1>2 DEF Claude!Loaded
    <3>2. ScriptLen = Len(ClaudeScript) BY <1>5 DEF ScriptLen
    <3> HIDE DEF lines
    <3> QED BY <1>1, <1>3, <3>1, <3>2
  <2>3. FileLogs(since) = {Claude!FileLog(j, file[j], ClaudeScript[j].total) :
                              j \in {Claude!Kept(lines, ClaudeScript[m].key) : m \in lines}}
    BY <1>5 DEF FileLogs, Claude!ClaudeLogs, file
  <2> HIDE DEF lines
  <2>4. /\ k \in lines /\ ClaudeScript[k].key = ClaudeScript[i].key
        /\ ~Claude!ShouldReplace(ClaudeScript[i], ClaudeScript[k])
    BY <2>1, <2>2, ClaudeKept
  <2>5. Claude!FileLog(k, file[k], ClaudeScript[k].total) \in FileLogs(since) BY <2>1, <2>3
  <2>6. Claude!FileLog(k, file[k], ClaudeScript[k].total).i = k BY DEF Claude!FileLog
  <2> HIDE DEF k
  <2> QED BY <1>5, <2>4, <2>5, <2>6 DEF Carried
<1>6. CASE kind = "codex"
  <2> DEFINE lines == Codex!Loaded(file, since)
  <2>1. i \in lines BY <1>2 DEF Codex!Loaded, Codex!FromSince
  <2>2. i \in 1 .. Len(CodexScript)
    <3>1. ScriptLen = Len(CodexScript) BY <1>6 DEF ScriptLen
    <3> QED BY <1>1, <1>3, <3>1
  <2>3. FileLogs(since) = {Codex!FileLog(j, file[j], Codex!CodexAmount(j, lines)) :
                              j \in {m \in lines : Codex!CodexAmount(m, lines) > 0}}
    BY <1>6 DEF FileLogs, Codex!CodexLogs, file
  <2> HIDE DEF lines
  <2>4. CASE Codex!CodexAmount(i, lines) > 0
    <3>1. Codex!FileLog(i, file[i], Codex!CodexAmount(i, lines)) \in FileLogs(since) BY <2>1, <2>3, <2>4
    <3>2. Codex!FileLog(i, file[i], Codex!CodexAmount(i, lines)).i = i BY DEF Codex!FileLog
    <3> QED BY <1>6, <3>1, <3>2 DEF Carried
  <2>5. CASE ~(Codex!CodexAmount(i, lines) > 0)
    <3>1. Codex!CodexAmount(i, {}) = 0 BY <2>2, <2>5, CodexAmountNat
    <3> QED BY <1>6, <3>1 DEF Carried
  <2> QED BY <2>4, <2>5
<1> QED BY <1>4, <1>5, <1>6

-----------------------------------------------------------------------------
(* Read or slipped *)

Safe(i) == command \/ i \in slipped \/ Carried(i, Recs)

\* The inductive invariant of ReadOrSlipped: what a collection under way has not
\* read, and what the tool has stamped and not written, is late for the last
\* collection only if it has slipped; what is in the batch's files is safe already.
NothingMissed ==
    /\ Len(stamps) <= ScriptLen /\ seen \in 0 .. shown
    /\ \A i \in 1 .. Len(stamps) :
           \/ last = Never \/ stamps[i] >= last \/ i \in slipped
           \/ i <= shown /\ Safe(i)
    /\ task = "send" => \A i \in 1 .. seen : Safe(i)

LEMMA MissedSizes ==
    ASSUME Types, Types', NothingMissed, [Next]_vars
    PROVE  /\ Len(stamps') <= ScriptLen' /\ seen' \in 0 .. shown'
           /\ ScriptLen \in Nat /\ Len(stamps) \in Nat /\ Len(stamps') \in Nat
<1>1. /\ Len(stamps) \in Nat /\ Len(stamps') \in Nat /\ shown \in Nat /\ shown' \in Nat
      /\ ScriptLen \in Nat /\ seen \in Nat /\ seen <= shown
  BY ScriptAssumption DEF Types, TaskTypes, ScriptLen, NothingMissed
<1>2. ScriptLen' = ScriptLen BY KindStays DEF ScriptLen
<1>3. Len(stamps') <= ScriptLen
  <2>1. CASE Stamp
    <3>1. Len(stamps) < ScriptLen /\ stamps' = Append(stamps, now) /\ stamps \in Seq(Nat)
      BY <2>1 DEF Stamp, Types, TaskTypes
    <3>2. Len(stamps') = Len(stamps) + 1 BY <3>1
    <3> QED BY <1>1, <3>1, <3>2
  <2>2. CASE ~Stamp
    <3>1. stamps' = stamps
      BY <2>2 DEF Next, IngestStep, OnlyIngest, Show, Tick, Wake, ReceiveCommand, Collect, CollectStore,
             CollectFiles, CollectError, Send, Ingest, IngestError, Upsert, ClearStorage, RebuildStep,
             ResetStore, ResetTranscripts, Broadcast, Crash, vars, fileVars
    <3> QED BY <3>1 DEF NothingMissed
  <2> QED BY <2>1, <2>2
<1>4. \/ seen' = seen /\ shown' = shown
      \/ seen' = seen /\ shown' = shown + 1
      \/ seen' = shown /\ shown' = shown
  BY DEF Next, IngestStep, OnlyIngest, Stamp, Show, Tick, Wake, ReceiveCommand, Collect, CollectStore,
         CollectFiles, CollectError, Send, Ingest, IngestError, Upsert, ClearStorage, RebuildStep,
         ResetStore, ResetTranscripts, Broadcast, Crash, vars, fileVars, ghostVars
<1>5. seen' \in 0 .. shown' BY <1>1, <1>4
<1> QED BY <1>1, <1>2, <1>3, <1>5

\* A step that takes nothing away and leaves the times alone.
LEMMA MissedKept ==
    ASSUME Types, Types', NothingMissed, [Next]_vars, Recs \subseteq Recs',
           command => command', slipped' = slipped, last' \in {last, Never},
           shown <= shown', stamps' = stamps, seen' = seen, task' \in {task, "idle"}
    PROVE  NothingMissed'
<1>1. \A i : Safe(i) => Safe(i)'
  <2> SUFFICES ASSUME NEW i, Safe(i) PROVE Safe(i)'
    OBVIOUS
  <2>1. ASSUME Carried(i, Recs) PROVE Carried(i, Recs)'
    <3>1. Carried(i, Recs') BY <2>1, CarriedMore
    <3> QED BY <3>1, KindStays DEF Carried, Codex!CodexAmount, Codex!Less, Codex!TotalBefore, Claude!ShouldReplace
  <2> QED BY <2>1 DEF Safe
<1>2. shown \in Nat /\ shown' \in Nat BY DEF Types, TaskTypes
<1>3. \A i \in 1 .. Len(stamps) : i <= shown => i <= shown' BY <1>2
<1> HIDE DEF Safe
<1> QED BY <1>1, <1>3, MissedSizes DEF NothingMissed

LEMMA SafeStays ==
    ASSUME NEW i, Safe(i), [Next]_vars, Recs \subseteq Recs', command => command',
           i \in slipped => i \in slipped'
    PROVE  Safe(i)'
<1>1. ASSUME Carried(i, Recs) PROVE Carried(i, Recs)'
  <2>1. Carried(i, Recs') BY <1>1, CarriedMore
  <2> QED BY <2>1, KindStays DEF Carried, Codex!CodexAmount, Codex!Less, Codex!TotalBefore, Claude!ShouldReplace
<1> QED BY <1>1 DEF Safe

LEMMA MissedByStamp ==
    ASSUME Types, Types', NothingMissed, Stamp
    PROVE  NothingMissed'
<1>1. /\ stamps' = Append(stamps, now)
      /\ UNCHANGED <<ingestVars, kind, rebuildVars, shown, now, taskVars, chan, pool, lost, ghostVars>>
  BY DEF Stamp
<1>2. stamps \in Seq(Nat) /\ Len(stamps) \in Nat /\ now \in Nat /\ (last = Never \/ last \in 1 .. now)
      /\ shown \in Nat /\ shown <= Len(stamps)
  BY DEF Types, TaskTypes
<1>3. [Next]_vars BY DEF Next
<1>4. UNCHANGED <<last, task, command, seen, slipped, shown>> /\ Recs' = Recs
  BY <1>1 DEF taskVars, ghostVars, ingestVars, rebuildVars, Recs, Carrying
<1>5. \A i : Safe(i) => Safe(i)' BY <1>3, <1>4, SafeStays
<1>6. ASSUME NEW i \in 1 .. Len(stamps')
      PROVE  \/ last' = Never \/ stamps'[i] >= last' \/ i \in slipped'
             \/ i <= shown' /\ Safe(i)'
  <2>1. CASE i <= Len(stamps)
    <3>1. i \in 1 .. Len(stamps) /\ stamps'[i] = stamps[i] BY <1>1, <1>2, <2>1
    <3> QED BY <1>4, <1>5, <3>1 DEF NothingMissed
  <2>2. CASE ~(i <= Len(stamps))
    <3>1. stamps'[i] = now BY <1>1, <1>2, <2>2
    <3> QED BY <1>2, <1>4, <3>1
  <2> QED BY <2>1, <2>2
<1>7. task' = "send" => \A i \in 1 .. seen' : Safe(i)' BY <1>4, <1>5 DEF NothingMissed
<1> QED BY <1>3, <1>6, <1>7, MissedSizes DEF NothingMissed

LEMMA MissedByCollect ==
    ASSUME Types, Types', NothingMissed, ~Streams, [Next]_vars, NEW since, CollectFiles(since),
           \/ since = last /\ command' = command
           \/ since = Never
    PROVE  NothingMissed'
<1>1. /\ task = "idle" /\ task' = "send" /\ last' = since /\ seen' = shown
      /\ batch' = SetToSeq(FileLogs(since))
      /\ slipped' = IF since = Never THEN slipped \ 1..shown ELSE slipped
      /\ lost' = (IF since = Never THEN {} ELSE lost)
      /\ cleared' = (IF since = Never THEN {} ELSE cleared)
      /\ UNCHANGED <<ingestVars, kind, rebuild, raced, fileVars, chan, pool, sent, resets>>
  BY DEF CollectFiles
<1>2. stamps' = stamps /\ shown' = shown BY <1>1 DEF fileVars
<1>3. /\ stamps \in Seq(Nat) /\ Len(stamps) \in Nat /\ shown \in 0 .. Len(stamps)
  BY DEF Types, TaskTypes
<1>4. Range(batch') = FileLogs(since) BY <1>1, FileBatch DEF Types
<1>5. ASSUME NEW i \in 1 .. shown, since = Never \/ stamps[i] >= since PROVE Safe(i)'
  <2>1. Carried(i, FileLogs(since)) BY <1>5, CarriedByFiles DEF NothingMissed
  <2>2. FileLogs(since) \subseteq Recs' BY <1>4 DEF Recs
  <2>3. Carried(i, Recs') BY <2>1, <2>2, CarriedMore
  <2>4. Carried(i, Recs)'
    BY <2>3, KindStays DEF Carried, Codex!CodexAmount, Codex!Less, Codex!TotalBefore, Claude!ShouldReplace
  <2> QED BY <2>4 DEF Safe
<1>6. CASE since = Never
  <2>1. last' = Never BY <1>1, <1>6
  <2>2. \A i \in 1 .. seen' : Safe(i)' BY <1>1, <1>5, <1>6
  <2> QED BY <2>1, <2>2, MissedSizes DEF NothingMissed
<1>7. CASE since # Never
  <2>1. /\ last' = last /\ command' = command /\ slipped' = slipped /\ last # Never
        /\ lost' = lost /\ cleared' = cleared
    BY <1>1, <1>7
  <2>2. ~ResetStore
    BY <1>1 DEF ResetStore, taskVars
  <2>3. Recs \subseteq Recs' BY <2>1, <2>2, RecsKept
  <2>4. \A i : Safe(i) => Safe(i)' BY <2>1, <2>3, SafeStays
  <2>5. ASSUME NEW i \in 1 .. shown PROVE Safe(i)'
    <3>1. i \in 1 .. Len(stamps) BY <1>3
    <3>2. CASE stamps[i] >= last BY <1>5, <1>7, <2>1, <1>1, <3>2
    <3>3. CASE ~(stamps[i] >= last)
      <4>1. i \in slipped \/ Safe(i) BY <2>1, <3>1, <3>3 DEF NothingMissed
      <4>2. Safe(i) BY <4>1 DEF Safe
      <4> QED BY <2>4, <4>2
    <3> QED BY <3>2, <3>3
  <2>6. ASSUME NEW i \in 1 .. Len(stamps')
        PROVE  \/ last' = Never \/ stamps'[i] >= last' \/ i \in slipped'
               \/ i <= shown' /\ Safe(i)'
    BY <1>2, <2>1, <2>4 DEF NothingMissed
  <2>7. \A i \in 1 .. seen' : Safe(i)' BY <1>1, <2>5
  <2> QED BY <2>6, <2>7, MissedSizes DEF NothingMissed
<1> QED BY <1>6, <1>7

\* What the tool wrote during the collection is younger than its end, or slips.
LEMMA MissedBySend ==
    ASSUME Types, Types', NothingMissed, Send
    PROVE  NothingMissed'
<1>1. /\ task = "send" /\ task' = "idle" /\ last' = now
      /\ slipped' = slipped \cup {i \in seen + 1..Len(stamps) : stamps[i] < now}
      /\ UNCHANGED <<ingestVars, kind, rebuildVars, fileVars, command, pool, lost, sent, seen, resets>>
  BY DEF Send
<1>2. [Next]_vars BY DEF Next
<1>3. Recs \subseteq Recs'
  <2>1. ~ResetStore
    <3>1. SUFFICES ASSUME ResetStore PROVE FALSE
      OBVIOUS
    <3>2. task' = task BY <3>1 DEF ResetStore, taskVars
    <3> QED BY <1>1, <3>2
  <2> QED BY <1>1, <1>2, <2>1, RecsKept DEF rebuildVars
<1>4. \A i : Safe(i) => Safe(i)' BY <1>1, <1>2, <1>3, SafeStays
<1>5. /\ stamps' = stamps /\ shown' = shown /\ stamps \in Seq(Nat) /\ Len(stamps) \in Nat
      /\ shown \in Nat /\ seen \in Nat /\ seen <= shown /\ now \in Nat
  BY <1>1 DEF Types, TaskTypes, fileVars, NothingMissed
<1>6. ASSUME NEW i \in 1 .. Len(stamps)
      PROVE  stamps[i] >= now \/ i \in slipped' \/ (i <= shown /\ Safe(i)')
  <2>1. CASE i <= seen
    <3>1. i \in 1 .. seen BY <1>5, <2>1
    <3>2. Safe(i) BY <1>1, <3>1 DEF NothingMissed
    <3> QED BY <1>4, <1>5, <2>1, <3>2
  <2>2. CASE ~(i <= seen)
    <3>1. i \in seen + 1 .. Len(stamps) /\ stamps[i] \in Nat BY <1>5, <2>2
    <3> QED BY <1>1, <1>5, <3>1
  <2> QED BY <2>1, <2>2
<1> QED BY <1>1, <1>2, <1>5, <1>6, MissedSizes DEF NothingMissed

LEMMA MissedStep ==
    ASSUME Types, Types', NothingMissed, [Next]_vars
    PROVE  NothingMissed'
<1>1. CASE Streams
  <2>1. ScriptLen' = 0 BY <1>1, KindStays DEF ScriptLen, Streams
  <2>2. Len(stamps') = 0 /\ 1 .. Len(stamps') = {} BY <2>1, MissedSizes
  <2>3. seen' = 0 /\ 1 .. seen' = {}
    <3>1. shown' \in 0 .. Len(stamps') BY DEF Types, TaskTypes
    <3> QED BY <2>2, <3>1, MissedSizes
  <2> QED BY <2>2, <2>3, MissedSizes DEF NothingMissed
<1>2. CASE ~Streams
  <2>0. ~ResetStore /\ ~ResetTranscripts
    BY <1>2 DEF ResetStore, ResetTranscripts, Types, TaskTypes
  <2>1. CASE \/ Show \/ Tick \/ Ingest \/ IngestError \/ Upsert \/ ClearStorage \/ Crash
             \/ UNCHANGED vars
    <3>1. lost \subseteq lost' /\ cleared \subseteq cleared'
      <4>1. CASE Show \/ Tick \/ Upsert \/ UNCHANGED vars
        BY <4>1 DEF Show, Tick, Upsert, vars, rebuildVars
      <4>2. CASE Ingest \/ IngestError BY <4>2 DEF Ingest, IngestError, rebuildVars
      <4>3. CASE Crash BY <4>3 DEF Crash
      <4>4. CASE ClearStorage BY <4>4 DEF ClearStorage
      <4> QED BY <2>1, <4>1, <4>2, <4>3, <4>4
    <3>2. Recs \subseteq Recs' BY <2>0, <3>1, RecsKept
    <3>3. CASE Crash
      <4>1. last' = Never /\ task' = "idle" BY <3>3 DEF Crash
      <4> QED BY <4>1, MissedSizes DEF NothingMissed
    <3>4. CASE Show \/ Tick \/ Ingest \/ IngestError \/ Upsert \/ ClearStorage \/ UNCHANGED vars
      <4>1. /\ command => command'
            /\ slipped' = slipped /\ last' = last /\ stamps' = stamps
            /\ seen' = seen /\ task' = task /\ (shown' = shown \/ shown' = shown + 1)
        BY <3>4 DEF Show, Tick, Ingest, IngestError, Upsert, ClearStorage, vars, taskVars, ghostVars, fileVars
      <4>2. shown <= shown'
        <5>1. shown \in Nat BY DEF Types, TaskTypes
        <5> QED BY <4>1, <5>1
      <4> QED BY <3>2, <4>1, <4>2, MissedKept
    <3> QED BY <2>1, <3>3, <3>4
  <2>2. CASE Stamp BY <2>2, MissedByStamp
  <2>3. CASE Send BY <2>3, MissedBySend
  <2>4. CASE Broadcast
    <3>1. command' = TRUE /\ UNCHANGED <<fileVars, last, task, seen, slipped>>
      BY <2>4 DEF Broadcast, ghostVars
    <3>2. \A i : Safe(i)' BY <3>1 DEF Safe
    <3> QED BY <3>1, <3>2, MissedSizes DEF NothingMissed, fileVars
  <2>5. CASE Wake \/ ReceiveCommand
    <3>1. PICK since : Collect(since) /\ (\/ since = last /\ command' = command
                                          \/ since = Never)
      BY <2>5 DEF Wake, ReceiveCommand
    <3>2. CASE CollectFiles(since) BY <1>2, <3>1, <3>2, MissedByCollect
    <3>3. CASE CollectError(since)
      <4>1. /\ task = "idle" /\ last' = since /\ UNCHANGED <<fileVars, task, batch, chan, pool, lost, cleared, ghostVars, store>>
        BY <3>3 DEF CollectError, NotFaults, rebuildVars
      <4>2. CASE since = Never
        <5>1. last' = Never /\ task' = "idle" BY <4>1, <4>2
        <5> QED BY <5>1, MissedSizes DEF NothingMissed
      <4>3. CASE since = last /\ command' = command
        <5>1. Recs' = Recs BY <4>1 DEF Recs, Carrying
        <5>2. shown <= shown' BY <4>1 DEF fileVars, Types, TaskTypes
        <5> QED BY <4>1, <4>3, <5>1, <5>2, MissedKept DEF fileVars, ghostVars
      <4> QED BY <3>1, <4>2, <4>3
    <3> QED BY <1>2, <3>1, <3>2, <3>3 DEF Collect, CollectStore
  <2>6. ~IngestStep BY <1>2 DEF IngestStep
  <2> QED BY <2>0, <2>1, <2>2, <2>3, <2>4, <2>5, <2>6 DEF Next, RebuildStep
<1> QED BY <1>1, <1>2

\* ReadOrSlipped: a line of the file is carried, or will be read by the next
\* collection, or it slipped through: stamped before the end of a collection and
\* written after its start.  Nothing else makes an incremental collection miss a
\* line: no error, restart or Rebuild, and no other line of the same message.
THEOREM CollectorReadOrSlipped == Spec => []ReadOrSlipped
<1>1. Init => NothingMissed
  <2> SUFFICES ASSUME Init PROVE NothingMissed
    OBVIOUS
  <2>1. stamps = <<>> /\ shown = 0 /\ seen = 0 /\ task = "idle" BY DEF Init
  <2>2. ScriptLen \in Nat BY ScriptAssumption DEF ScriptLen
  <2> QED BY <2>1, <2>2 DEF NothingMissed
<1>2. Types /\ Types' /\ NothingMissed /\ [Next]_vars => NothingMissed' BY MissedStep
<1>3. Types /\ NothingMissed => ReadOrSlipped
  <2> SUFFICES ASSUME Types, NothingMissed, NEW i \in 1 .. shown
               PROVE  \/ command \/ last = Never \/ stamps[i] >= last
                      \/ i \in slipped
                      \/ Carried(i, Travelling \cup pool \cup lost \cup cleared)
    BY DEF ReadOrSlipped
  <2>1. i \in 1 .. Len(stamps) BY DEF Types, TaskTypes
  <2>2. Travelling \cup pool \cup lost \cup cleared = Recs
    <3>1. UNION {Range(chan[n]) : n \in DOMAIN chan} = Carrying BY DEF Carrying, Range
    <3> QED BY <3>1 DEF Travelling, Recs
  <2> QED BY <2>1, <2>2 DEF NothingMissed, Safe
<1> QED BY <1>1, <1>2, <1>3, TypesHold, PTL DEF Spec
=============================================================================
