------------------------- MODULE LinePipelineProofs -------------------------
(***************************************************************************)
(* Proofs about the line cache and the line updates, for any number of     *)
(* threads, selections and prices.                                         *)
(*                                                                         *)
(* Merging without a lock loses a price to an overlap only: what makes     *)
(* LossNeedsOverlap, which speaks of the snapshot, inductive is the same   *)
(* of every copy of the snapshot a thread has read and will write back.    *)
(*                                                                         *)
(* The published deltas add up: while one thread at a time is between the  *)
(* diff and the publication, the view remembered and the replica part only *)
(* between its Store and its Publish, and by the delta it is about to send.*)
(***************************************************************************)
EXTENDS LinePipeline, LineCacheHistory, FiniteSetTheorems, WellFoundedInduction, TLAPS

-----------------------------------------------------------------------------
(* The cache, with its history *)

Holding(m) == mpc[m] \in {"append", "write"}

\* A copy of the snapshot is as good as the snapshot, but for the selections
\* overwritten since it was read.
CopiesKnown ==
  \A m \in Mergers : Holding(m) =>
    \A s \in Sels : existing[m][s] = merged[s] \/ s \in behind[m] \/ s \in undone

\* The part of the types the argument needs.
CopyShapes ==
  /\ snap \in [Sels -> Prices \cup {NoPrice}]
  /\ merged \in [Sels -> Prices \cup {NoPrice}]
  /\ existing \in [Mergers -> [Sels -> Prices \cup {NoPrice}]]
  /\ tick \in [Mergers -> Prices \cup {NoPrice}]
  /\ mpc \in [Mergers -> CachePc]
  /\ behind \in [Mergers -> SUBSET Sels]

LossInv == CopyShapes /\ LossNeedsOverlap /\ CopiesKnown

LEMMA LossInit == HistoryInit => LossInv
  BY DEF HistoryInit, CacheInit, LossInv, CopyShapes, LossNeedsOverlap, CopiesKnown, Holding,
         Empty, CachePc

\* A fetch and an append touch neither the snapshot nor what is known of it.
LEMMA FetchKeepsLoss ==
  ASSUME LossInv, NEW m \in Mergers, HFetch(m) \/ HAppend(m)
  PROVE  LossInv'
<1>1. CASE HFetch(m)
  BY <1>1 DEF HFetch, Fetch, Advance, LossInv, CopyShapes, LossNeedsOverlap, CopiesKnown,
              Holding, CachePc
<1>2. CASE HAppend(m)
  BY <1>2 DEF HAppend, AppendTick, Advance, LossInv, CopyShapes, LossNeedsOverlap,
              CopiesKnown, Holding, CachePc
<1>. QED BY <1>1, <1>2

\* What is known of a copy when it is taken is what is known of the snapshot.
LEMMA ReadKeepsLoss ==
  ASSUME LossInv, NEW m \in Mergers, HRead(m)
  PROVE  LossInv'
<1>1. CopyShapes'
  BY DEF HRead, ReadSnapshot, Advance, LossInv, CopyShapes, CachePc
<1>2. LossNeedsOverlap'
  BY DEF HRead, ReadSnapshot, LossInv, LossNeedsOverlap
<1>3. CopiesKnown'
  <2> SUFFICES ASSUME NEW n \in Mergers, Holding(n)', NEW s \in Sels
               PROVE  (existing[n][s] = merged[s] \/ s \in behind[n] \/ s \in undone)'
    BY DEF CopiesKnown
  <2>1. CASE n = m
    BY <2>1 DEF HRead, ReadSnapshot, LossInv, CopyShapes, LossNeedsOverlap
  <2>2. CASE n # m
    BY <2>2 DEF HRead, ReadSnapshot, Advance, LossInv, CopyShapes, CopiesKnown, Holding
  <2>. QED BY <2>1, <2>2
<1>. QED BY <1>1, <1>2, <1>3 DEF LossInv

\* A write brings its own selection up to date, undoes at most what the copy is
\* behind on, and leaves every other copy behind on the selection written.
LEMMA WriteKeepsLoss ==
  ASSUME LossInv, NEW m \in Mergers, HWrite(m)
  PROVE  LossInv'
<1> DEFINE own == SelOf[m]
<1>0. own \in Sels
  BY CacheAssumption
<1>1. CopyShapes'
  BY <1>0 DEF HWrite, WriteSnapshot, Advance, LossInv, CopyShapes, Overtaken, Empty, CachePc
<1>2. LossNeedsOverlap'
  <2> SUFFICES ASSUME NEW s \in Sels PROVE (snap[s] = merged[s] \/ s \in undone)'
    BY DEF LossNeedsOverlap
  <2>1. CASE s = own
    BY <2>1 DEF HWrite, WriteSnapshot, LossInv, CopyShapes
  <2>2. CASE s # own
    <3>1. existing[m][s] = merged[s] \/ s \in behind[m] \/ s \in undone
      BY DEF HWrite, WriteSnapshot, Advance, LossInv, CopiesKnown, Holding
    <3>. QED BY <2>2, <3>1 DEF HWrite, WriteSnapshot, LossInv, CopyShapes
  <2>. QED BY <2>1, <2>2
<1>3. CopiesKnown'
  <2> SUFFICES ASSUME NEW n \in Mergers, Holding(n)', NEW s \in Sels
               PROVE  (existing[n][s] = merged[s] \/ s \in behind[n] \/ s \in undone)'
    BY DEF CopiesKnown
  <2>1. n # m /\ Holding(n)
    BY DEF HWrite, WriteSnapshot, Advance, LossInv, CopyShapes, Holding
  <2>2. existing'[n][s] = existing[n][s]
    BY <2>1 DEF HWrite, WriteSnapshot, LossInv, CopyShapes
  <2>3. behind'[n] = behind[n] \cup {own}
    BY <2>1 DEF HWrite, Overtaken, Holding
  <2>4. existing[n][s] = merged[s] \/ s \in behind[n] \/ s \in undone
    BY <2>1 DEF LossInv, CopiesKnown
  <2>. QED BY <2>2, <2>3, <2>4 DEF HWrite, LossInv, CopyShapes
<1>. QED BY <1>1, <1>2, <1>3 DEF LossInv

\* An expired snapshot shows nothing and every copy of it is behind.
LEMMA WindowKeepsLoss ==
  ASSUME LossInv, HWindowPasses
  PROVE  LossInv'
<1>1. CASE age' < Ttl
  <2>1. UNCHANGED <<snap, merged, behind, undone, existing, tick, mpc>>
    BY <1>1, CacheAssumption DEF HWindowPasses, WindowPasses
  <2>. QED BY <2>1 DEF LossInv, CopyShapes, LossNeedsOverlap, CopiesKnown, Holding
<1>2. CASE age' = Ttl /\ merged' = Empty /\ behind' = Overtaken(Sels) /\ undone' = {}
  <2>1. snap' = Empty /\ UNCHANGED <<existing, tick, mpc>>
    BY <1>2 DEF HWindowPasses, WindowPasses
  <2>2. CopyShapes'
    BY <1>2, <2>1 DEF LossInv, CopyShapes, Overtaken, Empty
  <2>3. CopiesKnown'
    BY <1>2, <2>1 DEF LossInv, CopyShapes, CopiesKnown, Overtaken, Holding
  <2>. QED BY <1>2, <2>1, <2>2, <2>3 DEF LossInv, LossNeedsOverlap
<1>. QED BY <1>1, <1>2 DEF HWindowPasses

\* For any number of threads and selections: a price in the snapshot that is not
\* the one merged last was written back by a merge that had read before.
THEOREM LineLossNeedsOverlap == HistorySpec => []LossNeedsOverlap
<1>1. HistoryInit => LossInv
  BY LossInit
<1>2. LossInv /\ [HistoryNext]_historyVars => LossInv'
  <2> SUFFICES ASSUME LossInv, [HistoryNext]_historyVars PROVE LossInv'
    OBVIOUS
  <2>1. CASE \E m \in Mergers : HFetch(m) \/ HRead(m) \/ HAppend(m) \/ HWrite(m)
    BY <2>1, FetchKeepsLoss, ReadKeepsLoss, WriteKeepsLoss
  <2>2. CASE HWindowPasses
    BY <2>2, WindowKeepsLoss
  <2>3. CASE UNCHANGED historyVars
    BY <2>3 DEF historyVars, cacheVars, LossInv, CopyShapes, LossNeedsOverlap, CopiesKnown, Holding
  <2>. QED BY <2>1, <2>2, <2>3 DEF HistoryNext
<1>3. LossInv => LossNeedsOverlap
  BY DEF LossInv
<1>. QED BY <1>1, <1>2, <1>3, PTL DEF HistorySpec

-----------------------------------------------------------------------------
(* The line updates *)

Crossing(m) == dpc[m] \in {"store", "send"}

\* The part of the types the argument needs.
Shapes ==
  /\ mpc \in [Mergers -> CachePc]
  /\ dpc \in [Mergers -> {"none", "view", "peaks", "again", "diff", "store", "send"}]
  /\ snap \in Shown
  /\ existing \in [Mergers -> Shown]
  /\ tick \in [Mergers -> Prices \cup {NoPrice}]
  /\ \A m \in Mergers : mpc[m] # "idle" => dpc[m] = "none" /\ tick[m] # NoPrice
  /\ ring \subseteq Sels \X Prices
  /\ view \in [Mergers -> Shown]
  /\ delta \in [Mergers -> [Sels -> Prices \cup {NoPrice, Same}]]
  /\ replica \in Shown
  /\ last \in Shown \cup {NoLines}
  /\ age \in 0 .. Ttl
  /\ inTime \in [Mergers -> BOOLEAN]
  /\ spoilt \in BOOLEAN

\* One thread crosses at a time; what it has found is the difference between
\* the replica and its view, and the view is remembered once it is stored.
InStep ==
  /\ \A m, n \in Mergers : Crossing(m) /\ Crossing(n) => m = n
  /\ \A m \in Mergers : Crossing(m) => MergeChanged(replica, delta[m]) = view[m]
  /\ \A m \in Mergers : dpc[m] = "send" => last = view[m]
  /\ (last # NoLines /\ \A m \in Mergers : dpc[m] # "send") => replica = last

DeltaInv == Shapes /\ (~spoilt => InStep)

-----------------------------------------------------------------------------
(* The best of the prices *)

HasBest(ps) == \E p \in ps : \A q \in ps : q <= p

\* The odds are finitely many, so the best of some of them is one of them: a set
\* without a best would have a smallest such set, and taking a price out of it
\* leaves a set with one.
LEMMA PricesHaveBest ==
  ASSUME NEW ps \in SUBSET Prices, ps # {}
  PROVE  HasBest(ps)
<1> DEFINE Bad == {qs \in SUBSET Prices : qs # {} /\ ~HasBest(qs)}
           Sizes == {Cardinality(qs) : qs \in Bad}
<1> SUFFICES ASSUME Bad # {} PROVE FALSE
  OBVIOUS
<1>1. \A qs \in SUBSET Prices : IsFiniteSet(qs) /\ Cardinality(qs) \in Nat
  BY CacheAssumption, FS_Subset, FS_CardinalityType
<1>2. PICK n \in Sizes : \A k \in Sizes : n <= k
  <2>1. Sizes \subseteq Nat /\ Sizes # {}
    BY <1>1
  <2> HIDE DEF Sizes
  <2>2. PICK n \in Sizes : \A k \in Sizes : ~ (<<k, n>> \in OpToRel(<, Nat))
    BY <2>1, WFMin, NatLessThanWellFounded
  <2>3. ASSUME NEW k \in Sizes PROVE n <= k
    <3>1. ~ (k < n)
      BY <2>1, <2>2 DEF OpToRel
    <3> QED BY <2>1, <3>1
  <2> QED BY <2>3
<1>3. PICK qs \in Bad : Cardinality(qs) = n
  OBVIOUS
<1>4. PICK a \in qs : TRUE
  OBVIOUS
<1> DEFINE rest == qs \ {a}
<1>5. Cardinality(rest) < n
  BY <1>1, <1>3, FS_RemoveElement
<1>6. rest \notin Bad
  <2> SUFFICES ASSUME rest \in Bad PROVE FALSE
    OBVIOUS
  <2>1. Cardinality(rest) \in Sizes
    OBVIOUS
  <2>2. n <= Cardinality(rest)
    BY <1>2, <2>1
  <2> QED BY <1>1, <1>3, <1>5, <2>2
<1>7. CASE rest = {}
  BY <1>7, CacheAssumption DEF HasBest
<1>8. CASE rest # {}
  <2>1. PICK b \in rest : \A q \in rest : q <= b
    BY <1>6, <1>8 DEF HasBest
  <2>2. a \in Nat /\ b \in Nat /\ qs \subseteq Nat
    BY CacheAssumption
  <2>3. HasBest(qs)
    BY <2>1, <2>2 DEF HasBest
  <2> QED BY <2>3
<1> QED BY <1>7, <1>8

\* What a thread makes of a snapshot and the rings is a view.
LEMMA ActiveIsShown ==
  ASSUME Shapes, NEW snapshot \in Shown
  PROVE  ActiveOr(snapshot) \in Shown
<1>1. ASSUME NEW s \in Sels PROVE Best(Peaks(s)) \in Prices \cup {NoPrice}
  <2>1. Peaks(s) \subseteq Prices
    BY DEF Shapes, Peaks
  <2>2. CASE Peaks(s) # {}
    <3>1. \E p \in Peaks(s) : \A q \in Peaks(s) : q <= p
      BY <2>1, <2>2, PricesHaveBest DEF HasBest
    <3> HIDE DEF Peaks
    <3> QED BY <2>1, <2>2, <3>1 DEF Best
  <2> QED BY <2>2 DEF Best
<1> QED BY <1>1 DEF ActiveOr, Shown

-----------------------------------------------------------------------------
(* Deltas *)

\* Merging the difference of two views into the first gives the second.
LEMMA DeltaMerges ==
  ASSUME NEW v \in Shown, NEW r \in Shown, NEW prev \in Shown \cup {NoLines},
         prev # NoLines => r = prev
  PROVE  /\ DiffShopped(prev, v) \in [Sels -> Prices \cup {NoPrice, Same}]
         /\ MergeChanged(r, DiffShopped(prev, v)) = v
<1>1. CASE prev = NoLines
  BY <1>1, PipelineAssumption DEF DiffShopped, MergeChanged, Shown
<1>2. CASE prev # NoLines
  BY <1>2, PipelineAssumption DEF DiffShopped, MergeChanged, Shown
<1> QED BY <1>1, <1>2

LEMMA DiffIsDelta ==
  ASSUME NEW v \in Shown, NEW prev \in Shown \cup {NoLines}
  PROVE  DiffShopped(prev, v) \in [Sels -> Prices \cup {NoPrice, Same}]
  BY DEF DiffShopped, Shown

LEMMA MergeIsShown ==
  ASSUME NEW r \in Shown, NEW d \in [Sels -> Prices \cup {NoPrice, Same}]
  PROVE  MergeChanged(r, d) \in Shown
  BY DEF MergeChanged, Shown

-----------------------------------------------------------------------------
LEMMA DeltaInit == Init => DeltaInv
<1> SUFFICES ASSUME Init PROVE DeltaInv
  OBVIOUS
<1>1. age \in 0 .. Ttl
  BY CacheAssumption DEF Init, CacheInit
<1>2. Shapes
  BY <1>1 DEF Init, CacheInit, Shapes, Shown, Empty, NoDelta, CachePc
<1>3. InStep
  BY DEF Init, InStep, Crossing
<1> QED BY <1>2, <1>3 DEF DeltaInv

\* Merging prices and building a view leave the crossing threads as they are.
LEMMA MergeKeepsDelta ==
  ASSUME DeltaInv, NEW m \in Mergers,
         MergeFetch(m) \/ MergeRead(m) \/ MergeAppend(m) \/ MergeWrite(m)
  PROVE  DeltaInv'
<1> USE DEF DeltaInv
<1>0. SelOf[m] \in Sels
  BY CacheAssumption
<1>1. CASE MergeFetch(m)
  <2>1. inTime' \in [Mergers -> BOOLEAN]
    BY <1>1 DEF MergeFetch, Fetch, Shapes
  <2>2. Shapes'
    BY <1>1, <2>1, CacheAssumption DEF MergeFetch, Fetch, Advance, publishVars, Shapes, CachePc
  <2> QED BY <1>1, <2>2 DEF MergeFetch, publishVars, InStep, Crossing, MergeChanged
<1>2. CASE MergeRead(m)
  BY <1>2 DEF MergeRead, ReadSnapshot, Advance, publishVars, Shapes, InStep, Crossing, CachePc
<1>3. CASE MergeAppend(m)
  <2>1. <<SelOf[m], tick[m]>> \in Sels \X Prices
    BY <1>0, <1>3 DEF Shapes, MergeAppend, AppendTick, Advance
  <2>2. ring' \subseteq Sels \X Prices
    BY <1>3, <2>1 DEF Shapes, MergeAppend, AppendTick
  <2> QED BY <1>3, <2>2 DEF MergeAppend, AppendTick, Advance, publishVars, Shapes, InStep,
             Crossing, CachePc
<1>4. CASE MergeWrite(m)
  <2>1. Shapes'
    BY <1>0, <1>4, CacheAssumption DEF MergeWrite, WriteSnapshot, Advance, Shapes, Shown, Empty, CachePc
  <2>2. /\ \A n \in Mergers : Crossing(n)' <=> Crossing(n)
        /\ \A n \in Mergers : dpc'[n] = "send" <=> dpc[n] = "send"
    <3>1. dpc[m] = "none"
      BY <1>4 DEF MergeWrite, WriteSnapshot, Advance, Shapes
    <3>2. \A n \in Mergers : \/ n = m /\ dpc'[n] \in {"view", "none"}
                           \/ dpc'[n] = dpc[n]
      BY <1>4 DEF MergeWrite, Shapes
    <3> QED BY <3>1, <3>2 DEF Crossing
  <2>3. UNCHANGED <<last, view, delta, replica, spoilt>>
    BY <1>4 DEF MergeWrite
  <2>4. ~spoilt => InStep'
    BY <2>2, <2>3 DEF InStep, MergeChanged
  <2> QED BY <2>1, <2>3, <2>4
<1> QED BY <1>1, <1>2, <1>3, <1>4

LEMMA ViewKeepsDelta ==
  ASSUME DeltaInv, NEW m \in Mergers, ViewSnapshot(m) \/ ViewPeaks(m) \/ ViewAgain(m)
  PROVE  DeltaInv'
<1> USE DEF DeltaInv
<1>1. CASE ViewSnapshot(m)
  BY <1>1 DEF ViewSnapshot, PublishStep, cacheVars, Shapes, InStep, Crossing
<1>2. CASE ViewPeaks(m)
  <2>1. ActiveOr(view[m]) \in Shown
    BY ActiveIsShown DEF Shapes
  <2> QED BY <1>2, <2>1 DEF ViewPeaks, PublishStep, cacheVars, Shapes, InStep, Crossing
<1>3. CASE ViewAgain(m)
  BY <1>3 DEF ViewAgain, PublishStep, cacheVars, Shapes, InStep, Crossing
<1> QED BY <1>1, <1>2, <1>3

\* A thread that enters the crossing alone has found the way from the replica to
\* its view.
LEMMA DiffKeepsDelta ==
  ASSUME DeltaInv, NEW m \in Mergers, Diff(m)
  PROVE  DeltaInv'
<1> USE DEF DeltaInv
<1>0. /\ mpc[m] = "idle"
      /\ view[m] \in Shown
      /\ delta' = [delta EXCEPT ![m] = DiffShopped(last, view[m])]
      /\ dpc' = [dpc EXCEPT ![m] = "store"]
      /\ dpc[m] = "diff"
      /\ UNCHANGED <<cacheVars, last, view, replica>>
  BY DEF Diff, PublishStep, Shapes
<1>1. Shapes'
  <2>1. spoilt' \in BOOLEAN
    BY DEF Diff, Shapes
  <2> QED BY <1>0, <2>1, DiffIsDelta DEF Shapes, cacheVars
<1>2. ASSUME ~spoilt' PROVE InStep'
  <2>1. ~spoilt /\ \A n \in Mergers : ~Crossing(n)
    BY <1>0, <1>2 DEF Diff, Crossing
  <2>2. \A n \in Mergers : Crossing(n)' <=> n = m
    BY <1>0, <2>1 DEF Crossing, Shapes
  <2>3. last # NoLines => replica = last
    BY <2>1 DEF InStep, Crossing
  <2>4. MergeChanged(replica, delta'[m]) = view[m]
    BY <1>0, <2>3, DeltaMerges DEF Shapes
  <2>5. \A n \in Mergers : dpc'[n] # "send"
    BY <1>0, <2>1 DEF Crossing, Shapes
  <2> QED BY <1>0, <2>2, <2>3, <2>4, <2>5 DEF InStep, MergeChanged
<1> QED BY <1>1, <1>2

\* The view is remembered; if nothing is to be published the replica shows it.
LEMMA StoreKeepsDelta ==
  ASSUME DeltaInv, NEW m \in Mergers, Store(m)
  PROVE  DeltaInv'
<1> USE DEF DeltaInv
<1>0. /\ dpc[m] = "store"
      /\ last' = view[m]
      /\ UNCHANGED <<cacheVars, replica, spoilt>>
  BY DEF Store, PublishStep
<1>1. CASE delta[m] # NoDelta /\ dpc' = [dpc EXCEPT ![m] = "send"] /\ UNCHANGED <<view, delta>>
  <2>1. Shapes'
    BY <1>0, <1>1 DEF Shapes, cacheVars
  <2>2. ASSUME ~spoilt PROVE InStep'
    BY <1>0, <1>1, <2>2 DEF InStep, Crossing, Shapes, MergeChanged
  <2> QED BY <1>0, <2>1, <2>2
<1>2. CASE delta[m] = NoDelta /\ dpc' = [dpc EXCEPT ![m] = "none"] /\ PollEnds(m)
  <2>1. Shapes'
    BY <1>0, <1>2 DEF Shapes, cacheVars, PollEnds, Shown, Empty, NoDelta
  <2>2. ASSUME ~spoilt PROVE InStep'
    <3>1. \A n \in Mergers : n # m => ~Crossing(n)
      BY <1>0, <2>2 DEF InStep, Crossing
    <3>2. \A n \in Mergers : ~Crossing(n)'
      BY <1>2, <3>1 DEF Crossing, Shapes
    <3>3. replica = view[m]
      BY <1>0, <1>2, <2>2 DEF InStep, Crossing, Shapes, Shown, MergeChanged, NoDelta
    <3> QED BY <1>0, <3>2, <3>3 DEF InStep, Crossing
  <2> QED BY <1>0, <2>1, <2>2
<1> QED BY <1>1, <1>2 DEF Store, PublishStep

\* The delta sent takes the replica to the view remembered.
LEMMA PublishKeepsDelta ==
  ASSUME DeltaInv, NEW m \in Mergers, Publish(m) \/ PublishFails(m)
  PROVE  DeltaInv'
<1> USE DEF DeltaInv
<1>0. /\ dpc[m] = "send"
      /\ dpc' = [dpc EXCEPT ![m] = "none"]
      /\ PollEnds(m)
      /\ UNCHANGED <<cacheVars, last>>
  BY DEF Publish, PublishFails, PublishStep
<1>1. replica' \in Shown
  BY MergeIsShown DEF Publish, PublishFails, Shapes
<1>2. Shapes'
  <2>1. spoilt' \in BOOLEAN
    BY DEF Publish, PublishFails, Shapes
  <2> QED BY <1>0, <1>1, <2>1 DEF Shapes, cacheVars, PollEnds, Shown, Empty, NoDelta
<1>3. ASSUME ~spoilt' PROVE InStep'
  <2>1. Publish(m) /\ ~spoilt
    BY <1>3 DEF Publish, PublishFails
  <2>2. \A n \in Mergers : ~Crossing(n)'
    BY <1>0, <2>1 DEF InStep, Crossing, Shapes
  <2>3. replica' = last
    BY <1>0, <2>1 DEF Publish, InStep, Crossing
  <2> QED BY <1>0, <2>2, <2>3 DEF InStep, Crossing
<1> QED BY <1>2, <1>3

LEMMA DeltaStep == DeltaInv /\ [Next]_vars => DeltaInv'
<1> SUFFICES ASSUME DeltaInv, [Next]_vars PROVE DeltaInv'
  OBVIOUS
<1>1. CASE \E m \in Mergers : Merger(m)
  BY <1>1, MergeKeepsDelta, ViewKeepsDelta, DiffKeepsDelta, StoreKeepsDelta,
     PublishKeepsDelta DEF Merger
<1>2. CASE ClockTicks
  BY <1>2, CacheAssumption DEF ClockTicks, WindowPasses, publishVars, DeltaInv, Shapes, InStep,
                               Crossing, MergeChanged, Shown, Empty
<1>3. CASE UNCHANGED vars
  BY <1>3 DEF vars, cacheVars, publishVars, DeltaInv, Shapes, InStep, Crossing, MergeChanged
<1> QED BY <1>1, <1>2, <1>3 DEF Next

\* For any number of threads and selections: while no two polls have crossed and
\* no publication has failed, whoever applies the deltas shows the view the
\* process remembers.
THEOREM LineDeltasAddUp == Spec => []DeltasAddUp
<1>1. Init => DeltaInv
  BY DeltaInit
<1>2. DeltaInv /\ [Next]_vars => DeltaInv'
  BY DeltaStep
<1>3. DeltaInv => DeltasAddUp
  BY DEF DeltaInv, InStep, DeltasAddUp
<1> QED BY <1>1, <1>2, <1>3, PTL DEF Spec

\* The snapshot, the rings, what each thread holds and the delta it found have
\* their shape in every reachable state, and no thread merges while it publishes.
THEOREM LinePipelineTypeCorrect == Spec => []TypeOK
<1>1. Init => DeltaInv
  BY DeltaInit
<1>2. DeltaInv /\ [Next]_vars => DeltaInv'
  BY DeltaStep
<1>3. DeltaInv => TypeOK
  BY DEF DeltaInv, Shapes, TypeOK, CacheTypeOK
<1> QED BY <1>1, <1>2, <1>3, PTL DEF Spec
=============================================================================
