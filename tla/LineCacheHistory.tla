-------------------------- MODULE LineCacheHistory --------------------------
(***************************************************************************)
(* The LineCache on its own, with what has happened to each selection's    *)
(* price, to say what merging without a lock may lose.  The variables      *)
(* below only watch.                                                       *)
(***************************************************************************)
EXTENDS LineCache

VARIABLES
  merged,    \* the price last merged per selection, NoPrice once expired
  behind,    \* per thread, the selections written or expired since its read
  undone     \* selections a thread wrote back as an older read had them

historyVars == <<cacheVars, merged, behind, undone>>

HistoryInit ==
  /\ CacheInit
  /\ merged = Empty
  /\ behind = [m \in Mergers |-> {}]
  /\ undone = {}

HFetch(m) == Fetch(m) /\ UNCHANGED <<merged, behind, undone>>

HRead(m) ==
  /\ ReadSnapshot(m)
  /\ behind' = [behind EXCEPT ![m] = {}]
  /\ UNCHANGED <<merged, undone>>

HAppend(m) == AppendTick(m) /\ UNCHANGED <<merged, behind, undone>>

\* behind after the selections ss are overwritten
Overtaken(ss) ==
  [n \in Mergers |-> IF mpc[n] \in {"append", "write"} THEN behind[n] \cup ss ELSE {}]

HWrite(m) ==
  /\ WriteSnapshot(m)
  /\ merged' = [merged EXCEPT ![SelOf[m]] = tick[m]]
  /\ behind' = [Overtaken({SelOf[m]}) EXCEPT ![m] = {}]
  /\ undone' = (undone \cup behind[m]) \ {SelOf[m]}

\* An expired snapshot is lost to every thread that has read it.
HWindowPasses ==
  /\ WindowPasses
  /\ \/ age' < Ttl /\ UNCHANGED <<merged, behind, undone>>
     \/ age' = Ttl /\ merged' = Empty /\ behind' = Overtaken(Sels) /\ undone' = {}

HistoryNext ==
  \/ \E m \in Mergers : HFetch(m) \/ HRead(m) \/ HAppend(m) \/ HWrite(m)
  \/ HWindowPasses

HistorySpec == HistoryInit /\ [][HistoryNext]_historyVars

-----------------------------------------------------------------------------
(* Properties *)

\* A price is lost only to an overlap: the snapshot shows the price last merged
\* for every selection, but for one that another feed's merge has written back
\* from a snapshot it read before the price was merged or expired.  (A merge of
\* the selection brings it back.)
LossNeedsOverlap ==
  \A s \in Sels : snap[s] = merged[s] \/ s \in undone
=============================================================================
