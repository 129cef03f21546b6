---------------------------- MODULE LinePipeline ----------------------------
(***************************************************************************)
(* The worker's side of the line updates: a poll merges into the LineCache,*)
(* and one whose merge changed a price builds the line view, diffs it with *)
(* the view the process published last (pipeline/line_delta.py) and        *)
(* publishes what differs on the line bus.  The diff, the overwriting of   *)
(* _LAST_SHOPPED and the publication are steps of their own: the pool's    *)
(* threads share the dictionary and nothing locks it.                      *)
(*                                                                         *)
(* A view is the best price per selection: the best over a market's        *)
(* bookmakers and channels, taken by shop_lines, is left out, and odds are *)
(* units further apart than the 0.001 that diff_shopped does not notice.   *)
(***************************************************************************)
EXTENDS LineCache

CONSTANTS
  Same       \* a delta's entry for a selection it leaves out

ASSUME PipelineAssumption == Same \notin Prices \cup {NoPrice}

VARIABLES
  last,      \* _LAST_SHOPPED of the worker, NoLines before the first view
  view,      \* the line view each thread built
  delta,     \* the changed markets it found
  dpc,       \* where each thread is in build_line_update_message
  replica,   \* what a consumer that applies every published delta shows
  spoilt     \* two threads were between diff and publication at once, or a
             \* publication failed

publishVars == <<last, view, delta, dpc, replica, spoilt>>
vars == <<cacheVars, publishVars>>

NoLines == [s \in {} |-> NoPrice]

NoDelta == [s \in Sels |-> Same]

TypeOK ==
  /\ CacheTypeOK
  /\ last \in Shown \cup {NoLines}
  /\ view \in [Mergers -> Shown]
  /\ delta \in [Mergers -> [Sels -> Prices \cup {NoPrice, Same}]]
  /\ dpc \in [Mergers -> {"none", "view", "peaks", "again", "diff", "store", "send"}]
  /\ replica \in Shown
  /\ spoilt \in BOOLEAN
  /\ \A m \in Mergers : dpc[m] = "none" \/ mpc[m] = "idle"

Init ==
  /\ CacheInit
  /\ last = NoLines
  /\ view = [m \in Mergers |-> Empty]
  /\ delta = [m \in Mergers |-> NoDelta]
  /\ dpc = [m \in Mergers |-> "none"]
  /\ replica = Empty
  /\ spoilt = FALSE

-----------------------------------------------------------------------------
(* merge_ticks, called by a thread that is not publishing. *)

MergeFetch(m) ==
  /\ dpc[m] = "none"
  /\ Fetch(m)
  /\ UNCHANGED publishVars

MergeRead(m) == ReadSnapshot(m) /\ UNCHANGED publishVars

MergeAppend(m) == AppendTick(m) /\ UNCHANGED publishVars

MergeWrite(m) ==
  /\ WriteSnapshot(m)
  /\ dpc' = [dpc EXCEPT ![m] = IF Changed(m) THEN "view" ELSE "none"]
  /\ UNCHANGED <<last, view, delta, replica, spoilt>>

-----------------------------------------------------------------------------
(* ingest_feed after a merge that changed something. *)

PublishStep(m, from, to) ==
  /\ dpc[m] = from
  /\ dpc' = [dpc EXCEPT ![m] = to]
  /\ UNCHANGED cacheVars

\* ... and the poll is over.
PollEnds(m) ==
  /\ view' = [view EXCEPT ![m] = Empty]
  /\ delta' = [delta EXCEPT ![m] = NoDelta]

\* build_line_view reads the snapshot, then the rings.
ViewSnapshot(m) ==
  /\ PublishStep(m, "view", "peaks")
  /\ view' = [view EXCEPT ![m] = snap]
  /\ UNCHANGED <<last, delta, replica, spoilt>>

ViewPeaks(m) ==
  /\ PublishStep(m, "peaks", IF ring = {} THEN "again" ELSE "diff")
  /\ view' = [view EXCEPT ![m] = ActiveOr(view[m])]
  /\ UNCHANGED <<last, delta, replica, spoilt>>

\* get_peak_ticks found no move and reads the snapshot itself, which is shown unless
\* it has expired since it was read first.
ViewAgain(m) ==
  /\ PublishStep(m, "again", "diff")
  /\ view' = [view EXCEPT ![m] = IF snap = Empty THEN @ ELSE snap]
  /\ UNCHANGED <<last, delta, replica, spoilt>>

\* (mutant: a vanished price is not a change)
DiffQuotedOnly(previous, current) ==
  IF previous = NoLines THEN current
  ELSE [s \in Sels |-> IF current[s] \in {previous[s], NoPrice} THEN Same ELSE current[s]]

\* diff_shopped: the first view is published whole, later ones selection by
\* selection where they differ, a vanished price included.
DiffShopped(previous, current) ==
  IF previous = NoLines THEN current
  ELSE [s \in Sels |-> IF current[s] = previous[s] THEN Same ELSE current[s]]

Diff(m) ==
  /\ PublishStep(m, "diff", "store")
  /\ delta' = [delta EXCEPT ![m] = DiffShopped(last, view[m])]
  /\ spoilt' = (spoilt \/ \E n \in Mergers \ {m} : dpc[n] \in {"store", "send"})
  /\ UNCHANGED <<last, view, replica>>

\* _LAST_SHOPPED is overwritten; an empty diff is not published.
Store(m) ==
  /\ last' = view[m]
  /\ \/ /\ delta[m] # NoDelta
        /\ PublishStep(m, "store", "send")
        /\ UNCHANGED <<view, delta>>
     \/ /\ delta[m] = NoDelta
        /\ PublishStep(m, "store", "none")
        /\ PollEnds(m)
  /\ UNCHANGED <<replica, spoilt>>

\* merge_changed_markets
MergeChanged(lines, d) == [s \in Sels |-> IF d[s] = Same THEN lines[s] ELSE d[s]]

Publish(m) ==
  /\ PublishStep(m, "send", "none")
  /\ PollEnds(m)
  /\ replica' = MergeChanged(replica, delta[m])
  /\ UNCHANGED <<last, spoilt>>

\* The bus raises: ingest_feed logs it, and _LAST_SHOPPED has moved on.
PublishFails(m) ==
  /\ PublishStep(m, "send", "none")
  /\ PollEnds(m)
  /\ spoilt' = TRUE
  /\ UNCHANGED <<last, replica>>

Merger(m) ==
  \/ MergeFetch(m) \/ MergeRead(m) \/ MergeAppend(m) \/ MergeWrite(m)
  \/ ViewSnapshot(m) \/ ViewPeaks(m) \/ ViewAgain(m) \/ Diff(m) \/ Store(m)
  \/ Publish(m) \/ PublishFails(m)

ClockTicks == WindowPasses /\ UNCHANGED publishVars

Next ==
  \/ \E m \in Mergers : Merger(m)
  \/ ClockTicks

Spec == Init /\ [][Next]_vars

-----------------------------------------------------------------------------
(* Properties *)

\* As long as no two polls have been between the diff and the publication at
\* once and no publication has failed, the deltas add up: a consumer of the bus
\* that applies them all shows exactly the view the process remembers, whenever
\* none is on its way.
DeltasAddUp ==
  (~spoilt /\ last # NoLines /\ \A m \in Mergers : dpc[m] # "send") => replica = last
=============================================================================
