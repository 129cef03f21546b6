------------------------------ MODULE MCWorker ------------------------------
(***************************************************************************)
(* Two fixtures, two calls an hour, and the environments in which the      *)
(* worker takes another way.  API-Football lists the fixtures in slots of  *)
(* their own, and FotMob knows the second only.                            *)
(***************************************************************************)
EXTENDS AutoIngest, TLC

CONSTANTS f, g

Sloted == ("api" :> (f :> 1 @@ g :> 2)) @@ ("fotmob" :> (f :> 0 @@ g :> 1))

Base ==
  [paused |-> FALSE, arbOnly |-> FALSE, feedMode |-> "default", disabled |-> {}, extra |-> {},
   auto |-> TRUE, loop |-> "async", spec |-> {}, ids |-> {}, map |-> {}, key |-> TRUE]

Frozen ==
  [Base EXCEPT !.paused = TRUE, !.arbOnly = TRUE, !.disabled = {"api-football", "betfair", "pinnacle"}]

Listing(e) == [e EXCEPT !.auto = FALSE, !.spec = {f, g}, !.ids = {f}]

SomeEnvironments ==
  {Base, Listing(Base), Listing([Base EXCEPT !.loop = "sync"]),
   [Base EXCEPT !.feedMode = "scrape", !.spec = {g}, !.ids = {g}],
   Listing([Base EXCEPT !.feedMode = "separate", !.loop = "uniform"]),
   Listing([Base EXCEPT !.feedMode = "hibs", !.loop = "uniform"]),
   [Base EXCEPT !.auto = FALSE], [Base EXCEPT !.paused = TRUE],
   Frozen, [Frozen EXCEPT !.map = {f}], [Frozen EXCEPT !.spec = {g}], Listing(Frozen),
   [Frozen EXCEPT !.disabled = {"api-football"}, !.extra = {"betfair"}],
   [Listing(Frozen) EXCEPT !.disabled = {}]}
=============================================================================
