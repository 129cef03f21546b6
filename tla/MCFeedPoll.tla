----------------------------- MODULE MCFeedPoll -----------------------------
(* Polls of one feed for a few fixtures, on a pool smaller than the number *)
(* of fixtures, beside one thread of another process that shares the       *)
(* budget's Redis counter.                                                 *)
EXTENDS FeedPoll

CONSTANTS t1, t2, o1, redis

MCCallers == {t1, t2}
MCSpenders == {t1, t2, o1}
MCStoreOf == [s \in MCSpenders |-> redis]
=============================================================================
