-------------------------- MODULE MCImageCacheLive --------------------------
(***************************************************************************)
(* The instance of ImageCacheHistory that TLC checks, with the fairness    *)
(* of ImageCache.                                                          *)
(***************************************************************************)
EXTENDS ImageCacheHistory

FairHSpec == HSpec /\ WorkerFairness /\ CleanupFairness
=============================================================================
