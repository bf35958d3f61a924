--------------------------- MODULE MCWatchedRead ---------------------------
(***************************************************************************)
(* WatchedRead on limits below, at and above the chunk size, and streams   *)
(* from empty to past every limit, with every ending.                      *)
(***************************************************************************)
EXTENDS WatchedRead

SmallLimits == {-1, 0, 1, 2, 5}
SmallStreams == [size : 0..7, ending : Ending, yields : BOOLEAN]
=============================================================================
