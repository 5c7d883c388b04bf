---------------------------- MODULE MCWatchStall ----------------------------
(***************************************************************************)
(* Model-checking instance of WatchStall.  One tick stands for one 2 s     *)
(* poll period, so the 2 s join is one tick.  The window of 120 s and the  *)
(* 5 s wait are shrunk to 3 and 2 ticks, which keeps the order the code    *)
(* relies on (window > wait > join = poll) and lets a marker, more output  *)
(* and a diagnostics round all happen within three lines.                  *)
(***************************************************************************)
EXTENDS WatchStall

=============================================================================
