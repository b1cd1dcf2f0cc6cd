--------------------------- MODULE MCNetworkLease ---------------------------
(***************************************************************************)
(* NetworkLease for TLC.  Ids carry a millisecond timestamp whose first    *)
(* byte is 1 until the year 2039; the names take four, here two, so that   *)
(* ids of one 65-second window have the same.                              *)
(***************************************************************************)
EXTENDS NetworkLease, TLC

CONSTANTS b1, b2

MCSameWindow == (b1 :> <<1, 10>>) @@ (b2 :> <<1, 10>>)
=============================================================================
