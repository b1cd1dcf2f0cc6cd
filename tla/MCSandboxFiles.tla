--------------------------- MODULE MCSandboxFiles ---------------------------
(***************************************************************************)
(* SandboxFiles for TLC: an upload of two bytes that may not overwrite and *)
(* one of a single byte that may, so that it takes the longer file over    *)
(* while that is written, or is met by it; pages of one or two bytes that  *)
(* are read a byte at a time.  The proofs are for every choice of sizes    *)
(* and modes.                                                              *)
(***************************************************************************)
EXTENDS SandboxFiles, TLC

CONSTANTS u1, u2

MCModes == {[u \in Uploads |-> u = u2]}
MCSize == (u1 :> 2) @@ (u2 :> 1)
=============================================================================
