-------------------------- MODULE MCSandboxNetwork --------------------------
(***************************************************************************)
(* SandboxNetwork for TLC: two sandboxes of different 65-second windows,   *)
(* which share the subnet, as all do until the first byte of the time      *)
(* stamp changes in 2039; the commands of one of them may fail, of each    *)
(* deletion one.  Nameserver n1 is in both resolver files, and the         *)
(* fallback behind it.                                                     *)
(***************************************************************************)
EXTENDS SandboxNetwork, TLC

CONSTANTS b1, b2, u1, t1, n1

MCStamp == (b1 :> <<1, 10>>) @@ (b2 :> <<1, 11>>)
MCGuest == (u1 :> b1) @@ (t1 :> b1)
MCEtc == <<n1>>
MCRun == <<n1>>
=============================================================================
