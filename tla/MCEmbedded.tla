----------------------------- MODULE MCEmbedded -----------------------------
(***************************************************************************)
(* Instances of Embedded for TLC.                                          *)
(***************************************************************************)
EXTENDS Embedded, TLC

CONSTANTS k1, k2, k3

\* k1 and k2 can be served together, k3 only without them.
MixedForwarding == k1 :> "LEGACY" @@ k2 :> "LEGACY" @@ k3 :> "NONE"
=============================================================================
