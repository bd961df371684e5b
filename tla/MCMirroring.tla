----------------------------- MODULE MCMirroring -----------------------------
(* Small instances of Mirroring for TLC. *)
EXTENDS Mirroring, TLC

CONSTANTS h1, v1

OneHolding == h1 :> v1

=============================================================================
