---------------------------- MODULE MCExposure ----------------------------
(* The instance of Exposure that TLC checks.  The instruments of a cluster are
   interchangeable: every definition treats them alike, and no property is a
   liveness property. *)
EXTENDS Exposure, TLC

Interchangeable == Permutations(Crypto)
===========================================================================
