------------------------------- MODULE MCLimiter -------------------------------
(***************************************************************************)
(* Instances of Limiter for TLC.                                           *)
(***************************************************************************)
EXTENDS Limiter

CONSTANTS x, y,         \* scrapes
          d1, d2        \* devices
=============================================================================
