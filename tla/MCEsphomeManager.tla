---------------------------- MODULE MCEsphomeManager ----------------------------
(***************************************************************************)
(* Instances of EsphomeManager for TLC.                                    *)
(***************************************************************************)
EXTENDS EsphomeManager

CONSTANTS d1, d2,       \* devices
          a1, a2,       \* addresses
          g1, g2, g3    \* goroutines
=============================================================================
