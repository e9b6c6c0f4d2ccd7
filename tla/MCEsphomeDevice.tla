---------------------------- MODULE MCEsphomeDevice ----------------------------
(***************************************************************************)
(* Instances of EsphomeDevice for TLC.                                     *)
(***************************************************************************)
EXTENDS EsphomeDevice

\* The first build lists two entities, the second only the latter.
DroppedSensor == << {1, 2}, {2} >>

ASSUME ShownHypotheses == OrphansFit /\ NoneReturns
=============================================================================
