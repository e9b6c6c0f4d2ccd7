--------------------------- MODULE MCAvahiSession ---------------------------
(***************************************************************************)
(* Instances of AvahiSession for TLC: two service types, the first of them *)
(* with all the services.                                                  *)
(***************************************************************************)
EXTENDS AvahiSession

CONSTANTS t1, t2,       \* service types
          s1, s2,       \* services
          r1, r2        \* resolver goroutines

MCTypes  == <<t1, t2>>
MCTypeOf == [s \in Services |-> t1]
=============================================================================
