------------------------------ MODULE EsphomeLife ------------------------------
(***************************************************************************)
(* What internal/esphome/manager.go relies on in a device goroutine: it    *)
(* dials, holds at most one connection, rests between two attempts, and    *)
(* once its context is cancelled it closes what it holds and exits.        *)
(***************************************************************************)
VARIABLES
    life,       \* "resting", "dialling", "open" or "exited"
    cancelled   \* the goroutine's context is done

vars == <<life, cancelled>>

Init == life = "resting" /\ cancelled = FALSE

Cancel == ~cancelled /\ cancelled' = TRUE /\ UNCHANGED life

\* A loop that saw its context alive dials, even if the context is done by then.
Dial    == life = "resting"  /\ ~cancelled /\ life' = "dialling" /\ UNCHANGED cancelled
Connect == life = "dialling" /\ life' = "open"    /\ UNCHANGED cancelled
GiveUp  == life = "dialling" /\ life' = "resting" /\ UNCHANGED cancelled
Close   == life = "open"     /\ life' = "resting" /\ UNCHANGED cancelled
Exit    == life = "resting"  /\ cancelled /\ life' = "exited" /\ UNCHANGED cancelled

Next == Cancel \/ Dial \/ Connect \/ GiveUp \/ Close \/ Exit

\* Nothing obliges a goroutine to connect, only to wind up.
Spec == Init /\ [][Next]_vars /\ (cancelled ~> life = "exited")
=============================================================================
