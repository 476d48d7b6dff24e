-------------------------- MODULE ToolCallCapacity --------------------------
(* The admission rule the Worker and the daemon share                        *)
(* (shared/tool-call-capacity.mjs).  A snapshot is a pair of counts: all     *)
(* active calls, and those among them that use a control-plane tool          *)
(* (diagnose_runtime, list_roots).                                           *)
EXTENDS Naturals

Smaller(a, b) == IF a <= b THEN a ELSE b
Larger(a, b)  == IF a >= b THEN a ELSE b

(* toolCallCapacityConfig: at least one place is left to ordinary tools.     *)
ReservedPlaces(maximum, reserved) == Smaller(reserved, maximum - 1)

(* toolCallCapacityUsage: activeOrdinary. *)
OrdinaryActive(active, activeReserved) ==
    active - Smaller(active, activeReserved)

(* toolCallAdmission(...).allowed *)
Admission(active, activeReserved, maximum, reserved, control) ==
    /\ active < maximum
    /\ \/ control
       \/ ReservedPlaces(maximum, reserved) = 0
       \/ OrdinaryActive(active, activeReserved)
              < maximum - ReservedPlaces(maximum, reserved)
=============================================================================
