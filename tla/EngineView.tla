------------------------------- MODULE EngineView -------------------------------
(***************************************************************************)
(* What the ducking engine of firmware-rs/src/ducking.rs promises the LED  *)
(* and the clients, who see only whether it is armed and whether it ducks: *)
(* ducking starts in no other call than a tick, never while disarmed, and  *)
(* not before a tick that already counted noise ("watching").              *)
(***************************************************************************)

VARIABLES
    armed,
    ducking,   \* state = Ducking: is_ducking_now
    warm       \* sustained_ms > 0

vars == <<armed, ducking, warm>>

TickArmed ==
    /\ armed
    /\ ducking' \in BOOLEAN /\ warm' \in BOOLEAN
    /\ ~ ducking /\ ducking' => warm /\ warm'
    /\ UNCHANGED armed

TickDisarmed ==
    /\ ~ armed
    /\ ducking' = FALSE /\ warm' = FALSE
    /\ UNCHANGED armed

Tick == TickArmed \/ TickDisarmed

Arm == armed' = TRUE /\ UNCHANGED <<ducking, warm>>

\* disarm resets sustained_ms, so that an LED showing "armed" is never stale.
DisarmWarm == armed' = FALSE /\ ducking' = FALSE /\ UNCHANGED warm
Disarm == armed' = FALSE /\ ducking' = FALSE /\ warm' = FALSE

\* clear_duck_state, once tv_task has brought the volume back.
Clear == ducking' = FALSE /\ UNCHANGED <<armed, warm>>

Init == armed = FALSE /\ ducking = FALSE /\ warm = FALSE

Next == Tick \/ Arm \/ Disarm \/ Clear

Spec == Init /\ [][Next]_vars
================================================================================
