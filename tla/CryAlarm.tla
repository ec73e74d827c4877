-------------------------------- MODULE CryAlarm --------------------------------
(***************************************************************************)
(* What the cry tracker of firmware-rs/src/ducking.rs promises the tasks   *)
(* that read baby_crying and the cry_event: the flag rises with a          *)
(* cry-positive window, and once the cooldown has been loaded it falls     *)
(* only after that many quiet windows and one more.  How rhythm is told    *)
(* from noise, and when the cooldown is loaded again, is CryTracker's.     *)
(***************************************************************************)
EXTENDS Naturals

CONSTANT Cooldown   \* cooldown_windows when crying is confirmed

VARIABLES
    cry,    \* the verdict of the last window
    crying,
    held    \* quiet windows the flag still outlasts: cooldown_windows

vars == <<cry, crying, held>>

Rise(isCry) == isCry /\ ~ crying /\ crying' = TRUE /\ held' = Cooldown

Renew == crying /\ held' = Cooldown /\ UNCHANGED crying

Stay(isCry) ==
    /\ IF crying /\ ~ isCry THEN held > 0 /\ held' = held - 1 ELSE UNCHANGED held
    /\ UNCHANGED crying

Fall(isCry) == ~ isCry /\ crying /\ held = 0 /\ crying' = FALSE /\ UNCHANGED held

\* One call of tick.
Window(isCry) == Rise(isCry) \/ Renew \/ Stay(isCry) \/ Fall(isCry)

Init == cry = FALSE /\ crying = FALSE /\ held = 0

Next == \E isCry \in BOOLEAN : Window(isCry) /\ cry' = isCry

Spec == Init /\ [][Next]_vars
================================================================================
