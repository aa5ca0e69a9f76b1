---------------------------- MODULE MCThrottle ----------------------------
(* Throttle with the settings that are outside its bounds: no delay at all,   *)
(* a delay above every ceiling, and a batch below the smallest.  The delay    *)
(* and the batch are inside after the first recovery.                         *)
EXTENDS Throttle

SettingsValue == {[delay |-> 0, batch |-> 10], [delay |-> 80, batch |-> 7]}

=============================================================================
