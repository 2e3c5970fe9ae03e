---------------------------- MODULE MCStopPinky ----------------------------
(* A small instance of StopPinky for TLC. *)
EXTENDS StopPinky

DriveOnly == {<<1, 0>>}

\* The odometry decides nothing that this run is about: states that differ only
\* in it are explored once.
WithoutOdometry == <<time, setback, motor, faults, commanderVars, queue, proc,
                     lastCmd, handled, nextCall, scriptVars>>
=============================================================================
