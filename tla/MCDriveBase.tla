---------------------------- MODULE MCDriveBase ----------------------------
(* Small instances of DriveBase for TLC. *)
EXTENDS DriveBase

\* A straight command, and a curve beyond MaxRpm: wheels of -4 and -12.
DriveOnly == {<<1, 0>>}
CurveOnly == {<<4, 8>>}

\* The odometry decides nothing that the watchdog's runs are about: states that
\* differ only in it are explored once.
WithoutOdometry == <<time, setback, faults, motor, commanderVars, queue, proc, launches,
                     lastCmd, lastCmdAt, nextCall, handled>>
=============================================================================
