-------------------------------- MODULE MCLamp --------------------------------
(* Small instances of Lamp for TLC. *)
EXTENDS Lamp

Ask(l, m, t) == [level |-> l, mode |-> m, time |-> t]

\* Every mode, full, dim and dark, with no time, uneven times and the longest;
\* fades of every speed.
AllModes ==
    {Ask(l, m, t) : l \in {0, 51, 255}, m \in {2, 3}, t \in {0, 95}}
        \union {Ask(255, 0, 0), Ask(100, 1, 0), Ask(255, 9, 10),
                Ask(51, 3, 3), Ask(100, 3, 200), Ask(254, 3, 65535)}

\* What conversions of an infinity give on the usual processors, and the ends.
Anything == {-32768, -1, 0, 1, 50, 32767}
=============================================================================
