---------------------------- MODULE MCScanFuser ----------------------------
(* A small instance of ScanFuser for TLC. *)
EXTENDS ScanFuser

\* Nine bins: each meets another pair of what the two sensors may return, among
\* too near, within the limits, too far and nothing.
MCBins == 1..9
OneLidarFrame == {[b \in MCBins |-> <<1, 3, Inf>>[((b - 1) % 3) + 1]]}
OneDepthFrame == {[b \in MCBins |-> <<1, 2, 4>>[((b - 1) \div 3) + 1]]}

\* The clock is right, or set back by two ticks: the next scans' stamps are
\* then behind the last one's, and not equal to it only.
TwoTicks == {0, 2}
=============================================================================
