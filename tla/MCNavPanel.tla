----------------------------- MODULE MCNavPanel -----------------------------
(* Small instances of NavPanel for TLC: goals, threads and polls are numbers. *)
EXTENDS NavPanel

One == {1}
Two == {1, 2}
Three == {3}
TwoMore == {3, 4}
=============================================================================
