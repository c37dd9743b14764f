----------------------------- MODULE MCDashboard -----------------------------
(* Small pages, wires and files, for TLC.                                  *)
EXTENDS Dashboard

CONSTANTS s1, s2

TwoSymbols == <<s1, s2>>

\* A meta record, records of two symbols at two times, and a line that is cut.
SomeLines ==
    {[t |-> "garbled"], [t |-> "meta", ts |-> 1, symbols |-> <<s2, s1>>]}
    \cup [t : {"status"}, sym : {s1, s2}, ts : {1, 2}]
    \cup [t : {"fill"}, sym : {s1}, ts : {1, 2}]
=============================================================================
