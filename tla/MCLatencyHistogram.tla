------------------------- MODULE MCLatencyHistogram -------------------------
(* A histogram of four-bit samples, for TLC.                               *)
EXTENDS LatencyHistogram

\* Out of range, the extremes, those main() prints, and ones between.
SomePercents == {<<-1, 2>>, <<0, 1>>, <<1, 100>>, <<1, 4>>, <<1, 3>>, <<1, 2>>,
                 <<3, 4>>, <<99, 100>>, <<1, 1>>, <<3, 2>>}
=============================================================================
