----------------------------- MODULE MCSoftwareSHM -----------------------------
(* SoftwareSHM with samples of five bytes, 40 bits, so that each end of each   *)
(* band, 14 and 26 ones, 12 and 28 runs, is the exact value of some sample.    *)
EXTENDS SoftwareSHM

MCSamples ==
  { <<0, 0, 0, 0, 0>>, <<204, 204, 204, 204, 204>>,        \* 20 ones, 20 runs
    <<7, 1, 1, 170, 170>>, <<170, 170, 3, 3, 3>>,          \* 13 and 14 ones
    <<63, 63, 170, 170, 63>>, <<85, 255, 85, 7, 255>>,     \* 26 and 27 ones
    <<129, 31, 31, 129, 31>>, <<15, 15, 15, 15, 51>>,      \* 11 and 12 runs
    <<204, 204, 204, 170, 170>>, <<85, 204, 85, 85, 204>> }  \* 28 and 29 runs
=============================================================================
