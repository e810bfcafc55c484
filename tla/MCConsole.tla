----------------------------- MODULE MCConsole -----------------------------
(* Console on a screen of two rows and three columns, with pages of eight   *)
(* bytes: two of the kernel, one of code and two of data, and three more.   *)
EXTENDS Console

Text == [a \in 0..63 |-> IF a % 7 = 3 THEN "nl" ELSE IF a % 2 = 0 THEN "p" ELSE "q"]
Buffers == {<<24, 0>>, <<24, 1>>, <<25, 5>>, <<26, 6>>, <<27, 7>>, <<24, 16>>,
            <<39, 1>>,
            <<14, 3>>, <<60, 3>>, <<62, 5>>}
PicturePlaces == {0, 8, 20, 26, 40, 60}
Places == {-1, 0, 1, 2, 3, 7, 8}
Shades == {<<0, 15>>, <<1, 3>>, <<8, 3>>, <<1, 16>>}
=============================================================================
