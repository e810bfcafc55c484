------------------------------- MODULE MCGame -------------------------------
(* Game on a map with a crooked corridor and two enemies.                   *)
(*        0 1 2 3 4                                                         *)
(*      0 # # # # #                                                         *)
(*      1 # . . . #                                                         *)
(*      2 # . # [ #                                                         *)
(*      3 # # # # #                                                         *)
EXTENDS Game, TLC

Board == (0..4) \X (0..3)
Goal == {<<3, 2>>}
Blocks == Board \ ({<<1, 1>>, <<2, 1>>, <<3, 1>>, <<1, 2>>} \cup Goal)
Places == 0 :> <<1, 1>> @@ 1 :> <<3, 1>> @@ 2 :> <<1, 2>>
=============================================================================
