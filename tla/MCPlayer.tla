------------------------------ MODULE MCPlayer ------------------------------
(* Small instances of Player for TLC. *)
EXTENDS Player, TLC

\* Three songs, and times within one, at its end, past it, and such that are
\* printed with fewer than three digits.
SomeDurations == 1 :> 3000 @@ 2 :> 1500 @@ 3 :> 2050
SomeTimes == {-500, 5, 1000, 1050, 1500, 3000}
SomeProgress == {0, 500, 1500}
=============================================================================
