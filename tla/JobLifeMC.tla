----------------------------- MODULE JobLifeMC -----------------------------
(* Instances of JobLife for TLC.                                             *)
EXTENDS JobLife

\* Messages with a phrase of each half of the patterns, with both, with none.
Texts == { {}, {"timeout"}, {"not found"}, {"connection", "does not exist"}, {"validation"},
           {"busy"}, {"bad request", "unavailable"} }

\* No wider than the model's i16 and a little beyond it, as i32 is to i16.
I32Attempts == {-1, 0, 1, 2, 40}
I32Priorities == {-20, 0, 10, 40}
I16Priorities == {-20, 0, 10}
=============================================================================
