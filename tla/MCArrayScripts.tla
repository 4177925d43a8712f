--------------------------- MODULE MCArrayScripts ---------------------------
(* The other arrays: none, a string key, a key that no array of the script    *)
(* keeps, keys out of order, values that are equal but not identical.         *)
EXTENDS ArrayScripts

CONSTANT s

MCKeys == {0, 1, s}
MCVals == {0, 1, s, NULL}
MCStrs == {s}
MCStrRank == [x \in MCStrs |-> 0]
MCLiterals == { <<>>,
                <<<<s, 1>>, <<0, 0>>>>,
                <<<<2, s>>, <<1, NULL>>>>,
                <<<<1, 0>>, <<0, s>>, <<s, 1>>>> }
=============================================================================
