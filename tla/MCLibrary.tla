----------------------------- MODULE MCLibrary -----------------------------
(* Instances of Library for TLC.                                           *)
EXTENDS Library

MCPatterns == {<<"a">>, <<"a", "b">>, <<"a", "A">>, <<"b", "a">>, <<"a", "a">>, <<"a", "b", "a">>}

MCMarks == {"a", "&", "<", ">", "\"", "'", "\\", "\n"}

Text1(s) == InitFromString(s)
Half1(n) == MemObjTryIntger([Plain("real") EXCEPT !.r = Frac(n, 2)])
MCOperands ==
    {InitFromInt(n) : n \in {-128, -127, -7, -1, 0, 1, 2, 3, 5, 8, 100, 127}}
    \cup {Half1(n) : n \in {1, 3, 4, -5, 600, -256, 0}}
    \cup {Text1(s) : s \in {<<>>, <<"0">>, <<"0", "0">>, <<"5">>, <<"1", ".", "5">>, <<"a", "b">>,
                            <<"1", "2", "a">>, <<"0", "x", "f">>, <<"0", "1", "1">>, Lit("true"),
                            Lit("false"), <<" ", "7">>, <<"1", "e", "1">>}}
    \cup {InitFromBool(TRUE), InitFromBool(FALSE), MemObjInit}
    \cup {InitFromArray(a) : a \in {<<>>, <<InitFromInt(1)>>, <<InitFromInt(1), Text1(<<"a">>)>>}}

Leaf(v) == <<"scalar", v>>
Leaves == {Leaf(v) : v \in {MemObjInit, InitFromBool(TRUE), InitFromInt(-1), InitFromInt(12), Half1(3)}}
    \cup {Leaf(Text1(s)) : s \in {<<>>, <<"a", "\"", "\\", "n">>, <<"a", "\\">>, <<"[", ",", "}">>}}
Pairs(D) == {<<"object", <<<<<<"k">>, d>>, <<<<"j">>, e>>>>>> : d, e \in D}
Single(D) == {<<"object", <<<<<<"k">>, d>>>>>> : d \in D}
Empty == <<"object", <<>>>>
MCDocuments ==
    Leaves \cup {Empty} \cup Pairs(Leaves \cup {Empty})
    \cup Single(Single(Leaves)) \cup Single(Single(Single(Leaves \cup {Empty})))
    \cup Pairs(Single({Leaf(InitFromInt(1)), Empty}))

MCDirectives == {<<"%">>, <<"d">>, <<"%", "5", "d">>, <<"%", "0", "5", "s">>, <<"%", "'", "a">>,
                 <<"-", "0", "4", "d">>, <<"%", "2", "$">>, <<".", "2">>, <<"#", "+", "x">>}

MCPaths == {<<"f">>, <<"g">>, <<"d">>, <<"d", "f">>, <<"e">>, <<"e", "f">>}
MCHomes == {<<"f">>}
MCContents == {<<>>, <<"\n">>, <<"a", "b", "\n", "c">>, <<"a", "b", "c", "d", "e">>, <<"\n", "a", "\n", "\n", "b">>}
MCModes == {<<"r">>, <<"r", "+">>, <<"w">>, <<"w", "+">>, <<"a">>, <<"a", "+">>, <<"x">>, <<"x", "+">>, <<"c">>, <<"c", "+">>}
MCWritten == {<<"x">>}
MCSizes == {-1, 0, 1, 2, 4}
MCGlobs == {<<"*">>, <<"?">>, <<"a">>, <<"\\">>, <<"[", "a", "-", "b", "]">>, <<"[", "^", "a", "]">>,
            <<"[", "]", "a", "]">>, <<"A">>}
MCGlobbed == UNION {[1 .. n -> {"a", "b", "*", "]"}] : n \in 0 .. 3}

MCTwoSided == {"*", "-", ".", "<<", "<", "==", "&", "^", "|", "&&", "||", "and", "xor", "or", ",", "instanceof"}
MCOneSided == {"!", "u-", "(int)", "@"}
MCDeepLeaves == {Va}
============================================================================
