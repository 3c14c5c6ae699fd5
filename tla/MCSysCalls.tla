----------------------------- MODULE MCSysCalls -----------------------------
(* Two images, the first one under two spellings, two drives, two lines of   *)
(* config.txt.  An inode takes three of the four bytes of a sector, so that *)
(* a block of two sectors has two of the three inodes.  The first image is   *)
(* made without a whole sector or with five, which is too small for blocks  *)
(* of two sectors; the second one with eight, for blocks of two.            *)
EXTENDS SysCalls, TLC
CONSTANTS d, e, i1, i2, o1, o2

MCImages    == {i1, i2}
MCSpellings == {"i1", "./i1", "i2"}
MCImageOf   == [s \in MCSpellings |-> IF s = "i2" THEN i2 ELSE i1]
MCLetters   == {"A", "a", "B", "?"}
MCDrives    == {"a", "b"}
MCLower     == [c \in MCLetters |->
                   CASE c = "?" -> NoDrive [] c = "B" -> "b" [] OTHER -> "a"]
MCSizesOf   == [i \in MCImages |-> IF i = i1 THEN {3, 23} ELSE {35}]
MCPerBlocksOf == [i \in MCImages |-> IF i = i1 THEN {0, 1, 2} ELSE {2, 3}]

MCLines     == {<<"A", "i1">>, <<"B", "i1">>, <<"B", "./i1">>, <<"a", "i2">>, <<"?", "i2">>}

Here(p)     == [drive |-> NoDrive, path |-> p]
On(c, p)    == [drive |-> c, path |-> p]

MCOperands ==
    {Here(p) : p \in {<<d>>, <<e>>, <<d, NoName>>, <<d, e>>, <<d, NoName, e>>, <<NoName, d>>, <<"..">>,
                      <<"..", d>>, <<"..", "..">>, <<".", e, "..", d>>}}
    \cup {On("A", p) : p \in {<<NoName>>, <<NoName, NoName>>, <<NoName, d>>, <<NoName, d, e>>, <<d>>,
                               <<NoName, e, "..", d>>, <<NoName, "..", "..", e>>}}
    \cup {On("B", p) : p \in {<<NoName, NoName>>, <<NoName, e>>}}
    \cup {On("?", <<NoName, d>>)}

\* Each of them fails an assertion, in the first state of the shell.
MCClimbing  == {On("A", <<NoName, "..", e>>)}
MCNameless  == {On("A", <<NoName, NoName>>)}
MCAsserting == MCClimbing \cup MCNameless

MCOpened == {Here(<<d>>), On("B", <<NoName, e>>)}
MCPairs ==
    {<<Here(<<d>>), Here(<<e>>)>>, <<Here(<<d>>), Here(<<"..", e>>)>>,
     <<Here(<<e>>), On("A", <<NoName, d, e>>)>>,
     <<Here(<<d>>), Here(<<e, NoName>>)>>, <<On("B", <<NoName, d>>), Here(<<e>>)>>}

MCNames == {d, e}
MCObjs  == {o1, o2}
Symmetry == Permutations(MCObjs)
=============================================================================
