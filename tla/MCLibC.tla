-------------------------------- MODULE MCLibC --------------------------------
(***************************************************************************)
(* A small instance: every word in every conversion by itself, and formats *)
(* of several pieces with the words at the edges.                          *)
(***************************************************************************)
EXTENDS LibC

MCChar == {DigitChar(d) : d \in 0 .. 15} 
          \cup {" ", "-", "%", "\n", "\t", "vt", "i", "u", "x", "s", "q"}

Number(c, word) == Piece(<<"%", c>>, <<word>>)

Edges == {0, 1, 9, 10, WORD \div 2 - 1, WORD \div 2, WORD - 1}

Blank == Piece(<<" ">>, << >>)

Word == Piece(<<"%", "s">>, << <<"a", "7">> >>)

MCFormats ==
    {<<Number(c, word)>> : c \in {"i", "x", "u"}, word \in Words}
    \cup {<<Blank, Number("d", word), Piece(<<"f">>, << >>)>> : word \in Words}
    \cup {<<Number("d", a), Piece(<<"%", "%">>, << >>), Number("u", b)>> : a, b \in Edges}
    \cup {<< >>, <<Word, Piece(<<"%", "c">>, <<"7">>), Piece(<<"%", "q">>, << >>), Number("i", 1)>>}

MCTexts == {<< >>, <<"\t", "-", "9", "9", "9", "a">>, <<"-", "-", "1">>, <<"vt", "0", "7">>}
=============================================================================
