------------------------------- MODULE MCShell -------------------------------
(***************************************************************************)
(* A small instance of the shell: names of two characters at most, two     *)
(* slots for files and three for applications, and lines with one and two  *)
(* spaces, with a word that just fits and one that does not, without a     *)
(* text and with a text that holds a space.                                *)
(***************************************************************************)
EXTENDS Shell

MCChar == {"a", "b", ".", "/", " "}

MCSeparator == {"/"}

MCZhNames == {<<"a", "b">>}

MCEnNames == {<<"b">>}

App(identifier, requested, entry) ==
    [manifest |-> [identifier |-> identifier, requested |-> requested],
     entry |-> entry]

\* Two identifiers that fill the container's path and differ in their last
\* character only.
MCLong == <<"a", ".", "b", ".", "a", "b">>
MCOther == <<"a", ".", "b", ".", "a", "a">>

\* An incomplete manifest, an application, the same again, a second one, a third
\* with room for the suffix of its path, and a fourth for which there is no room.
MCBuiltin == <<App(NULLPTR, {"console"}, "e0"),
               App(MCLong, {"console", "network"}, "e1"),
               App(MCLong, {"console"}, "e2"),
               App(MCOther, {"hardware"}, "e3"),
               App(<<"b">>, {}, "e4"),
               App(<<"a", "b">>, {}, "e5")>>

Line(lead, word, gap, text) ==
    [lead |-> lead, word |-> word, gap |-> gap, text |-> text]

MCLines ==
    {Line(0, << >>, 0, << >>), Line(1, << >>, 0, << >>), Line(0, <<"b">>, 0, << >>),
     Line(1, <<"a">>, 0, << >>), Line(1, <<"/", "a">>, 0, << >>),
     Line(1, <<"a", "b">>, 0, << >>), Line(1, MCLong, 0, << >>), Line(1, MCOther, 0, << >>),
     Line(1, <<"b">>, 0, << >>), Line(2, <<"a">>, 2, <<"b", " ">>),
     Line(1, <<"a", "b">>, 1, <<"b">>),                 \* the longest word
     Line(1, <<"a", "b">>, 1, <<"a", " ", "b">>),       \* too long a text
     Line(1, <<"a", "b", "a">>, 1, <<"b">>)}            \* too long a word
=============================================================================
