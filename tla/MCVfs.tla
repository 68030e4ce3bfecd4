-------------------------------- MODULE MCVfs --------------------------------
(***************************************************************************)
(* A small instance of the file system: three good names for two slots,    *)
(* one of them also written with leading separators, and one bad path of   *)
(* each kind; texts short enough to be appended to each other and one that *)
(* never fits.                                                             *)
(***************************************************************************)
EXTENDS Vfs

MCChar == {"x", "y", "z", ".", "/", "\\"}

MCSeparator == {"/", "\\"}

MCPaths ==
    {<<"x">>, <<"/", "\\", "x">>, <<"y", ".">>, <<"z">>,  \* x, /\x, y., z
     << >>, <<"/">>, <<".", "x">>,                    \* no name, a dot first
     <<"x", "/", "y">>, <<"x", "x", "x">>}            \* nested, too long

MCTexts == {<< >>, <<"x">>, <<"y", "y">>, <<"x", "y", "x", "y">>}
=============================================================================
