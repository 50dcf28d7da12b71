------------------------------ MODULE MCErrorEvent ------------------------------
(* Texts for ErrorEvent: every script of up to three tokens, messages and  *)
(* stacks that contain each special token, alone and before the letter n.  *)
EXTENDS ErrorEvent

Special == {"quote", "backslash", "newline", "tab"}
MCChars == Fixed \cup Special
MCLibs == {<<>>, <<"x">>, <<"newline", "x", "newline">>}
MCScripts == UNION {[1 .. n -> {"x", "quote", "newline", "marker"}] : n \in 1 .. 3}
MCMessages == {<<"x">>} \cup {<<c, "n">> : c \in Special}
=============================================================================
