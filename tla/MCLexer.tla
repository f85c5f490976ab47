------------------------------ MODULE MCLexer -------------------------------
(* Lexer with the sources of its TLC runs. *)
EXTENDS Lexer

Source(classes, characters) == [alphabet |-> classes, length |-> characters]

\* Keywords and braces, between comments and strings.
Words == Source({"unsafe", "macro", "letter", "blank", "quote", "^", "newline",
                 "{", "}"}, 7)

\* Comments, operators and literals.
Literals == Source({"0", "x", "digit", "fn", "/", "*", "!", "^", ".", "=", "quote",
                    "apostrophe", "backslash", "{", "}"}, 5)

\* Strings with newlines, and what shows their diagnostics.
Strings == Source({"letter", "newline", "quote", "backslash", "apostrophe", "~", "{"}, 6)

AllSources == {Words, Literals, Strings}
BraceSources == {Source({"letter", "blank", "{", "}"}, 4)}
=============================================================================
