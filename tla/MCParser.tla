------------------------------ MODULE MCParser ------------------------------
(* Parser with the token streams of its TLC run. *)
EXTENDS Parser

Stream(classes, tokens) == [alphabet |-> classes, tokens |-> tokens]

\* Nested statements and functions; operands and suffixes; the other declarations and
\* statements.  Of keywords whose constructs are parsed alike one is taken.
AllStreams ==
    {Stream({"match", "if", "else", "LBRACE", "RBRACE", "ident", ">>"}, 7),
     Stream({"fn", "ident", "LPAREN", "RPAREN", "COMMA", "LBRACE", "RBRACE"}, 7),
     Stream({"&", "!", "$", "ident", "LPAREN", "RPAREN", ":", "LBRACE", "RBRACE"}, 5),
     Stream({"ident", "branch", "LBRACKET", "RBRACKET", ".", "..", "@", "INT_LITERAL",
             "-", "="}, 5),
     Stream({"nao", "env", "sys", "fn", "provides", "ident", "LPAREN", "RPAREN", "=",
             "LBRACE", "RBRACE"}, 5),
     Stream({"enum", "struct", "module", "world", "macro", "using", "::", "fn",
             "export", "extends", "ident", "LBRACE", "RBRACE", "LPAREN", "RPAREN",
             ":"}, 4),
     Stream({"while", "for", "return", "unsafe", "trusted", "check", "region", "type",
             "compiletime", "modifier", "ident", "=", "COMMA", "LBRACE", "RBRACE",
             "LBRACKET", "noalias"}, 4)}
=============================================================================
