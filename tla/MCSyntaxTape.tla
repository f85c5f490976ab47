---------------------------- MODULE MCSyntaxTape ----------------------------
(* SyntaxTape and TapeFlow with the constants of the TLC runs. *)
EXTENDS TapeFlow

\* Every kind of statement, and those that emit labels and jumps.
AllKinds == StatementKinds
FlowKinds == {"if", "while", "match", "return", "break", "continue", "block"}
=============================================================================
