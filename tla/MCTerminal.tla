----------------------------- MODULE MCTerminal ------------------------------
(* An instance of Terminal for TLC; all constants are numbers.              *)
EXTENDS Terminal
=============================================================================
