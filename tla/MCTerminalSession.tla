------------------------- MODULE MCTerminalSession -------------------------
(* A person with a bounded number of keys at one terminal.                  *)
EXTENDS TerminalSession, TLC

Places == Permutations(Workers) \cup Permutations(Paths)
=============================================================================
