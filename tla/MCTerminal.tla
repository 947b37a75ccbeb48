----------------------------- MODULE MCTerminal -----------------------------
(* A small instance of Session for TLC. *)
EXTENDS Session

\* 7 and 9 ask for data; the other views are reached by their own keys or Tab.
AskingDigits == {Board, Risk}
=============================================================================
