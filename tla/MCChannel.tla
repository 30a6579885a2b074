----------------------------- MODULE MCChannel -----------------------------
(* Frames for Channel: with and without each flag, too long, and with an   *)
(* identifier that reaches into the flags.                                 *)
EXTENDS Channel

Plain == [identifier |-> 1, extended |-> FALSE, rtr |-> FALSE, error |-> FALSE, data |-> 1]

MCAppFrames ==
  {Plain,
   [Plain EXCEPT !.identifier = 3, !.extended = TRUE, !.data = 8],
   [Plain EXCEPT !.rtr = TRUE, !.error = TRUE, !.data = 0],
   [Plain EXCEPT !.data = 9],
   [Plain EXCEPT !.identifier = 9]}
=============================================================================
