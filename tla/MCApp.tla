------------------------------- MODULE MCApp -------------------------------
(***************************************************************************)
(* What the comments of app.cc say of forwarding errors and App does not   *)
(* keep, stated for the run of TLC that shows it.  What holds is in App.   *)
(***************************************************************************)
EXTENDS App

\* Forwarding an error to the creators ends: at a Msger that handles it or
\* with Quit (EXIT_FAILURE) (app.cc:290-291).
ForwardErrorEnds == op = "forward" ~> op # "forward"
=============================================================================
