---------------------------- MODULE MCEventLoop ----------------------------
(***************************************************************************)
(* Values for the constants of EventLoop, and what the comments of app.cc  *)
(* say of waiting that it does not keep, for the run that shows it.        *)
(***************************************************************************)
EXTENDS EventLoop

\* A client stops its timer, sets it, or waits for its descriptor.
AnyWatch == {<<"Stop", TimerNone>>, <<"Timer", 1>>, <<"Read", TimerNone>>}
OnlyTimer == {<<"Timer", 1>>}

\* One timeout that is too long for an int.
LongTimer == {<<"Timer", 2>>}
AnyOrLong == AnyWatch \cup LongTimer

\* poll exits when the timer expires (app.cc:352): the Timer then fires.
TimerFires == \A c \in Clients : Live(c) /\ due[c] <= 0 ~> due[c] > 0 \/ Ended
=============================================================================
