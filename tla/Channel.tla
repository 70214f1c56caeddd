------------------------------- MODULE Channel -------------------------------
(***************************************************************************)
(* What one direction of an Extern connection promises its two processes:  *)
(* the messages queued at one end are delivered at the other in the order  *)
(* they were queued, each once, and each with its own file as long as none *)
(* has been lost, until one of the ends closes the connection; while       *)
(* neither has, every queued message is eventually delivered.              *)
(***************************************************************************)
EXTENDS Naturals, Sequences

CONSTANT
    Content(_) \* a message, but for its file

VARIABLES
    sent,      \* messages queued at one end since the connection was made
    delivered, \* messages accepted at the other end
    up,        \* neither end has closed the connection
    intact     \* neither end has lost a file

vars == <<sent, delivered, up, intact>>

Init == sent = <<>> /\ delivered = <<>> /\ up = TRUE /\ intact = TRUE

Send ==
    /\ Len(sent') = Len(sent) + 1
    /\ SubSeq(sent', 1, Len(sent)) = sent
    /\ UNCHANGED <<delivered, up, intact>>

\* What was on its way when the connection was closed may still arrive; and the
\* end that accepts a message may in the same step close for what came with it.
Deliver ==
    LET n == Len(delivered) + 1
    IN  /\ n <= Len(sent)
        /\ Len(delivered') = n /\ SubSeq(delivered', 1, Len(delivered)) = delivered
        /\ Content(delivered'[n]) = Content(sent[n])
        /\ intact => delivered'[n] = sent[n]
        /\ up' \in {up, FALSE}
        /\ UNCHANGED <<sent, intact>>

Close == up /\ up' = FALSE /\ UNCHANGED <<sent, delivered, intact>>

LoseFile == intact /\ intact' = FALSE /\ UNCHANGED <<sent, delivered, up>>

Next == Send \/ Deliver \/ Close \/ LoseFile

\* Weak fairness of Deliver while the connection is up; CanDeliver is when that
\* is enabled.
CanDeliver == up /\ Len(delivered) < Len(sent)
Fairness == <>[]CanDeliver => []<><<Deliver>>_vars

Safety == Init /\ [][Next]_vars

Spec == Safety /\ Fairness
=============================================================================
