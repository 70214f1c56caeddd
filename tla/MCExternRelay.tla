---------------------------- MODULE MCExternRelay ----------------------------
(***************************************************************************)
(* Instances of ExternRelay, its refinement of Channel in each session,    *)
(* and what the comments of COMRelay say that it does not keep.            *)
(***************************************************************************)
EXTENDS ExternRelay

\* Through both processes, their message loops, the relays and the connection,
\* the calls of the first caller reach its object in the order of the calls,
\* each once, until an end or a close: a Channel from one object to the other.
\* A call is its number here, and has no file.
ButFile(n) == n
Requests == INSTANCE Channel WITH Content <- ButFile, intact <- TRUE,
    sent <- proc["client"].said[1], delivered <- heard["server"][1], up <- Up /\ ~Gone(1)
RequestsDelivered == Requests!Spec

\* So do the object's replies on their way back to the caller.
Replies == INSTANCE Channel WITH Content <- ButFile, intact <- TRUE,
    sent <- proc["server"].said[1], delivered <- heard["client"][1], up <- Up /\ ~Gone(1)
RepliesDelivered == Replies!Spec

\* pExtern is reset when the Extern object is destroyed (comment at xcom.cc:718):
\* no relay is left pointing to an Extern that is no more.
PExternAlive == \A s \in Sides : \A id \in Mrid :
    Running(s) /\ proc[s].msgers[id].pExtern => ExternAlive(proc[s])
=============================================================================
