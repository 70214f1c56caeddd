--------------------------- MODULE MCExternStream ---------------------------
(* What the applications of ExternStream's two processes do, for TLC. *)
EXTENDS ExternStream

Script(client, server) == [client |-> client, server |-> server]

MCScripts == {Script(<<"file", "file">>, <<"open">>),
              Script(<<"empty", "badfd">>, <<>>),
              Script(<<"file", "open">>, <<"file">>),
              Script(<<"file">>, <<"open", "open">>),
              Script(<<"empty", "empty", "empty">>, <<"close">>)}
=============================================================================
