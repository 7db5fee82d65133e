----------------------------- MODULE MCTransfer -----------------------------
(* Values for model checking Transfer. *)
EXTENDS Transfer

Nothing == {}
Users   == {"client", "server"}

SocketFaults == {"send", "receive"}
AnyFault     == {"open", "send", "receive", "dataHandler"}

Accepting  == {TRUE}
AnyVerdict == {TRUE, FALSE}

(* A repeated OACK disturbs a write with options: see OackAfterWrq. *)
PlainWrite == [read |-> {"plain", "options"}, write |-> {"plain"}]
AnyRequest == [read |-> {"plain", "options"}, write |-> {"plain", "options"}]
OnlyRead   == [read |-> {"plain", "options"}, write |-> {}]

=============================================================================
