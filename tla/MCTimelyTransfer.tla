-------------------------- MODULE MCTimelyTransfer --------------------------
(* Values for model checking TimelyTransfer. *)
EXTENDS TimelyTransfer

Nothing   == {}
Accepting == {TRUE}

AnyRequest       == [read |-> {"plain", "options"}, write |-> {"plain", "options"}]
PlainRead        == [read |-> {"plain"}, write |-> {}]
WriteWithOptions == [read |-> {}, write |-> {"options"}]

=============================================================================
