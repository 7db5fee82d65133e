------------------------------ MODULE MCServer ------------------------------
(* Values for model checking Server. *)
EXTENDS Server

Calm == [handler |-> TRUE, dally |-> TRUE, coincide |-> FALSE, directory |-> FALSE, faults |-> {}]

(* Nothing unusual; and one thing at a time. *)
OneAtATime ==
    {Calm, [Calm EXCEPT !.dally = FALSE], [Calm EXCEPT !.coincide = TRUE],
     [Calm EXCEPT !.directory = TRUE], [Calm EXCEPT !.handler = FALSE]}
    \cup {[Calm EXCEPT !.faults = {f}] : f \in {"bind", "receive", "open", "send", "file", "disk"}}

(* One file exists, the other does not. *)
OneFile == {[f \in {"old"} |-> <<<<0, 1>>, <<0, 2>>>>]}

=============================================================================
