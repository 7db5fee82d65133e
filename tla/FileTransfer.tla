---------------------------- MODULE FileTransfer ----------------------------
(***************************************************************************)
(* What a file transfer promises to the two applications, without packets, *)
(* acknowledgements, timers or sockets: the receiver gets the chunks of    *)
(* the file one after the other; each side reports one outcome; success is *)
(* only reported when the whole file has been delivered.                   *)
(***************************************************************************)
EXTENDS Naturals

CONSTANT LastChunk   \* number of chunks of the file

VARIABLES
    delivered,   \* chunks the receiver has stored
    sender,      \* outcome the sending side has reported
    receiver     \* outcome the receiving side has reported

vars == <<delivered, sender, receiver>>

Outcomes == {"none", "success", "failure"}

Init == delivered = 0 /\ sender = "none" /\ receiver = "none"

Deliver ==
    /\ receiver = "none"
    /\ delivered < LastChunk
    /\ delivered' = delivered + 1
    /\ UNCHANGED <<sender, receiver>>

(* A receiver that does not dally reports success with the last chunk. *)
DeliverLast ==
    /\ receiver = "none"
    /\ delivered + 1 = LastChunk
    /\ delivered' = LastChunk
    /\ receiver' = "success"
    /\ UNCHANGED sender

(* Storing a chunk and failing to acknowledge it is one step. *)
DeliverAndFail ==
    /\ receiver = "none"
    /\ delivered < LastChunk
    /\ delivered' = delivered + 1
    /\ receiver' = "failure"
    /\ UNCHANGED sender

ReceiverSucceeds ==
    /\ receiver = "none"
    /\ delivered = LastChunk
    /\ receiver' = "success"
    /\ UNCHANGED <<delivered, sender>>

ReceiverFails ==
    /\ receiver = "none"
    /\ receiver' = "failure"
    /\ UNCHANGED <<delivered, sender>>

SenderSucceeds ==
    /\ sender = "none"
    /\ delivered = LastChunk
    /\ sender' = "success"
    /\ UNCHANGED <<delivered, receiver>>

SenderFails ==
    /\ sender = "none"
    /\ sender' = "failure"
    /\ UNCHANGED <<delivered, receiver>>

Next == \/ Deliver \/ DeliverLast \/ DeliverAndFail
        \/ ReceiverSucceeds \/ ReceiverFails
        \/ SenderSucceeds \/ SenderFails

Spec == Init /\ [][Next]_vars

=============================================================================
