----------------------------- MODULE Parameters -----------------------------
(***************************************************************************)
(* The parameters of an operation and of its environment: what the         *)
(* configuration of the program and the user decide, and what the network, *)
(* the operating system and the event loop may do.                         *)
(***************************************************************************)
EXTENDS Packets

CONSTANTS
    LastChunk,   \* number of chunks of the file; the last one is the short one
    Retries,     \* tftpRetries: how often a packet is repeated
    Dally,       \* dally(): wait after the last ACK for repetitions of the last DATA
    Verdicts,    \* what the negotiation of options may come to: TRUE, FALSE or both
    Aborters,    \* the endpoints whose user may abort the operation
    Faults,      \* what may fail: a subset of {"open", "send", "receive", "dataHandler"}
    Coincide,    \* may a completion be queued while another one waits to run?
    Overtaking,  \* may a datagram overtake another one on its way?
    Redelivery,  \* may a datagram be delivered more than once?
    Strays       \* datagrams present in the network from the start

ASSUME ParametersAssumption ==
    /\ LastChunk \in Nat \ {0}
    /\ Retries \in Nat
    /\ Dally \in BOOLEAN
    /\ Verdicts \subseteq BOOLEAN
    /\ Aborters \subseteq Endpoints
    /\ Coincide \in BOOLEAN /\ Overtaking \in BOOLEAN /\ Redelivery \in BOOLEAN
    /\ Strays \subseteq Datagram

=============================================================================
