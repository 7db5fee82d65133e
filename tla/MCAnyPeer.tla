------------------------------ MODULE MCAnyPeer ------------------------------
(* Values for model checking AnyPeer. *)
EXTENDS AnyPeer

(* What a peer could send: every block number, with itself as the chunk. *)
AnyPacket ==
    {Data(block, block, size) : block \in BlockNumbers, size \in Sizes}
    \cup {Ack(block, block) : block \in BlockNumbers}
    \cup {Error(code) : code \in {"TftpOptionRefused", "NotDefined"}}
    \cup {Rrq("plain"), Wrq("plain"), Oack("plain"), Oack("options"), InvalidPacket}

Peer == {[from |-> "server", to |-> "client", packet |-> p] : p \in AnyPacket}
        \cup {[from |-> "client", to |-> "server", packet |-> p] : p \in AnyPacket}

(* ... and a packet of a third party *)
PeerAndStranger ==
    Peer \cup {[from |-> "stranger", to |-> "client", packet |-> Data(1, 1, "full")]}

Nothing      == {}
Server       == {"server"}
Client       == {"client"}
StartFails   == {"dataHandler"}
AnyVerdict   == {TRUE, FALSE}
AnyRequest   == [read |-> {"plain", "options"}, write |-> {"plain", "options"}]
ReadRequest  == [read |-> {"plain", "options"}, write |-> {}]

(* The chunks a peer makes the operation store or send. *)
Bounded == Len(received) <= MaxBlock + 1 /\ supplied <= MaxBlock + 1

=============================================================================
