------------------------------ MODULE Packets ------------------------------
(***************************************************************************)
(* The TFTP packets the operations exchange, after PacketHandler::packet   *)
(* has decoded them (src/lib/tftp/packets).                                *)
(*                                                                         *)
(* A packet is a record.  "arg" abstracts what the handlers distinguish:   *)
(*   DATA   the size of the payload compared with the negotiated one,      *)
(*   ERROR  the error code,                                                *)
(*   RRQ, WRQ, OACK  whether, and which kind of, options are carried.      *)
(* "chunk" identifies the payload of a DATA packet: the index of the piece *)
(* of the file that it carries.  An ACK also has a chunk, the number of    *)
(* chunks its sender had stored; the code has no such field, and only the  *)
(* order of the network and the invariants read it.                        *)
(***************************************************************************)
EXTENDS BlockNumber

PacketTypes == {"RRQ", "WRQ", "DATA", "ACK", "ERROR", "OACK", "INVALID"}

Sizes      == {"full", "short", "oversized"}
ErrorCodes == {"IllegalTftpOperation", "UnknownTransferId", "TftpOptionRefused",
               "DiskFullOrAllocationExceeds", "NotDefined"}
OptionLists == {"options", "plain"}

Packet == [type  : PacketTypes,
           block : BlockNumbers,
           chunk : Nat,
           arg   : Sizes \cup ErrorCodes \cup OptionLists \cup {"none"}]

Data(block, chunk, size) == [type |-> "DATA", block |-> block, chunk |-> chunk, arg |-> size]
Ack(block, chunk)        == [type |-> "ACK", block |-> block, chunk |-> chunk, arg |-> "none"]
Error(code)              == [type |-> "ERROR", block |-> 0, chunk |-> 0, arg |-> code]
Rrq(options)             == [type |-> "RRQ", block |-> 0, chunk |-> 0, arg |-> options]
Wrq(options)             == [type |-> "WRQ", block |-> 0, chunk |-> 0, arg |-> options]
Oack(options)            == [type |-> "OACK", block |-> 0, chunk |-> 0, arg |-> options]
InvalidPacket            == [type |-> "INVALID", block |-> 0, chunk |-> 0, arg |-> "none"]

(* transmitPacket before anything has been sent: an empty buffer, which     *)
(* Packet::packetType reports as Invalid.                                   *)
NoPacket == InvalidPacket

(* The two operations, the well-known port of the server, the socket it sends an *)
(* error from, a third party, and the endpoint of a default constructor.          *)
Endpoints == {"client", "server", "wellKnown", "errorSocket", "stranger", "none"}

DatagramOf(packets) == [from : Endpoints, to : Endpoints, packet : packets]
Datagram == DatagramOf(Packet)

=============================================================================
