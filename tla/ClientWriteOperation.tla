----------------------- MODULE ClientWriteOperation -----------------------
(***************************************************************************)
(* Clients::WriteOperationImpl: the client requests to write a file and    *)
(* sends it, one DATA packet at a time, each after the acknowledgement of  *)
(* the previous one.                                                       *)
(***************************************************************************)
EXTENDS ClientOperation

VARIABLES
    lastTransmittedBlockNumber,
    lastReceivedBlockNumber,
    lastDataPacketTransmitted,
    supplied     \* chunks the data handler has supplied with sendData()

members == <<lastTransmittedBlockNumber, lastReceivedBlockNumber,
             lastDataPacketTransmitted, supplied>>
vars == <<base, net, members>>

Init ==
    /\ base = InitialClient
    /\ net = Strays
    /\ lastTransmittedBlockNumber = 0
    /\ lastReceivedBlockNumber = 0
    /\ lastDataPacketTransmitted = FALSE
    /\ supplied = 0

(* request() *)
Request(options) ==
    /\ base = InitialClient
    /\ \E opened \in Outcome("open"), started \in Outcome("dataHandler"), ok \in Outcome("send") :
         LET b == Initialise(base, opened)
             c == StartDataHandler(b)
         IN  \/ /\ ~started
                /\ Perform(Finished(b, "CommunicationError"))
                /\ UNCHANGED members
             \/ /\ started
                /\ lastDataPacketTransmitted' = FALSE
                /\ lastTransmittedBlockNumber' = 0
                /\ lastReceivedBlockNumber' = MaxBlock
                /\ Perform(ReceiveFirst(SendFirst(c, Wrq(options), ok)))
                /\ UNCHANGED supplied

SizeOf(chunk) == IF chunk >= LastChunk THEN "short" ELSE "full"

(* sendData(): ask the data handler for the next chunk, remember whether it *)
(* is the short one that ends the file, and send it; then receive().        *)
SendData(b, ok) ==
    LET block == NextBlock(lastTransmittedBlockNumber)
        chunk == supplied + 1
    IN  /\ lastTransmittedBlockNumber' = block
        /\ supplied' = chunk
        /\ lastDataPacketTransmitted' = (lastDataPacketTransmitted \/ SizeOf(chunk) = "short")
        /\ Perform(Receive(Send(b, Data(block, chunk, SizeOf(chunk)), ok)))

(* dataPacket() *)
DataReceived ==
    /\ PacketReceived({"DATA"})
    /\ \E ok \in Outcome("send") :
          Perform(Reject(Dispatched, "IllegalTftpOperation", "TransferError", ok))
    /\ UNCHANGED members

(* acknowledgementPacket() *)
(* Mutant: the next packet answers a repeated acknowledgement, too. *)
DuplicateAcknowledgementAnswered ==
    /\ PacketReceived({"ACK"})
    /\ Current.packet.block = lastReceivedBlockNumber
    /\ \E ok \in Outcome("send") : SendData(Dispatched, ok)
    /\ UNCHANGED lastReceivedBlockNumber

DuplicateAcknowledgement ==
    /\ PacketReceived({"ACK"})
    /\ Current.packet.block = lastReceivedBlockNumber
    /\ Perform(Receive(Dispatched))
    /\ UNCHANGED members

WrongAcknowledgement ==
    /\ PacketReceived({"ACK"})
    /\ Current.packet.block \notin {lastReceivedBlockNumber, lastTransmittedBlockNumber}
    /\ \E ok \in Outcome("send") :
          Perform(Reject(Dispatched, "IllegalTftpOperation", "TransferError", ok))
    /\ UNCHANGED members

(* An ACK of block 0 tells that the server ignored the options of the request; *)
(* the user may refuse to go on without them.                                  *)
RefusedAcknowledgement ==
    /\ PacketReceived({"ACK"})
    /\ Current.packet.block # lastReceivedBlockNumber
    /\ Current.packet.block = lastTransmittedBlockNumber
    /\ lastReceivedBlockNumber' = Current.packet.block
    /\ Current.packet.block = 0 /\ FALSE \in Verdicts
    /\ \E ok \in Outcome("send") :
          Perform(Reject(Dispatched, "TftpOptionRefused", "TransferError", ok))
    /\ UNCHANGED <<lastTransmittedBlockNumber, lastDataPacketTransmitted, supplied>>

(* Mutant: the transfer ends one packet too early. *)
EarlyLastAcknowledgement ==
    /\ PacketReceived({"ACK"})
    /\ Current.packet.block # lastReceivedBlockNumber
    /\ Current.packet.block = lastTransmittedBlockNumber
    /\ Current.packet.block = 0 => TRUE \in Verdicts
    /\ lastReceivedBlockNumber' = Current.packet.block
    /\ IF SizeOf(supplied + 1) = "short"
       THEN /\ Perform(Finished(Dispatched, "Successful"))
            /\ UNCHANGED <<lastTransmittedBlockNumber, lastDataPacketTransmitted, supplied>>
       ELSE \E ok \in Outcome("send") : SendData(Dispatched, ok)

ExpectedAcknowledgement ==
    /\ PacketReceived({"ACK"})
    /\ Current.packet.block # lastReceivedBlockNumber
    /\ Current.packet.block = lastTransmittedBlockNumber
    /\ Current.packet.block = 0 => TRUE \in Verdicts
    /\ lastReceivedBlockNumber' = Current.packet.block
    /\ \/ /\ lastDataPacketTransmitted
          /\ Perform(Finished(Dispatched, "Successful"))
          /\ UNCHANGED <<lastTransmittedBlockNumber, lastDataPacketTransmitted, supplied>>
       \/ /\ ~lastDataPacketTransmitted
          /\ \E ok \in Outcome("send") : SendData(Dispatched, ok)

(* optionsAcknowledgementPacket(): after an ACK, or without options *)
MisplacedOack ==
    /\ PacketReceived({"OACK"})
    /\ lastReceivedBlockNumber # MaxBlock \/ Current.packet.arg = "plain"
    /\ \E ok \in Outcome("send") :
          Perform(Reject(Dispatched, "IllegalTftpOperation", "TransferError", ok))
    /\ UNCHANGED members

(* ... options that were not requested, are out of range, or that the user *)
(* refuses                                                                 *)
RefusedOack ==
    /\ PacketReceived({"OACK"})
    /\ lastReceivedBlockNumber = MaxBlock /\ Current.packet.arg = "options"
    /\ FALSE \in Verdicts
    /\ \E ok \in Outcome("send") :
          Perform(Reject(Dispatched, "TftpOptionRefused", "OptionNegotiationError", ok))
    /\ UNCHANGED members

(* ... accepted options: the first DATA answers the OACK.                   *)
AcceptedOack ==
    /\ PacketReceived({"OACK"})
    /\ lastReceivedBlockNumber = MaxBlock /\ Current.packet.arg = "options"
    /\ TRUE \in Verdicts
    /\ \E ok \in Outcome("send") : SendData(Dispatched, ok)
    /\ UNCHANGED lastReceivedBlockNumber

Step ==
    \/ BaseStep /\ UNCHANGED members
    \/ DataReceived
    \/ DuplicateAcknowledgement \/ WrongAcknowledgement
    \/ RefusedAcknowledgement \/ ExpectedAcknowledgement
    \/ MisplacedOack \/ RefusedOack \/ AcceptedOack

Timer == Expire /\ UNCHANGED members

Next ==
    \/ \E options \in OptionLists : Request(options)
    \/ Timer
    \/ Step

Spec == Init /\ [][Next]_vars

=============================================================================
