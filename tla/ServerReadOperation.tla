------------------------ MODULE ServerReadOperation ------------------------
(***************************************************************************)
(* Servers::ReadOperationImpl: the server sends a file, one DATA packet at *)
(* a time, each after the acknowledgement of the previous one.             *)
(***************************************************************************)
EXTENDS ServerOperation

VARIABLES
    lastTransmittedBlockNumber,
    lastReceivedBlockNumber,
    lastDataPacketTransmitted,
    supplied     \* chunks the data handler has supplied with sendData()

members == <<lastTransmittedBlockNumber, lastReceivedBlockNumber,
             lastDataPacketTransmitted, supplied>>
vars == <<base, net, members>>

Init ==
    /\ base = InitialServer
    /\ net = Strays
    /\ lastTransmittedBlockNumber = 0
    /\ lastReceivedBlockNumber = 0
    /\ lastDataPacketTransmitted = FALSE
    /\ supplied = 0

SizeOf(chunk) == IF chunk >= LastChunk THEN "short" ELSE "full"

(* sendData(): ask the data handler for the next chunk, remember whether it *)
(* is the short one that ends the file, and send it.                        *)
SendData(b, ok) ==
    LET block == NextBlock(lastTransmittedBlockNumber)
        chunk == supplied + 1
    IN  /\ lastTransmittedBlockNumber' = block
        /\ supplied' = chunk
        /\ lastDataPacketTransmitted' = (lastDataPacketTransmitted \/ SizeOf(chunk) = "short")
        /\ Perform(Receive(Send(b, Data(block, chunk, SizeOf(chunk)), ok)))

(* start(): "answer" is what the negotiation with the options of the request *)
(* comes to: no option left ("data"), an OACK, or a transfer size that must  *)
(* be zero and is not ("refused").  A TftpException of dataHandler->start()  *)
(* is caught and only logged, any other exception ends the operation.        *)
Answers(options) == IF options = "plain" THEN {"data"} ELSE {"data", "oack", "refused"}

Start(answer) ==
    /\ base = InitialServer
    /\ \E opened \in Outcome("open"), started \in Outcome("dataHandler"), ok \in Outcome("send") :
         LET b == Initialise(base, opened)
             c == StartDataHandler(b)
         IN  \/ /\ ~started
                /\ Perform(b) \/ Perform(Finished(b, "CommunicationError"))
                /\ UNCHANGED members
             \/ /\ started /\ answer = "data"
                /\ SendData(c, ok)
                /\ UNCHANGED lastReceivedBlockNumber
             \/ /\ started /\ answer = "oack"
                /\ lastReceivedBlockNumber' = MaxBlock
                /\ Perform(Receive(Send(c, Oack("options"), ok)))
                /\ UNCHANGED <<lastTransmittedBlockNumber, lastDataPacketTransmitted, supplied>>
             \/ /\ started /\ answer = "refused"
                /\ Perform(Reject(c, "TftpOptionRefused", "TransferError", ok))
                /\ UNCHANGED members

(* dataPacket() *)
DataReceived ==
    /\ PacketReceived({"DATA"})
    /\ \E ok \in Outcome("send") :
          Perform(Reject(Popped, "IllegalTftpOperation", "TransferError", ok))
    /\ UNCHANGED members

(* acknowledgementPacket() *)
(* Mutant: the next packet answers a repeated acknowledgement, too. *)
DuplicateAcknowledgementAnswered ==
    /\ PacketReceived({"ACK"})
    /\ Current.packet.block = lastReceivedBlockNumber
    /\ \E ok \in Outcome("send") : SendData(Popped, ok)
    /\ UNCHANGED lastReceivedBlockNumber

DuplicateAcknowledgement ==
    /\ PacketReceived({"ACK"})
    /\ Current.packet.block = lastReceivedBlockNumber
    /\ Perform(Receive(Popped))
    /\ UNCHANGED members

WrongAcknowledgement ==
    /\ PacketReceived({"ACK"})
    /\ Current.packet.block \notin {lastReceivedBlockNumber, lastTransmittedBlockNumber}
    /\ \E ok \in Outcome("send") :
          Perform(Reject(Popped, "IllegalTftpOperation", "TransferError", ok))
    /\ UNCHANGED members

(* Mutants: the acknowledged block is not compared with the last transmitted one; *)
(* the transfer ends one packet too early.                                        *)
AnyAcknowledgement ==
    /\ PacketReceived({"ACK"})
    /\ Current.packet.block # lastReceivedBlockNumber
    /\ lastReceivedBlockNumber' = Current.packet.block
    /\ \/ /\ lastDataPacketTransmitted
          /\ Perform(Finished(Popped, "Successful"))
          /\ UNCHANGED <<lastTransmittedBlockNumber, lastDataPacketTransmitted, supplied>>
       \/ /\ ~lastDataPacketTransmitted
          /\ \E ok \in Outcome("send") : SendData(Popped, ok)

EarlyLastAcknowledgement ==
    /\ PacketReceived({"ACK"})
    /\ Current.packet.block # lastReceivedBlockNumber
    /\ Current.packet.block = lastTransmittedBlockNumber
    /\ lastReceivedBlockNumber' = Current.packet.block
    /\ IF SizeOf(supplied + 1) = "short"
       THEN /\ Perform(Finished(Popped, "Successful"))
            /\ UNCHANGED <<lastTransmittedBlockNumber, lastDataPacketTransmitted, supplied>>
       ELSE \E ok \in Outcome("send") : SendData(Popped, ok)

ExpectedAcknowledgement ==
    /\ PacketReceived({"ACK"})
    /\ Current.packet.block # lastReceivedBlockNumber
    /\ Current.packet.block = lastTransmittedBlockNumber
    /\ lastReceivedBlockNumber' = Current.packet.block
    /\ \/ /\ lastDataPacketTransmitted
          /\ Perform(Finished(Popped, "Successful"))
          /\ UNCHANGED <<lastTransmittedBlockNumber, lastDataPacketTransmitted, supplied>>
       \/ /\ ~lastDataPacketTransmitted
          /\ \E ok \in Outcome("send") : SendData(Popped, ok)

Step ==
    \/ BaseStep /\ UNCHANGED members
    \/ DataReceived
    \/ DuplicateAcknowledgement
    \/ WrongAcknowledgement
    \/ ExpectedAcknowledgement

Timer == Expire /\ UNCHANGED members

Next ==
    \/ \E options \in OptionLists : \E answer \in Answers(options) : Start(answer)
    \/ Timer
    \/ Step

Spec == Init /\ [][Next]_vars

=============================================================================
