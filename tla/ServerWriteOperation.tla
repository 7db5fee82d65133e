----------------------- MODULE ServerWriteOperation -----------------------
(***************************************************************************)
(* Servers::WriteOperationImpl: the server stores the DATA packets of the  *)
(* client and acknowledges each of them.                                   *)
(***************************************************************************)
EXTENDS ServerOperation

VARIABLES
    lastReceivedBlockNumber,
    received     \* the chunks passed to dataHandler->receivedData(), in order

members == <<lastReceivedBlockNumber, received>>
vars == <<base, net, members>>

Init ==
    /\ base = InitialServer
    /\ net = Strays
    /\ lastReceivedBlockNumber = 0
    /\ received = <<>>

(* start(): "answer" is what the negotiation comes to: an ACK of block 0 if no *)
(* option is left, an OACK, or a transfer size the data handler refuses.  A    *)
(* TftpException of dataHandler->start() is caught and only logged, any other  *)
(* exception ends the operation.                                               *)
Answers(options) == IF options = "plain" THEN {"ack"} ELSE {"ack", "oack", "refused"}

Start(answer) ==
    /\ base = InitialServer
    /\ \E opened \in Outcome("open"), started \in Outcome("dataHandler"), ok \in Outcome("send") :
         LET b == Initialise(base, opened)
             c == StartDataHandler(b)
         IN  \/ /\ ~started
                /\ Perform(b) \/ Perform(Finished(b, "CommunicationError"))
             \/ /\ started /\ answer = "ack"
                /\ Perform(Receive(Send(c, Ack(0, 0), ok)))
             \/ /\ started /\ answer = "oack"
                /\ Perform(Receive(Send(c, Oack("options"), ok)))
             \/ /\ started /\ answer = "refused"
                /\ Perform(Reject(c, "DiskFullOrAllocationExceeds", "TransferError", ok))
    /\ UNCHANGED members

(* Mutant: wait for the last packet to be repeated as for any other one. *)
AcknowledgeAndReceive(b, block, size, ok) ==
    LET c == Send(b, Ack(block, Len(received')), ok)
    IN  Perform(IF size # "short" \/ Dally THEN Receive(c)
                ELSE Finished(c, "Successful"))

(* The end of dataPacket(), for a new and for a repeated packet: acknowledge, *)
(* then wait for more, or, after the short packet, dally or finish.           *)
Acknowledge(b, block, size, ok) ==
    LET c == Send(b, Ack(block, Len(received')), ok)
    IN  Perform(IF size # "short" THEN Receive(c)
                ELSE IF Dally THEN ReceiveDally(c)
                ELSE Finished(c, "Successful"))

(* dataPacket() *)
DuplicateData ==
    /\ PacketReceived({"DATA"})
    /\ Current.packet.block = lastReceivedBlockNumber
    /\ UNCHANGED members
    /\ \E ok \in Outcome("send") :
          Acknowledge(Popped, lastReceivedBlockNumber, Current.packet.arg, ok)

NewData ==
    /\ PacketReceived({"DATA"})
    /\ Current.packet.block # lastReceivedBlockNumber
    /\ Current.packet.block = NextBlock(lastReceivedBlockNumber)
    /\ Current.packet.arg # "oversized"
    /\ lastReceivedBlockNumber' = NextBlock(lastReceivedBlockNumber)
    /\ received' = Append(received, Current.packet.chunk)
    /\ \E ok \in Outcome("send") :
          Acknowledge(Popped, lastReceivedBlockNumber', Current.packet.arg, ok)

WrongData ==
    /\ PacketReceived({"DATA"})
    /\ Current.packet.block # lastReceivedBlockNumber
    /\ \/ Current.packet.block # NextBlock(lastReceivedBlockNumber)
       \/ Current.packet.arg = "oversized"
    /\ \E ok \in Outcome("send") :
          Perform(Reject(Popped, "IllegalTftpOperation", "TransferError", ok))
    /\ UNCHANGED members

(* acknowledgementPacket() *)
AcknowledgementReceived ==
    /\ PacketReceived({"ACK"})
    /\ \E ok \in Outcome("send") :
          Perform(Reject(Popped, "IllegalTftpOperation", "TransferError", ok))
    /\ UNCHANGED members

Step ==
    \/ (BaseStep \/ TimeoutDally) /\ UNCHANGED members
    \/ DuplicateData \/ NewData \/ WrongData
    \/ AcknowledgementReceived

Timer == Expire /\ UNCHANGED members

Next ==
    \/ \E options \in OptionLists : \E answer \in Answers(options) : Start(answer)
    \/ Timer
    \/ Step

Spec == Init /\ [][Next]_vars

=============================================================================
