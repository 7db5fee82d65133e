------------------------ MODULE ClientReadOperation ------------------------
(***************************************************************************)
(* Clients::ReadOperationImpl: the client requests a file and stores the   *)
(* DATA packets it receives.                                               *)
(***************************************************************************)
EXTENDS ClientOperation

VARIABLES
    lastReceivedBlockNumber,
    oackReceived,
    received     \* the chunks passed to dataHandler->receivedData(), in order

members == <<lastReceivedBlockNumber, oackReceived, received>>
vars == <<base, net, members>>

Init ==
    /\ base = InitialClient
    /\ net = Strays
    /\ lastReceivedBlockNumber = 0
    /\ oackReceived = FALSE
    /\ received = <<>>

(* request() *)
Request(options) ==
    /\ base = InitialClient
    /\ \E opened \in Outcome("open"), started \in Outcome("dataHandler"), ok \in Outcome("send") :
         LET b == Initialise(base, opened)
             c == StartDataHandler(b)
         IN  \/ /\ ~started
                /\ Perform(Finished(b, "CommunicationError"))
                /\ UNCHANGED members
             \/ /\ started
                /\ lastReceivedBlockNumber' = 0
                /\ Perform(ReceiveFirst(SendFirst(c, Rrq(options), ok)))
                /\ UNCHANGED <<oackReceived, received>>

(* Mutant: dally, or finish, after every packet. *)
AcknowledgeAndEnd(b, block, size, ok) ==
    LET c == Send(b, Ack(block, Len(received')), ok)
    IN  Perform(IF Dally THEN ReceiveDally(c) ELSE Finished(c, "Successful"))

(* The end of dataPacket(), for a new and for a repeated packet: acknowledge, *)
(* then wait for more, or, after the short packet, dally or finish.           *)
Acknowledge(b, block, size, ok) ==
    LET c == Send(b, Ack(block, Len(received')), ok)
    IN  Perform(IF size # "short" THEN Receive(c)
                ELSE IF Dally THEN ReceiveDally(c)
                ELSE Finished(c, "Successful"))

(* dataPacket() *)
DuplicateData ==
    /\ PacketReceived({"DATA"})
    /\ Current.packet.block = lastReceivedBlockNumber
    /\ UNCHANGED members
    /\ \E ok \in Outcome("send") :
          Acknowledge(Dispatched, lastReceivedBlockNumber, Current.packet.arg, ok)

(* Block 1 tells that the server ignored the options of the request; the user *)
(* may refuse to go on without them.                                          *)
WithoutOptions == Current.packet.block = 1 /\ ~oackReceived

(* Mutant: a packet of any other block is taken for the next one. *)
NewDataOfAnyBlock ==
    /\ PacketReceived({"DATA"})
    /\ Current.packet.block # lastReceivedBlockNumber
    /\ Current.packet.arg # "oversized"
    /\ WithoutOptions => TRUE \in Verdicts
    /\ lastReceivedBlockNumber' = Current.packet.block
    /\ received' = Append(received, Current.packet.chunk)
    /\ UNCHANGED oackReceived
    /\ \E ok \in Outcome("send") :
          Acknowledge(Dispatched, lastReceivedBlockNumber', Current.packet.arg, ok)

NewData ==
    /\ PacketReceived({"DATA"})
    /\ Current.packet.block # lastReceivedBlockNumber
    /\ Current.packet.block = NextBlock(lastReceivedBlockNumber)
    /\ Current.packet.arg # "oversized"
    /\ WithoutOptions => TRUE \in Verdicts
    /\ lastReceivedBlockNumber' = NextBlock(lastReceivedBlockNumber)
    /\ received' = Append(received, Current.packet.chunk)
    /\ UNCHANGED oackReceived
    /\ \E ok \in Outcome("send") :
          Acknowledge(Dispatched, lastReceivedBlockNumber', Current.packet.arg, ok)

RefusedData ==
    /\ PacketReceived({"DATA"})
    /\ Current.packet.block # lastReceivedBlockNumber
    /\ Current.packet.block = NextBlock(lastReceivedBlockNumber)
    /\ Current.packet.arg # "oversized"
    /\ WithoutOptions /\ FALSE \in Verdicts
    /\ \E ok \in Outcome("send") :
          Perform(Reject(Dispatched, "TftpOptionRefused", "TransferError", ok))
    /\ UNCHANGED members

WrongData ==
    /\ PacketReceived({"DATA"})
    /\ Current.packet.block # lastReceivedBlockNumber
    /\ \/ Current.packet.block # NextBlock(lastReceivedBlockNumber)
       \/ Current.packet.arg = "oversized"
    /\ \E ok \in Outcome("send") :
          Perform(Reject(Dispatched, "IllegalTftpOperation", "TransferError", ok))
    /\ UNCHANGED members

(* acknowledgementPacket() *)
AcknowledgementReceived ==
    /\ PacketReceived({"ACK"})
    /\ \E ok \in Outcome("send") :
          Perform(Reject(Dispatched, "IllegalTftpOperation", "TransferError", ok))
    /\ UNCHANGED members

(* optionsAcknowledgementPacket(): after the first DATA, or without options *)
MisplacedOack ==
    /\ PacketReceived({"OACK"})
    /\ lastReceivedBlockNumber # 0 \/ Current.packet.arg = "plain"
    /\ \E ok \in Outcome("send") :
          Perform(Reject(Dispatched, "IllegalTftpOperation", "TransferError", ok))
    /\ UNCHANGED members

(* ... options that were not requested, are out of range, or that the user or *)
(* the data handler refuses (the latter with DiskFullOrAllocationExceeds)     *)
RefusedOack ==
    /\ PacketReceived({"OACK"})
    /\ lastReceivedBlockNumber = 0 /\ Current.packet.arg = "options"
    /\ FALSE \in Verdicts
    /\ \E ok \in Outcome("send"), code \in {"TftpOptionRefused", "DiskFullOrAllocationExceeds"} :
          Perform(Reject(Dispatched, code, "OptionNegotiationError", ok))
    /\ UNCHANGED members

(* Mutant: the OACK is not remembered. *)
AcceptedOackUnnoticed ==
    /\ PacketReceived({"OACK"})
    /\ lastReceivedBlockNumber = 0 /\ Current.packet.arg = "options"
    /\ TRUE \in Verdicts
    /\ \E ok \in Outcome("send") :
          Perform(Receive(Send(Dispatched, Ack(0, Len(received)), ok)))
    /\ UNCHANGED members

(* ... accepted options *)
AcceptedOack ==
    /\ PacketReceived({"OACK"})
    /\ lastReceivedBlockNumber = 0 /\ Current.packet.arg = "options"
    /\ TRUE \in Verdicts
    /\ oackReceived' = TRUE
    /\ \E ok \in Outcome("send") :
          Perform(Receive(Send(Dispatched, Ack(0, Len(received)), ok)))
    /\ UNCHANGED <<lastReceivedBlockNumber, received>>

Step ==
    \/ (BaseStep \/ TimeoutDally) /\ UNCHANGED members
    \/ DuplicateData \/ NewData \/ RefusedData \/ WrongData
    \/ AcknowledgementReceived
    \/ MisplacedOack \/ RefusedOack \/ AcceptedOack

Timer == Expire /\ UNCHANGED members

Next ==
    \/ \E options \in OptionLists : Request(options)
    \/ Timer
    \/ Step

Spec == Init /\ [][Next]_vars

=============================================================================
