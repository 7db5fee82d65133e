------------------------------ MODULE Transfer ------------------------------
(***************************************************************************)
(* A client reads a file from a server, or writes one to it: an operation  *)
(* of Tftp::Clients, the one of Tftp::Servers that answers it, and the     *)
(* network between them.  In a read the server sends the file and the      *)
(* client stores it, in a write it is the other way round.                 *)
(*                                                                         *)
(* The server application constructs its operation when the request has    *)
(* reached the well-known port (ServerImpl::readOperation, writeOperation); *)
(* the operation that a repetition of the request would start is not part  *)
(* of this module.                                                         *)
(***************************************************************************)
EXTENDS Parameters, Sequences

CONSTANT Requests   \* the option lists a client may request with, for each kind of transfer

Kinds == {"read", "write"}

ASSUME TransferAssumption == Requests \in [Kinds -> SUBSET OptionLists]

VARIABLES
    kind,                       \* Tftp::RequestType
    client, server,             \* the base classes of the two operations
    transmittedBlock,           \* the sending side: lastTransmittedBlockNumber,
    acknowledgedBlock,          \*   its lastReceivedBlockNumber,
    lastDataPacketTransmitted,
    supplied,                   \*   chunks taken from its data handler
    storedBlock,                \* the receiving side: its lastReceivedBlockNumber,
    oackReceived,               \*   of a client only
    received,                   \*   chunks passed to its data handler
    net

CR == INSTANCE ClientReadOperation WITH
        Self <- "client", base <- client, lastReceivedBlockNumber <- storedBlock

SR == INSTANCE ServerReadOperation WITH
        Self <- "server", base <- server,
        lastTransmittedBlockNumber <- transmittedBlock,
        lastReceivedBlockNumber <- acknowledgedBlock

CW == INSTANCE ClientWriteOperation WITH
        Self <- "client", base <- client,
        lastTransmittedBlockNumber <- transmittedBlock,
        lastReceivedBlockNumber <- acknowledgedBlock

SW == INSTANCE ServerWriteOperation WITH
        Self <- "server", base <- server, lastReceivedBlockNumber <- storedBlock

senderVars   == <<transmittedBlock, acknowledgedBlock, lastDataPacketTransmitted, supplied>>
receiverVars == <<storedBlock, oackReceived, received>>
vars == <<kind, client, server, senderVars, receiverVars, net>>

Init ==
    /\ kind \in {k \in Kinds : Requests[k] # {}}
    /\ CR!Init /\ SR!Init

(* What the steps of an operation of the client or the server leave alone: the *)
(* other operation, and of their own members those of the other kind.          *)
ReadAtClient  == kind = "read"  /\ UNCHANGED <<kind, server, senderVars>>
WriteAtClient == kind = "write" /\ UNCHANGED <<kind, server, receiverVars>>
ReadAtServer  == kind = "read"  /\ UNCHANGED <<kind, client, receiverVars>>
WriteAtServer == kind = "write" /\ UNCHANGED <<kind, client, senderVars, oackReceived>>

Request ==
    \E options \in Requests[kind] :
        \/ ReadAtClient  /\ CR!Request(options)
        \/ WriteAtClient /\ CW!Request(options)

(* ServerImpl has received the request: the application starts an operation.    *)
(* The transfer size that Clients::ReadOperationImpl requests with is always 0. *)
Serve ==
    \E d \in net :
        /\ d.to = "wellKnown"
        /\ \/ /\ d.packet.type = "RRQ"
              /\ \E answer \in SR!Answers(d.packet.arg) \ {"refused"} : SR!Start(answer)
              /\ ReadAtServer
           \/ /\ d.packet.type = "WRQ"
              /\ \E answer \in SW!Answers(d.packet.arg) : SW!Start(answer)
              /\ WriteAtServer

(* ServerImpl answers a packet that is no request with an error, and so does the  *)
(* application a request it refuses.  ServerImpl::errorOperation uses a socket of *)
(* its own; the codes are some that no handler distinguishes.                     *)
Refuse ==
    /\ \E d \in net :
         /\ d.to = "wellKnown"
         /\ \/ d.packet.type \in {"DATA", "ACK", "ERROR", "OACK"}
            \/ d.packet.type \in {"RRQ", "WRQ"} /\ server = SR!InitialServer
         /\ net' = SR!NetAfter(d)
                   \cup {[from |-> "errorSocket", to |-> d.from, packet |-> Error("NotDefined")]}
    /\ UNCHANGED <<kind, client, server, senderVars, receiverVars>>

ClientStep == (ReadAtClient /\ CR!Step) \/ (WriteAtClient /\ CW!Step)
ClientTimer == (ReadAtClient /\ CR!Timer) \/ (WriteAtClient /\ CW!Timer)
ServerStep == (ReadAtServer /\ SR!Step) \/ (WriteAtServer /\ SW!Step)
ServerTimer == (ReadAtServer /\ SR!Timer) \/ (WriteAtServer /\ SW!Timer)

Next == Request \/ Serve \/ Refuse \/ ClientStep \/ ClientTimer \/ ServerStep \/ ServerTimer

Spec == Init /\ [][Next]_vars

-----------------------------------------------------------------------------
TypeOK ==
    /\ kind \in Kinds
    /\ client \in CR!Base /\ server \in CR!Base
    /\ transmittedBlock \in BlockNumbers /\ acknowledgedBlock \in BlockNumbers
    /\ lastDataPacketTransmitted \in BOOLEAN /\ supplied \in Nat
    /\ storedBlock \in BlockNumbers /\ oackReceived \in BOOLEAN /\ received \in Seq(Nat)
    /\ net \subseteq Datagram

Sender   == IF kind = "read" THEN server ELSE client
Receiver == IF kind = "read" THEN client ELSE server

Complete == Len(received) = LastChunk

(* dataPacket(): what the receiver has stored is the beginning of the file, without *)
(* a gap, a repetition or an exchange, whatever the network does to datagrams.      *)
ReceivedIsPrefix == \A i \in 1 .. Len(received) : received[i] = i

(* timeoutDallyHandler() and the end of dataPacket(): a receiver that reports *)
(* success has stored the whole file.                                         *)
ReceiverSuccessIsComplete == Receiver.status = "Successful" => Complete

(* acknowledgementPacket(): a sender that reports success has sent a file of which *)
(* the receiver has stored all chunks.                                             *)
SenderSuccessIsDelivered == Sender.status = "Successful" => Complete

(* acknowledgementPacket(): the sender is never more than one chunk ahead of the *)
(* receiver; a repeated acknowledgement is not answered, or each repetition would *)
(* double the packets of the rest of the transfer (Sorcerer's Apprentice).        *)
LockStep == Len(received) <= supplied /\ supplied <= Len(received) + 1

(* BlockNumber::operator++() on both sides: chunk i has the number BlockOf(i), and *)
(* number 0, which acknowledges the options, is never given to a chunk.            *)
Numbering == storedBlock = BlockOf(Len(received)) /\ transmittedBlock = BlockOf(supplied)

(* optionsAcknowledgementPacket(): data that follows an OACK is only stored after *)
(* the OACK has been accepted, else it would be cut to the wrong block size.      *)
NegotiatedBeforeData ==
    kind = "read" /\ (\E d \in net : d.packet.type = "OACK") /\ received # <<>> => oackReceived

(* optionsAcknowledgementPacket(): "OACK must occur after WRQ", that is before *)
(* any data has been sent.                                                     *)
OackAfterWrq == [][kind = "write" /\ CW!AcceptedOack => supplied = 0]_vars

(* No packet of the peer is taken for a violation of the protocol, if datagrams *)
(* do not overtake each other and no completion of the event loop is stale.     *)
NoProtocolError == "TransferError" \notin {client.status, server.status}

(* receiveDally(): once the sender knows that the file has been transferred, the *)
(* receiver reports nothing else.                                                *)
AgreedOutcome == Sender.status = "Successful" => Receiver.status \in {"none", "Successful"}

(* finished(), which throws if it is called twice, does not end either process. *)
NoCrash == CR!NoCrash /\ SR!NoCrash

(* The completion handler of either operation is called once. *)
ReportedOnce == CR!ReportedOnce /\ SR!ReportedOnce

(* Either operation waits for a packet or a timer as long as it has not finished. *)
NeverStuck == CR!NeverStuck /\ SR!NeverStuck

(* The outcome a status stands for. *)
OutcomeOf(status) == IF status = "none" THEN "none"
                     ELSE IF status = "Successful" THEN "success" ELSE "failure"

(* The transfer as its two users see it. *)
FT == INSTANCE FileTransfer WITH
        delivered <- Len(received),
        sender    <- OutcomeOf(Sender.status),
        receiver  <- OutcomeOf(Receiver.status)

(* The packets, acknowledgements and timers implement it. *)
ImplementsFileTransfer == FT!Spec

Fairness == WF_vars(ClientStep) /\ WF_vars(ClientTimer) /\ WF_vars(ServerStep) /\ WF_vars(ServerTimer)

FairSpec == Spec /\ Fairness

(* An operation is over when its socket is closed, when its process has ended, or  *)
(* when start() has caught the exception of its data handler: nothing waits then.  *)
Over(b) ==
    \/ b.socket = "closed"
    \/ b.fate # "running"
    \/ b.dataHandler = "idle" /\ b.rx = "none" /\ b.timer = "none" /\ b.ready = <<>>

(* timeoutHandler(): both operations end, whatever fails, is aborted or refused, as *)
(* their retries are limited and so are the datagrams.                              *)
OperationsEnd == <>[](Over(client) /\ Over(server))

=============================================================================
