--------------------------- MODULE TransferProofs ---------------------------
(***************************************************************************)
(* What holds of Transfer for every value of its constants: the types of   *)
(* its variables, that its operations go on until they have finished,      *)
(* report once and do not throw, and the numbers of the chunks.            *)
(*                                                                         *)
(* BaseOf(k) is the type of the base class of an operation that only knows *)
(* packets, timeouts and statuses of k.  Each step keeps BaseOf(k) if it   *)
(* finds the packet it sends, the timeout it arms and the status it        *)
(* reports in k.  For the types k is everything; SafetyProofs uses the     *)
(* same lemmas for a k that has the packets that are true of the file, and *)
(* success only once the file is complete.                                 *)
(***************************************************************************)
EXTENDS Transfer, TLAPS

-----------------------------------------------------------------------------
(* The operators of the four operations that are shared by all of them. *)
LEMMA Shared ==
    /\ \A k : SR!BaseOf(k) = CR!BaseOf(k) /\ CW!BaseOf(k) = CR!BaseOf(k) /\ SW!BaseOf(k) = CR!BaseOf(k)
    /\ \A p : /\ CR!DatagramOf(p) = DatagramOf(p) /\ SR!DatagramOf(p) = DatagramOf(p)
             /\ CW!DatagramOf(p) = DatagramOf(p) /\ SW!DatagramOf(p) = DatagramOf(p)
BY DEF Endpoints, DatagramOf,
       CR!BaseOf, CR!CompletionOf, CR!Endpoints, CR!DatagramOf,
       SR!BaseOf, SR!CompletionOf, SR!Endpoints, SR!DatagramOf,
       CW!BaseOf, CW!CompletionOf, CW!Endpoints, CW!DatagramOf,
       SW!BaseOf, SW!CompletionOf, SW!Endpoints, SW!DatagramOf

(* The assumptions about the constants, as the four operations state them. *)
LEMMA Assumed ==
    /\ CR!MaxBlockAssumption /\ CR!ParametersAssumption
    /\ SR!MaxBlockAssumption /\ SR!ParametersAssumption
    /\ CW!MaxBlockAssumption /\ CW!ParametersAssumption
    /\ SW!MaxBlockAssumption /\ SW!ParametersAssumption
BY MaxBlockAssumption, ParametersAssumption
DEF Endpoints, Datagram, DatagramOf, Packet, PacketTypes, BlockNumbers, Sizes, ErrorCodes, OptionLists,
    CR!MaxBlockAssumption, CR!ParametersAssumption,
    CR!Endpoints, CR!Datagram, CR!DatagramOf, CR!Packet, CR!PacketTypes, CR!BlockNumbers, CR!Sizes, CR!ErrorCodes, CR!OptionLists,
    SR!MaxBlockAssumption, SR!ParametersAssumption,
    SR!Endpoints, SR!Datagram, SR!DatagramOf, SR!Packet, SR!PacketTypes, SR!BlockNumbers, SR!Sizes, SR!ErrorCodes, SR!OptionLists,
    CW!MaxBlockAssumption, CW!ParametersAssumption,
    CW!Endpoints, CW!Datagram, CW!DatagramOf, CW!Packet, CW!PacketTypes, CW!BlockNumbers, CW!Sizes, CW!ErrorCodes, CW!OptionLists,
    SW!MaxBlockAssumption, SW!ParametersAssumption,
    SW!Endpoints, SW!Datagram, SW!DatagramOf, SW!Packet, SW!PacketTypes, SW!BlockNumbers, SW!Sizes, SW!ErrorCodes, SW!OptionLists

-----------------------------------------------------------------------------
(* The server of a read: the DATA packet it sends is one of k, and success is one *)
(* of the statuses of k once the last packet has been acknowledged.               *)
LEMMA ServerReadStepType ==
    ASSUME NEW k, SR!ServerAdmits(k),
           server \in SR!BaseOf(k), net \subseteq SR!DatagramOf(k.packets),
           SR!Step,
           SR!ExpectedAcknowledgement /\ supplied' # supplied
             => SR!Data(transmittedBlock', supplied', SR!SizeOf(supplied')) \in k.packets,
           SR!ExpectedAcknowledgement /\ lastDataPacketTransmitted => "Successful" \in k.statuses,
           supplied \in Nat
    PROVE  server' \in SR!BaseOf(k) /\ net' \subseteq SR!DatagramOf(k.packets)
<1> USE Assumed DEF SR!MaxBlockAssumption, SR!ParametersAssumption
<1>1. /\ SR!Admits(k) /\ "server" \in SR!Endpoints /\ "timeout" \in k.timeouts
      /\ "CommunicationError" \in k.statuses /\ "TransferError" \in k.statuses
      /\ SR!Error("IllegalTftpOperation") \in k.packets
  BY DEF SR!ServerAdmits, SR!ErrorCodes
<1>2. \A b \in SR!BaseOf(k) : [b EXCEPT !.out = {}] \in SR!BaseOf(k)
                              /\ b.out \subseteq SR!DatagramOf(k.packets)
  BY SR!PerformType
<1>3. SR!Runs("receive") => SR!Popped \in SR!BaseOf(k)
  BY SR!RunsType
<1> USE DEF SR!Perform, SR!PacketReceived
<1>4. CASE SR!BaseStep
  BY <1>4, SR!ServerStepType
<1>5. CASE SR!DataReceived \/ SR!WrongAcknowledgement
  BY <1>1, <1>2, <1>3, <1>5, SR!RejectType DEF SR!DataReceived, SR!WrongAcknowledgement
<1>6. CASE SR!DuplicateAcknowledgement
  BY <1>1, <1>2, <1>3, <1>6, SR!AwaitType DEF SR!DuplicateAcknowledgement, SR!Receive
<1>7. CASE SR!ExpectedAcknowledgement
  <2>1. CASE lastDataPacketTransmitted /\ SR!Perform(SR!Finished(SR!Popped, "Successful"))
    BY <1>1, <1>2, <1>3, <1>7, <2>1, SR!FinishedType DEF SR!ExpectedAcknowledgement
  <2>2. ASSUME NEW ok \in SR!Outcome("send"), SR!SendData(SR!Popped, ok)
        PROVE  server' \in SR!BaseOf(k) /\ net' \subseteq SR!DatagramOf(k.packets)
    <3> DEFINE packet == SR!Data(transmittedBlock', supplied', SR!SizeOf(supplied'))
    <3>1. /\ packet \in k.packets
          /\ SR!Perform(SR!Receive(SR!Send(SR!Popped, packet, ok)))
      BY <1>7, <2>2 DEF SR!SendData
    <3> HIDE DEF packet
    <3>2. SR!Receive(SR!Send(SR!Popped, packet, ok)) \in SR!BaseOf(k)
      BY <1>1, <1>3, <1>7, <3>1, SR!SendReceiveType DEF SR!ExpectedAcknowledgement
    <3> QED BY <1>2, <3>1, <3>2
  <2> QED BY <1>7, <2>1, <2>2 DEF SR!ExpectedAcknowledgement
<1> QED BY <1>4, <1>5, <1>6, <1>7 DEF SR!Step

(* The server of a write: the acknowledgement it sends is one of k, and so is what *)
(* follows the acknowledgement of the short packet.                                *)
LEMMA ServerWriteStepType ==
    ASSUME NEW k, SR!ServerAdmits(k), SW!ServerAdmits(k),
           server \in SW!BaseOf(k), net \subseteq SW!DatagramOf(k.packets),
           SW!Step,
           "timeoutDally" \in k.timeouts => "Successful" \in k.statuses,
           SW!DuplicateData \/ SW!NewData
             => /\ SW!Ack(storedBlock', Len(received')) \in k.packets
                /\ SW!Current.packet.arg = "short"
                     => "timeoutDally" \in k.timeouts /\ "Successful" \in k.statuses
    PROVE  server' \in SW!BaseOf(k) /\ net' \subseteq SW!DatagramOf(k.packets)
<1> USE Assumed DEF SW!MaxBlockAssumption, SW!ParametersAssumption
<1>1. /\ SW!Admits(k) /\ "server" \in SW!Endpoints /\ "timeout" \in k.timeouts
      /\ "CommunicationError" \in k.statuses /\ "TransferError" \in k.statuses
      /\ SW!Error("IllegalTftpOperation") \in k.packets
  BY DEF SW!ServerAdmits, SW!ErrorCodes
<1>2. \A b \in SW!BaseOf(k) : [b EXCEPT !.out = {}] \in SW!BaseOf(k)
                              /\ b.out \subseteq SW!DatagramOf(k.packets)
  BY SW!PerformType
<1>3. SW!Runs("receive") => SW!Popped \in SW!BaseOf(k)
  BY SW!RunsType
<1> USE DEF SW!Perform, SW!PacketReceived
<1>4. CASE SW!BaseStep
  BY <1>4, SW!ServerStepType
<1>5. CASE SW!TimeoutDally
  BY <1>5, SW!ServerDallyType
<1>6. CASE SW!WrongData \/ SW!AcknowledgementReceived
  BY <1>1, <1>2, <1>3, <1>6, SW!RejectType DEF SW!WrongData, SW!AcknowledgementReceived
<1>7. CASE SW!DuplicateData \/ SW!NewData
  <2>1. PICK ok \in SW!Outcome("send") :
          SW!Acknowledge(SW!Popped, storedBlock', SW!Current.packet.arg, ok)
    BY <1>7 DEF SW!DuplicateData, SW!NewData, SW!members
  <2> DEFINE packet == SW!Ack(storedBlock', Len(received'))
             c == SW!Send(SW!Popped, packet, ok)
  <2>2. packet \in k.packets
    BY <1>7
  <2>3. SW!Popped \in SW!BaseOf(k)
    BY <1>3, <1>7 DEF SW!DuplicateData, SW!NewData
  <2> HIDE DEF packet
  <2>4. c \in SW!BaseOf(k)
    BY <1>1, <2>2, <2>3, SW!SendType
  <2> HIDE DEF c
  <2>5. CASE SW!Current.packet.arg # "short"
    BY <1>1, <1>2, <2>1, <2>4, <2>5, SW!AwaitType DEF SW!Acknowledge, SW!Receive, packet, c
  <2>6. CASE SW!Current.packet.arg = "short"
    <3>1. "timeoutDally" \in k.timeouts /\ "Successful" \in k.statuses
      BY <1>7, <2>6
    <3>2. SW!ReceiveDally(c) \in SW!BaseOf(k) /\ SW!Finished(c, "Successful") \in SW!BaseOf(k)
      BY <1>1, <2>4, <3>1, SW!AwaitType, SW!FinishedType DEF SW!ReceiveDally
    <3> QED BY <1>2, <2>1, <2>6, <3>2 DEF SW!Acknowledge, packet, c
  <2> QED BY <2>5, <2>6
<1> QED BY <1>4, <1>5, <1>6, <1>7 DEF SW!Step

(* The client of a read, likewise; it also acknowledges an OACK. *)
LEMMA ClientReadStepType ==
    ASSUME NEW k, CR!ClientAdmits(k),
           client \in CR!BaseOf(k), net \subseteq CR!DatagramOf(k.packets),
           CR!Step,
           "timeoutDally" \in k.timeouts => "Successful" \in k.statuses,
           CR!DuplicateData \/ CR!NewData
             => /\ CR!Ack(storedBlock', Len(received')) \in k.packets
                /\ CR!Current.packet.arg = "short"
                     => "timeoutDally" \in k.timeouts /\ "Successful" \in k.statuses,
           CR!AcceptedOack => CR!Ack(0, Len(received)) \in k.packets,
           CR!RefusedOack => "OptionNegotiationError" \in k.statuses
    PROVE  client' \in CR!BaseOf(k) /\ net' \subseteq CR!DatagramOf(k.packets)
<1> USE Assumed DEF CR!MaxBlockAssumption, CR!ParametersAssumption
<1>1. /\ CR!Admits(k) /\ "client" \in CR!Endpoints /\ "timeout" \in k.timeouts
      /\ "CommunicationError" \in k.statuses /\ "TransferError" \in k.statuses
      /\ CR!Error("IllegalTftpOperation") \in k.packets
      /\ CR!Error("TftpOptionRefused") \in k.packets
      /\ CR!Error("DiskFullOrAllocationExceeds") \in k.packets
  BY DEF CR!ClientAdmits, CR!ErrorCodes
<1>2. \A b \in CR!BaseOf(k) : [b EXCEPT !.out = {}] \in CR!BaseOf(k)
                              /\ b.out \subseteq CR!DatagramOf(k.packets)
  BY CR!PerformType
<1>3. ASSUME NEW types, CR!PacketReceived(types)
      PROVE  CR!Dispatched \in CR!BaseOf(k)
  BY <1>3, CR!DispatchedType
<1> USE DEF CR!Perform
<1>4. CASE CR!BaseStep
  BY <1>4, CR!ClientStepType
<1>5. CASE CR!TimeoutDally
  BY <1>5, CR!ClientDallyType
<1>6. CASE CR!WrongData \/ CR!AcknowledgementReceived \/ CR!MisplacedOack
  BY <1>1, <1>2, <1>3, <1>6, CR!RejectType
     DEF CR!WrongData, CR!AcknowledgementReceived, CR!MisplacedOack
<1>7. CASE CR!RefusedData \/ CR!RefusedOack
  <2>1. CR!Dispatched \in CR!BaseOf(k)
    BY <1>3, <1>7 DEF CR!RefusedData, CR!RefusedOack
  <2>2. \E c \in CR!BaseOf(k) : CR!Perform(c)
    <3>1. CASE CR!RefusedData
      BY <1>1, <2>1, <3>1, CR!RejectType DEF CR!RefusedData
    <3>2. CASE CR!RefusedOack
      BY <1>1, <2>1, <3>2, CR!RejectType DEF CR!RefusedOack
    <3> QED BY <1>7, <3>1, <3>2
  <2> QED BY <1>2, <2>2
<1>8. CASE CR!AcceptedOack
  <2>1. CR!Dispatched \in CR!BaseOf(k)
    BY <1>3, <1>8 DEF CR!AcceptedOack
  <2> DEFINE packet == CR!Ack(0, Len(received))
  <2>2. packet \in k.packets
    BY <1>8
  <2> HIDE DEF packet
  <2>3. \A ok : CR!Receive(CR!Send(CR!Dispatched, packet, ok)) \in CR!BaseOf(k)
    BY <1>1, <2>1, <2>2, CR!SendReceiveType
  <2> QED BY <1>2, <1>8, <2>3 DEF CR!AcceptedOack, packet
<1>9. CASE CR!DuplicateData \/ CR!NewData
  <2>1. PICK ok \in CR!Outcome("send") :
          CR!Acknowledge(CR!Dispatched, storedBlock', CR!Current.packet.arg, ok)
    BY <1>9 DEF CR!DuplicateData, CR!NewData, CR!members
  <2> DEFINE packet == CR!Ack(storedBlock', Len(received'))
             c == CR!Send(CR!Dispatched, packet, ok)
  <2>2. packet \in k.packets
    BY <1>9
  <2>3. CR!Dispatched \in CR!BaseOf(k)
    BY <1>3, <1>9 DEF CR!DuplicateData, CR!NewData
  <2> HIDE DEF packet
  <2>4. c \in CR!BaseOf(k)
    BY <1>1, <2>2, <2>3, CR!SendType
  <2> HIDE DEF c
  <2>5. CASE CR!Current.packet.arg # "short"
    BY <1>1, <1>2, <2>1, <2>4, <2>5, CR!AwaitType DEF CR!Acknowledge, CR!Receive, packet, c
  <2>6. CASE CR!Current.packet.arg = "short"
    <3>1. "timeoutDally" \in k.timeouts /\ "Successful" \in k.statuses
      BY <1>9, <2>6
    <3>2. CR!ReceiveDally(c) \in CR!BaseOf(k) /\ CR!Finished(c, "Successful") \in CR!BaseOf(k)
      BY <1>1, <2>4, <3>1, CR!AwaitType, CR!FinishedType DEF CR!ReceiveDally
    <3> QED BY <1>2, <2>1, <2>6, <3>2 DEF CR!Acknowledge, packet, c
  <2> QED BY <2>5, <2>6
<1> QED BY <1>4, <1>5, <1>6, <1>7, <1>8, <1>9 DEF CR!Step

(* The client of a write, like the server of a read; an OACK is answered with data, too. *)
LEMMA ClientWriteStepType ==
    ASSUME NEW k, CW!ClientAdmits(k),
           client \in CW!BaseOf(k), net \subseteq CW!DatagramOf(k.packets),
           CW!Step,
           (CW!ExpectedAcknowledgement \/ CW!AcceptedOack) /\ supplied' # supplied
             => CW!Data(transmittedBlock', supplied', CW!SizeOf(supplied')) \in k.packets,
           CW!ExpectedAcknowledgement /\ lastDataPacketTransmitted => "Successful" \in k.statuses,
           CW!RefusedOack => "OptionNegotiationError" \in k.statuses,
           supplied \in Nat
    PROVE  client' \in CW!BaseOf(k) /\ net' \subseteq CW!DatagramOf(k.packets)
<1> USE Assumed DEF CW!MaxBlockAssumption, CW!ParametersAssumption
<1>1. /\ CW!Admits(k) /\ "client" \in CW!Endpoints /\ "timeout" \in k.timeouts
      /\ "CommunicationError" \in k.statuses /\ "TransferError" \in k.statuses
      /\ CW!Error("IllegalTftpOperation") \in k.packets
      /\ CW!Error("TftpOptionRefused") \in k.packets
  BY DEF CW!ClientAdmits, CW!ErrorCodes
<1>2. \A b \in CW!BaseOf(k) : [b EXCEPT !.out = {}] \in CW!BaseOf(k)
                              /\ b.out \subseteq CW!DatagramOf(k.packets)
  BY CW!PerformType
<1>3. ASSUME NEW types, CW!PacketReceived(types)
      PROVE  CW!Dispatched \in CW!BaseOf(k)
  BY <1>3, CW!DispatchedType
<1>4. CASE CW!BaseStep
  BY <1>4, CW!ClientStepType
<1>5. CASE CW!DataReceived \/ CW!WrongAcknowledgement \/ CW!MisplacedOack
  <2>1. CW!Dispatched \in CW!BaseOf(k)
    BY <1>3, <1>5, Zenon DEF CW!DataReceived, CW!WrongAcknowledgement, CW!MisplacedOack
  <2>2. PICK ok : CW!Perform(CW!Reject(CW!Dispatched, "IllegalTftpOperation", "TransferError", ok))
    BY <1>5, Zenon DEF CW!DataReceived, CW!WrongAcknowledgement, CW!MisplacedOack
  <2>3. CW!Reject(CW!Dispatched, "IllegalTftpOperation", "TransferError", ok) \in CW!BaseOf(k)
    BY <1>1, <2>1, CW!RejectType
  <2> QED BY <1>2, <2>2, <2>3 DEF CW!Perform
<1>6. CASE CW!RefusedAcknowledgement
  <2>1. CW!Dispatched \in CW!BaseOf(k)
    BY <1>3, <1>6, Zenon DEF CW!RefusedAcknowledgement
  <2>2. PICK ok : CW!Perform(CW!Reject(CW!Dispatched, "TftpOptionRefused", "TransferError", ok))
    BY <1>6, Zenon DEF CW!RefusedAcknowledgement
  <2>3. CW!Reject(CW!Dispatched, "TftpOptionRefused", "TransferError", ok) \in CW!BaseOf(k)
    BY <1>1, <2>1, CW!RejectType
  <2> QED BY <1>2, <2>2, <2>3 DEF CW!Perform
<1>7. CASE CW!RefusedOack
  <2>1. CW!Dispatched \in CW!BaseOf(k) /\ "OptionNegotiationError" \in k.statuses
    BY <1>3, <1>7, Zenon DEF CW!RefusedOack
  <2>2. PICK ok : CW!Perform(CW!Reject(CW!Dispatched, "TftpOptionRefused", "OptionNegotiationError", ok))
    BY <1>7, Zenon DEF CW!RefusedOack
  <2>3. CW!Reject(CW!Dispatched, "TftpOptionRefused", "OptionNegotiationError", ok) \in CW!BaseOf(k)
    BY <1>1, <2>1, CW!RejectType
  <2> QED BY <1>2, <2>2, <2>3 DEF CW!Perform
<1>8. CASE CW!DuplicateAcknowledgement
  BY <1>1, <1>2, <1>3, <1>8, CW!AwaitType DEF CW!DuplicateAcknowledgement, CW!Receive, CW!Perform
<1>9. CASE CW!ExpectedAcknowledgement \/ CW!AcceptedOack
  <2>1. CW!Dispatched \in CW!BaseOf(k)
    BY <1>3, <1>9 DEF CW!ExpectedAcknowledgement, CW!AcceptedOack
  <2>2. CASE /\ CW!ExpectedAcknowledgement /\ lastDataPacketTransmitted
             /\ CW!Perform(CW!Finished(CW!Dispatched, "Successful"))
    BY <1>1, <1>2, <2>1, <2>2, CW!FinishedType DEF CW!Perform
  <2>3. ASSUME NEW ok \in CW!Outcome("send"), CW!SendData(CW!Dispatched, ok)
        PROVE  client' \in CW!BaseOf(k) /\ net' \subseteq CW!DatagramOf(k.packets)
    <3> DEFINE packet == CW!Data(transmittedBlock', supplied', CW!SizeOf(supplied'))
    <3>1. /\ packet \in k.packets
          /\ CW!Perform(CW!Receive(CW!Send(CW!Dispatched, packet, ok)))
      BY <1>9, <2>3 DEF CW!SendData
    <3> HIDE DEF packet
    <3>2. CW!Receive(CW!Send(CW!Dispatched, packet, ok)) \in CW!BaseOf(k)
      BY <1>1, <2>1, <3>1, CW!SendReceiveType
    <3> QED BY <1>2, <3>1, <3>2 DEF CW!Perform
  <2> QED BY <1>9, <2>2, <2>3 DEF CW!ExpectedAcknowledgement, CW!AcceptedOack
<1> QED BY <1>4, <1>5, <1>6, <1>7, <1>8, <1>9 DEF CW!Step

-----------------------------------------------------------------------------
(* The first steps.  The server of a read: what it answers the request with is of k; *)
(* an exception of its data handler may leave it as initialise() did.                *)
LEMMA ServerReadStartType ==
    ASSUME NEW k, SR!ServerAdmits(k), "started" \in k.progress,
           net \subseteq SR!DatagramOf(k.packets),
           NEW answer, SR!Start(answer),
           supplied' # supplied
             => SR!Data(transmittedBlock', supplied', SR!SizeOf(supplied')) \in k.packets,
           answer = "oack" => SR!Oack("options") \in k.packets,
           supplied \in Nat
    PROVE  /\ server' \in SR!BaseOf(k) \/ (server' = SR!Idle /\ UNCHANGED SR!members)
           /\ net' \subseteq SR!DatagramOf(k.packets)
<1> USE Assumed DEF SR!MaxBlockAssumption, SR!ParametersAssumption
<1>1. /\ SR!Admits(k) /\ "server" \in SR!Endpoints /\ "timeout" \in k.timeouts
      /\ "CommunicationError" \in k.statuses /\ "TransferError" \in k.statuses
      /\ SR!Error("TftpOptionRefused") \in k.packets
  BY DEF SR!ServerAdmits, SR!ErrorCodes
<1>2. \A b \in SR!BaseOf(k) : [b EXCEPT !.out = {}] \in SR!BaseOf(k)
                              /\ b.out \subseteq SR!DatagramOf(k.packets)
  BY SR!PerformType
<1> DEFINE I(opened) == SR!Initialise(SR!InitialServer, opened)
           S(opened) == SR!StartDataHandler(I(opened))
<1>3. PICK opened, ok :
         \/ SR!Perform(I(opened)) /\ UNCHANGED SR!members
         \/ SR!Perform(SR!Finished(I(opened), "CommunicationError"))
         \/ SR!SendData(S(opened), ok)
         \/ /\ answer = "oack"
            /\ SR!Perform(SR!Receive(SR!Send(S(opened), SR!Oack("options"), ok)))
         \/ SR!Perform(SR!Reject(S(opened), "TftpOptionRefused", "TransferError", ok))
  BY DEF SR!Start
<1>4. S(opened) \in SR!BaseOf(k)
  BY SR!StartType
<1>5. SR!Finished(I(opened), "CommunicationError") \in SR!BaseOf(k) /\ I(FALSE) \in SR!BaseOf(k)
  BY SR!FailedStartType
<1>6. I(opened) = I(TRUE) \/ I(opened) = I(FALSE)
  BY DEF SR!Initialise
<1>7. I(TRUE).out = {} /\ [I(TRUE) EXCEPT !.out = {}] = I(TRUE)
  BY SR!IdleServer DEF SR!Idle
<1> HIDE DEF I, S
<1>8. CASE SR!Perform(I(opened)) /\ UNCHANGED SR!members
  BY <1>2, <1>5, <1>6, <1>7, <1>8 DEF SR!Perform, SR!Idle, I
<1>9. CASE SR!SendData(S(opened), ok)
  <2> DEFINE packet == SR!Data(transmittedBlock', supplied', SR!SizeOf(supplied'))
  <2>1. /\ packet \in k.packets
        /\ SR!Perform(SR!Receive(SR!Send(S(opened), packet, ok)))
    BY <1>9 DEF SR!SendData
  <2> HIDE DEF packet
  <2>2. SR!Receive(SR!Send(S(opened), packet, ok)) \in SR!BaseOf(k)
    BY <1>1, <1>4, <2>1, SR!SendReceiveType
  <2> QED BY <1>2, <2>1, <2>2 DEF SR!Perform
<1>10. CASE /\ answer = "oack"
           /\ SR!Perform(SR!Receive(SR!Send(S(opened), SR!Oack("options"), ok)))
  <2>1. SR!Receive(SR!Send(S(opened), SR!Oack("options"), ok)) \in SR!BaseOf(k)
    BY <1>1, <1>4, <1>10, SR!SendReceiveType
  <2> QED BY <1>2, <1>10, <2>1 DEF SR!Perform
<1>11. CASE \/ SR!Perform(SR!Finished(I(opened), "CommunicationError"))
            \/ SR!Perform(SR!Reject(S(opened), "TftpOptionRefused", "TransferError", ok))
  BY <1>1, <1>2, <1>4, <1>5, <1>11, SR!RejectType DEF SR!Perform
<1> QED BY <1>3, <1>8, <1>9, <1>10, <1>11

(* The server of a write, which acknowledges the request or its options. *)
LEMMA ServerWriteStartType ==
    ASSUME NEW k, SW!ServerAdmits(k), "started" \in k.progress,
           net \subseteq SW!DatagramOf(k.packets),
           NEW answer, SW!Start(answer),
           SW!Ack(0, 0) \in k.packets,
           answer = "oack" => SW!Oack("options") \in k.packets
    PROVE  /\ server' \in SW!BaseOf(k) \/ (server' = SW!Idle /\ UNCHANGED SW!members)
           /\ net' \subseteq SW!DatagramOf(k.packets)
<1> USE Assumed DEF SW!MaxBlockAssumption, SW!ParametersAssumption
<1>1. /\ SW!Admits(k) /\ "server" \in SW!Endpoints /\ "timeout" \in k.timeouts
      /\ "CommunicationError" \in k.statuses /\ "TransferError" \in k.statuses
      /\ SW!Error("DiskFullOrAllocationExceeds") \in k.packets
  BY DEF SW!ServerAdmits, SW!ErrorCodes
<1>2. \A b \in SW!BaseOf(k) : [b EXCEPT !.out = {}] \in SW!BaseOf(k)
                              /\ b.out \subseteq SW!DatagramOf(k.packets)
  BY SW!PerformType
<1> DEFINE I(opened) == SW!Initialise(SW!InitialServer, opened)
           S(opened) == SW!StartDataHandler(I(opened))
<1>3. PICK opened, ok :
         \/ SW!Perform(I(opened)) /\ UNCHANGED SW!members
         \/ SW!Perform(SW!Finished(I(opened), "CommunicationError"))
         \/ SW!Perform(SW!Receive(SW!Send(S(opened), SW!Ack(0, 0), ok)))
         \/ /\ answer = "oack"
            /\ SW!Perform(SW!Receive(SW!Send(S(opened), SW!Oack("options"), ok)))
         \/ SW!Perform(SW!Reject(S(opened), "DiskFullOrAllocationExceeds", "TransferError", ok))
  BY DEF SW!Start
<1>4. S(opened) \in SW!BaseOf(k)
  BY SW!StartType
<1>5. SW!Finished(I(opened), "CommunicationError") \in SW!BaseOf(k) /\ I(FALSE) \in SW!BaseOf(k)
  BY SW!FailedStartType
<1>6. I(opened) = I(TRUE) \/ I(opened) = I(FALSE)
  BY DEF SW!Initialise
<1>7. I(TRUE).out = {} /\ [I(TRUE) EXCEPT !.out = {}] = I(TRUE)
  BY SW!IdleServer DEF SW!Idle
<1> HIDE DEF I, S
<1>8. CASE SW!Perform(I(opened)) /\ UNCHANGED SW!members
  BY <1>2, <1>5, <1>6, <1>7, <1>8 DEF SW!Perform, SW!Idle, I
<1>9. CASE SW!Perform(SW!Receive(SW!Send(S(opened), SW!Ack(0, 0), ok)))
  <2>1. SW!Receive(SW!Send(S(opened), SW!Ack(0, 0), ok)) \in SW!BaseOf(k)
    BY <1>1, <1>4, SW!SendReceiveType
  <2> QED BY <1>2, <1>9, <2>1 DEF SW!Perform
<1>10. CASE /\ answer = "oack"
           /\ SW!Perform(SW!Receive(SW!Send(S(opened), SW!Oack("options"), ok)))
  <2>1. SW!Receive(SW!Send(S(opened), SW!Oack("options"), ok)) \in SW!BaseOf(k)
    BY <1>1, <1>4, <1>10, SW!SendReceiveType
  <2> QED BY <1>2, <1>10, <2>1 DEF SW!Perform
<1>11. CASE \/ SW!Perform(SW!Finished(I(opened), "CommunicationError"))
            \/ SW!Perform(SW!Reject(S(opened), "DiskFullOrAllocationExceeds", "TransferError", ok))
  BY <1>1, <1>2, <1>4, <1>5, <1>11, SW!RejectType DEF SW!Perform
<1> QED BY <1>3, <1>8, <1>9, <1>10, <1>11

(* The clients: the request is of k. *)
LEMMA ClientReadRequestType ==
    ASSUME NEW k, CR!ClientAdmits(k), "started" \in k.progress,
           net \subseteq CR!DatagramOf(k.packets),
           NEW options, CR!Request(options), CR!Rrq(options) \in k.packets
    PROVE  client' \in CR!BaseOf(k) /\ net' \subseteq CR!DatagramOf(k.packets)
<1> USE Assumed DEF CR!MaxBlockAssumption, CR!ParametersAssumption
<1>1. CR!Admits(k) /\ "timeoutFirst" \in k.timeouts
  BY DEF CR!ClientAdmits
<1>2. \A b \in CR!BaseOf(k) : [b EXCEPT !.out = {}] \in CR!BaseOf(k)
                              /\ b.out \subseteq CR!DatagramOf(k.packets)
  BY CR!PerformType
<1> DEFINE I(opened) == CR!Initialise(CR!InitialClient, opened)
           S(opened) == CR!StartDataHandler(I(opened))
<1>3. PICK opened, ok :
         \/ CR!Perform(CR!Finished(I(opened), "CommunicationError"))
         \/ CR!Perform(CR!ReceiveFirst(CR!SendFirst(S(opened), CR!Rrq(options), ok)))
  BY DEF CR!Request
<1>4. S(opened) \in CR!BaseOf(k) /\ CR!Finished(I(opened), "CommunicationError") \in CR!BaseOf(k)
  BY CR!StartType, CR!FailedStartType
<1> HIDE DEF I, S
<1>5. CR!SendFirst(S(opened), CR!Rrq(options), ok) \in CR!BaseOf(k)
  BY <1>4, CR!SendFirstType
<1>6. CR!ReceiveFirst(CR!SendFirst(S(opened), CR!Rrq(options), ok)) \in CR!BaseOf(k)
  BY <1>1, <1>5, CR!AwaitType DEF CR!ReceiveFirst
<1> QED BY <1>2, <1>3, <1>4, <1>6 DEF CR!Perform

(* ... of a write *)
LEMMA ClientWriteRequestType ==
    ASSUME NEW k, CW!ClientAdmits(k), "started" \in k.progress,
           net \subseteq CW!DatagramOf(k.packets),
           NEW options, CW!Request(options), CW!Wrq(options) \in k.packets
    PROVE  client' \in CW!BaseOf(k) /\ net' \subseteq CW!DatagramOf(k.packets)
<1> USE Assumed DEF CW!MaxBlockAssumption, CW!ParametersAssumption
<1>1. CW!Admits(k) /\ "timeoutFirst" \in k.timeouts
  BY DEF CW!ClientAdmits
<1>2. \A b \in CW!BaseOf(k) : [b EXCEPT !.out = {}] \in CW!BaseOf(k)
                              /\ b.out \subseteq CW!DatagramOf(k.packets)
  BY CW!PerformType
<1> DEFINE I(opened) == CW!Initialise(CW!InitialClient, opened)
           S(opened) == CW!StartDataHandler(I(opened))
<1>3. PICK opened, ok :
         \/ CW!Perform(CW!Finished(I(opened), "CommunicationError"))
         \/ CW!Perform(CW!ReceiveFirst(CW!SendFirst(S(opened), CW!Wrq(options), ok)))
  BY DEF CW!Request
<1>4. S(opened) \in CW!BaseOf(k) /\ CW!Finished(I(opened), "CommunicationError") \in CW!BaseOf(k)
  BY CW!StartType, CW!FailedStartType
<1> HIDE DEF I, S
<1>5. CW!SendFirst(S(opened), CW!Wrq(options), ok) \in CW!BaseOf(k)
  BY <1>4, CW!SendFirstType
<1>6. CW!ReceiveFirst(CW!SendFirst(S(opened), CW!Wrq(options), ok)) \in CW!BaseOf(k)
  BY <1>1, <1>5, CW!AwaitType DEF CW!ReceiveFirst
<1> QED BY <1>2, <1>3, <1>4, <1>6 DEF CW!Perform

-----------------------------------------------------------------------------
(* The constructors of packets, and the sizes and numbers of chunks. *)
LEMMA SharedPackets ==
    /\ \A b, c : CR!Ack(b, c) = Ack(b, c) /\ SW!Ack(b, c) = Ack(b, c)
    /\ \A b, c, s : SR!Data(b, c, s) = Data(b, c, s) /\ CW!Data(b, c, s) = Data(b, c, s)
    /\ \A o : /\ CR!Rrq(o) = Rrq(o) /\ CW!Wrq(o) = Wrq(o)
              /\ SR!Oack(o) = Oack(o) /\ SW!Oack(o) = Oack(o)
    /\ \A b : /\ CR!NextBlock(b) = NextBlock(b) /\ SR!NextBlock(b) = NextBlock(b)
              /\ CW!NextBlock(b) = NextBlock(b) /\ SW!NextBlock(b) = NextBlock(b)
    /\ \A c : CW!SizeOf(c) = SR!SizeOf(c)
    /\ CR!Any = [packets |-> Packet, timeouts |-> CR!Timeouts, statuses |-> CR!TransferStatus,
                 progress |-> {"idle", "started", "finished"}]
BY DEF Ack, CR!Ack, SW!Ack, Data, SR!Data, CW!Data, Rrq, CR!Rrq, Wrq, CW!Wrq,
       Oack, SR!Oack, SW!Oack, NextBlock, CR!NextBlock, SR!NextBlock, CW!NextBlock, SW!NextBlock,
       CW!SizeOf, SR!SizeOf, CR!Any, CR!Progress,
       CR!Packet, Packet, CR!PacketTypes, PacketTypes, CR!BlockNumbers, BlockNumbers,
       CR!Sizes, Sizes, CR!ErrorCodes, ErrorCodes, CR!OptionLists, OptionLists

(* Each packet that an operation can construct is one. *)
LEMMA PacketType ==
    /\ \A b \in BlockNumbers, c \in Nat :
          /\ Ack(b, c) \in Packet
          /\ \A s \in Sizes : Data(b, c, s) \in Packet
    /\ \A code \in ErrorCodes : Error(code) \in Packet
    /\ \A o \in OptionLists : Rrq(o) \in Packet /\ Wrq(o) \in Packet /\ Oack(o) \in Packet
    /\ NoPacket \in Packet
BY MaxBlockAssumption
DEF Packet, PacketTypes, BlockNumbers, Sizes, OptionLists, ErrorCodes,
    Ack, Data, Error, Rrq, Wrq, Oack, NoPacket, InvalidPacket

(* BlockNumber::next() is a block number, and never 0. *)
LEMMA NextBlockType ==
    ASSUME NEW block \in BlockNumbers
    PROVE  NextBlock(block) \in BlockNumbers \ {0}
BY MaxBlockAssumption DEF NextBlock, BlockNumbers

(* What all steps of both sides need of k. *)
Allows(k) ==
    /\ {"started", "finished"} \subseteq k.progress
    /\ NoPacket \in k.packets /\ \A code \in ErrorCodes : Error(code) \in k.packets
    /\ {"CommunicationError", "RequestError", "OptionNegotiationError", "TransferError",
        "Aborted"} \subseteq k.statuses
    /\ {"timeoutFirst", "timeout"} \subseteq k.timeouts

(* The four operations state it in terms of their own. *)
LEMMA Admitted ==
    ASSUME NEW k, Allows(k)
    PROVE  /\ CR!ClientAdmits(k) /\ SR!ServerAdmits(k) /\ CW!ClientAdmits(k) /\ SW!ServerAdmits(k)
           /\ "started" \in k.progress
<1> USE DEF Allows, Endpoints, ErrorCodes, Error, NoPacket, InvalidPacket
<1>1. CR!ClientAdmits(k)
  BY DEF CR!ClientAdmits, CR!Admits, CR!Endpoints, CR!ErrorCodes, CR!Error, CR!NoPacket,
         CR!InvalidPacket, CR!ErrorStatus
<1>2. SR!ServerAdmits(k)
  BY DEF SR!ServerAdmits, SR!Admits, SR!Endpoints, SR!ErrorCodes, SR!Error, SR!NoPacket,
         SR!InvalidPacket, SR!ErrorStatus
<1>3. CW!ClientAdmits(k)
  BY DEF CW!ClientAdmits, CW!Admits, CW!Endpoints, CW!ErrorCodes, CW!Error, CW!NoPacket,
         CW!InvalidPacket, CW!ErrorStatus
<1>4. SW!ServerAdmits(k)
  BY DEF SW!ServerAdmits, SW!Admits, SW!Endpoints, SW!ErrorCodes, SW!Error, SW!NoPacket,
         SW!InvalidPacket, SW!ErrorStatus
<1> QED BY <1>1, <1>2, <1>3, <1>4

-----------------------------------------------------------------------------
(* The types of the members of the sending and of the receiving side. *)
SenderType ==
    /\ transmittedBlock \in BlockNumbers /\ acknowledgedBlock \in BlockNumbers
    /\ lastDataPacketTransmitted \in BOOLEAN /\ supplied \in Nat

ReceiverType ==
    storedBlock \in BlockNumbers /\ oackReceived \in BOOLEAN /\ received \in Seq(Nat)

(* CR!Any allows everything. *)
LEMMA AnyAllows ==
    /\ Allows(CR!Any) /\ CR!Any.packets = Packet
    /\ "idle" \in CR!Any.progress
    /\ "Successful" \in CR!Any.statuses /\ "timeoutDally" \in CR!Any.timeouts
BY SharedPackets, PacketType DEF Allows, CR!TransferStatus, CR!Timeouts

(* The members that a step of the server of a read changes have their types. *)
LEMMA ServerReadMembersType ==
    ASSUME SenderType, server \in SR!BaseOf(CR!Any),
           SR!Step \/ \E answer : SR!Start(answer)
    PROVE  SenderType'
<1> USE Assumed, MaxBlockAssumption DEF SR!MaxBlockAssumption, SR!ParametersAssumption
<1>1. NextBlock(transmittedBlock) \in BlockNumbers /\ supplied + 1 \in Nat
  BY NextBlockType DEF SenderType
<1>2. ASSUME NEW b, NEW ok, SR!SendData(b, ok)
      PROVE  transmittedBlock' \in BlockNumbers /\ supplied' \in Nat
             /\ lastDataPacketTransmitted' \in BOOLEAN
  BY <1>1, <1>2, SharedPackets DEF SR!SendData, SenderType
<1>3. ASSUME SR!Runs("receive")
      PROVE  SR!Current.packet.block \in BlockNumbers
  <2>1. SR!Current \in SR!CompletionOf(CR!Any)
    BY <1>3, SR!RunsType
  <2> QED BY <2>1, AnyAllows DEF SR!CompletionOf, Packet
<1>4. CASE UNCHANGED SR!members
  BY <1>4 DEF SR!members, SenderType
<1>5. CASE SR!ExpectedAcknowledgement
  BY <1>2, <1>3, <1>5 DEF SR!ExpectedAcknowledgement, SR!PacketReceived, SenderType
<1>6. ASSUME NEW answer, SR!Start(answer)
      PROVE  SenderType'
  <2>1. MaxBlock \in BlockNumbers
    BY DEF BlockNumbers
  <2>2. \/ UNCHANGED SR!members
        \/ (\E b, ok : SR!SendData(b, ok)) /\ UNCHANGED acknowledgedBlock
        \/ /\ acknowledgedBlock' = MaxBlock
           /\ UNCHANGED <<transmittedBlock, lastDataPacketTransmitted, supplied>>
    BY <1>6 DEF SR!Start
  <2> QED BY <1>2, <1>4, <2>1, <2>2 DEF SenderType
<1> QED
  BY <1>4, <1>5, <1>6
  DEF SR!Step, SR!DataReceived, SR!DuplicateAcknowledgement, SR!WrongAcknowledgement

(* ... of the client of a write *)
LEMMA ClientWriteMembersType ==
    ASSUME SenderType, client \in CW!BaseOf(CR!Any),
           CW!Step \/ \E options : CW!Request(options)
    PROVE  SenderType'
<1> USE Assumed, MaxBlockAssumption DEF CW!MaxBlockAssumption, CW!ParametersAssumption
<1>1. NextBlock(transmittedBlock) \in BlockNumbers /\ supplied + 1 \in Nat
  BY NextBlockType DEF SenderType
<1>2. ASSUME NEW b, NEW ok, CW!SendData(b, ok)
      PROVE  transmittedBlock' \in BlockNumbers /\ supplied' \in Nat
             /\ lastDataPacketTransmitted' \in BOOLEAN
  BY <1>1, <1>2, SharedPackets DEF CW!SendData, SenderType
<1>3. ASSUME NEW types, CW!PacketReceived(types)
      PROVE  CW!Current.packet.block \in BlockNumbers
  <2>1. CW!Current \in CW!CompletionOf(CR!Any)
    BY <1>3, CW!DispatchedType
  <2> QED BY <2>1, AnyAllows DEF CW!CompletionOf, Packet
<1>4. CASE UNCHANGED CW!members
  BY <1>4 DEF CW!members, SenderType
<1>5. CASE CW!ExpectedAcknowledgement \/ CW!RefusedAcknowledgement
  BY <1>2, <1>3, <1>5 DEF CW!ExpectedAcknowledgement, CW!RefusedAcknowledgement, SenderType
<1>6. CASE CW!AcceptedOack
  BY <1>2, <1>6 DEF CW!AcceptedOack, SenderType
<1>7. ASSUME NEW options, CW!Request(options)
      PROVE  SenderType'
  <2>1. MaxBlock \in BlockNumbers /\ 0 \in BlockNumbers
    BY DEF BlockNumbers
  <2>2. \/ UNCHANGED CW!members
        \/ /\ lastDataPacketTransmitted' = FALSE /\ transmittedBlock' = 0
           /\ acknowledgedBlock' = MaxBlock /\ UNCHANGED supplied
    BY <1>7 DEF CW!Request
  <2> QED BY <1>4, <2>1, <2>2 DEF SenderType
<1> QED
  BY <1>4, <1>5, <1>6, <1>7
  DEF CW!Step, CW!DataReceived, CW!DuplicateAcknowledgement, CW!WrongAcknowledgement,
      CW!MisplacedOack, CW!RefusedOack

(* ... of the client of a read *)
LEMMA ClientReadMembersType ==
    ASSUME ReceiverType, client \in CR!BaseOf(CR!Any),
           CR!Step \/ \E options : CR!Request(options)
    PROVE  ReceiverType'
<1> USE Assumed, MaxBlockAssumption DEF CR!MaxBlockAssumption, CR!ParametersAssumption
<1>1. NextBlock(storedBlock) \in BlockNumbers
  BY NextBlockType DEF ReceiverType
<1>2. ASSUME NEW types, CR!PacketReceived(types)
      PROVE  CR!Current.packet.chunk \in Nat
  <2>1. CR!Current \in CR!CompletionOf(CR!Any)
    BY <1>2, CR!DispatchedType
  <2> QED BY <2>1, AnyAllows DEF CR!CompletionOf, Packet
<1>3. CASE UNCHANGED CR!members
  BY <1>3 DEF CR!members, ReceiverType
<1>4. CASE CR!NewData
  BY <1>1, <1>2, <1>4, SharedPackets DEF CR!NewData, ReceiverType
<1>5. CASE CR!AcceptedOack
  BY <1>5 DEF CR!AcceptedOack, ReceiverType
<1>6. ASSUME NEW options, CR!Request(options)
      PROVE  ReceiverType'
  <2>1. 0 \in BlockNumbers
    BY DEF BlockNumbers
  <2> QED BY <1>3, <1>6, <2>1 DEF CR!Request, ReceiverType
<1> QED
  BY <1>3, <1>4, <1>5, <1>6
  DEF CR!Step, CR!DuplicateData, CR!RefusedData, CR!WrongData, CR!AcknowledgementReceived,
      CR!MisplacedOack, CR!RefusedOack

(* ... of the server of a write *)
LEMMA ServerWriteMembersType ==
    ASSUME ReceiverType, server \in SW!BaseOf(CR!Any),
           SW!Step \/ \E answer : SW!Start(answer),
           UNCHANGED oackReceived
    PROVE  ReceiverType'
<1> USE Assumed DEF SW!MaxBlockAssumption, SW!ParametersAssumption
<1>1. NextBlock(storedBlock) \in BlockNumbers
  BY NextBlockType DEF ReceiverType
<1>2. ASSUME SW!Runs("receive")
      PROVE  SW!Current.packet.chunk \in Nat
  <2>1. SW!Current \in SW!CompletionOf(CR!Any)
    BY <1>2, SW!RunsType
  <2> QED BY <2>1, AnyAllows DEF SW!CompletionOf, Packet
<1>3. CASE UNCHANGED SW!members
  BY <1>3 DEF SW!members, ReceiverType
<1>4. CASE SW!NewData
  BY <1>1, <1>2, <1>4, SharedPackets DEF SW!NewData, SW!PacketReceived, ReceiverType
<1> QED
  BY <1>3, <1>4
  DEF SW!Step, SW!DuplicateData, SW!WrongData, SW!AcknowledgementReceived, SW!Start

(* TypeOK in terms of the four operations. *)
LEMMA TypeOKMeans ==
    /\ TypeOK <=> /\ kind \in Kinds
                  /\ client \in CR!BaseOf(CR!Any) /\ server \in CR!BaseOf(CR!Any)
                  /\ SenderType /\ ReceiverType
                  /\ net \subseteq DatagramOf(Packet)
    /\ TypeOK' <=> /\ kind' \in Kinds
                   /\ client' \in CR!BaseOf(CR!Any) /\ server' \in CR!BaseOf(CR!Any)
                   /\ SenderType' /\ ReceiverType'
                   /\ net' \subseteq DatagramOf(Packet)
BY DEF TypeOK, CR!Base, SenderType, ReceiverType, Datagram

(* The operations have just been constructed, and the network holds the strays. *)
LEMMA TypeOKInit == Init => TypeOK
<1> SUFFICES ASSUME Init PROVE TypeOK
  OBVIOUS
<1> USE Assumed
    DEF CR!MaxBlockAssumption, CR!ParametersAssumption, SR!MaxBlockAssumption, SR!ParametersAssumption
<1>1. client \in CR!BaseOf(CR!Any) /\ server \in CR!BaseOf(CR!Any)
  BY AnyAllows, Admitted, CR!InitialType, SR!InitialType, Shared DEF Init, CR!Init, SR!Init
<1>2. 0 \in BlockNumbers
  BY MaxBlockAssumption DEF BlockNumbers
<1>3. SenderType
  BY <1>2 DEF Init, SR!Init, SenderType
<1>4. ReceiverType
  <2>1. storedBlock = 0 /\ oackReceived = FALSE /\ received = <<>>
    BY DEF Init, CR!Init
  <2>2. FALSE \in BOOLEAN /\ <<>> \in Seq(Nat)
    OBVIOUS
  <2> QED BY <1>2, <2>1, <2>2, Zenon DEF ReceiverType
<1>5. net \subseteq DatagramOf(Packet) /\ kind \in Kinds
  BY ParametersAssumption DEF Init, CR!Init, Datagram
<1> QED BY <1>1, <1>3, <1>4, <1>5, TypeOKMeans

(* A step of the client. *)
LEMMA TypeOKClient ==
    ASSUME TypeOK, Request \/ ClientStep \/ ClientTimer
    PROVE  TypeOK'
<1> USE Assumed
    DEF CR!MaxBlockAssumption, CR!ParametersAssumption, CW!MaxBlockAssumption, CW!ParametersAssumption
<1>1. /\ kind \in Kinds /\ client \in CR!BaseOf(CR!Any) /\ client \in CW!BaseOf(CR!Any)
      /\ server \in CR!BaseOf(CR!Any) /\ SenderType /\ ReceiverType
      /\ net \subseteq CR!DatagramOf(Packet) /\ net \subseteq CW!DatagramOf(Packet)
      /\ CR!ClientAdmits(CR!Any) /\ CW!ClientAdmits(CR!Any) /\ "started" \in CR!Any.progress
      /\ "Successful" \in CR!Any.statuses /\ "timeoutDally" \in CR!Any.timeouts
      /\ CR!Admits(CR!Any) /\ CW!Admits(CR!Any) /\ CR!Any.packets = Packet
      /\ "OptionNegotiationError" \in CR!Any.statuses
  BY TypeOKMeans, Shared, AnyAllows, Admitted DEF CR!ClientAdmits, CW!ClientAdmits, Allows
<1> DEFINE Typed == client' \in CR!BaseOf(CR!Any) /\ net' \subseteq DatagramOf(Packet)
<1>2. ASSUME CR!Step \/ CR!Timer \/ \E options \in OptionLists : CR!Request(options)
      PROVE  ReceiverType' /\ Typed
  <2>1. ReceiverType'
    <3>1. CASE CR!Timer
      BY <1>1, <3>1 DEF CR!Timer, CR!members, ReceiverType
    <3> QED BY <1>1, <1>2, <3>1, ClientReadMembersType
  <2>2. CASE CR!Step
    <3>1. /\ CR!Ack(storedBlock', Len(received')) \in Packet
          /\ CR!AcceptedOack => CR!Ack(0, Len(received)) \in Packet
      <4>1. 0 \in BlockNumbers
        BY MaxBlockAssumption DEF BlockNumbers
      <4>2. storedBlock' \in BlockNumbers /\ Len(received') \in Nat /\ Len(received) \in Nat
        BY <1>1, <2>1 DEF ReceiverType
      <4> QED BY <4>1, <4>2, SharedPackets, PacketType
    <3> QED BY <1>1, <2>1, <2>2, <3>1, Shared, ClientReadStepType
  <2>3. CASE CR!Timer
    BY <1>1, <2>1, <2>3, Shared, CR!QueueType DEF CR!Timer
  <2>4. ASSUME NEW options \in OptionLists, CR!Request(options)
        PROVE  Typed
    BY <1>1, <2>4, SharedPackets, PacketType, Shared, ClientReadRequestType
  <2> QED BY <1>2, <2>1, <2>2, <2>3, <2>4
<1>3. ASSUME CW!Step \/ CW!Timer \/ \E options \in OptionLists : CW!Request(options)
      PROVE  SenderType' /\ Typed
  <2>1. SenderType'
    <3>1. CASE CW!Timer
      BY <1>1, <3>1 DEF CW!Timer, CW!members, SenderType
    <3> QED BY <1>1, <1>3, <3>1, ClientWriteMembersType
  <2>2. CASE CW!Step
    <3>1. CW!SizeOf(supplied') \in Sizes
      BY DEF CW!SizeOf, Sizes
    <3>2. CW!Data(transmittedBlock', supplied', CW!SizeOf(supplied')) \in Packet
      BY <2>1, <3>1, SharedPackets, PacketType DEF SenderType
    <3> QED BY <1>1, <2>1, <2>2, <3>2, Shared, ClientWriteStepType DEF SenderType
  <2>3. CASE CW!Timer
    BY <1>1, <2>1, <2>3, Shared, CW!QueueType DEF CW!Timer
  <2>4. ASSUME NEW options \in OptionLists, CW!Request(options)
        PROVE  Typed
    BY <1>1, <2>4, SharedPackets, PacketType, Shared, ClientWriteRequestType
  <2> QED BY <1>3, <2>1, <2>2, <2>3, <2>4
<1>4. CASE ReadAtClient /\ (CR!Step \/ CR!Timer \/ \E options \in OptionLists : CR!Request(options))
  <2>1. ReceiverType' /\ Typed
    BY <1>2, <1>4
  <2>2. SenderType' /\ kind' = kind /\ server' = server
    BY <1>1, <1>4 DEF ReadAtClient, senderVars, SenderType
  <2> QED BY <1>1, <2>1, <2>2, TypeOKMeans
<1>5. CASE WriteAtClient /\ (CW!Step \/ CW!Timer \/ \E options \in OptionLists : CW!Request(options))
  <2>1. SenderType' /\ Typed
    BY <1>3, <1>5
  <2>2. ReceiverType' /\ kind' = kind /\ server' = server
    BY <1>1, <1>5 DEF WriteAtClient, receiverVars, ReceiverType
  <2> QED BY <1>1, <2>1, <2>2, TypeOKMeans
<1>6. Requests[kind] \subseteq OptionLists
  BY <1>1, TransferAssumption
<1> QED BY <1>4, <1>5, <1>6 DEF Request, ClientStep, ClientTimer

(* The server is started, by a request or, as in AnyPeer, by no packet of the network. *)
ServerStarted ==
    \/ ReadAtServer  /\ \E answer : SR!Start(answer)
    \/ WriteAtServer /\ \E answer : SW!Start(answer)

LEMMA ServeStarts == Serve => ServerStarted
BY Zenon DEF Serve, ServerStarted

(* A step of the server. *)
LEMMA TypeOKServer ==
    ASSUME TypeOK, ServerStarted \/ ServerStep \/ ServerTimer
    PROVE  TypeOK'
<1> USE Assumed
    DEF SR!MaxBlockAssumption, SR!ParametersAssumption, SW!MaxBlockAssumption, SW!ParametersAssumption
<1>1. /\ kind \in Kinds /\ server \in SR!BaseOf(CR!Any) /\ server \in SW!BaseOf(CR!Any)
      /\ client \in CR!BaseOf(CR!Any) /\ SenderType /\ ReceiverType
      /\ net \subseteq SR!DatagramOf(Packet) /\ net \subseteq SW!DatagramOf(Packet)
      /\ SR!ServerAdmits(CR!Any) /\ SW!ServerAdmits(CR!Any) /\ "started" \in CR!Any.progress
      /\ "Successful" \in CR!Any.statuses /\ "timeoutDally" \in CR!Any.timeouts
      /\ SR!Admits(CR!Any) /\ SW!Admits(CR!Any) /\ CR!Any.packets = Packet
  BY TypeOKMeans, Shared, AnyAllows, Admitted DEF SR!ServerAdmits, SW!ServerAdmits
<1> DEFINE Typed == server' \in CR!BaseOf(CR!Any) /\ net' \subseteq DatagramOf(Packet)
<1>2. /\ \A o \in OptionLists : Oack(o) \in Packet
      /\ "options" \in OptionLists
  BY PacketType DEF OptionLists
<1>3. SR!Idle \in SR!BaseOf(CR!Any) /\ SW!Idle \in SW!BaseOf(CR!Any)
  BY <1>1, AnyAllows, SR!InitialiseType, SW!InitialiseType DEF SR!Idle, SW!Idle
<1>4. ASSUME SR!Step \/ SR!Timer \/ \E answer : SR!Start(answer)
      PROVE  SenderType' /\ Typed
  <2>1. SenderType'
    <3>1. CASE SR!Timer
      BY <1>1, <3>1 DEF SR!Timer, SR!members, SenderType
    <3> QED BY <1>1, <1>4, <3>1, ServerReadMembersType
  <2>2. SR!SizeOf(supplied') \in Sizes
    BY DEF SR!SizeOf, Sizes
  <2>3. SR!Data(transmittedBlock', supplied', SR!SizeOf(supplied')) \in Packet
    BY <2>1, <2>2, SharedPackets, PacketType DEF SenderType
  <2>4. CASE SR!Step
    BY <1>1, <2>1, <2>3, <2>4, Shared, ServerReadStepType DEF SenderType
  <2>5. CASE SR!Timer
    BY <1>1, <2>1, <2>5, Shared, SR!QueueType DEF SR!Timer
  <2>6. ASSUME NEW answer, SR!Start(answer)
        PROVE  Typed
    BY <1>1, <1>2, <1>3, <2>3, <2>6, SharedPackets, Shared, ServerReadStartType DEF SenderType
  <2> QED BY <1>4, <2>1, <2>4, <2>5, <2>6
<1>5. ASSUME SW!Step \/ SW!Timer \/ \E answer : SW!Start(answer), UNCHANGED oackReceived
      PROVE  ReceiverType' /\ Typed
  <2>1. ReceiverType'
    <3>1. CASE SW!Timer
      BY <1>1, <1>5, <3>1 DEF SW!Timer, SW!members, ReceiverType
    <3> QED BY <1>1, <1>5, <3>1, ServerWriteMembersType
  <2>2. SW!Ack(storedBlock', Len(received')) \in Packet /\ SW!Ack(0, 0) \in Packet
    BY <2>1, MaxBlockAssumption, SharedPackets, PacketType DEF ReceiverType, BlockNumbers
  <2>3. CASE SW!Step
    BY <1>1, <2>1, <2>2, <2>3, Shared, ServerWriteStepType
  <2>4. CASE SW!Timer
    BY <1>1, <2>1, <2>4, Shared, SW!QueueType DEF SW!Timer
  <2>5. ASSUME NEW answer, SW!Start(answer)
        PROVE  Typed
    BY <1>1, <1>2, <1>3, <2>2, <2>5, SharedPackets, Shared, ServerWriteStartType
  <2> QED BY <1>5, <2>1, <2>3, <2>4, <2>5
<1>6. CASE ReadAtServer /\ (SR!Step \/ SR!Timer \/ \E answer : SR!Start(answer))
  <2>1. SenderType' /\ Typed
    BY <1>4, <1>6
  <2>2. ReceiverType' /\ kind' = kind /\ client' = client
    BY <1>1, <1>6 DEF ReadAtServer, receiverVars, ReceiverType
  <2> QED BY <1>1, <2>1, <2>2, TypeOKMeans
<1>7. CASE WriteAtServer /\ (SW!Step \/ SW!Timer \/ \E answer : SW!Start(answer))
  <2>1. ReceiverType' /\ Typed
    BY <1>5, <1>7 DEF WriteAtServer
  <2>2. SenderType' /\ kind' = kind /\ client' = client
    BY <1>1, <1>7 DEF WriteAtServer, senderVars, SenderType
  <2> QED BY <1>1, <2>1, <2>2, TypeOKMeans
<1> QED BY <1>6, <1>7 DEF ServerStarted, ServerStep, ServerTimer

(* The error that answers a refused request, too, is a datagram. *)
LEMMA TypeOKRefuse ==
    ASSUME TypeOK, Refuse
    PROVE  TypeOK'
<1>1. Error("NotDefined") \in Packet
  BY PacketType DEF ErrorCodes
<1>2. PICK d \in net :
        net' = SR!NetAfter(d)
               \cup {[from |-> "errorSocket", to |-> d.from, packet |-> Error("NotDefined")]}
  BY DEF Refuse
<1>3. d \in DatagramOf(Packet) /\ SR!NetAfter(d) \subseteq net
  BY TypeOKMeans DEF SR!NetAfter
<1>4. d.from \in Endpoints
  BY <1>3 DEF DatagramOf
<1>5. [from |-> "errorSocket", to |-> d.from, packet |-> Error("NotDefined")] \in DatagramOf(Packet)
  BY <1>1, <1>4 DEF DatagramOf, Endpoints
<1>6. net' \subseteq DatagramOf(Packet)
  BY <1>2, <1>3, <1>5, TypeOKMeans
<1>7. /\ kind' = kind /\ client' = client /\ server' = server
      /\ SenderType' = SenderType /\ ReceiverType' = ReceiverType
  BY DEF Refuse, senderVars, receiverVars, SenderType, ReceiverType
<1> QED BY <1>6, <1>7, TypeOKMeans

(* Every variable keeps its type: the block numbers fit their 16 bits, and only packets of *)
(* the protocol are sent, whatever the faults, aborts and the network.                     *)
THEOREM TypeCorrect == Spec => []TypeOK
<1>1. ASSUME TypeOK, [Next]_vars
      PROVE  TypeOK'
  <2>1. CASE UNCHANGED vars
    BY <1>1, <2>1, TypeOKMeans DEF vars, senderVars, receiverVars, SenderType, ReceiverType
  <2> QED BY <1>1, <2>1, ServeStarts, TypeOKClient, TypeOKServer, TypeOKRefuse DEF Next
<1> QED BY <1>1, TypeOKInit, PTL DEF Spec

-----------------------------------------------------------------------------
(***************************************************************************)
(* What follows from how the handlers combine the member functions: an     *)
(* operation goes on until it has finished, reports one status, and, where *)
(* nothing fails, never throws.                                            *)
(***************************************************************************)

(* The four operations share what is said of a base class. *)
LEMMA SharedStates ==
    /\ \A b : /\ SR!Once(b) = CR!Once(b) /\ CW!Once(b) = CR!Once(b) /\ SW!Once(b) = CR!Once(b)
              /\ SR!Alive(b) = CR!Alive(b) /\ CW!Alive(b) = CR!Alive(b) /\ SW!Alive(b) = CR!Alive(b)
              /\ SR!Sound(b) = CR!Sound(b) /\ CW!Sound(b) = CR!Sound(b) /\ SW!Sound(b) = CR!Sound(b)
              /\ \A c : /\ SR!KeepsStatus(b, c) = CR!KeepsStatus(b, c)
                        /\ CW!KeepsStatus(b, c) = CR!KeepsStatus(b, c)
                        /\ SW!KeepsStatus(b, c) = CR!KeepsStatus(b, c)
    /\ SR!Base = CR!Base /\ CW!Base = CR!Base /\ SW!Base = CR!Base
<1>1. /\ SR!Timeouts = CR!Timeouts /\ CW!Timeouts = CR!Timeouts /\ SW!Timeouts = CR!Timeouts
      /\ SR!Any = CR!Any /\ CW!Any = CR!Any /\ SW!Any = CR!Any
  BY DEF CR!Any, SR!Any, CW!Any, SW!Any, CR!Timeouts, SR!Timeouts, CW!Timeouts, SW!Timeouts,
         CR!Progress, SR!Progress, CW!Progress, SW!Progress,
         CR!TransferStatus, SR!TransferStatus, CW!TransferStatus, SW!TransferStatus,
         CR!Packet, SR!Packet, CW!Packet, SW!Packet,
         CR!PacketTypes, SR!PacketTypes, CW!PacketTypes, SW!PacketTypes,
         CR!BlockNumbers, SR!BlockNumbers, CW!BlockNumbers, SW!BlockNumbers,
         CR!Sizes, SR!Sizes, CW!Sizes, SW!Sizes,
         CR!ErrorCodes, SR!ErrorCodes, CW!ErrorCodes, SW!ErrorCodes,
         CR!OptionLists, SR!OptionLists, CW!OptionLists, SW!OptionLists
<1>2. SR!Base = CR!Base /\ CW!Base = CR!Base /\ SW!Base = CR!Base
  BY <1>1, Shared DEF CR!Base, SR!Base, CW!Base, SW!Base
<1>3. ASSUME NEW b
      PROVE  /\ SR!Once(b) = CR!Once(b) /\ CW!Once(b) = CR!Once(b) /\ SW!Once(b) = CR!Once(b)
             /\ SR!Alive(b) = CR!Alive(b) /\ CW!Alive(b) = CR!Alive(b) /\ SW!Alive(b) = CR!Alive(b)
             /\ SR!Sound(b) = CR!Sound(b) /\ CW!Sound(b) = CR!Sound(b) /\ SW!Sound(b) = CR!Sound(b)
  BY <1>1
  DEF CR!Once, SR!Once, CW!Once, SW!Once, CR!Alive, SR!Alive, CW!Alive, SW!Alive,
      CR!TimeoutIn, SR!TimeoutIn, CW!TimeoutIn, SW!TimeoutIn,
      CR!Sound, SR!Sound, CW!Sound, SW!Sound, CR!Running, SR!Running, CW!Running, SW!Running
<1>4. \A b, c : /\ SR!KeepsStatus(b, c) = CR!KeepsStatus(b, c)
                /\ CW!KeepsStatus(b, c) = CR!KeepsStatus(b, c)
                /\ SW!KeepsStatus(b, c) = CR!KeepsStatus(b, c)
  BY DEF CR!KeepsStatus, SR!KeepsStatus, CW!KeepsStatus, SW!KeepsStatus
<1> QED BY <1>2, <1>3, <1>4

(* The handlers of the server of a read: data is sent for the acknowledgement of the *)
(* last data only, and nothing else but errors.                                      *)
LEMMA ServerReadSends ==
    ASSUME SR!Step \/ SR!Timer
    PROVE  \/ (SR!Passes \/ SR!Objects) /\ UNCHANGED <<transmittedBlock, lastDataPacketTransmitted, supplied>>
           \/ /\ SR!ExpectedAcknowledgement /\ ~lastDataPacketTransmitted
              /\ supplied' = supplied + 1 /\ transmittedBlock' = NextBlock(transmittedBlock)
              /\ SR!RepliesWith(Data(transmittedBlock', supplied', SR!SizeOf(supplied')))
<1> USE Assumed DEF SR!MaxBlockAssumption, SR!ParametersAssumption
<1>1. ASSUME NEW types, SR!PacketReceived(types)
      PROVE  SR!OfPacket(SR!Popped) /\ SR!Starts(SR!Popped)
  BY <1>1 DEF SR!PacketReceived, SR!OfPacket, SR!Starts
<1>2. \A code : SR!Error(code).type = "ERROR"
  BY DEF SR!Error
<1>3. CASE (SR!BaseStep \/ SR!Timer) /\ UNCHANGED SR!members
  BY <1>3, SR!ServerMoves DEF SR!Timer, SR!Passes, SR!Queues, SR!members
<1>4. CASE SR!DataReceived \/ SR!WrongAcknowledgement
  <2>1. SR!Objects
    BY <1>1, <1>2, <1>4, Zenon
    DEF SR!DataReceived, SR!WrongAcknowledgement, SR!Reject, SR!RepliesWith, SR!Objects
  <2> QED BY <1>4, <2>1 DEF SR!DataReceived, SR!WrongAcknowledgement, SR!members
<1>5. CASE SR!DuplicateAcknowledgement
  <2>1. SR!Passes
    BY <1>1, <1>5, Zenon DEF SR!DuplicateAcknowledgement, SR!Ignores, SR!Passes
  <2> QED BY <1>5, <2>1 DEF SR!DuplicateAcknowledgement, SR!members
<1>6. CASE SR!ExpectedAcknowledgement
  <2>1. SR!OfPacket(SR!Popped) /\ SR!Starts(SR!Popped)
    BY <1>1, <1>6 DEF SR!ExpectedAcknowledgement
  <2>2. CASE lastDataPacketTransmitted /\ SR!Perform(SR!Finished(SR!Popped, "Successful"))
             /\ UNCHANGED <<transmittedBlock, lastDataPacketTransmitted, supplied>>
    BY <2>1, <2>2, Zenon DEF SR!Finishes, SR!Passes
  <2>3. ASSUME NEW ok \in SR!Outcome("send"), SR!SendData(SR!Popped, ok), ~lastDataPacketTransmitted
        PROVE  /\ supplied' = supplied + 1 /\ transmittedBlock' = NextBlock(transmittedBlock)
               /\ SR!RepliesWith(Data(transmittedBlock', supplied', SR!SizeOf(supplied')))
    <3> DEFINE packet == Data(transmittedBlock', supplied', SR!SizeOf(supplied'))
    <3>1. /\ supplied' = supplied + 1 /\ transmittedBlock' = NextBlock(transmittedBlock)
          /\ SR!Perform(SR!Receive(SR!Send(SR!Popped, packet, ok)))
      BY <2>3, SharedPackets DEF SR!SendData
    <3> HIDE DEF packet
    <3>2. SR!RepliesWith(packet)
      BY <2>1, <3>1, Zenon DEF SR!RepliesWith
    <3> QED BY <3>1, <3>2 DEF packet
  <2> QED BY <1>6, <2>2, <2>3 DEF SR!ExpectedAcknowledgement
<1> QED BY <1>3, <1>4, <1>5, <1>6 DEF SR!Step, SR!Timer

LEMMA ServerReadMoves ==
    ASSUME SR!Step \/ SR!Timer
    PROVE  SR!Moves
BY Assumed, ServerReadSends, SR!MovesAre, Zenon
DEF SR!MaxBlockAssumption, SR!ParametersAssumption, SR!Objects

(* The handlers of the server of a write: data is answered with the number of the chunks *)
(* stored, anything else with an error.                                                  *)
LEMMA ServerWriteSends ==
    ASSUME SW!Step \/ SW!Timer
    PROVE  \/ (SW!Passes \/ SW!Objects) /\ UNCHANGED <<storedBlock, received>>
           \/ /\ SW!DuplicateData \/ SW!NewData
              /\ SW!RepliesWith(Ack(storedBlock', Len(received')))
<1> USE Assumed DEF SW!MaxBlockAssumption, SW!ParametersAssumption
<1>1. ASSUME NEW types, SW!PacketReceived(types)
      PROVE  SW!OfPacket(SW!Popped)
  BY <1>1 DEF SW!PacketReceived, SW!OfPacket
<1>2. \A code : SW!Error(code).type = "ERROR"
  BY DEF SW!Error
<1>3. CASE (SW!BaseStep \/ SW!TimeoutDally \/ SW!Timer) /\ UNCHANGED SW!members
  BY <1>3, SW!ServerMoves DEF SW!Timer, SW!Passes, SW!Queues, SW!members
<1>4. CASE SW!WrongData \/ SW!AcknowledgementReceived
  <2>1. SW!Objects
    BY <1>1, <1>2, <1>4, Zenon
    DEF SW!WrongData, SW!AcknowledgementReceived, SW!Reject, SW!RepliesWith, SW!Objects
  <2> QED BY <1>4, <2>1 DEF SW!WrongData, SW!AcknowledgementReceived, SW!members
<1>5. CASE SW!DuplicateData \/ SW!NewData
  <2>1. PICK ok \in SW!Outcome("send") : \E size : SW!Acknowledge(SW!Popped, storedBlock', size, ok)
    BY <1>5 DEF SW!DuplicateData, SW!NewData, SW!members
  <2> DEFINE packet == Ack(storedBlock', Len(received'))
  <2>2. PICK c : /\ c = SW!Send(SW!Popped, packet, ok)
                 /\ \/ SW!Perform(SW!Receive(c)) \/ SW!Perform(SW!ReceiveDally(c))
                    \/ SW!Perform(SW!Finished(c, "Successful"))
    BY <2>1, SharedPackets DEF SW!Acknowledge
  <2>3. SW!OfPacket(SW!Popped)
    BY <1>1, <1>5 DEF SW!DuplicateData, SW!NewData
  <2> HIDE DEF packet
  <2>4. SW!RepliesWith(packet)
    BY <2>2, <2>3, Zenon DEF SW!RepliesWith
  <2> QED BY <1>5, <2>4 DEF packet
<1> QED BY <1>3, <1>4, <1>5 DEF SW!Step, SW!Timer

LEMMA ServerWriteMoves ==
    ASSUME SW!Step \/ SW!Timer
    PROVE  SW!Moves
BY Assumed, ServerWriteSends, SW!MovesAre, Zenon
DEF SW!MaxBlockAssumption, SW!ParametersAssumption, SW!Objects

(* The handlers of the client of a read, which also acknowledges accepted options. *)
LEMMA ClientReadSends ==
    ASSUME CR!Step \/ CR!Timer
    PROVE  \/ (CR!Passes \/ CR!Objects) /\ UNCHANGED <<storedBlock, received>>
           \/ /\ CR!DuplicateData \/ CR!NewData
              /\ CR!RepliesWith(Ack(storedBlock', Len(received')))
           \/ /\ CR!AcceptedOack
              /\ CR!RepliesWith(Ack(0, Len(received)))
<1> USE Assumed DEF CR!MaxBlockAssumption, CR!ParametersAssumption
<1>1. ASSUME NEW types, CR!PacketReceived(types)
      PROVE  CR!OfPacket(CR!Dispatched)
  BY <1>1, CR!DispatchedOfPacket
<1>2. \A code : CR!Error(code).type = "ERROR"
  BY DEF CR!Error
<1>3. CASE (CR!BaseStep \/ CR!TimeoutDally \/ CR!Timer) /\ UNCHANGED CR!members
  BY <1>3, CR!ClientMoves DEF CR!Timer, CR!Passes, CR!Queues, CR!members
<1>4. CASE CR!RefusedData \/ CR!WrongData \/ CR!AcknowledgementReceived
           \/ CR!MisplacedOack \/ CR!RefusedOack
  <2>1. CR!Objects
    BY <1>1, <1>2, <1>4, Zenon
    DEF CR!RefusedData, CR!WrongData, CR!AcknowledgementReceived, CR!MisplacedOack, CR!RefusedOack,
        CR!Reject, CR!RepliesWith, CR!Objects
  <2> QED BY <1>4, <2>1
          DEF CR!RefusedData, CR!WrongData, CR!AcknowledgementReceived, CR!MisplacedOack,
              CR!RefusedOack, CR!members
<1>5. CASE CR!DuplicateData \/ CR!NewData
  <2>1. PICK ok \in CR!Outcome("send") : \E size : CR!Acknowledge(CR!Dispatched, storedBlock', size, ok)
    BY <1>5 DEF CR!DuplicateData, CR!NewData, CR!members
  <2> DEFINE packet == Ack(storedBlock', Len(received'))
  <2>2. PICK c : /\ c = CR!Send(CR!Dispatched, packet, ok)
                 /\ \/ CR!Perform(CR!Receive(c)) \/ CR!Perform(CR!ReceiveDally(c))
                    \/ CR!Perform(CR!Finished(c, "Successful"))
    BY <2>1, SharedPackets DEF CR!Acknowledge
  <2>3. CR!OfPacket(CR!Dispatched)
    BY <1>1, <1>5 DEF CR!DuplicateData, CR!NewData
  <2> HIDE DEF packet
  <2>4. CR!RepliesWith(packet)
    BY <2>2, <2>3, Zenon DEF CR!RepliesWith
  <2> QED BY <1>5, <2>4 DEF packet
<1>6. CASE CR!AcceptedOack
  <2> DEFINE packet == Ack(0, Len(received))
  <2>1. PICK ok \in CR!Outcome("send") : CR!Perform(CR!Receive(CR!Send(CR!Dispatched, packet, ok)))
    BY <1>6, SharedPackets DEF CR!AcceptedOack
  <2>2. CR!OfPacket(CR!Dispatched)
    BY <1>1, <1>6 DEF CR!AcceptedOack
  <2> HIDE DEF packet
  <2>3. CR!RepliesWith(packet)
    BY <2>1, <2>2, Zenon DEF CR!RepliesWith
  <2> QED BY <1>6, <2>3 DEF packet
<1> QED BY <1>3, <1>4, <1>5, <1>6 DEF CR!Step, CR!Timer

LEMMA ClientReadMoves ==
    ASSUME CR!Step \/ CR!Timer
    PROVE  CR!Moves
BY Assumed, ClientReadSends, CR!MovesAre, Zenon
DEF CR!MaxBlockAssumption, CR!ParametersAssumption, CR!Objects

(* The handlers of the client of a write, for which accepted options stand for the first *)
(* acknowledgement.                                                                      *)
LEMMA ClientWriteSends ==
    ASSUME CW!Step \/ CW!Timer
    PROVE  \/ (CW!Passes \/ CW!Objects) /\ UNCHANGED <<transmittedBlock, lastDataPacketTransmitted, supplied>>
           \/ /\ \/ CW!ExpectedAcknowledgement /\ ~lastDataPacketTransmitted
                 \/ CW!AcceptedOack
              /\ supplied' = supplied + 1 /\ transmittedBlock' = NextBlock(transmittedBlock)
              /\ CW!RepliesWith(Data(transmittedBlock', supplied', SR!SizeOf(supplied')))
<1> USE Assumed DEF CW!MaxBlockAssumption, CW!ParametersAssumption
<1>1. ASSUME NEW types, CW!PacketReceived(types)
      PROVE  CW!OfPacket(CW!Dispatched) /\ CW!Starts(CW!Dispatched)
  BY <1>1, CW!DispatchedOfPacket
<1>2. \A code : CW!Error(code).type = "ERROR"
  BY DEF CW!Error
<1>3. CASE (CW!BaseStep \/ CW!Timer) /\ UNCHANGED CW!members
  BY <1>3, CW!ClientMoves DEF CW!Timer, CW!Passes, CW!Queues, CW!members
<1>4. CASE CW!DataReceived \/ CW!WrongAcknowledgement \/ CW!RefusedAcknowledgement
           \/ CW!MisplacedOack \/ CW!RefusedOack
  <2>1. CW!Objects
    BY <1>1, <1>2, <1>4, Zenon
    DEF CW!DataReceived, CW!WrongAcknowledgement, CW!RefusedAcknowledgement, CW!MisplacedOack,
        CW!RefusedOack, CW!Reject, CW!RepliesWith, CW!Objects
  <2> QED BY <1>4, <2>1
          DEF CW!DataReceived, CW!WrongAcknowledgement, CW!RefusedAcknowledgement,
              CW!MisplacedOack, CW!RefusedOack, CW!members
<1>5. CASE CW!DuplicateAcknowledgement
  <2>1. CW!Passes
    BY <1>1, <1>5, Zenon DEF CW!DuplicateAcknowledgement, CW!Ignores, CW!Passes
  <2> QED BY <1>5, <2>1 DEF CW!DuplicateAcknowledgement, CW!members
<1>6. CASE CW!ExpectedAcknowledgement \/ CW!AcceptedOack
  <2>1. CW!OfPacket(CW!Dispatched) /\ CW!Starts(CW!Dispatched)
    BY <1>1, <1>6 DEF CW!ExpectedAcknowledgement, CW!AcceptedOack
  <2>2. CASE lastDataPacketTransmitted /\ CW!Perform(CW!Finished(CW!Dispatched, "Successful"))
             /\ UNCHANGED <<transmittedBlock, lastDataPacketTransmitted, supplied>>
    BY <2>1, <2>2, Zenon DEF CW!Finishes, CW!Passes
  <2>3. ASSUME NEW ok \in CW!Outcome("send"), CW!SendData(CW!Dispatched, ok)
        PROVE  /\ supplied' = supplied + 1 /\ transmittedBlock' = NextBlock(transmittedBlock)
               /\ CW!RepliesWith(Data(transmittedBlock', supplied', SR!SizeOf(supplied')))
    <3> DEFINE packet == Data(transmittedBlock', supplied', SR!SizeOf(supplied'))
    <3>1. /\ supplied' = supplied + 1 /\ transmittedBlock' = NextBlock(transmittedBlock)
          /\ CW!Perform(CW!Receive(CW!Send(CW!Dispatched, packet, ok)))
      BY <2>3, SharedPackets DEF CW!SendData
    <3> HIDE DEF packet
    <3>2. CW!RepliesWith(packet)
      BY <2>1, <3>1, Zenon DEF CW!RepliesWith
    <3> QED BY <3>1, <3>2 DEF packet
  <2> QED BY <1>6, <2>2, <2>3 DEF CW!ExpectedAcknowledgement, CW!AcceptedOack
<1> QED BY <1>3, <1>4, <1>5, <1>6 DEF CW!Step, CW!Timer

LEMMA ClientWriteMoves ==
    ASSUME CW!Step \/ CW!Timer
    PROVE  CW!Moves
BY Assumed, ClientWriteSends, CW!MovesAre, Zenon
DEF CW!MaxBlockAssumption, CW!ParametersAssumption, CW!Objects

(* What the first step of a client leaves. *)
LEMMA ClientRequests ==
    ASSUME (\E options : CR!Request(options)) \/ (\E options : CW!Request(options))
    PROVE  CR!Once(client') /\ CR!Alive(client') /\ (Faults = {} => CR!Sound(client'))
<1> USE Assumed
    DEF CR!MaxBlockAssumption, CR!ParametersAssumption, CW!MaxBlockAssumption, CW!ParametersAssumption
<1>1. ASSUME NEW options, CR!Request(options)
      PROVE  CR!Once(client') /\ CR!Alive(client') /\ (Faults = {} => CR!Sound(client'))
  <2>1. PICK opened \in CR!Outcome("open"), ok \in CR!Outcome("send") :
          \/ CR!Perform(CR!Finished(CR!Initialise(client, opened), "CommunicationError"))
          \/ CR!Perform(CR!ReceiveFirst(CR!SendFirst(
               CR!StartDataHandler(CR!Initialise(client, opened)), CR!Rrq(options), ok)))
    BY <1>1 DEF CR!Request
  <2>2. client = CR!InitialClient
    BY <1>1 DEF CR!Request
  <2> QED BY <2>1, <2>2, CR!RequestMoves
<1>2. ASSUME NEW options, CW!Request(options)
      PROVE  CW!Once(client') /\ CW!Alive(client') /\ (Faults = {} => CW!Sound(client'))
  <2>1. PICK opened \in CW!Outcome("open"), ok \in CW!Outcome("send") :
          \/ CW!Perform(CW!Finished(CW!Initialise(client, opened), "CommunicationError"))
          \/ CW!Perform(CW!ReceiveFirst(CW!SendFirst(
               CW!StartDataHandler(CW!Initialise(client, opened)), CW!Wrq(options), ok)))
    BY <1>2 DEF CW!Request
  <2>2. client = CW!InitialClient
    BY <1>2 DEF CW!Request
  <2> QED BY <2>1, <2>2, CW!RequestMoves
<1> QED BY <1>1, <1>2, SharedStates

(* ... and of a server: an exception of its data handler may leave a socket open that *)
(* nothing waits for.                                                                 *)
LEMMA ServerStarts ==
    ASSUME (\E answer : SR!Start(answer)) \/ (\E answer : SW!Start(answer))
    PROVE  /\ CR!Once(server')
           /\ "dataHandler" \notin Faults => CR!Alive(server')
           /\ Faults = {} => CR!Sound(server')
           /\ server'.socket # "open"
<1> USE Assumed
    DEF SR!MaxBlockAssumption, SR!ParametersAssumption, SW!MaxBlockAssumption, SW!ParametersAssumption
<1>1. ASSUME NEW answer, SR!Start(answer)
      PROVE  /\ SR!Once(server')
             /\ "dataHandler" \notin Faults => SR!Alive(server')
             /\ Faults = {} => SR!Sound(server')
             /\ server'.socket # "open"
  <2>1. PICK opened \in SR!Outcome("open"), started \in SR!Outcome("dataHandler"), ok \in SR!Outcome("send") :
          \/ ~started /\ SR!Perform(SR!Initialise(server, opened))
          \/ SR!Perform(SR!Finished(SR!Initialise(server, opened), "CommunicationError"))
          \/ SR!SendData(SR!StartDataHandler(SR!Initialise(server, opened)), ok)
          \/ SR!Perform(SR!Receive(SR!Send(
               SR!StartDataHandler(SR!Initialise(server, opened)), SR!Oack("options"), ok)))
          \/ SR!Perform(SR!Reject(SR!StartDataHandler(SR!Initialise(server, opened)),
                                  "TftpOptionRefused", "TransferError", ok))
    BY <1>1 DEF SR!Start
  <2>2. server = SR!InitialServer
    BY <1>1 DEF SR!Start
  <2>3. ~started => "dataHandler" \in Faults
    BY DEF SR!Outcome
  <2>4. \/ "dataHandler" \in Faults /\ SR!Perform(SR!Initialise(server, opened))
        \/ SR!Perform(SR!Finished(SR!Initialise(server, opened), "CommunicationError"))
        \/ \E packet : SR!Perform(SR!Receive(SR!Send(
             SR!StartDataHandler(SR!Initialise(server, opened)), packet, ok)))
        \/ \E code, status : SR!Perform(SR!Reject(
             SR!StartDataHandler(SR!Initialise(server, opened)), code, status, ok))
    BY <2>1, <2>3, Zenon DEF SR!SendData
  <2> QED BY <2>2, <2>4, SR!StartMoves
<1>2. ASSUME NEW answer, SW!Start(answer)
      PROVE  /\ SW!Once(server')
             /\ "dataHandler" \notin Faults => SW!Alive(server')
             /\ Faults = {} => SW!Sound(server')
             /\ server'.socket # "open"
  <2>1. PICK opened \in SW!Outcome("open"), started \in SW!Outcome("dataHandler"), ok \in SW!Outcome("send") :
          \/ ~started /\ SW!Perform(SW!Initialise(server, opened))
          \/ SW!Perform(SW!Finished(SW!Initialise(server, opened), "CommunicationError"))
          \/ SW!Perform(SW!Receive(SW!Send(
               SW!StartDataHandler(SW!Initialise(server, opened)), SW!Ack(0, 0), ok)))
          \/ SW!Perform(SW!Receive(SW!Send(
               SW!StartDataHandler(SW!Initialise(server, opened)), SW!Oack("options"), ok)))
          \/ SW!Perform(SW!Reject(SW!StartDataHandler(SW!Initialise(server, opened)),
                                  "DiskFullOrAllocationExceeds", "TransferError", ok))
    BY <1>2 DEF SW!Start
  <2>2. server = SW!InitialServer
    BY <1>2 DEF SW!Start
  <2>3. ~started => "dataHandler" \in Faults
    BY DEF SW!Outcome
  <2>4. \/ "dataHandler" \in Faults /\ SW!Perform(SW!Initialise(server, opened))
        \/ SW!Perform(SW!Finished(SW!Initialise(server, opened), "CommunicationError"))
        \/ \E packet : SW!Perform(SW!Receive(SW!Send(
             SW!StartDataHandler(SW!Initialise(server, opened)), packet, ok)))
        \/ \E code, status : SW!Perform(SW!Reject(
             SW!StartDataHandler(SW!Initialise(server, opened)), code, status, ok))
    BY <2>1, <2>3, Zenon
  <2> QED BY <2>2, <2>4, SW!StartMoves
<1> QED BY <1>1, <1>2, SharedStates

(* An operation that has been constructed has reported nothing, and waits for nothing. *)
LEMMA ConstructedStates ==
    ASSUME NEW b \in {CR!InitialClient, SR!InitialServer}
    PROVE  /\ CR!Once(b) /\ CR!Alive(b) /\ CR!Sound(b)
           /\ b.status = "none" /\ b.socket # "open" /\ b.out = {}
BY DEF CR!InitialClient, SR!InitialServer, CR!NewBase, SR!NewBase,
       CR!Once, CR!Alive, CR!Sound, CR!Running

(* The steps of the client. *)
LEMMA ClientSteps ==
    ASSUME TypeOK, Request \/ ClientStep \/ ClientTimer
    PROVE  /\ ~Coincide /\ CR!Once(client) => CR!Once(client') /\ CR!KeepsStatus(client, client')
           /\ CR!Alive(client) => CR!Alive(client')
           /\ Faults = {} /\ "client" \notin Aborters /\ ~Coincide /\ CR!Sound(client) => CR!Sound(client')
           /\ server' = server /\ kind' = kind
<1> USE Assumed
    DEF CR!MaxBlockAssumption, CR!ParametersAssumption, CW!MaxBlockAssumption, CW!ParametersAssumption
<1>1. client \in CR!Base /\ client \in CW!Base
  BY SharedStates DEF TypeOK
<1>2. server' = server /\ kind' = kind
  BY DEF Request, ClientStep, ClientTimer, ReadAtClient, WriteAtClient
<1>3. CASE Request
  <2>1. CR!Once(client') /\ CR!Alive(client') /\ (Faults = {} => CR!Sound(client'))
    BY <1>3, ClientRequests DEF Request
  <2>2. client = CR!InitialClient \/ client = CW!InitialClient
    BY <1>3 DEF Request, CR!Request, CW!Request
  <2>3. client.status = "none"
    BY <2>2 DEF CR!InitialClient, CW!InitialClient, CR!NewBase, CW!NewBase
  <2> QED BY <1>2, <2>1, <2>3 DEF CR!KeepsStatus
<1>4. CASE CR!Moves
  BY <1>1, <1>2, <1>4, CR!MovesOnce, CR!MovesAlive, CR!MovesSound
<1>5. CASE CW!Moves
  BY <1>1, <1>2, <1>5, SharedStates, CW!MovesOnce, CW!MovesAlive, CW!MovesSound
<1> QED BY <1>3, <1>4, <1>5, ClientReadMoves, ClientWriteMoves DEF ClientStep, ClientTimer

(* The steps of the server. *)
LEMMA ServerSteps ==
    ASSUME TypeOK, ServerStarted \/ ServerStep \/ ServerTimer
    PROVE  /\ ~Coincide /\ CR!Once(server) => CR!Once(server') /\ CR!KeepsStatus(server, server')
           /\ "dataHandler" \notin Faults /\ CR!Alive(server) => CR!Alive(server')
           /\ server.socket # "open" => server'.socket # "open"
           /\ Faults = {} /\ ~Coincide /\ CR!Sound(server) /\ server.socket # "open" => CR!Sound(server')
           /\ client' = client /\ kind' = kind
<1> USE Assumed
    DEF SR!MaxBlockAssumption, SR!ParametersAssumption, SW!MaxBlockAssumption, SW!ParametersAssumption
<1>1. server \in SR!Base /\ server \in SW!Base
  BY SharedStates DEF TypeOK
<1>2. client' = client /\ kind' = kind
  BY DEF ServerStarted, ServerStep, ServerTimer, ReadAtServer, WriteAtServer
<1>3. CASE ServerStarted
  <2>1. /\ CR!Once(server')
        /\ "dataHandler" \notin Faults => CR!Alive(server')
        /\ Faults = {} => CR!Sound(server')
        /\ server'.socket # "open"
    BY <1>3, ServerStarts DEF ServerStarted
  <2>2. server = SR!InitialServer \/ server = SW!InitialServer
    BY <1>3 DEF ServerStarted, SR!Start, SW!Start
  <2>3. server.status = "none"
    BY <2>2 DEF SR!InitialServer, SW!InitialServer, SR!NewBase, SW!NewBase
  <2> QED BY <1>2, <2>1, <2>3 DEF CR!KeepsStatus
<1>4. CASE SR!Moves
  BY <1>1, <1>2, <1>4, SharedStates, SR!MovesOnce, SR!MovesAlive, SR!MovesSound, SR!MovesConnected
<1>5. CASE SW!Moves
  BY <1>1, <1>2, <1>5, SharedStates, SW!MovesOnce, SW!MovesAlive, SW!MovesSound, SW!MovesConnected
<1> QED BY <1>3, <1>4, <1>5, ServerReadMoves, ServerWriteMoves DEF ServerStep, ServerTimer

(* A step that is none of the client leaves it as it is, and so for the server. *)
LEMMA OtherSteps ==
    ASSUME Refuse \/ UNCHANGED vars
    PROVE  client' = client /\ server' = server /\ kind' = kind
BY DEF Refuse, vars

(* An armed timer, or its handler in the queue, keeps an operation from being stuck. *)
LEMMA AliveNeverStuck == CR!Alive(client) /\ CR!Alive(server) => NeverStuck
<1>1. ASSUME NEW b, CR!Alive(b)
      PROVE  b.fate = "running" /\ b.socket # "closed" => b.timer # "none" \/ b.ready # <<>>
  BY <1>1 DEF CR!Alive, CR!TimeoutIn, CR!Running
<1> QED BY <1>1 DEF NeverStuck, CR!NeverStuck, SR!NeverStuck, CR!Running, SR!Running

(* receive(), receiveDally() and the timeout handlers always arm the timer: unless an   *)
(* exception of a data handler is only logged, an operation whose socket is open goes   *)
(* on, whatever else fails, is aborted, or meets a stale completion.                     *)
THEOREM GoesOn == "dataHandler" \notin Faults => (Spec => []NeverStuck)
<1> SUFFICES ASSUME "dataHandler" \notin Faults
             PROVE  Spec => []NeverStuck
  OBVIOUS
<1> DEFINE I == CR!Alive(client) /\ CR!Alive(server)
<1>1. Init => I
  BY ConstructedStates DEF Init, CR!Init, SR!Init
<1>2. ASSUME TypeOK, I, [Next]_vars
      PROVE  I'
  BY <1>2, ClientSteps, ServeStarts, ServerSteps, OtherSteps DEF Next
<1>3. I => NeverStuck
  BY AliveNeverStuck
<1> QED BY <1>1, <1>2, <1>3, TypeCorrect, PTL DEF Spec

(* Every operation runs on, and nothing is left to run when its socket is closed. *)
LEMMA AlwaysSound ==
    Faults = {} /\ "client" \notin Aborters /\ ~Coincide =>
        (Spec => [](CR!Sound(client) /\ CR!Sound(server)))
<1> SUFFICES ASSUME Faults = {}, "client" \notin Aborters, ~Coincide
             PROVE  Spec => [](CR!Sound(client) /\ CR!Sound(server))
  OBVIOUS
<1> DEFINE I == CR!Sound(client) /\ CR!Sound(server) /\ server.socket # "open"
<1>1. Init => I
  BY ConstructedStates DEF Init, CR!Init, SR!Init
<1>2. ASSUME TypeOK, I, [Next]_vars
      PROVE  I'
  BY <1>2, ClientSteps, ServeStarts, ServerSteps, OtherSteps DEF Next
<1>3. I => CR!Sound(client) /\ CR!Sound(server)
  OBVIOUS
<1> HIDE DEF I
<1> QED BY <1>1, <1>2, <1>3, TypeCorrect, PTL DEF Spec

(* finished() and the handlers of packets never throw, whatever packets arrive and in   *)
(* whatever order, as long as no system call fails, no completion is stale and the user *)
(* of the client does not abort: nothing is left to run when the socket is closed.  The *)
(* user of the server may: its socket is connected from the start.                      *)
THEOREM NothingThrows ==
    Faults = {} /\ "client" \notin Aborters /\ ~Coincide => (Spec => []NoCrash)
<1>1. CR!Sound(client) /\ CR!Sound(server) => NoCrash
  BY DEF NoCrash, CR!NoCrash, SR!NoCrash, CR!Sound, CR!Running, SR!Running
<1> QED BY <1>1, AlwaysSound, PTL

(* Every operation leaves one completion at most to run, and none of a packet once it has *)
(* reported.                                                                              *)
LEMMA AlwaysOnce == ~Coincide => (Spec => [](CR!Once(client) /\ CR!Once(server)))
<1> SUFFICES ASSUME ~Coincide
             PROVE  Spec => [](CR!Once(client) /\ CR!Once(server))
  OBVIOUS
<1> DEFINE I == CR!Once(client) /\ CR!Once(server)
<1>1. Init => I
  BY ConstructedStates DEF Init, CR!Init, SR!Init
<1>2. ASSUME TypeOK, I, [Next]_vars
      PROVE  I'
  BY <1>2, ClientSteps, ServeStarts, ServerSteps, OtherSteps DEF Next
<1> HIDE DEF I
<1>3. Spec => []I
  BY <1>1, <1>2, TypeCorrect, PTL DEF Spec
<1> QED BY <1>3 DEF I

(* No step revises what an operation has reported. *)
LEMMA StatusesKept ==
    ASSUME ~Coincide, TypeOK, CR!Once(client), CR!Once(server), [Next]_vars
    PROVE  CR!KeepsStatus(client, client') /\ CR!KeepsStatus(server, server')
BY ClientSteps, ServeStarts, ServerSteps, OtherSteps DEF Next, CR!KeepsStatus

(* finished() is the only place that reports, and it closes the socket: the completion  *)
(* handler of each operation is called once, whatever fails or is aborted, as long as   *)
(* no handler runs that was queued before finished().                                   *)
THEOREM ReportsOnce == ~Coincide => (Spec => ReportedOnce)
<1> SUFFICES ASSUME ~Coincide
             PROVE  Spec => ReportedOnce
  OBVIOUS
<1> DEFINE C == [client.status # "none" => client'.status = client.status]_client
           S == [server.status # "none" => server'.status = server.status]_server
<1>1. ASSUME TypeOK, CR!Once(client), CR!Once(server), [Next]_vars
      PROVE  C /\ S
  BY <1>1, StatusesKept DEF CR!KeepsStatus
<1>2. Spec => [][C /\ S]_vars
  BY <1>1, AlwaysOnce, TypeCorrect, PTL DEF Spec
<1>3. ((C /\ S) \/ UNCHANGED vars) => (C /\ S)
  BY DEF vars
<1> QED BY <1>2, <1>3, PTL DEF ReportedOnce, CR!ReportedOnce, SR!ReportedOnce

-----------------------------------------------------------------------------
(* The remainders of successive numbers count up, and start again at 0. *)
LEMMA Remainders ==
    ASSUME NEW m \in Nat
    PROVE  /\ m % MaxBlock \in 0 .. MaxBlock - 1
           /\ (m + 1) % MaxBlock = IF m % MaxBlock = MaxBlock - 1 THEN 0 ELSE (m % MaxBlock) + 1
<1> DEFINE q == m \div MaxBlock
           r == m % MaxBlock
<1>1. MaxBlock \in Nat /\ MaxBlock >= 2
  BY MaxBlockAssumption DEF MaxBlockAssumption
<1>2. m = MaxBlock * q + r /\ r \in 0 .. MaxBlock - 1 /\ q \in Nat
  BY <1>1, Z3
<1> HIDE DEF q, r
<1>3. CASE r = MaxBlock - 1
  <2>1. m + 1 = MaxBlock * (q + 1)
    BY <1>1, <1>2, <1>3
  <2>2. (MaxBlock * (q + 1)) % MaxBlock = 0
    BY <1>1, <1>2
  <2> QED BY <1>2, <1>3, <2>1, <2>2 DEF r
<1>4. CASE r # MaxBlock - 1
  <2>1. m + 1 = MaxBlock * q + (r + 1) /\ r + 1 \in 0 .. MaxBlock - 1
    BY <1>1, <1>2, <1>4
  <2>2. (MaxBlock * q + (r + 1)) % MaxBlock = r + 1
    BY <1>1, <1>2, <2>1
  <2> QED BY <1>2, <1>4, <2>1, <2>2 DEF r
<1> QED BY <1>2, <1>3, <1>4 DEF r

(* BlockNumber::next() gives chunk i + 1 the number after that of chunk i, which is 1 *)
(* after the largest one.                                                             *)
LEMMA NextNumber ==
    ASSUME NEW i \in Nat
    PROVE  BlockOf(i + 1) = NextBlock(BlockOf(i))
<1>1. MaxBlock \in Nat /\ MaxBlock >= 2
  BY MaxBlockAssumption DEF MaxBlockAssumption
<1>2. CASE i = 0
  <2>1. 0 % MaxBlock = 0
    BY <1>1
  <2>2. BlockOf(0) = 0 /\ BlockOf(1) = 1
    BY <2>1 DEF BlockOf
  <2> QED BY <1>1, <1>2, <2>2 DEF NextBlock
<1>3. CASE i # 0
  <2> DEFINE m == i - 1
             r == m % MaxBlock
             s == (m + 1) % MaxBlock
  <2>1. m \in Nat /\ i = m + 1 /\ i + 1 # 0 /\ i + 1 - 1 = m + 1
    BY <1>3
  <2>2. r \in 0 .. MaxBlock - 1 /\ s = IF r = MaxBlock - 1 THEN 0 ELSE r + 1
    BY <2>1, Remainders
  <2>3. BlockOf(i) = r + 1 /\ BlockOf(i + 1) = s + 1
    BY <1>3, <2>1 DEF BlockOf
  <2> HIDE DEF m, r, s
  <2> QED BY <1>1, <2>2, <2>3 DEF NextBlock
<1> QED BY <1>2, <1>3

(* A request() resets the block numbers: nothing has been transferred before it. *)
Unstarted ==
    client.dataHandler = "idle" =>
        /\ client = CR!InitialClient
        /\ IF kind = "read" THEN received = <<>> ELSE supplied = 0

Counted == Numbering /\ Unstarted

(* The steps of the client keep both. *)
LEMMA CountedClient ==
    ASSUME TypeOK, Counted, Request \/ ClientStep \/ ClientTimer
    PROVE  Counted'
<1> USE Assumed
    DEF CR!MaxBlockAssumption, CR!ParametersAssumption, CW!MaxBlockAssumption, CW!ParametersAssumption
<1>1. /\ client \in CR!Base /\ client \in CW!Base /\ kind \in Kinds
      /\ supplied \in Nat /\ received \in Seq(Nat) /\ Len(received) \in Nat
      /\ storedBlock = BlockOf(Len(received)) /\ transmittedBlock = BlockOf(supplied)
  BY SharedStates DEF TypeOK, Counted, Numbering
<1>2. BlockOf(0) = 0 /\ Len(<<>>) = 0
  BY DEF BlockOf
<1>3. CW!InitialClient = CR!InitialClient
  BY DEF CW!InitialClient, CW!NewBase, CR!InitialClient, CR!NewBase,
         CW!NoPacket, CR!NoPacket, CW!InvalidPacket, CR!InvalidPacket
<1>4. ASSUME NEW options, CR!Request(options), ReadAtClient
      PROVE  Counted'
  <2>1. client'.dataHandler # "idle"
    BY <1>4, CR!RequestStarts DEF CR!Request
  <2>2. received = <<>>
    BY <1>4 DEF Counted, Unstarted, CR!Request, ReadAtClient, CR!InitialClient, CR!NewBase
  <2>3. storedBlock' = BlockOf(Len(received')) /\ transmittedBlock' = BlockOf(supplied')
    BY <1>1, <1>2, <1>4, <2>2 DEF CR!Request, CR!members, ReadAtClient, senderVars
  <2> QED BY <2>1, <2>3 DEF Counted, Numbering, Unstarted
<1>5. ASSUME NEW options, CW!Request(options), WriteAtClient
      PROVE  Counted'
  <2>1. client'.dataHandler # "idle"
    BY <1>5, CW!RequestStarts DEF CW!Request
  <2>2. supplied = 0
    BY <1>3, <1>5 DEF Counted, Unstarted, CW!Request, WriteAtClient, CR!InitialClient, CR!NewBase
  <2>3. storedBlock' = BlockOf(Len(received')) /\ transmittedBlock' = BlockOf(supplied')
    BY <1>1, <1>2, <1>5, <2>2 DEF CW!Request, CW!members, WriteAtClient, receiverVars
  <2> QED BY <2>1, <2>3 DEF Counted, Numbering, Unstarted
<1>6. ASSUME ReadAtClient, CR!Step \/ CR!Timer
      PROVE  Counted'
  <2>1. client # CR!InitialClient
    BY <1>6, CR!UnstartedClient
       DEF CR!Timer, CR!Step, CR!DuplicateData, CR!NewData, CR!RefusedData, CR!WrongData,
           CR!TimeoutDally, CR!AcknowledgementReceived, CR!MisplacedOack, CR!RefusedOack,
           CR!AcceptedOack, CR!PacketReceived
  <2>2. client'.dataHandler # "idle"
    BY <1>1, <1>6, <2>1, ClientReadMoves, CR!MovesStarted DEF Counted, Unstarted
  <2>3. \/ UNCHANGED <<storedBlock, received>>
        \/ /\ storedBlock' = NextBlock(storedBlock)
           /\ received' = Append(received, CR!Current.packet.chunk)
    BY <1>6, SharedPackets
       DEF CR!Timer, CR!Step, CR!members, CR!DuplicateData, CR!NewData, CR!RefusedData,
           CR!WrongData, CR!AcknowledgementReceived, CR!MisplacedOack, CR!RefusedOack,
           CR!AcceptedOack
  <2>4. storedBlock' = BlockOf(Len(received'))
    BY <1>1, <2>3, NextNumber, CR!AppendedAnything
  <2>5. transmittedBlock' = BlockOf(supplied')
    BY <1>1, <1>6 DEF ReadAtClient, senderVars
  <2> QED BY <2>2, <2>4, <2>5 DEF Counted, Numbering, Unstarted
<1>7. ASSUME WriteAtClient, CW!Step \/ CW!Timer
      PROVE  Counted'
  <2>1. client # CR!InitialClient
    BY <1>3, <1>7, CW!UnstartedClient
       DEF CW!Timer, CW!Step, CW!DataReceived, CW!DuplicateAcknowledgement,
           CW!WrongAcknowledgement, CW!RefusedAcknowledgement, CW!ExpectedAcknowledgement,
           CW!MisplacedOack, CW!RefusedOack, CW!AcceptedOack, CW!PacketReceived
  <2>2. client'.dataHandler # "idle"
    BY <1>1, <1>7, <2>1, ClientWriteMoves, CW!MovesStarted DEF Counted, Unstarted
  <2>3. \/ UNCHANGED <<transmittedBlock, supplied>>
        \/ transmittedBlock' = NextBlock(transmittedBlock) /\ supplied' = supplied + 1
    BY <1>7, SharedPackets
       DEF CW!Timer, CW!Step, CW!members, CW!DataReceived, CW!DuplicateAcknowledgement,
           CW!WrongAcknowledgement, CW!RefusedAcknowledgement, CW!ExpectedAcknowledgement,
           CW!MisplacedOack, CW!RefusedOack, CW!AcceptedOack, CW!SendData
  <2>4. transmittedBlock' = BlockOf(supplied')
    BY <1>1, <2>3, NextNumber
  <2>5. storedBlock' = BlockOf(Len(received'))
    BY <1>1, <1>7 DEF WriteAtClient, receiverVars
  <2> QED BY <2>2, <2>4, <2>5 DEF Counted, Numbering, Unstarted
<1> QED BY <1>4, <1>5, <1>6, <1>7 DEF Request, ClientStep, ClientTimer

(* The steps of the server keep both, which has no block number to reset. *)
LEMMA CountedServer ==
    ASSUME TypeOK, Counted, ServerStarted \/ ServerStep \/ ServerTimer
    PROVE  Counted'
<1>1. /\ supplied \in Nat /\ received \in Seq(Nat) /\ Len(received) \in Nat
      /\ storedBlock = BlockOf(Len(received)) /\ transmittedBlock = BlockOf(supplied)
  BY DEF TypeOK, Counted, Numbering
<1>2. ASSUME ReadAtServer, SR!Step \/ SR!Timer \/ \E answer : SR!Start(answer)
      PROVE  Counted'
  <2>1. \/ UNCHANGED <<transmittedBlock, supplied>>
        \/ transmittedBlock' = NextBlock(transmittedBlock) /\ supplied' = supplied + 1
    BY <1>2, SharedPackets
       DEF SR!Timer, SR!Step, SR!members, SR!DataReceived, SR!DuplicateAcknowledgement,
           SR!WrongAcknowledgement, SR!ExpectedAcknowledgement, SR!SendData, SR!Start
  <2>2. transmittedBlock' = BlockOf(supplied')
    BY <1>1, <2>1, NextNumber
  <2> QED BY <1>1, <1>2, <2>2 DEF ReadAtServer, receiverVars, Counted, Numbering, Unstarted
<1>3. ASSUME WriteAtServer, SW!Step \/ SW!Timer \/ \E answer : SW!Start(answer)
      PROVE  Counted'
  <2>1. \/ UNCHANGED <<storedBlock, received>>
        \/ /\ storedBlock' = NextBlock(storedBlock)
           /\ received' = Append(received, SW!Current.packet.chunk)
    BY <1>3, SharedPackets
       DEF SW!Timer, SW!Step, SW!members, SW!DuplicateData, SW!NewData, SW!WrongData,
           SW!AcknowledgementReceived, SW!Start
  <2>2. storedBlock' = BlockOf(Len(received'))
    BY <1>1, <2>1, NextNumber, Assumed, SW!AppendedAnything
    DEF SW!MaxBlockAssumption, SW!ParametersAssumption
  <2> QED BY <1>1, <1>3, <2>2 DEF WriteAtServer, senderVars, Counted, Numbering, Unstarted
<1> QED BY <1>2, <1>3 DEF ServerStarted, ServerStep, ServerTimer

(* Nothing has been transferred when the operations are constructed. *)
LEMMA CountedInit == Init => Counted
<1>1. BlockOf(0) = 0 /\ Len(<<>>) = 0
  BY DEF BlockOf
<1> QED BY <1>1 DEF Init, CR!Init, SR!Init, Counted, Numbering, Unstarted

(* operator++() on both sides: for every length of the file and every largest block number *)
(* chunk i has the number BlockOf(i), which is never 0 again after the roll-over, whatever *)
(* packets arrive.                                                                         *)
THEOREM ChunksNumbered == Spec => []Numbering
<1>1. ASSUME TypeOK, Counted, [Next]_vars
      PROVE  Counted'
  <2>1. CASE Refuse \/ UNCHANGED vars
    BY <1>1, <2>1
    DEF Refuse, vars, senderVars, receiverVars, Counted, Numbering, Unstarted
  <2> QED BY <1>1, <2>1, CountedClient, ServeStarts, CountedServer DEF Next
<1>2. Counted => Numbering
  BY DEF Counted
<1> QED BY <1>1, <1>2, CountedInit, TypeCorrect, PTL DEF Spec

-----------------------------------------------------------------------------
(***************************************************************************)
(* A read with options.  As long as the client has not accepted the OACK,  *)
(* one of two halves of the protocol has not begun: either there is no     *)
(* OACK anywhere, or there is no DATA and no ACK anywhere, and nothing has *)
(* been stored.  The server begins with one of them and the client, which  *)
(* answers it, cannot begin the other without having accepted the OACK.    *)
(***************************************************************************)
Without(types) == [CR!Any EXCEPT !.packets = {p \in Packet : p.type \notin types}]

(* No packet of these types is on its way, queued, or repeated by a timeout. *)
Lacks(types) ==
    /\ client \in CR!BaseOf(Without(types)) /\ server \in CR!BaseOf(Without(types))
    /\ net \subseteq DatagramOf(Without(types).packets)

Untold == Lacks({"OACK"})
Silent == received = <<>> /\ Lacks({"DATA", "ACK"})

(* A server that has been started is not constructed again. *)
Begun == [CR!Any EXCEPT !.progress = {"started", "finished"}]

Negotiating ==
    kind = "read" =>
      /\ oackReceived \/ Untold \/ Silent
      /\ \/ server \in CR!BaseOf(Begun) \/ server = SR!Idle
         \/ server = SR!InitialServer /\ Untold /\ Silent

(* Without either half the steps have what they need, but for the packets of that half. *)
LEMMA WithoutAllows ==
    /\ \A types \in {{"OACK"}, {"DATA", "ACK"}} :
         /\ Allows(Without(types))
         /\ "idle" \in Without(types).progress
         /\ "Successful" \in Without(types).statuses /\ "timeoutDally" \in Without(types).timeouts
         /\ "OptionNegotiationError" \in Without(types).statuses
         /\ \A p \in Packet : p.type \notin types => p \in Without(types).packets
         /\ \A p \in Without(types).packets : p.type \notin types
    /\ Allows(Begun) /\ Begun.packets = Packet /\ "idle" \notin Begun.progress
    /\ "Successful" \in Begun.statuses
BY SharedPackets, AnyAllows, PacketType
DEF Without, Begun, Allows, Error, NoPacket, InvalidPacket, CR!TransferStatus, CR!Timeouts

(* A step of the client begins neither half, unless it accepts an OACK. *)
LEMMA ClientLacks ==
    ASSUME TypeOK, TypeOK', ReadAtClient,
           CR!Step \/ CR!Timer \/ (\E options \in OptionLists : CR!Request(options)),
           NEW types \in {{"OACK"}, {"DATA", "ACK"}}, Lacks(types),
           types = {"DATA", "ACK"} => ~CR!AcceptedOack
    PROVE  Lacks(types)' /\ (types = {"DATA", "ACK"} => received' = received)
<1> USE Assumed DEF CR!MaxBlockAssumption, CR!ParametersAssumption
<1>1. PICK k : k = Without(types)
  OBVIOUS
<1>2. /\ Allows(k) /\ "started" \in k.progress /\ CR!ClientAdmits(k) /\ CR!Admits(k)
      /\ "Successful" \in k.statuses /\ "OptionNegotiationError" \in k.statuses
      /\ "timeoutDally" \in k.timeouts
      /\ \A p \in Packet : p.type \notin types => p \in k.packets
      /\ \A p \in k.packets : p.type \notin types
  BY <1>1, WithoutAllows, Admitted, Zenon DEF CR!ClientAdmits
<1>3. /\ client \in CR!BaseOf(k) /\ server \in CR!BaseOf(k)
      /\ net \subseteq DatagramOf(k.packets) /\ net \subseteq CR!DatagramOf(k.packets)
  BY <1>1, Shared, Zenon DEF Lacks
<1>4. server' = server
  BY DEF ReadAtClient
<1>5. /\ storedBlock' \in BlockNumbers /\ Len(received') \in Nat /\ Len(received) \in Nat
      /\ 0 \in BlockNumbers
  BY MaxBlockAssumption DEF TypeOK, BlockNumbers
<1>6. ASSUME types = {"DATA", "ACK"}
      PROVE  ~CR!DuplicateData /\ ~CR!NewData
  <2>1. ASSUME CR!PacketReceived({"DATA"})
        PROVE  FALSE
    <3>1. CR!Current \in CR!CompletionOf(k)
      BY <1>3, <2>1, CR!DispatchedType
    <3>2. CR!Current.packet \in k.packets /\ CR!Current.packet.type = "DATA"
      BY <2>1, <3>1 DEF CR!CompletionOf, CR!PacketReceived
    <3> QED BY <1>2, <1>6, <3>2
  <2> QED BY <2>1 DEF CR!DuplicateData, CR!NewData
<1>7. ASSUME client' \in CR!BaseOf(k), net' \subseteq CR!DatagramOf(k.packets)
      PROVE  Lacks(types)'
  BY <1>1, <1>3, <1>4, <1>7, Shared, Zenon DEF Lacks, Without
<1>8. CASE CR!Step
  <2>1. types = {"OACK"} => /\ CR!Ack(storedBlock', Len(received')) \in k.packets
                            /\ CR!Ack(0, Len(received)) \in k.packets
    <3>1. \A b, c : CR!Ack(b, c) = Ack(b, c)
      BY SharedPackets
    <3>2. \A b, c : Ack(b, c).type = "ACK"
      BY DEF Ack
    <3>3. Ack(storedBlock', Len(received')) \in Packet /\ Ack(0, Len(received)) \in Packet
      BY <1>5, PacketType
    <3> QED BY <1>2, <3>1, <3>2, <3>3
  <2>2. /\ CR!DuplicateData \/ CR!NewData => CR!Ack(storedBlock', Len(received')) \in k.packets
        /\ CR!AcceptedOack => CR!Ack(0, Len(received)) \in k.packets
    BY <1>6, <2>1
  <2>3. client' \in CR!BaseOf(k) /\ net' \subseteq CR!DatagramOf(k.packets)
    BY <1>2, <1>3, <1>8, <2>2, ClientReadStepType
  <2>4. types = {"DATA", "ACK"} => received' = received
    BY <1>6, <1>8 DEF CR!Step, CR!members, CR!RefusedData, CR!WrongData, CR!AcknowledgementReceived,
                      CR!MisplacedOack, CR!RefusedOack, CR!AcceptedOack
  <2> QED BY <1>7, <2>3, <2>4
<1>9. CASE CR!Timer
  <2>1. client' \in CR!BaseOf(k) /\ net' \subseteq CR!DatagramOf(k.packets)
    BY <1>2, <1>3, <1>9, CR!QueueType DEF CR!Timer
  <2> QED BY <1>7, <1>9, <2>1 DEF CR!Timer, CR!members
<1>10. ASSUME NEW options \in OptionLists, CR!Request(options)
       PROVE  Lacks(types)' /\ received' = received
  <2>1. CR!Rrq(options) \in k.packets
    BY <1>2, SharedPackets, PacketType DEF Rrq
  <2>2. client' \in CR!BaseOf(k) /\ net' \subseteq CR!DatagramOf(k.packets)
    BY <1>2, <1>3, <1>10, <2>1, ClientReadRequestType
  <2>3. UNCHANGED CR!members \/ UNCHANGED <<oackReceived, received>>
    BY <1>10, Zenon DEF CR!Request
  <2>4. received' = received
    BY <2>3 DEF CR!members
  <2> QED BY <1>7, <2>2, <2>4
<1> QED BY <1>8, <1>9, <1>10

(* Nor does one of the server that has started; its start begins one half at most. *)
LEMMA ServerLacks ==
    ASSUME TypeOK, TypeOK', ReadAtServer,
           SR!Step \/ SR!Timer,
           NEW types \in {{"OACK"}, {"DATA", "ACK"}}, Lacks(types)
    PROVE  Lacks(types)'
<1> USE Assumed DEF SR!MaxBlockAssumption, SR!ParametersAssumption
<1>1. PICK k : k = Without(types)
  OBVIOUS
<1>2. /\ SR!ServerAdmits(k) /\ SR!Admits(k)
      /\ "Successful" \in k.statuses
      /\ \A p \in Packet : p.type \notin types => p \in k.packets
      /\ \A p \in k.packets : p.type \notin types
  BY <1>1, WithoutAllows, Admitted, Zenon DEF SR!ServerAdmits
<1>3. /\ server \in SR!BaseOf(k) /\ client \in CR!BaseOf(k)
      /\ net \subseteq DatagramOf(k.packets) /\ net \subseteq SR!DatagramOf(k.packets)
  BY <1>1, Shared, Zenon DEF Lacks
<1>4. client' = client
  BY DEF ReadAtServer
<1>5. transmittedBlock' \in BlockNumbers /\ supplied' \in Nat /\ supplied \in Nat
      /\ SR!SizeOf(supplied') \in Sizes
  BY DEF TypeOK, SR!SizeOf, Sizes
<1>6. ASSUME types = {"DATA", "ACK"}
      PROVE  ~SR!ExpectedAcknowledgement
  <2>1. ASSUME SR!PacketReceived({"ACK"})
        PROVE  FALSE
    <3>1. SR!Current \in SR!CompletionOf(k)
      BY <1>3, <2>1, SR!RunsType DEF SR!PacketReceived
    <3>2. SR!Current.packet \in k.packets
      BY <3>1 DEF SR!CompletionOf
    <3>3. SR!Current.packet.type = "ACK"
      BY <2>1 DEF SR!PacketReceived
    <3> QED BY <1>2, <1>6, <3>2, <3>3
  <2> QED BY <2>1 DEF SR!ExpectedAcknowledgement
<1>7. types = {"OACK"} => SR!Data(transmittedBlock', supplied', SR!SizeOf(supplied')) \in k.packets
  BY <1>2, <1>5, SharedPackets, PacketType DEF Data
<1>8. server' \in SR!BaseOf(k) /\ net' \subseteq SR!DatagramOf(k.packets)
  <2>1. CASE SR!Step
    BY <1>2, <1>3, <1>5, <1>6, <1>7, <2>1, ServerReadStepType
  <2>2. CASE SR!Timer
    BY <1>2, <1>3, <2>2, SR!QueueType DEF SR!Timer
  <2> QED BY <2>1, <2>2
<1> QED BY <1>1, <1>3, <1>4, <1>8, Shared, Zenon DEF Lacks, Without

(* Its start begins one half at most. *)
LEMMA StartLacks ==
    ASSUME TypeOK, TypeOK', ReadAtServer, NEW answer, SR!Start(answer),
           Untold, Silent
    PROVE  /\ Untold' \/ Silent'
           /\ server' \in CR!BaseOf(Begun) \/ server' = SR!Idle
<1> USE Assumed DEF SR!MaxBlockAssumption, SR!ParametersAssumption
<1>1. client' = client /\ received' = received /\ received = <<>>
  BY Zenon DEF ReadAtServer, receiverVars, Silent
<1>2. transmittedBlock' \in BlockNumbers /\ supplied' \in Nat /\ supplied \in Nat
      /\ SR!SizeOf(supplied') \in Sizes
  BY DEF TypeOK, SR!SizeOf, Sizes
<1>3. /\ SR!Data(transmittedBlock', supplied', SR!SizeOf(supplied')) \in Packet
      /\ SR!Data(transmittedBlock', supplied', SR!SizeOf(supplied')).type = "DATA"
      /\ SR!Oack("options") \in Packet /\ SR!Oack("options").type = "OACK"
  BY <1>2, PacketType, SharedPackets DEF OptionLists, Data, Oack
<1>4. answer # "oack" \/ supplied' = supplied
  BY DEF SR!Start, SR!members, SR!SendData
<1>5. ASSUME NEW types \in {{"OACK"}, {"DATA", "ACK"}},
             types = IF answer = "oack" THEN {"DATA", "ACK"} ELSE {"OACK"}
      PROVE  Lacks(types)'
  <2>1. PICK k : k = Without(types)
    OBVIOUS
  <2>2. /\ SR!ServerAdmits(k) /\ "started" \in k.progress /\ "idle" \in k.progress
        /\ \A p \in Packet : p.type \notin types => p \in k.packets
    BY <2>1, WithoutAllows, Admitted, Zenon
  <2>3. /\ client \in CR!BaseOf(k) /\ net \subseteq SR!DatagramOf(k.packets)
    BY <2>1, Shared, Zenon DEF Untold, Silent, Lacks
  <2>4. /\ supplied' # supplied
             => SR!Data(transmittedBlock', supplied', SR!SizeOf(supplied')) \in k.packets
        /\ answer = "oack" => SR!Oack("options") \in k.packets
    BY <1>3, <1>4, <1>5, <2>2
  <2>5. SR!Idle \in SR!BaseOf(k)
    BY <2>2, SR!InitialiseType DEF SR!Idle
  <2>6. server' \in SR!BaseOf(k) /\ net' \subseteq SR!DatagramOf(k.packets)
    BY <1>2, <2>2, <2>3, <2>4, <2>5, ServerReadStartType
  <2> QED BY <1>1, <2>1, <2>3, <2>6, Shared, Zenon DEF Lacks, Without
<1>6. Untold' \/ Silent'
  <2>1. CASE answer = "oack"
    BY <1>1, <1>5, <2>1 DEF Silent
  <2>2. CASE answer # "oack"
    BY <1>5, <2>2 DEF Untold
  <2> QED BY <2>1, <2>2
<1>7. server' \in CR!BaseOf(Begun) \/ server' = SR!Idle
  <2>1. PICK k : k = Begun
    OBVIOUS
  <2>2. SR!ServerAdmits(k) /\ "started" \in k.progress /\ k.packets = Packet
    BY <2>1, WithoutAllows, Admitted, Zenon
  <2>3. net \subseteq SR!DatagramOf(k.packets)
    BY <2>2, Shared DEF TypeOK, Datagram
  <2> QED BY <1>2, <1>3, <2>1, <2>2, <2>3, Shared, ServerReadStartType
<1> QED BY <1>6, <1>7

(* The server of a read. *)
LEMMA NegotiatingServer ==
    ASSUME TypeOK, TypeOK', Negotiating, ReadAtServer,
           SR!Step \/ SR!Timer \/ \E answer : SR!Start(answer)
    PROVE  Negotiating'
<1> USE Assumed DEF SR!MaxBlockAssumption, SR!ParametersAssumption
<1>1. kind' = kind /\ kind = "read" /\ oackReceived' = oackReceived /\ received' = received
  BY DEF ReadAtServer, receiverVars
<1>2. /\ oackReceived \/ Untold \/ Silent
      /\ \/ server \in CR!BaseOf(Begun) \/ server = SR!Idle
         \/ server = SR!InitialServer /\ Untold /\ Silent
  BY <1>1 DEF Negotiating
<1>3. /\ SR!InitialServer.dataHandler = "idle"
      /\ \A b \in CR!BaseOf(Begun) : b.dataHandler # "idle"
  BY WithoutAllows DEF SR!InitialServer, SR!NewBase, CR!BaseOf
<1>4. CASE \E answer : SR!Start(answer)
  <2>1. server = SR!InitialServer
    BY <1>4 DEF SR!Start
  <2>2. Untold /\ Silent
    BY <1>2, <1>3, <2>1, SR!UnstartedServer
  <2>3. (Untold' \/ Silent') /\ (server' \in CR!BaseOf(Begun) \/ server' = SR!Idle)
    BY <1>4, <2>2, StartLacks
  <2> QED BY <2>3 DEF Negotiating
<1>5. CASE SR!Step \/ SR!Timer
  <2>1. oackReceived' \/ Untold' \/ Silent'
    BY <1>1, <1>2, <1>5, ServerLacks DEF Untold, Silent
  <2>2. PICK k : k = Begun
    OBVIOUS
  <2>3. /\ SR!ServerAdmits(k) /\ SR!Admits(k) /\ k.packets = Packet /\ "Successful" \in k.statuses
    BY <2>2, WithoutAllows, Admitted, Zenon DEF SR!ServerAdmits
  <2>4. net \subseteq SR!DatagramOf(k.packets)
    BY <2>3, Shared DEF TypeOK, Datagram
  <2>5. CASE server \in CR!BaseOf(Begun)
    <3>1. server \in SR!BaseOf(k)
      BY <2>2, <2>5, Shared, Zenon
    <3>2. supplied \in Nat
      BY DEF TypeOK
    <3>3. SR!Data(transmittedBlock', supplied', SR!SizeOf(supplied')) \in k.packets
      <4>1. transmittedBlock' \in BlockNumbers /\ supplied' \in Nat /\ SR!SizeOf(supplied') \in Sizes
        BY DEF TypeOK, SR!SizeOf, Sizes
      <4> QED BY <2>3, <4>1, PacketType, SharedPackets
    <3>4. server' \in SR!BaseOf(k)
      <4>1. CASE SR!Step
        BY <2>3, <2>4, <3>1, <3>2, <3>3, <4>1, ServerReadStepType
      <4>2. CASE SR!Timer
        BY <2>3, <2>4, <3>1, <4>2, SR!QueueType DEF SR!Timer
      <4> QED BY <1>5, <4>1, <4>2
    <3> QED BY <1>1, <2>1, <2>2, <3>4, Shared, Zenon DEF Negotiating, Begun
  <2>6. CASE server \in {SR!InitialServer, SR!Idle}
    <3>1. server = SR!Idle /\ SR!BaseStep
      BY <1>5, <2>6, SR!UnstartedServer
      DEF SR!Step, SR!Timer, SR!DataReceived, SR!DuplicateAcknowledgement, SR!WrongAcknowledgement,
          SR!ExpectedAcknowledgement, SR!PacketReceived
    <3>2. server' \in SR!BaseOf(k)
      BY <2>3, <2>4, <3>1, SR!IdleStepType
    <3> QED BY <1>1, <2>1, <2>2, <3>2, Shared, Zenon DEF Negotiating, Begun
  <2> QED BY <1>2, <2>5, <2>6
<1> QED BY <1>4, <1>5

(* The client of a read. *)
LEMMA NegotiatingClient ==
    ASSUME TypeOK, TypeOK', Negotiating, ReadAtClient,
           CR!Step \/ CR!Timer \/ (\E options \in OptionLists : CR!Request(options))
    PROVE  Negotiating'
<1> USE Assumed DEF CR!MaxBlockAssumption, CR!ParametersAssumption
<1>1. kind' = kind /\ kind = "read" /\ server' = server
  BY DEF ReadAtClient
<1>2. /\ oackReceived \/ Untold \/ Silent
      /\ \/ server \in CR!BaseOf(Begun) \/ server = SR!Idle
         \/ server = SR!InitialServer /\ Untold /\ Silent
  BY <1>1 DEF Negotiating
<1>3. oackReceived => oackReceived'
  BY DEF TypeOK, CR!Step, CR!Timer, CR!Request, CR!members, CR!DuplicateData, CR!NewData, CR!RefusedData,
     CR!WrongData, CR!AcknowledgementReceived, CR!MisplacedOack, CR!RefusedOack, CR!AcceptedOack
<1>4. Untold => Untold'
  BY ClientLacks DEF Untold
<1>5. CASE CR!AcceptedOack
  <2>1. oackReceived' /\ ~Untold
    <3>1. oackReceived' = TRUE
      BY <1>5 DEF CR!AcceptedOack
    <3>2. ASSUME Untold
          PROVE  FALSE
      <4>1. PICK k : k = Without({"OACK"})
        OBVIOUS
      <4>2. client \in CR!BaseOf(k) /\ \A p \in k.packets : p.type # "OACK"
        BY <3>2, <4>1, WithoutAllows, Zenon DEF Untold, Lacks
      <4>3. CR!PacketReceived({"OACK"})
        BY <1>5 DEF CR!AcceptedOack
      <4>4. CR!Current \in CR!CompletionOf(k)
        BY <4>2, <4>3, CR!DispatchedType
      <4>5. CR!Current.packet \in k.packets /\ CR!Current.packet.type = "OACK"
        BY <4>3, <4>4 DEF CR!CompletionOf, CR!PacketReceived
      <4> QED BY <4>2, <4>5
    <3> QED BY <3>1, <3>2
  <2> QED BY <1>1, <1>2, <2>1 DEF Negotiating
<1>6. CASE ~CR!AcceptedOack
  <2>1. Silent => Silent'
    BY <1>6, ClientLacks DEF Silent
  <2> QED BY <1>1, <1>2, <1>3, <1>4, <2>1, Zenon DEF Negotiating, Begun
<1> QED BY <1>5, <1>6

(* The error that answers a refused request begins nothing. *)
LEMMA NegotiatingRefuse ==
    ASSUME TypeOK, Negotiating, Refuse
    PROVE  Negotiating'
<1>1. UNCHANGED <<kind, client, server, oackReceived, received>>
  BY DEF Refuse, receiverVars
<1>2. ASSUME NEW types \in {{"OACK"}, {"DATA", "ACK"}}, Lacks(types)
      PROVE  Lacks(types)'
  <2>1. PICK k : k = Without(types)
    OBVIOUS
  <2> DEFINE packets == k.packets
  <2>2. Error("NotDefined") \in packets
    <3>1. Allows(k)
      BY <2>1, WithoutAllows, Zenon
    <3> QED BY <3>1 DEF Allows, ErrorCodes
  <2>3. PICK d \in net :
          net' = SR!NetAfter(d)
                 \cup {[from |-> "errorSocket", to |-> d.from, packet |-> Error("NotDefined")]}
    BY DEF Refuse
  <2>4. /\ client \in CR!BaseOf(k) /\ server \in CR!BaseOf(k)
        /\ net \subseteq DatagramOf(packets)
    BY <1>2, <2>1, Zenon DEF Lacks
  <2> HIDE DEF packets
  <2>5. d \in DatagramOf(packets) /\ SR!NetAfter(d) \subseteq net
    BY <2>4 DEF SR!NetAfter
  <2>6. d.from \in Endpoints
    BY <2>5 DEF DatagramOf
  <2>7. [from |-> "errorSocket", to |-> d.from, packet |-> Error("NotDefined")] \in DatagramOf(packets)
    BY <2>2, <2>6 DEF DatagramOf, Endpoints
  <2>8. net' \subseteq DatagramOf(packets)
    BY <2>3, <2>4, <2>5, <2>7
  <2> QED BY <1>1, <2>1, <2>4, <2>8, Zenon DEF Lacks, Without, packets
<1> QED BY <1>1, <1>2, Zenon DEF Negotiating, Untold, Silent, Begun

(* At first there is neither. *)
LEMMA NegotiatingInit ==
    ASSUME Strays = {}, Init
    PROVE  Negotiating
<1> USE Assumed
    DEF CR!MaxBlockAssumption, CR!ParametersAssumption, SR!MaxBlockAssumption, SR!ParametersAssumption
<1>1. /\ client = CR!InitialClient /\ server = SR!InitialServer /\ net = {} /\ received = <<>>
  BY DEF Init, CR!Init, SR!Init
<1>2. ASSUME NEW types \in {{"OACK"}, {"DATA", "ACK"}}
      PROVE  Lacks(types)
  <2>1. PICK k : k = Without(types)
    OBVIOUS
  <2>2. CR!ClientAdmits(k) /\ SR!ServerAdmits(k) /\ "idle" \in k.progress
    BY <2>1, WithoutAllows, Admitted, Zenon
  <2>3. client \in CR!BaseOf(k) /\ server \in CR!BaseOf(k)
    BY <1>1, <2>2, CR!InitialType, SR!InitialType, Shared
  <2> QED BY <1>1, <2>1, <2>3 DEF Lacks
<1> QED BY <1>1, <1>2 DEF Negotiating, Untold, Silent

(* optionsAcknowledgementPacket(): if an OACK has been sent, no data is stored before the  *)
(* client has accepted it, whatever the network repeats, exchanges and loses, and whatever *)
(* fails: the server that has sent an OACK sends data only once that is acknowledged.      *)
THEOREM NegotiatedFirst == Strays = {} => (Spec => []NegotiatedBeforeData)
<1> SUFFICES ASSUME Strays = {} PROVE Spec => []NegotiatedBeforeData
  OBVIOUS
<1>1. ASSUME TypeOK, TypeOK', Negotiating, [Next]_vars
      PROVE  Negotiating'
  <2>1. CASE UNCHANGED vars
    BY <1>1, <2>1
    DEF vars, receiverVars, Negotiating, Untold, Silent, Lacks, Without, Begun
  <2>2. CASE Refuse
    BY <1>1, <2>2, NegotiatingRefuse
  <2>3. CASE Request \/ ClientStep \/ ClientTimer
    <3>1. CASE kind = "read"
      <4>1. ReadAtClient /\ (CR!Step \/ CR!Timer \/ (\E options \in OptionLists : CR!Request(options)))
        <5>1. Requests[kind] \subseteq OptionLists
          BY <3>1, TransferAssumption DEF Kinds
        <5> QED BY <2>3, <3>1, <5>1 DEF Request, ClientStep, ClientTimer, WriteAtClient
      <4> QED BY <1>1, <4>1, NegotiatingClient
    <3>2. CASE kind # "read"
      BY <2>3, <3>2 DEF Request, ClientStep, ClientTimer, ReadAtClient, WriteAtClient, Negotiating
    <3> QED BY <3>1, <3>2
  <2>4. CASE ServerStarted \/ ServerStep \/ ServerTimer
    <3>1. CASE kind = "read"
      <4>1. ReadAtServer /\ (SR!Step \/ SR!Timer \/ \E answer : SR!Start(answer))
        BY <2>4, <3>1 DEF ServerStarted, ServerStep, ServerTimer, WriteAtServer
      <4> QED BY <1>1, <4>1, NegotiatingServer
    <3>2. CASE kind # "read"
      BY <2>4, <3>2 DEF ServerStarted, ServerStep, ServerTimer, ReadAtServer, WriteAtServer, Negotiating
    <3> QED BY <3>1, <3>2
  <2> QED BY <1>1, <2>1, <2>2, <2>3, <2>4, ServeStarts DEF Next
<1>2. ASSUME TypeOK, Negotiating
      PROVE  NegotiatedBeforeData
  <2> SUFFICES ASSUME kind = "read", NEW d \in net, d.packet.type = "OACK", received # <<>>
               PROVE  oackReceived
    BY DEF NegotiatedBeforeData
  <2>1. ASSUME Untold PROVE FALSE
    <3>1. d.packet \in Without({"OACK"}).packets
      BY <2>1 DEF Untold, Lacks, DatagramOf
    <3> QED BY <3>1, WithoutAllows
  <2> QED BY <1>2, <2>1 DEF Negotiating, Silent
<1>3. Init => Negotiating
  BY NegotiatingInit
<1>4. ASSUME TypeOK, TypeOK', Negotiating, [Next]_vars
      PROVE  Negotiating'
  BY <1>1, <1>4
<1> QED BY <1>2, <1>3, <1>4, TypeCorrect, PTL DEF Spec

=============================================================================
