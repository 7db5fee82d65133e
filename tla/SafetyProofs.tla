---------------------------- MODULE SafetyProofs ----------------------------
(***************************************************************************)
(* Safety of Transfer where the number of a packet tells its chunk:        *)
(* whatever the faults and the users do, what is stored is the beginning   *)
(* of the file, and success is only reported for a complete one; and so    *)
(* the transfer implements FileTransfer.  The number tells the chunk if    *)
(* the numbers do not roll over, in any network, or if the network keeps   *)
(* the order and no completion is stale, for a file of any length.  And    *)
(* where nothing fails either, the two sides understand each other and     *)
(* agree on the outcome.                                                   *)
(*                                                                         *)
(* The invariant "Safe" says what the packets in the network, those queued *)
(* or kept by the operations, and what these may still do, tell about the  *)
(* file: client and server are of the type BaseOf(Known), and Known grows  *)
(* with the progress of the transfer.  In a network that keeps the order,  *)
(* "InTurn" says that no packet comes after a later one, and "Calm" that   *)
(* each side says what the other one waits for.                            *)
(***************************************************************************)
EXTENDS TransferProofs

(* A block number tells the chunk if the file is shorter than a cycle of numbers, or if *)
(* datagrams arrive in order and no completion is stale.  Writes are without options,   *)
(* as a repeated OACK is accepted: see OackAfterWrq.                                     *)
Distinguishable ==
    /\ Strays = {}
    /\ Requests["write"] \subseteq {"plain"}
    /\ LastChunk < MaxBlock \/ (~Overtaking /\ ~Coincide)

(* The packets that are true of the file, and of what has been stored. *)
Good ==
    {p \in Packet :
        /\ p.type = "DATA" => /\ p.chunk \in 1 .. supplied
                              /\ p.block = BlockOf(p.chunk)
                              /\ p.arg = SR!SizeOf(p.chunk)
        /\ p.type = "ACK" => p.block = BlockOf(p.chunk) /\ p.chunk <= Len(received)
        /\ kind = "write" => p.type # "OACK" /\ (p.type = "WRQ" => p.arg = "plain")}

(* Only an operation that knows of the complete file may dally and succeed. *)
Known ==
    [packets  |-> Good,
     timeouts |-> {"timeoutFirst", "timeout"}
                  \cup (IF Complete THEN {"timeoutDally"} ELSE {}),
     statuses |-> {"CommunicationError", "RequestError", "OptionNegotiationError",
                   "TransferError", "Aborted"}
                  \cup (IF Complete THEN {"Successful"} ELSE {}),
     progress |-> {"started", "finished"}]

(* The members of both sides number the chunks, and the sender is at most one ahead. *)
Numbers ==
    /\ kind \in Kinds
    /\ supplied \in 0 .. LastChunk
    /\ transmittedBlock = BlockOf(supplied)
    /\ (lastDataPacketTransmitted <=> supplied = LastChunk)
    /\ received \in Seq(Nat) /\ ReceivedIsPrefix
    /\ storedBlock = BlockOf(Len(received))
    /\ LockStep

(* An operation that has not been started has not transferred anything. *)
ClientKnows ==
    \/ client \in CR!BaseOf(Known)
    \/ client = CR!InitialClient /\ (IF kind = "read" THEN received = <<>> ELSE supplied = 0)

ServerKnows ==
    \/ server \in CR!BaseOf(Known)
    \/ /\ server \in {SR!InitialServer, SR!Idle}
       /\ IF kind = "read" THEN supplied = 0 ELSE received = <<>>

Safe ==
    /\ Numbers
    /\ ClientKnows /\ ServerKnows
    /\ net \subseteq DatagramOf(Good)

(* The number of the packet that is handled next tells which chunk it carries, or *)
(* acknowledges.                                                                  *)
Unambiguous ==
    /\ LET p == CR!Queued(Receiver)
       IN  p.type = "DATA" =>
             /\ p.block = storedBlock => p.chunk = Len(received)
             /\ p.block = NextBlock(storedBlock) => p.chunk = Len(received) + 1
    /\ LET p == CR!Queued(Sender)
       IN  p.type = "ACK" /\ p.block = transmittedBlock => p.chunk = supplied
-----------------------------------------------------------------------------
(* What is known of a transfer in progress allows the steps of both sides, and success *)
(* and the dally once the file is complete.                                            *)
LEMMA KnownAllows ==
    /\ Numbers => Allows(Known) /\ Known.packets = Good
    /\ Numbers' => Allows(Known') /\ Known'.packets = Good'
    /\ Complete => "timeoutDally" \in Known.timeouts /\ "Successful" \in Known.statuses
    /\ Complete' => "timeoutDally" \in Known'.timeouts /\ "Successful" \in Known'.statuses
    /\ "Successful" \in Known.statuses => Complete
    /\ "timeoutDally" \in Known'.timeouts => "Successful" \in Known'.statuses
    /\ "idle" \notin Known.progress /\ "idle" \notin Known'.progress
<1>1. \A code \in ErrorCodes : Error(code) \in Good /\ Error(code) \in Good'
  BY PacketType DEF Good, Error
<1>2. NoPacket \in Good /\ NoPacket \in Good'
  BY PacketType DEF Good, NoPacket, InvalidPacket
<1> QED BY <1>1, <1>2 DEF Allows, Known

(* Packets that are true of the file stay so while the transfer goes on. *)
LEMMA KnownGrows ==
    ASSUME Distinguishable, Numbers, Numbers', kind' = kind,
           supplied <= supplied', Len(received) <= Len(received')
    PROVE  /\ CR!BaseOf(Known) \subseteq CR!BaseOf(Known')
           /\ DatagramOf(Good) \subseteq DatagramOf(Good')
<1> USE Assumed DEF CR!MaxBlockAssumption, CR!ParametersAssumption
<1>1. /\ supplied \in Nat /\ supplied' \in Nat /\ LastChunk \in Nat
      /\ Len(received) \in Nat /\ Len(received') \in Nat
      /\ supplied' <= LastChunk /\ Len(received') <= supplied'
  BY ParametersAssumption DEF Numbers, LockStep
<1>2. Complete => Complete'
  BY <1>1 DEF Complete
<1>3. Good \subseteq Good'
  <2> SUFFICES ASSUME NEW p \in Good PROVE p \in Good'
    OBVIOUS
  <2>1. p.chunk \in Nat
    BY DEF Good, Packet
  <2>2. p.type = "DATA" => p.chunk \in 1 .. supplied'
    BY <1>1, <2>1 DEF Good
  <2>3. p.type = "ACK" => p.chunk <= Len(received')
    BY <1>1, <2>1 DEF Good
  <2>4. p \in Packet /\ (p.type = "ACK" => p.block = BlockOf(p.chunk))
        /\ (p.type = "DATA" => p.block = BlockOf(p.chunk) /\ p.arg = SR!SizeOf(p.chunk))
        /\ (kind = "write" => p.type # "OACK" /\ (p.type = "WRQ" => p.arg = "plain"))
    BY DEF Good
  <2> QED BY <2>2, <2>3, <2>4 DEF Good
<1>4. /\ Known.packets \subseteq Known'.packets /\ Known.timeouts \subseteq Known'.timeouts
      /\ Known.statuses \subseteq Known'.statuses /\ Known.progress \subseteq Known'.progress
  BY <1>2, <1>3 DEF Known
<1>5. \A j, k : /\ j.packets \subseteq k.packets /\ j.timeouts \subseteq k.timeouts
                /\ j.statuses \subseteq k.statuses /\ j.progress \subseteq k.progress
                => CR!BaseOf(j) \subseteq CR!BaseOf(k)
  BY CR!GrowingType
<1>6. PICK j, k : j = Known /\ k = Known'
  OBVIOUS
<1>7. DatagramOf(Good) \subseteq DatagramOf(Good')
  BY <1>3 DEF DatagramOf
<1> QED BY <1>4, <1>5, <1>6, <1>7

-----------------------------------------------------------------------------
(* Numbers are block numbers, and those of successive chunks differ. *)
LEMMA NumberType ==
    ASSUME NEW i \in Nat
    PROVE  /\ BlockOf(i) \in BlockNumbers /\ BlockOf(i + 1) # BlockOf(i)
           /\ i = 0 <=> BlockOf(i) = 0
           /\ i <= MaxBlock => BlockOf(i) = i
<1>1. MaxBlock \in Nat /\ MaxBlock >= 2
  BY MaxBlockAssumption DEF MaxBlockAssumption
<1>2. i # 0 => BlockOf(i) \in 1 .. MaxBlock
  <2> SUFFICES ASSUME i # 0 PROVE BlockOf(i) \in 1 .. MaxBlock
    OBVIOUS
  <2>1. (i - 1) % MaxBlock \in 0 .. MaxBlock - 1
    BY Remainders
  <2> QED BY <1>1, <2>1 DEF BlockOf
<1>3. i = 0 => BlockOf(i) = 0
  BY DEF BlockOf
<1>4. i <= MaxBlock => BlockOf(i) = i
  BY <1>1 DEF BlockOf
<1>5. BlockOf(i + 1) = NextBlock(BlockOf(i))
  BY NextNumber
<1>6. NextBlock(BlockOf(i)) # BlockOf(i)
  BY <1>1, <1>2, <1>3 DEF NextBlock
<1> QED BY <1>1, <1>2, <1>3, <1>4, <1>5, <1>6 DEF BlockNumbers

(* sendData(): the next chunk has the next number, and is the short one if it is the last. *)
LEMMA SupplyNumbers ==
    ASSUME Numbers, supplied = Len(received), ~lastDataPacketTransmitted,
           transmittedBlock' = NextBlock(transmittedBlock),
           supplied' = supplied + 1,
           lastDataPacketTransmitted' = (lastDataPacketTransmitted \/ SR!SizeOf(supplied') = "short"),
           UNCHANGED <<kind, storedBlock, received>>
    PROVE  Numbers' /\ Data(transmittedBlock', supplied', SR!SizeOf(supplied')) \in Good'
<1>1. /\ supplied \in Nat /\ LastChunk \in Nat \ {0} /\ supplied < LastChunk
      /\ Len(received) \in Nat
  BY ParametersAssumption DEF Numbers
<1>2. transmittedBlock' = BlockOf(supplied') /\ supplied' \in 1 .. LastChunk
  <2>1. BlockOf(supplied + 1) = NextBlock(BlockOf(supplied))
    BY <1>1, NextNumber
  <2>2. transmittedBlock' = BlockOf(supplied')
    BY <2>1 DEF Numbers
  <2> QED BY <1>1, <2>2
<1>3. SR!SizeOf(supplied') = "short" <=> supplied' = LastChunk
  BY <1>1, <1>2 DEF SR!SizeOf
<1>4. Numbers'
  <2>1. received' = received /\ Len(received') = Len(received)
    OBVIOUS
  <2>2. ReceivedIsPrefix' /\ LockStep'
    BY <1>1, <2>1 DEF Numbers, ReceivedIsPrefix, LockStep
  <2>3. lastDataPacketTransmitted' <=> supplied' = LastChunk
    BY <1>3
  <2>4. supplied' \in 0 .. LastChunk
    BY <1>1, <1>2
  <2> QED BY <1>2, <2>1, <2>2, <2>3, <2>4 DEF Numbers
<1>5. Data(transmittedBlock', supplied', SR!SizeOf(supplied')) \in Packet
  <2>1. transmittedBlock' \in BlockNumbers /\ supplied' \in Nat
    BY <1>1, <1>2, NumberType
  <2>2. SR!SizeOf(supplied') \in Sizes
    BY DEF SR!SizeOf, Sizes
  <2> QED BY <2>1, <2>2, PacketType
<1> QED BY <1>2, <1>4, <1>5 DEF Good, Data

(* receivedData(): the packet with the next number has the next chunk. *)
LEMMA StoreNumbers ==
    ASSUME Numbers, NEW p \in Good, p.type = "DATA",
           p.chunk = Len(received) + 1,
           storedBlock' = NextBlock(storedBlock), received' = Append(received, p.chunk),
           UNCHANGED <<kind, transmittedBlock, lastDataPacketTransmitted, supplied>>
    PROVE  /\ Numbers' /\ Len(received') = Len(received) + 1
           /\ p.arg = "short" => Complete'
<1>1. /\ supplied \in Nat /\ LastChunk \in Nat \ {0} /\ supplied <= LastChunk
      /\ Len(received) \in Nat /\ Len(received) <= supplied
  BY ParametersAssumption DEF Numbers, LockStep
<1>2. p.chunk = Len(received) + 1 /\ p.chunk \in 1 .. supplied /\ storedBlock' = BlockOf(p.chunk)
  BY <1>1, NextNumber DEF Numbers, Good
<1>3. /\ received' \in Seq(Nat) /\ Len(received') = Len(received) + 1
      /\ \A i \in 1 .. Len(received') : received'[i] = IF i = Len(received) + 1 THEN p.chunk ELSE received[i]
  BY <1>1, <1>2 DEF Numbers
<1>4. ReceivedIsPrefix'
  BY <1>1, <1>2, <1>3 DEF Numbers, ReceivedIsPrefix
<1>5. LockStep'
  BY <1>1, <1>2, <1>3 DEF LockStep, Numbers
<1>6. Numbers'
  BY <1>1, <1>2, <1>3, <1>4, <1>5 DEF Numbers
<1>7. p.arg = "short" => Len(received') = LastChunk
  BY <1>1, <1>2, <1>3 DEF Good, SR!SizeOf
<1> QED BY <1>3, <1>6, <1>7 DEF Complete

(* Packets of the receiver: its acknowledgements. *)
LEMMA AckIsGood ==
    ASSUME Numbers'
    PROVE  Ack(storedBlock', Len(received')) \in Good'
<1>1. Len(received') \in Nat /\ storedBlock' = BlockOf(Len(received'))
  BY DEF Numbers
<1>2. Ack(storedBlock', Len(received')) \in Packet
  BY <1>1, NumberType, PacketType
<1> QED BY <1>1, <1>2 DEF Good, Ack

(* A repetition of the last packet that was stored is the short one if the file is complete. *)
LEMMA ShortIsComplete ==
    ASSUME Numbers, NEW p \in Good, p.type = "DATA", p.chunk = Len(received),
           p.arg = "short", received' = received
    PROVE  Complete'
<1>1. /\ supplied \in Nat /\ LastChunk \in Nat /\ supplied <= LastChunk /\ Len(received) \in Nat
      /\ Len(received) <= supplied
  BY ParametersAssumption DEF Numbers, LockStep
<1> QED BY <1>1 DEF Good, SR!SizeOf, Complete

-----------------------------------------------------------------------------
(* What an operation knows is still true after a step of the other one. *)
LEMMA ClientStillKnows ==
    ASSUME Distinguishable, Safe, Numbers', UNCHANGED <<kind, client>>,
           supplied <= supplied', Len(received) <= Len(received'),
           IF kind = "read" THEN received' = received ELSE supplied' = supplied
    PROVE  ClientKnows'
<1>1. CR!BaseOf(Known) \subseteq CR!BaseOf(Known')
  BY KnownGrows DEF Safe
<1>2. CASE client \in CR!BaseOf(Known)
  BY <1>1, <1>2 DEF ClientKnows
<1>3. CASE client = CR!InitialClient /\ (IF kind = "read" THEN received = <<>> ELSE supplied = 0)
  <2>1. client' = CR!InitialClient
    BY <1>3
  <2> QED BY <1>3, <2>1 DEF ClientKnows
<1> QED BY <1>2, <1>3 DEF Safe, ClientKnows

LEMMA ServerStillKnows ==
    ASSUME Distinguishable, Safe, Numbers', UNCHANGED <<kind, server>>,
           supplied <= supplied', Len(received) <= Len(received'),
           IF kind = "read" THEN supplied' = supplied ELSE received' = received
    PROVE  ServerKnows'
<1>1. CR!BaseOf(Known) \subseteq CR!BaseOf(Known')
  BY KnownGrows DEF Safe
<1>2. CASE server \in CR!BaseOf(Known)
  BY <1>1, <1>2 DEF ServerKnows
<1>3. CASE /\ server \in {SR!InitialServer, SR!Idle}
           /\ IF kind = "read" THEN supplied = 0 ELSE received = <<>>
  <2>1. server' \in {SR!InitialServer, SR!Idle}
    BY <1>3
  <2> QED BY <1>3, <2>1 DEF ServerKnows
<1> QED BY <1>2, <1>3 DEF Safe, ServerKnows

(* Started operations are told from those that are not. *)
LEMMA KnownIsStarted ==
    /\ CR!InitialClient \notin CR!BaseOf(Known)
    /\ SR!InitialServer \notin CR!BaseOf(Known)
    /\ CW!InitialClient = CR!InitialClient
    /\ SW!InitialServer = SR!InitialServer
    /\ SW!Idle = SR!Idle
<1>1. CR!InitialClient.dataHandler = "idle" /\ SR!InitialServer.dataHandler = "idle"
  BY DEF CR!InitialClient, CR!NewBase, SR!InitialServer, SR!NewBase
<1>2. \A b \in CR!BaseOf(Known) : b.dataHandler # "idle"
  BY KnownAllows DEF CR!BaseOf
<1>3. CW!InitialClient = CR!InitialClient
  BY DEF CW!InitialClient, CW!NewBase, CR!InitialClient, CR!NewBase,
         CW!NoPacket, CR!NoPacket, CW!InvalidPacket, CR!InvalidPacket
<1>4. SW!InitialServer = SR!InitialServer
  BY DEF SW!InitialServer, SW!NewBase, SR!InitialServer, SR!NewBase,
         SW!NoPacket, SR!NoPacket, SW!InvalidPacket, SR!InvalidPacket
<1>5. SW!Idle = SR!Idle
  BY <1>4 DEF SW!Idle, SR!Idle, SW!Initialise, SR!Initialise
<1> QED BY <1>1, <1>2, <1>3, <1>4, <1>5

(* The network and the queues only have packets that are true of the file. *)
LEMMA SafeMeans ==
    /\ Safe => /\ Numbers /\ kind \in Kinds
               /\ supplied \in Nat /\ Len(received) \in Nat /\ LastChunk \in Nat
               /\ Len(received) <= supplied /\ supplied <= LastChunk
               /\ supplied = 0 => received = <<>>
               /\ Allows(Known) /\ Known.packets = Good
    /\ Numbers' /\ ClientKnows' /\ ServerKnows' /\ net' \subseteq DatagramOf(Good') => Safe'
<1>1. ASSUME Safe
      PROVE  /\ Numbers /\ kind \in Kinds
             /\ supplied \in Nat /\ Len(received) \in Nat /\ LastChunk \in Nat
             /\ Len(received) <= supplied /\ supplied <= LastChunk
  BY <1>1, ParametersAssumption DEF Safe, Numbers, LockStep
<1>2. ASSUME Safe, supplied = 0
      PROVE  received = <<>>
  <2>1. Len(received) = 0 /\ received \in Seq(Nat)
    BY <1>1, <1>2 DEF Numbers
  <2> QED BY <2>1
<1> QED BY <1>1, <1>2, KnownAllows DEF Safe

-----------------------------------------------------------------------------
(* An acknowledgement of the last packet tells that all that was supplied is stored. *)
LEMMA AcknowledgedIsStored ==
    ASSUME Safe, NEW p \in Good, p.type = "ACK", p.chunk = supplied
    PROVE  supplied = Len(received)
BY SafeMeans DEF Good

(* The server of a read. *)
LEMMA SafeServerRead ==
    ASSUME Distinguishable, Unambiguous, Safe, ReadAtServer,
           SR!Step \/ SR!Timer \/ \E answer : SR!Start(answer)
    PROVE  Safe'
<1> USE Assumed DEF SR!MaxBlockAssumption, SR!ParametersAssumption
<1> DEFINE Supplies == /\ transmittedBlock' = NextBlock(transmittedBlock)
                       /\ supplied' = supplied + 1
                       /\ lastDataPacketTransmitted'
                            = (lastDataPacketTransmitted \/ SR!SizeOf(supplied') = "short")
           Keeps == UNCHANGED <<transmittedBlock, lastDataPacketTransmitted, supplied>>
           packet == SR!Data(transmittedBlock', supplied', SR!SizeOf(supplied'))
           Typed == /\ server' \in CR!BaseOf(Known') /\ net' \subseteq DatagramOf(Good')
<1>1. /\ kind = "read" /\ kind' = kind /\ client' = client
      /\ storedBlock' = storedBlock /\ received' = received
  BY DEF ReadAtServer, receiverVars
<1>2. /\ Numbers /\ supplied \in Nat /\ Len(received) \in Nat /\ Len(received) <= supplied
      /\ (supplied = 0 => received = <<>>) /\ Allows(Known)
  BY SafeMeans
<1>3. ASSUME Supplies, supplied = Len(received), ~lastDataPacketTransmitted
      PROVE  Numbers' /\ supplied <= supplied' /\ packet \in Good'
  BY <1>1, <1>2, <1>3, SupplyNumbers, SharedPackets
<1>4. ASSUME Keeps
      PROVE  Numbers' /\ supplied <= supplied'
  BY <1>1, <1>2, <1>4 DEF Numbers, ReceivedIsPrefix, LockStep
<1>5. \A b, ok : SR!SendData(b, ok) => Supplies
  BY SharedPackets DEF SR!SendData
<1>6. ASSUME Numbers', supplied <= supplied', Typed
      PROVE  Safe'
  BY <1>1, <1>2, <1>6, ClientStillKnows, SafeMeans DEF ServerKnows
<1>7. CASE server \in CR!BaseOf(Known)
  <2>1. SR!Step \/ SR!Timer
    BY <1>7, KnownIsStarted DEF SR!Start
  <2>2. ASSUME SR!ExpectedAcknowledgement
        PROVE  supplied = Len(received)
    <3>1. SR!Current \in SR!CompletionOf(Known)
      BY <1>7, <2>2, Shared, SR!RunsType DEF SR!ExpectedAcknowledgement, SR!PacketReceived
    <3>2. /\ SR!Current.packet \in Good /\ SR!Current.packet.type = "ACK"
          /\ SR!Current.packet.block = transmittedBlock
      BY <1>2, <2>2, <3>1, KnownAllows
         DEF SR!CompletionOf, SR!ExpectedAcknowledgement, SR!PacketReceived
    <3>3. SR!Current.packet = CR!Queued(Sender)
      BY <1>1, <2>2
      DEF SR!ExpectedAcknowledgement, SR!PacketReceived, SR!Runs, SR!Current, CR!Queued, Sender
    <3> QED BY <3>2, <3>3, AcknowledgedIsStored DEF Unambiguous
  <2>3. \/ Keeps
        \/ SR!ExpectedAcknowledgement /\ ~lastDataPacketTransmitted /\ Supplies
    BY <1>5, <2>1
       DEF SR!Timer, SR!Step, SR!members, SR!DataReceived, SR!DuplicateAcknowledgement,
           SR!WrongAcknowledgement, SR!ExpectedAcknowledgement
  <2>4. Numbers' /\ supplied <= supplied' /\ (supplied' # supplied => packet \in Good')
    BY <1>3, <1>4, <2>2, <2>3
  <2>5. ASSUME SR!ExpectedAcknowledgement, lastDataPacketTransmitted
        PROVE  Complete'
    BY <1>1, <1>2, <2>2, <2>5 DEF Numbers, Complete
  <2>6. PICK k : k = Known'
    OBVIOUS
  <2>7. /\ server \in SR!BaseOf(k) /\ net \subseteq SR!DatagramOf(k.packets)
        /\ SR!ServerAdmits(k) /\ SR!Admits(k) /\ k.packets = Good'
        /\ SR!ExpectedAcknowledgement /\ lastDataPacketTransmitted => "Successful" \in k.statuses
    <3>1. /\ CR!BaseOf(Known) \subseteq CR!BaseOf(k)
          /\ DatagramOf(Good) \subseteq DatagramOf(Good')
      BY <1>1, <1>2, <2>4, <2>6, KnownGrows
    <3>2. SR!ServerAdmits(k) /\ k.packets = Good'
      BY <2>4, <2>6, KnownAllows, Admitted
    <3>3. SR!ExpectedAcknowledgement /\ lastDataPacketTransmitted => "Successful" \in k.statuses
      BY <2>5, <2>6, KnownAllows
    <3> QED BY <1>7, <3>1, <3>2, <3>3, Shared DEF Safe, SR!ServerAdmits
  <2>8. server' \in SR!BaseOf(k) /\ net' \subseteq SR!DatagramOf(k.packets)
    <3>1. CASE SR!Step
      BY <1>2, <2>4, <2>7, <3>1, ServerReadStepType
    <3>2. CASE SR!Timer
      BY <2>7, <3>2, SR!QueueType DEF SR!Timer
    <3> QED BY <2>1, <3>1, <3>2
  <2> QED BY <1>6, <2>4, <2>6, <2>7, <2>8, Shared
<1>8. CASE server = SR!Idle /\ supplied = 0
  <2>1. SR!BaseStep /\ UNCHANGED SR!members
    BY <1>8, SR!UnstartedServer
       DEF SR!Start, SR!Timer, SR!Step, SR!DataReceived, SR!DuplicateAcknowledgement,
           SR!WrongAcknowledgement, SR!ExpectedAcknowledgement, SR!PacketReceived
  <2>2. Numbers' /\ supplied <= supplied'
    BY <1>4, <2>1 DEF SR!members
  <2>3. PICK k : k = Known'
    OBVIOUS
  <2>4. net \subseteq SR!DatagramOf(k.packets) /\ SR!ServerAdmits(k) /\ k.packets = Good'
    <3>1. DatagramOf(Good) \subseteq DatagramOf(Good')
      BY <1>1, <1>2, <2>2, KnownGrows
    <3> QED BY <2>2, <2>3, <3>1, KnownAllows, Admitted, Shared DEF Safe
  <2>5. server' \in SR!BaseOf(k) /\ net' \subseteq SR!DatagramOf(k.packets)
    BY <1>8, <2>1, <2>4, SR!IdleStepType
  <2> QED BY <1>6, <2>2, <2>3, <2>4, <2>5, Shared
<1>9. CASE server = SR!InitialServer /\ supplied = 0
  <2>1. PICK answer : SR!Start(answer)
    BY <1>9, SR!UnstartedServer
       DEF SR!Timer, SR!Step, SR!DataReceived, SR!DuplicateAcknowledgement,
           SR!WrongAcknowledgement, SR!ExpectedAcknowledgement, SR!PacketReceived
  <2>2. Keeps \/ Supplies
    BY <1>5, <2>1 DEF SR!Start, SR!members
  <2>3. supplied = Len(received) /\ ~lastDataPacketTransmitted
    BY <1>2, <1>9, ParametersAssumption DEF Numbers
  <2>4. Numbers' /\ supplied <= supplied' /\ (supplied' # supplied => packet \in Good')
    BY <1>3, <1>4, <2>2, <2>3
  <2>5. PICK k : k = Known'
    OBVIOUS
  <2>6. /\ net \subseteq SR!DatagramOf(k.packets) /\ SR!ServerAdmits(k)
        /\ "started" \in k.progress /\ k.packets = Good'
    <3>1. DatagramOf(Good) \subseteq DatagramOf(Good')
      BY <1>1, <1>2, <2>4, KnownGrows
    <3> QED BY <2>4, <2>5, <3>1, KnownAllows, Admitted, Shared DEF Safe
  <2>7. SR!Oack("options") \in k.packets
    <3>1. Oack("options") \in Packet
      BY PacketType DEF OptionLists
    <3>2. Oack("options") \in Good'
      BY <1>1, <3>1 DEF Good, Oack
    <3> QED BY <2>6, <3>2, SharedPackets
  <2>8. /\ server' \in SR!BaseOf(k) \/ (server' = SR!Idle /\ UNCHANGED SR!members)
        /\ net' \subseteq SR!DatagramOf(k.packets)
    BY <1>2, <2>1, <2>4, <2>6, <2>7, ServerReadStartType
  <2>9. CASE server' = SR!Idle /\ UNCHANGED SR!members
    <3>1. supplied' = 0 /\ ServerKnows'
      BY <1>1, <1>9, <2>9 DEF ServerKnows, SR!members
    <3> QED BY <1>1, <1>2, <2>4, <2>6, <2>8, <3>1, ClientStillKnows, SafeMeans, Shared
  <2> QED BY <1>6, <2>4, <2>5, <2>6, <2>8, <2>9, Shared
<1> QED BY <1>1, <1>7, <1>8, <1>9 DEF Safe, ServerKnows

(* The client of a write, likewise; it never sees an OACK. *)
LEMMA SafeClientWrite ==
    ASSUME Distinguishable, Unambiguous, Safe, WriteAtClient,
           CW!Step \/ CW!Timer \/ \E options \in Requests[kind] : CW!Request(options)
    PROVE  Safe'
<1> USE Assumed DEF CW!MaxBlockAssumption, CW!ParametersAssumption
<1> DEFINE Supplies == /\ transmittedBlock' = NextBlock(transmittedBlock)
                       /\ supplied' = supplied + 1
                       /\ lastDataPacketTransmitted'
                            = (lastDataPacketTransmitted \/ SR!SizeOf(supplied') = "short")
           Keeps == UNCHANGED <<transmittedBlock, lastDataPacketTransmitted, supplied>>
           packet == CW!Data(transmittedBlock', supplied', CW!SizeOf(supplied'))
           Typed == /\ client' \in CR!BaseOf(Known') /\ net' \subseteq DatagramOf(Good')
<1>1. /\ kind = "write" /\ kind' = kind /\ server' = server
      /\ storedBlock' = storedBlock /\ received' = received
  BY DEF WriteAtClient, receiverVars
<1>2. /\ Numbers /\ supplied \in Nat /\ Len(received) \in Nat /\ Len(received) <= supplied
      /\ (supplied = 0 => received = <<>>) /\ Allows(Known)
  BY SafeMeans
<1>3. ASSUME Supplies, supplied = Len(received), ~lastDataPacketTransmitted
      PROVE  Numbers' /\ supplied <= supplied' /\ packet \in Good'
  BY <1>1, <1>2, <1>3, SupplyNumbers, SharedPackets
<1>4. ASSUME Keeps
      PROVE  Numbers' /\ supplied <= supplied'
  BY <1>1, <1>2, <1>4 DEF Numbers, ReceivedIsPrefix, LockStep
<1>5. \A b, ok : CW!SendData(b, ok) => Supplies
  BY SharedPackets DEF CW!SendData
<1>6. ASSUME Numbers', supplied <= supplied', Typed
      PROVE  Safe'
  BY <1>1, <1>2, <1>6, ServerStillKnows, SafeMeans DEF ClientKnows
<1>7. CASE client \in CR!BaseOf(Known)
  <2>1. CW!Step \/ CW!Timer
    BY <1>7, KnownIsStarted DEF CW!Request
  <2>2. ASSUME NEW types, CW!PacketReceived(types)
        PROVE  CW!Current.packet \in Good /\ CW!Current.packet.type \in types
    <3>1. CW!Current \in CW!CompletionOf(Known)
      BY <1>7, <2>2, Shared, CW!DispatchedType
    <3> QED BY <1>2, <2>2, <3>1, KnownAllows DEF CW!CompletionOf, CW!PacketReceived
  <2>3. ASSUME CW!AcceptedOack
        PROVE  FALSE
    <3>1. CW!PacketReceived({"OACK"})
      BY <2>3 DEF CW!AcceptedOack
    <3>2. CW!Current.packet \in Good /\ CW!Current.packet.type = "OACK"
      BY <2>2, <3>1
    <3> QED BY <1>1, <3>2 DEF Good
  <2>4. ASSUME CW!ExpectedAcknowledgement
        PROVE  supplied = Len(received)
    <3>1. CW!Current.packet \in Good /\ CW!Current.packet.type = "ACK"
      BY <2>2, <2>4 DEF CW!ExpectedAcknowledgement
    <3>2. /\ CW!Current.packet = CR!Queued(Sender)
          /\ CW!Current.packet.block = transmittedBlock
      BY <1>1, <2>4
      DEF CW!ExpectedAcknowledgement, CW!PacketReceived, CW!Runs, CW!Current, CR!Queued, Sender
    <3> QED BY <3>1, <3>2, AcknowledgedIsStored DEF Unambiguous
  <2>5. \/ Keeps
        \/ CW!ExpectedAcknowledgement /\ ~lastDataPacketTransmitted /\ Supplies
    BY <1>5, <2>1, <2>3
       DEF CW!Timer, CW!Step, CW!members, CW!DataReceived, CW!DuplicateAcknowledgement,
           CW!WrongAcknowledgement, CW!RefusedAcknowledgement, CW!ExpectedAcknowledgement,
           CW!MisplacedOack, CW!RefusedOack
  <2>6. Numbers' /\ supplied <= supplied' /\ (supplied' # supplied => packet \in Good')
    BY <1>3, <1>4, <2>4, <2>5
  <2>7. ASSUME CW!ExpectedAcknowledgement, lastDataPacketTransmitted
        PROVE  Complete'
    BY <1>1, <1>2, <2>4, <2>7 DEF Numbers, Complete
  <2>8. PICK k : k = Known'
    OBVIOUS
  <2>9. /\ client \in CW!BaseOf(k) /\ net \subseteq CW!DatagramOf(k.packets)
        /\ CW!ClientAdmits(k) /\ CW!Admits(k) /\ k.packets = Good'
        /\ "OptionNegotiationError" \in k.statuses
        /\ CW!ExpectedAcknowledgement /\ lastDataPacketTransmitted => "Successful" \in k.statuses
    <3>1. /\ CR!BaseOf(Known) \subseteq CR!BaseOf(k)
          /\ DatagramOf(Good) \subseteq DatagramOf(Good')
      BY <1>1, <1>2, <2>6, <2>8, KnownGrows
    <3>2. CW!ClientAdmits(k) /\ k.packets = Good' /\ "OptionNegotiationError" \in k.statuses
      BY <2>6, <2>8, KnownAllows, Admitted DEF Allows
    <3>3. CW!ExpectedAcknowledgement /\ lastDataPacketTransmitted => "Successful" \in k.statuses
      BY <2>7, <2>8, KnownAllows
    <3> QED BY <1>7, <3>1, <3>2, <3>3, Shared DEF Safe, CW!ClientAdmits
  <2>10. client' \in CW!BaseOf(k) /\ net' \subseteq CW!DatagramOf(k.packets)
    <3>1. CASE CW!Step
      BY <1>2, <2>6, <2>9, <3>1, ClientWriteStepType
    <3>2. CASE CW!Timer
      BY <2>9, <3>2, CW!QueueType DEF CW!Timer
    <3> QED BY <2>1, <3>1, <3>2
  <2> QED BY <1>6, <2>6, <2>8, <2>9, <2>10, Shared
<1>8. CASE client = CR!InitialClient /\ supplied = 0
  <2>1. PICK options \in Requests[kind] : CW!Request(options)
    BY <1>8, CW!UnstartedClient, KnownIsStarted
       DEF CW!Timer, CW!Step, CW!DataReceived, CW!DuplicateAcknowledgement,
           CW!WrongAcknowledgement, CW!RefusedAcknowledgement, CW!ExpectedAcknowledgement,
           CW!MisplacedOack, CW!RefusedOack, CW!AcceptedOack, CW!PacketReceived
  <2>2. /\ Keeps \/ (transmittedBlock' = 0 /\ lastDataPacketTransmitted' = FALSE /\ supplied' = supplied)
        /\ transmittedBlock = 0 /\ ~lastDataPacketTransmitted
    BY <1>2, <1>8, <2>1, ParametersAssumption DEF CW!Request, CW!members, Numbers, BlockOf
  <2>3. Numbers' /\ supplied <= supplied'
    BY <1>1, <1>2, <1>8, <2>2, ParametersAssumption DEF Numbers, ReceivedIsPrefix, LockStep, BlockOf
  <2>4. PICK k : k = Known'
    OBVIOUS
  <2>5. /\ net \subseteq CW!DatagramOf(k.packets) /\ CW!ClientAdmits(k)
        /\ "started" \in k.progress /\ k.packets = Good'
    <3>1. DatagramOf(Good) \subseteq DatagramOf(Good')
      BY <1>1, <1>2, <2>3, KnownGrows
    <3> QED BY <2>3, <2>4, <3>1, KnownAllows, Admitted, Shared DEF Safe
  <2>6. CW!Wrq(options) \in k.packets
    <3>1. options = "plain"
      BY <1>1 DEF Distinguishable
    <3>2. Wrq("plain") \in Packet
      BY PacketType DEF OptionLists
    <3>3. Wrq("plain") \in Good'
      BY <3>2 DEF Good, Wrq
    <3> QED BY <2>5, <3>1, <3>3, SharedPackets
  <2>7. client' \in CW!BaseOf(k) /\ net' \subseteq CW!DatagramOf(k.packets)
    BY <2>1, <2>5, <2>6, ClientWriteRequestType
  <2> QED BY <1>6, <2>3, <2>4, <2>5, <2>7, Shared
<1> QED BY <1>1, <1>7, <1>8 DEF Safe, ClientKnows

(* The client of a read. *)
LEMMA SafeClientRead ==
    ASSUME Distinguishable, Unambiguous, Safe, ReadAtClient,
           CR!Step \/ CR!Timer \/ \E options \in Requests[kind] : CR!Request(options)
    PROVE  Safe'
<1> USE Assumed DEF CR!MaxBlockAssumption, CR!ParametersAssumption
<1> DEFINE Stores == /\ storedBlock' = NextBlock(storedBlock)
                     /\ received' = Append(received, CR!Current.packet.chunk)
           Keeps == UNCHANGED <<storedBlock, received>>
           Typed == /\ client' \in CR!BaseOf(Known') /\ net' \subseteq DatagramOf(Good')
<1>1. /\ kind = "read" /\ kind' = kind /\ server' = server
      /\ UNCHANGED <<transmittedBlock, lastDataPacketTransmitted, supplied>>
  BY DEF ReadAtClient, senderVars
<1>2. /\ Numbers /\ supplied \in Nat /\ Len(received) \in Nat /\ Len(received) <= supplied
      /\ Allows(Known)
  BY SafeMeans
<1>3. ASSUME Keeps
      PROVE  Numbers' /\ Len(received) <= Len(received')
  BY <1>1, <1>2, <1>3 DEF Numbers, ReceivedIsPrefix, LockStep
<1>4. ASSUME Numbers', Len(received) <= Len(received'), Typed
      PROVE  Safe'
  BY <1>1, <1>2, <1>4, ServerStillKnows, SafeMeans DEF ClientKnows
<1>5. CASE client \in CR!BaseOf(Known)
  <2>1. CR!Step \/ CR!Timer
    BY <1>5, KnownIsStarted DEF CR!Request
  <2>2. ASSUME NEW types, CR!PacketReceived(types)
        PROVE  /\ CR!Current.packet \in Good /\ CR!Current.packet.type \in types
               /\ CR!Current.packet = CR!Queued(Receiver)
    <3>1. CR!Current \in CR!CompletionOf(Known)
      BY <1>5, <2>2, Shared, CR!DispatchedType
    <3>2. CR!Current.packet = CR!Queued(Receiver)
      BY <1>1, <2>2 DEF CR!PacketReceived, CR!Runs, CR!Current, CR!Queued, Receiver
    <3> QED BY <1>2, <2>2, <3>1, <3>2, KnownAllows DEF CR!CompletionOf, CR!PacketReceived
  <2>3. ASSUME CR!NewData
        PROVE  /\ Numbers' /\ Len(received) <= Len(received')
               /\ CR!Current.packet.arg = "short" => Complete'
    <3>1. /\ CR!Current.packet \in Good /\ CR!Current.packet.type = "DATA"
          /\ CR!Current.packet.block = NextBlock(storedBlock) /\ Stores
      BY <2>2, <2>3, SharedPackets DEF CR!NewData
    <3>2. CR!Current.packet.chunk = Len(received) + 1
      BY <2>2, <2>3, <3>1 DEF CR!NewData, Unambiguous
    <3> QED BY <1>1, <1>2, <3>1, <3>2, StoreNumbers
  <2>4. ASSUME CR!DuplicateData, CR!Current.packet.arg = "short"
        PROVE  Complete'
    <3>1. /\ CR!Current.packet \in Good /\ CR!Current.packet.type = "DATA"
          /\ CR!Current.packet.block = storedBlock /\ received' = received
      BY <2>2, <2>4 DEF CR!DuplicateData, CR!members
    <3>2. CR!Current.packet.chunk = Len(received)
      BY <2>2, <2>4, <3>1 DEF CR!DuplicateData, Unambiguous
    <3> QED BY <1>2, <2>4, <3>1, <3>2, ShortIsComplete
  <2>5. Keeps \/ CR!NewData
    BY <2>1
       DEF CR!Timer, CR!Step, CR!members, CR!DuplicateData, CR!RefusedData, CR!WrongData,
           CR!AcknowledgementReceived, CR!MisplacedOack, CR!RefusedOack, CR!AcceptedOack
  <2>6. Numbers' /\ Len(received) <= Len(received')
    BY <1>3, <2>3, <2>5
  <2>7. PICK k : k = Known'
    OBVIOUS
  <2>8. /\ client \in CR!BaseOf(k) /\ net \subseteq CR!DatagramOf(k.packets)
        /\ CR!ClientAdmits(k) /\ CR!Admits(k) /\ k.packets = Good'
        /\ "OptionNegotiationError" \in k.statuses
        /\ "timeoutDally" \in k.timeouts => "Successful" \in k.statuses
        /\ Complete' => "timeoutDally" \in k.timeouts /\ "Successful" \in k.statuses
    <3>1. /\ CR!BaseOf(Known) \subseteq CR!BaseOf(k)
          /\ DatagramOf(Good) \subseteq DatagramOf(Good')
      BY <1>1, <1>2, <2>6, <2>7, KnownGrows
    <3>2. CR!ClientAdmits(k) /\ k.packets = Good' /\ "OptionNegotiationError" \in k.statuses
      BY <2>6, <2>7, KnownAllows, Admitted DEF Allows
    <3>3. /\ "timeoutDally" \in k.timeouts => "Successful" \in k.statuses
          /\ Complete' => "timeoutDally" \in k.timeouts /\ "Successful" \in k.statuses
      BY <2>7, KnownAllows
    <3> QED BY <1>5, <3>1, <3>2, <3>3, Shared DEF Safe, CR!ClientAdmits
  <2>9. /\ CR!Ack(storedBlock', Len(received')) \in k.packets
        /\ CR!AcceptedOack => CR!Ack(0, Len(received)) \in k.packets
    <3>1. Ack(storedBlock', Len(received')) \in Good'
      BY <2>6, AckIsGood
    <3>2. ASSUME CR!AcceptedOack
          PROVE  storedBlock' = 0 /\ received' = received
      BY <3>2 DEF CR!AcceptedOack
    <3> QED BY <2>8, <3>1, <3>2, SharedPackets
  <2>10. client' \in CR!BaseOf(k) /\ net' \subseteq CR!DatagramOf(k.packets)
    <3>1. CASE CR!Step
      BY <2>3, <2>4, <2>8, <2>9, <3>1, ClientReadStepType
    <3>2. CASE CR!Timer
      BY <2>8, <3>2, CR!QueueType DEF CR!Timer
    <3> QED BY <2>1, <3>1, <3>2
  <2> QED BY <1>4, <2>6, <2>7, <2>8, <2>10, Shared
<1>6. CASE client = CR!InitialClient /\ received = <<>>
  <2>1. PICK options \in Requests[kind] : CR!Request(options)
    BY <1>6, CR!UnstartedClient, KnownIsStarted
       DEF CR!Timer, CR!Step, CR!DuplicateData, CR!NewData, CR!RefusedData, CR!WrongData,
           CR!TimeoutDally, CR!AcknowledgementReceived, CR!MisplacedOack, CR!RefusedOack,
           CR!AcceptedOack, CR!PacketReceived
  <2>2. Keeps
    BY <1>2, <1>6, <2>1 DEF CR!Request, CR!members, Numbers, BlockOf
  <2>3. Numbers' /\ Len(received) <= Len(received')
    BY <1>3, <2>2
  <2>4. PICK k : k = Known'
    OBVIOUS
  <2>5. /\ net \subseteq CR!DatagramOf(k.packets) /\ CR!ClientAdmits(k)
        /\ "started" \in k.progress /\ k.packets = Good'
    <3>1. DatagramOf(Good) \subseteq DatagramOf(Good')
      BY <1>1, <1>2, <2>3, KnownGrows
    <3> QED BY <2>3, <2>4, <3>1, KnownAllows, Admitted, Shared DEF Safe
  <2>6. CR!Rrq(options) \in k.packets
    <3>1. Rrq(options) \in Packet
      BY <1>1, TransferAssumption, PacketType DEF Kinds
    <3>2. Rrq(options) \in Good'
      BY <1>1, <3>1 DEF Good, Rrq
    <3> QED BY <2>5, <3>2, SharedPackets
  <2>7. client' \in CR!BaseOf(k) /\ net' \subseteq CR!DatagramOf(k.packets)
    BY <2>1, <2>5, <2>6, ClientReadRequestType
  <2> QED BY <1>4, <2>3, <2>4, <2>5, <2>7, Shared
<1> QED BY <1>1, <1>5, <1>6 DEF Safe, ClientKnows

(* The server of a write. *)
LEMMA SafeServerWrite ==
    ASSUME Distinguishable, Unambiguous, Safe, WriteAtServer,
           SW!Step \/ SW!Timer \/ SW!Start("ack")
    PROVE  Safe'
<1> USE Assumed DEF SW!MaxBlockAssumption, SW!ParametersAssumption
<1> DEFINE Stores == /\ storedBlock' = NextBlock(storedBlock)
                     /\ received' = Append(received, SW!Current.packet.chunk)
           Keeps == UNCHANGED <<storedBlock, received>>
           Typed == /\ server' \in CR!BaseOf(Known') /\ net' \subseteq DatagramOf(Good')
<1>1. /\ kind = "write" /\ kind' = kind /\ client' = client
      /\ UNCHANGED <<transmittedBlock, lastDataPacketTransmitted, supplied>>
  BY DEF WriteAtServer, senderVars
<1>2. /\ Numbers /\ supplied \in Nat /\ Len(received) \in Nat /\ Len(received) <= supplied
      /\ Allows(Known)
  BY SafeMeans
<1>3. ASSUME Keeps
      PROVE  Numbers' /\ Len(received) <= Len(received')
  BY <1>1, <1>2, <1>3 DEF Numbers, ReceivedIsPrefix, LockStep
<1>4. ASSUME Numbers', Len(received) <= Len(received'), Typed
      PROVE  Safe'
  BY <1>1, <1>2, <1>4, ClientStillKnows, SafeMeans DEF ServerKnows
<1>5. CASE server \in CR!BaseOf(Known)
  <2>1. SW!Step \/ SW!Timer
    BY <1>5, KnownIsStarted DEF SW!Start
  <2>2. ASSUME NEW types, SW!PacketReceived(types)
        PROVE  /\ SW!Current.packet \in Good /\ SW!Current.packet.type \in types
               /\ SW!Current.packet = CR!Queued(Receiver)
    <3>1. SW!Current \in SW!CompletionOf(Known)
      BY <1>5, <2>2, Shared, SW!RunsType DEF SW!PacketReceived
    <3>2. SW!Current.packet = CR!Queued(Receiver)
      BY <1>1, <2>2 DEF SW!PacketReceived, SW!Runs, SW!Current, CR!Queued, Receiver
    <3> QED BY <1>2, <2>2, <3>1, <3>2, KnownAllows DEF SW!CompletionOf, SW!PacketReceived
  <2>3. ASSUME SW!NewData
        PROVE  /\ Numbers' /\ Len(received) <= Len(received')
               /\ SW!Current.packet.arg = "short" => Complete'
    <3>1. /\ SW!Current.packet \in Good /\ SW!Current.packet.type = "DATA"
          /\ SW!Current.packet.block = NextBlock(storedBlock) /\ Stores
      BY <2>2, <2>3, SharedPackets DEF SW!NewData
    <3>2. SW!Current.packet.chunk = Len(received) + 1
      BY <2>2, <2>3, <3>1 DEF SW!NewData, Unambiguous
    <3> QED BY <1>1, <1>2, <3>1, <3>2, StoreNumbers
  <2>4. ASSUME SW!DuplicateData, SW!Current.packet.arg = "short"
        PROVE  Complete'
    <3>1. /\ SW!Current.packet \in Good /\ SW!Current.packet.type = "DATA"
          /\ SW!Current.packet.block = storedBlock /\ received' = received
      BY <2>2, <2>4 DEF SW!DuplicateData, SW!members
    <3>2. SW!Current.packet.chunk = Len(received)
      BY <2>2, <2>4, <3>1 DEF SW!DuplicateData, Unambiguous
    <3> QED BY <1>2, <2>4, <3>1, <3>2, ShortIsComplete
  <2>5. Keeps \/ SW!NewData
    BY <2>1
       DEF SW!Timer, SW!Step, SW!members, SW!DuplicateData, SW!WrongData,
           SW!AcknowledgementReceived
  <2>6. Numbers' /\ Len(received) <= Len(received')
    BY <1>3, <2>3, <2>5
  <2>7. PICK k : k = Known'
    OBVIOUS
  <2>8. /\ server \in SW!BaseOf(k) /\ net \subseteq SW!DatagramOf(k.packets)
        /\ SR!ServerAdmits(k) /\ SW!ServerAdmits(k) /\ SW!Admits(k) /\ k.packets = Good'
        /\ "timeoutDally" \in k.timeouts => "Successful" \in k.statuses
        /\ Complete' => "timeoutDally" \in k.timeouts /\ "Successful" \in k.statuses
    <3>1. /\ CR!BaseOf(Known) \subseteq CR!BaseOf(k)
          /\ DatagramOf(Good) \subseteq DatagramOf(Good')
      BY <1>1, <1>2, <2>6, <2>7, KnownGrows
    <3>2. SR!ServerAdmits(k) /\ SW!ServerAdmits(k) /\ k.packets = Good'
      BY <2>6, <2>7, KnownAllows, Admitted
    <3>3. /\ "timeoutDally" \in k.timeouts => "Successful" \in k.statuses
          /\ Complete' => "timeoutDally" \in k.timeouts /\ "Successful" \in k.statuses
      BY <2>7, KnownAllows
    <3> QED BY <1>5, <3>1, <3>2, <3>3, Shared DEF Safe, SW!ServerAdmits
  <2>9. SW!Ack(storedBlock', Len(received')) \in k.packets
    BY <2>6, <2>8, AckIsGood, SharedPackets
  <2>10. server' \in SW!BaseOf(k) /\ net' \subseteq SW!DatagramOf(k.packets)
    <3>1. CASE SW!Step
      BY <2>3, <2>4, <2>8, <2>9, <3>1, ServerWriteStepType
    <3>2. CASE SW!Timer
      BY <2>8, <3>2, SW!QueueType DEF SW!Timer
    <3> QED BY <2>1, <3>1, <3>2
  <2> QED BY <1>4, <2>6, <2>7, <2>8, <2>10, Shared
<1>6. CASE server \in {SR!InitialServer, SR!Idle} /\ received = <<>>
  <2>1. /\ SW!Start("ack") \/ SW!BaseStep
        /\ server = SW!Idle => SW!BaseStep
        /\ SW!BaseStep => server = SW!Idle
        /\ UNCHANGED SW!members
    BY <1>6, SW!UnstartedServer, KnownIsStarted
       DEF SW!Start, SW!Timer, SW!Step, SW!DuplicateData, SW!NewData, SW!WrongData,
           SW!TimeoutDally, SW!AcknowledgementReceived, SW!PacketReceived
  <2>2. Keeps
    BY <2>1 DEF SW!members
  <2>3. Numbers' /\ Len(received) <= Len(received')
    BY <1>3, <2>2
  <2>4. PICK k : k = Known'
    OBVIOUS
  <2>5. /\ net \subseteq SW!DatagramOf(k.packets) /\ SW!ServerAdmits(k)
        /\ "started" \in k.progress /\ k.packets = Good'
    <3>1. DatagramOf(Good) \subseteq DatagramOf(Good')
      BY <1>1, <1>2, <2>3, KnownGrows
    <3> QED BY <2>3, <2>4, <3>1, KnownAllows, Admitted, Shared DEF Safe
  <2>6. CASE SW!BaseStep
    <3>1. server' \in SW!BaseOf(k) /\ net' \subseteq SW!DatagramOf(k.packets)
      BY <2>1, <2>5, <2>6, SW!IdleStepType
    <3> QED BY <1>4, <2>3, <2>4, <2>5, <3>1, Shared
  <2>7. CASE SW!Start("ack")
    <3>1. storedBlock' = 0 /\ Len(received') = 0 /\ received' = <<>>
      BY <1>2, <1>6, <2>2 DEF Numbers, BlockOf
    <3>2. SW!Ack(0, 0) \in k.packets
      BY <2>3, <2>5, <3>1, AckIsGood, SharedPackets
    <3>3. /\ server' \in SW!BaseOf(k) \/ server' = SW!Idle
          /\ net' \subseteq SW!DatagramOf(k.packets)
      BY <2>5, <2>7, <3>2, ServerWriteStartType
    <3>4. CASE server' = SW!Idle
      <4>1. ServerKnows'
        BY <1>1, <3>1, <3>4, KnownIsStarted DEF ServerKnows
      <4> QED BY <1>1, <1>2, <2>3, <2>5, <3>3, <4>1, ClientStillKnows, SafeMeans, Shared
    <3> QED BY <1>4, <2>3, <2>4, <2>5, <3>3, <3>4, Shared
  <2> QED BY <2>1, <2>6, <2>7
<1> QED BY <1>1, <1>5, <1>6 DEF Safe, ServerKnows

-----------------------------------------------------------------------------
(* Nothing has been transferred, and the network is empty. *)
LEMMA SafeInit == Distinguishable /\ Init => Safe
<1> SUFFICES ASSUME Distinguishable, Init PROVE Safe
  OBVIOUS
<1>1. /\ kind \in Kinds /\ client = CR!InitialClient /\ server = SR!InitialServer /\ net = {}
      /\ transmittedBlock = 0 /\ lastDataPacketTransmitted = FALSE /\ supplied = 0
      /\ storedBlock = 0 /\ received = <<>>
  BY DEF Init, CR!Init, SR!Init, Distinguishable
<1>2. Len(received) = 0 /\ received \in Seq(Nat)
  BY <1>1
<1>3. Numbers
  BY <1>1, <1>2, ParametersAssumption DEF Numbers, ReceivedIsPrefix, LockStep, BlockOf
<1> QED BY <1>1, <1>3 DEF Safe, ClientKnows, ServerKnows

(* The error that answers a refused request is true of any file. *)
LEMMA SafeRefuse ==
    ASSUME Distinguishable, Safe, Refuse
    PROVE  Safe'
<1>1. UNCHANGED <<kind, client, server, senderVars, receiverVars>>
  BY DEF Refuse
<1>2. Numbers' /\ Len(received) <= Len(received')
  BY <1>1, SafeMeans DEF Numbers, ReceivedIsPrefix, LockStep, senderVars, receiverVars
<1>3. /\ ClientKnows' /\ ServerKnows'
  BY <1>1, <1>2, ClientStillKnows, ServerStillKnows, SafeMeans DEF senderVars, receiverVars
<1>4. Good' = Good
  BY <1>1 DEF Good, senderVars, receiverVars
<1>5. PICK d \in net :
        net' = SR!NetAfter(d)
               \cup {[from |-> "errorSocket", to |-> d.from, packet |-> Error("NotDefined")]}
  BY DEF Refuse
<1>6. d \in DatagramOf(Good) /\ SR!NetAfter(d) \subseteq net
  BY DEF Safe, SR!NetAfter
<1>7. Error("NotDefined") \in Good
  BY PacketType DEF ErrorCodes, Good, Error
<1>8. [from |-> "errorSocket", to |-> d.from, packet |-> Error("NotDefined")] \in DatagramOf(Good)
  BY <1>6, <1>7 DEF DatagramOf, Endpoints
<1>9. net' \subseteq DatagramOf(Good')
  BY <1>4, <1>5, <1>6, <1>8 DEF Safe
<1> QED BY <1>2, <1>3, <1>9, SafeMeans

(* A step that changes nothing. *)
LEMMA SafeStutter ==
    ASSUME Distinguishable, Safe, UNCHANGED vars
    PROVE  Safe'
<1>1. UNCHANGED <<kind, client, server, net, senderVars, receiverVars>>
  BY DEF vars
<1>2. Numbers' /\ Len(received) <= Len(received')
  BY <1>1, SafeMeans DEF Numbers, ReceivedIsPrefix, LockStep, senderVars, receiverVars
<1>3. ClientKnows' /\ ServerKnows'
  BY <1>1, <1>2, ClientStillKnows, ServerStillKnows, SafeMeans DEF senderVars, receiverVars
<1>4. Good' = Good
  BY <1>1 DEF Good, senderVars, receiverVars
<1>5. net' \subseteq DatagramOf(Good')
  BY <1>1, <1>4 DEF Safe
<1> QED BY <1>2, <1>3, <1>5, SafeMeans

(* A write is only served without options. *)
LEMMA PlainWritesServed ==
    ASSUME Safe, Serve
    PROVE  \/ ReadAtServer /\ \E answer : SR!Start(answer)
           \/ WriteAtServer /\ SW!Start("ack")
<1>1. PICK d \in net :
        \/ ReadAtServer /\ \E answer : SR!Start(answer)
        \/ /\ d.packet.type = "WRQ" /\ WriteAtServer
           /\ \E answer \in SW!Answers(d.packet.arg) : SW!Start(answer)
  BY DEF Serve
<1>2. CASE /\ d.packet.type = "WRQ" /\ WriteAtServer
           /\ \E answer \in SW!Answers(d.packet.arg) : SW!Start(answer)
  <2>1. d.packet.arg = "plain"
    BY <1>2 DEF Safe, DatagramOf, Good, WriteAtServer
  <2>2. SW!Answers(d.packet.arg) = {"ack"}
    BY <2>1 DEF SW!Answers
  <2> QED BY <1>2, <2>2
<1> QED BY <1>1, <1>2

(* Each step keeps what both sides know. *)
LEMMA SafeNext ==
    ASSUME Distinguishable, Unambiguous, Safe, [Next]_vars
    PROVE  Safe'
<1>1. CASE UNCHANGED vars
  BY <1>1, SafeStutter
<1>2. CASE Request \/ ClientStep \/ ClientTimer
  <2>1. \/ ReadAtClient /\ (CR!Step \/ CR!Timer \/ \E options \in Requests[kind] : CR!Request(options))
        \/ WriteAtClient /\ (CW!Step \/ CW!Timer \/ \E options \in Requests[kind] : CW!Request(options))
    BY <1>2 DEF Request, ClientStep, ClientTimer
  <2> QED BY <2>1, SafeClientRead, SafeClientWrite
<1>3. CASE ServerStep \/ ServerTimer
  BY <1>3, SafeServerRead, SafeServerWrite DEF ServerStep, ServerTimer
<1>4. CASE Serve
  BY <1>4, PlainWritesServed, SafeServerRead, SafeServerWrite
<1>5. CASE Refuse
  BY <1>5, SafeRefuse
<1> QED BY <1>1, <1>2, <1>3, <1>4, <1>5 DEF Next

-----------------------------------------------------------------------------
(***************************************************************************)
(* Why the number of a packet is unambiguous: there are more numbers than  *)
(* chunks, or each side takes the packets of the other one in the order in *)
(* which they were sent.                                                   *)
(***************************************************************************)

(* The packet that is handled next is true of the file. *)
LEMMA QueuedIsGood ==
    ASSUME Safe
    PROVE  CR!Queued(Receiver) \in Good /\ CR!Queued(Sender) \in Good
<1>1. CR!NoPacket \in Good /\ Known.packets = Good
  BY KnownAllows, SafeMeans
  DEF Allows, NoPacket, InvalidPacket, CR!NoPacket, CR!InvalidPacket
<1>2. ASSUME NEW k, NEW c \in CR!BaseOf(k), CR!NoPacket \in k.packets
      PROVE  CR!Queued(c) \in k.packets
  <2>1. CASE c.ready # <<>>
    <3>1. c.ready \in Seq(CR!CompletionOf(k))
      BY DEF CR!BaseOf
    <3>2. Head(c.ready) \in CR!CompletionOf(k)
      BY <2>1, <3>1
    <3> QED BY <2>1, <3>2 DEF CR!Queued, CR!CompletionOf
  <2>2. CASE c.ready = <<>>
    BY <1>2, <2>2 DEF CR!Queued
  <2> QED BY <2>1, <2>2
<1>3. ASSUME NEW c, c.ready = <<>>
      PROVE  CR!Queued(c) \in Good
  BY <1>1, <1>3 DEF CR!Queued
<1>4. SR!Idle.ready = <<>>
  BY Assumed, SR!IdleServer DEF SR!MaxBlockAssumption, SR!ParametersAssumption
<1>5. CR!InitialClient.ready = <<>> /\ SR!InitialServer.ready = <<>>
  BY DEF CR!InitialClient, CR!NewBase, SR!InitialServer, SR!NewBase
<1>6. CR!Queued(client) \in Good /\ CR!Queued(server) \in Good
  BY <1>1, <1>2, <1>3, <1>4, <1>5 DEF Safe, ClientKnows, ServerKnows
<1> QED BY <1>6 DEF Receiver, Sender

(* Where the numbers do not roll over, each chunk has its own. *)
LEMMA UnambiguousNumbers ==
    ASSUME Safe, LastChunk < MaxBlock
    PROVE  Unambiguous
<1> DEFINE p == CR!Queued(Receiver)
           q == CR!Queued(Sender)
<1>1. /\ supplied \in Nat /\ Len(received) \in Nat /\ LastChunk \in Nat /\ MaxBlock \in Nat
      /\ Len(received) <= supplied /\ supplied <= LastChunk
      /\ storedBlock = BlockOf(Len(received)) /\ transmittedBlock = BlockOf(supplied)
  BY SafeMeans, MaxBlockAssumption DEF Numbers
<1>2. \A i \in Nat : i <= LastChunk => BlockOf(i) = i
  <2>1. ASSUME NEW i \in Nat, i <= LastChunk
        PROVE  BlockOf(i) = i
    <3>1. i <= MaxBlock
      BY <1>1, <2>1
    <3> QED BY <3>1, NumberType
  <2> QED BY <2>1
<1>3. storedBlock = Len(received) /\ transmittedBlock = supplied
  <2>1. Len(received) <= LastChunk
    BY <1>1
  <2> QED BY <1>1, <1>2, <2>1
<1>4. /\ p.chunk \in Nat /\ q.chunk \in Nat
      /\ p.type = "DATA" => p.chunk <= supplied /\ p.block = BlockOf(p.chunk)
      /\ q.type = "ACK" => q.chunk <= Len(received) /\ q.block = BlockOf(q.chunk)
  BY QueuedIsGood DEF Good, Packet
<1> HIDE DEF p, q
<1>5. /\ p.type = "DATA" => p.block = p.chunk
      /\ q.type = "ACK" => q.block = q.chunk
  <2>1. /\ p.type = "DATA" => p.chunk <= LastChunk
        /\ q.type = "ACK" => q.chunk <= LastChunk
    BY <1>1, <1>4
  <2> QED BY <1>4, <1>2, <2>1
<1>6. NextBlock(storedBlock) = Len(received) + 1
  BY <1>1, <1>3 DEF NextBlock
<1> QED BY <1>1, <1>3, <1>4, <1>5, <1>6 DEF Unambiguous, p, q

SenderName   == IF kind = "read" THEN "server" ELSE "client"
ReceiverName == IF kind = "read" THEN "client" ELSE "server"

(* In a network that keeps the order no side is offered a packet that is older than the last *)
(* one but one: neither from the network, nor from the queue, nor by a repetition.           *)
InTurn ==
    /\ Sender.out = {} /\ Receiver.out = {}
    /\ \A d \in net :
          /\ d.packet.type = "DATA" =>
                /\ d.from = SenderName
                /\ d.to = ReceiverName =>
                      /\ Len(received) <= d.packet.chunk
                      /\ CR!Queued(Receiver).type = "DATA" =>
                            CR!Queued(Receiver).chunk <= d.packet.chunk
          /\ d.packet.type = "ACK" =>
                /\ d.from = ReceiverName
                /\ d.to = SenderName =>
                      /\ supplied <= d.packet.chunk + 1
                      /\ CR!Queued(Sender).type = "ACK" =>
                            CR!Queued(Sender).chunk <= d.packet.chunk
    /\ CR!Queued(Receiver).type = "DATA" => Len(received) <= CR!Queued(Receiver).chunk
    /\ CR!Queued(Sender).type = "ACK" => supplied <= CR!Queued(Sender).chunk + 1
    /\ Receiver.transmitPacket.type # "DATA"
    /\ Receiver.transmitPacket.type = "ACK" => Receiver.transmitPacket.chunk = Len(received)
    /\ Sender.transmitPacket.type # "ACK"
    /\ Sender.transmitPacket.type = "DATA" => Sender.transmitPacket.chunk = supplied

(* ... so that the numbers of two chunks in succession are enough. *)
LEMMA UnambiguousInTurn ==
    ASSUME Safe, InTurn
    PROVE  Unambiguous
<1> DEFINE p == CR!Queued(Receiver)
           q == CR!Queued(Sender)
           n == Len(received)
<1>1. /\ supplied \in Nat /\ n \in Nat /\ n <= supplied /\ supplied <= n + 1
      /\ storedBlock = BlockOf(n) /\ transmittedBlock = BlockOf(supplied)
  BY SafeMeans DEF Numbers, LockStep
<1>2. /\ p.chunk \in Nat /\ q.chunk \in Nat
      /\ p.type = "DATA" => p.chunk <= supplied /\ p.block = BlockOf(p.chunk)
      /\ q.type = "ACK" => q.chunk <= n /\ q.block = BlockOf(q.chunk)
  BY QueuedIsGood DEF Good, Packet
<1>3. /\ p.type = "DATA" => n <= p.chunk
      /\ q.type = "ACK" => supplied <= q.chunk + 1
  BY DEF InTurn
<1>4. BlockOf(n + 1) # BlockOf(n) /\ NextBlock(storedBlock) = BlockOf(n + 1)
  BY <1>1, NumberType, NextNumber
<1>5. \A i \in Nat : BlockOf(i + 1) # BlockOf(i)
  BY NumberType
<1> HIDE DEF p, q, n
<1>6. p.type = "DATA" => p.chunk \in {n, n + 1}
  BY <1>1, <1>2, <1>3
<1>7. ASSUME q.type = "ACK", q.block = transmittedBlock
      PROVE  q.chunk = supplied
  <2>1. q.chunk = supplied \/ supplied = q.chunk + 1
    BY <1>1, <1>2, <1>3, <1>7
  <2> QED BY <1>1, <1>2, <1>5, <1>7, <2>1
<1>8. p.type = "DATA" => /\ p.block = storedBlock => p.chunk = n
                         /\ p.block = NextBlock(storedBlock) => p.chunk = n + 1
  BY <1>1, <1>2, <1>4, <1>6
<1> QED BY <1>7, <1>8 DEF Unambiguous, p, q, n

(* A step of the receiver: it stores the chunk that waits in the queue, if any, keeps an *)
(* acknowledgement of all that it has stored, and takes datagrams in their order.        *)
LEMMA ReceiverTurn ==
    ASSUME Safe, Safe', InTurn, kind' = kind, Sender' = Sender, supplied' = supplied,
           Receiver'.out = {},
           \A d \in net' : \/ d \in net \/ d.packet.type = "ERROR"
                           \/ d.from = ReceiverName /\ d.packet = Receiver'.transmitPacket,
           Receiver'.transmitPacket.type # "DATA",
           Receiver'.transmitPacket.type = "ACK" =>
                Receiver'.transmitPacket.chunk = Len(received'),
           \/ received' = received
           \/ CR!Queued(Receiver).type = "DATA" /\ CR!Queued(Receiver).chunk = Len(received'),
           \/ CR!Queued(Receiver').type # "DATA"
           \/ /\ received' = received
              /\ \E d \in net : /\ CR!Queued(Receiver') = d.packet /\ d.to = ReceiverName
                                /\ \A e \in net' : e \in net /\ ~CR!Older(e, d)
    PROVE  InTurn'
<1> DEFINE p == CR!Queued(Receiver)
           q == CR!Queued(Sender)
           n == Len(received)
           r == CR!Queued(Receiver')
<1>1. /\ supplied \in Nat /\ n \in Nat /\ n <= supplied /\ supplied <= n + 1
      /\ n' \in Nat /\ n' <= supplied /\ supplied <= n' + 1
  BY DEF Safe, Numbers, LockStep
<1>2. n <= n'
  BY <1>1 DEF InTurn
<1>3. /\ SenderName' = SenderName /\ ReceiverName' = ReceiverName /\ q' = q /\ p' = r
      /\ SenderName # ReceiverName
  BY DEF SenderName, ReceiverName
<1>4. \A d \in net : d.packet.chunk \in Nat
  BY DEF Safe, DatagramOf, Good, Packet
<1>5. q.chunk \in Nat /\ (q.type = "ACK" => q.chunk <= n)
  BY QueuedIsGood DEF Good, Packet
<1>6. r.type = "DATA" => n' <= r.chunk
  BY DEF InTurn
<1>7. q.type = "ACK" => supplied <= q.chunk + 1
  BY DEF InTurn
<1>8. ASSUME NEW d \in net', d.packet.type = "DATA"
      PROVE  /\ d.from = SenderName
             /\ d.to = ReceiverName => /\ n' <= d.packet.chunk
                                       /\ r.type = "DATA" => r.chunk <= d.packet.chunk
  <2>1. d \in net /\ d.from = SenderName
    BY <1>8 DEF InTurn
  <2>2. d.to = ReceiverName => n' <= d.packet.chunk
    BY <1>8, <2>1 DEF InTurn
  <2>3. ASSUME d.to = ReceiverName, r.type = "DATA"
        PROVE  r.chunk <= d.packet.chunk
    <3>1. PICK e \in net : r = e.packet /\ e.to = ReceiverName /\ ~CR!Older(d, e)
      BY <2>3
    <3>2. e.from = SenderName
      BY <2>3, <3>1 DEF InTurn
    <3> QED BY <1>4, <1>8, <2>1, <2>3, <3>1, <3>2 DEF CR!Older, CR!Rank
  <2> QED BY <2>1, <2>2, <2>3
<1>9. ASSUME NEW d \in net', d.packet.type = "ACK"
      PROVE  /\ d.from = ReceiverName
             /\ d.to = SenderName => /\ supplied <= d.packet.chunk + 1
                                     /\ q.type = "ACK" => q.chunk <= d.packet.chunk
  <2>1. CASE d \in net
    BY <1>9, <2>1 DEF InTurn
  <2>2. CASE d.from = ReceiverName /\ d.packet = Receiver'.transmitPacket
    <3>1. d.packet.chunk = n'
      BY <1>9, <2>2
    <3> HIDE DEF q, n
    <3> QED BY <1>1, <1>2, <1>5, <2>2, <3>1
  <2> QED BY <1>9, <2>1, <2>2
<1>10. /\ Sender'.out = {} /\ Sender'.transmitPacket.type # "ACK"
       /\ Sender'.transmitPacket.type = "DATA" => Sender'.transmitPacket.chunk = supplied'
  BY DEF InTurn
<1> HIDE DEF p, q, n, r
<1> QED BY <1>3, <1>6, <1>7, <1>8, <1>9, <1>10 DEF InTurn, p, q, n, r

(* A step of the sender: it answers the acknowledgement of its last chunk with the next one. *)
LEMMA SenderTurn ==
    ASSUME Safe, Safe', InTurn, kind' = kind, Receiver' = Receiver, received' = received,
           Sender'.out = {},
           \A d \in net' : \/ d \in net \/ d.packet.type = "ERROR"
                           \/ d.from = SenderName /\ d.packet = Sender'.transmitPacket,
           Sender'.transmitPacket.type # "ACK",
           Sender'.transmitPacket.type = "DATA" => Sender'.transmitPacket.chunk = supplied',
           \/ supplied' = supplied
           \/ /\ supplied' = supplied + 1
              /\ \/ supplied = 0
                 \/ CR!Queued(Sender).type = "ACK" /\ CR!Queued(Sender).chunk = supplied,
           \/ CR!Queued(Sender').type # "ACK"
           \/ /\ supplied' = supplied
              /\ \E d \in net : /\ CR!Queued(Sender') = d.packet /\ d.to = SenderName
                                /\ \A e \in net' : e \in net /\ ~CR!Older(e, d)
    PROVE  InTurn'
<1> DEFINE p == CR!Queued(Receiver)
           q == CR!Queued(Sender)
           n == Len(received)
           r == CR!Queued(Sender')
<1>1. /\ supplied \in Nat /\ n \in Nat /\ n <= supplied /\ supplied <= n + 1
      /\ supplied' \in Nat /\ n <= supplied' /\ supplied' <= n + 1
  BY DEF Safe, Numbers, LockStep
<1>2. supplied <= supplied'
  BY <1>1
<1>3. /\ SenderName' = SenderName /\ ReceiverName' = ReceiverName /\ p' = p /\ q' = r /\ n' = n
      /\ SenderName # ReceiverName
  BY DEF SenderName, ReceiverName
<1>4. \A d \in net : d.packet.chunk \in Nat
  BY DEF Safe, DatagramOf, Good, Packet
<1>5. p.chunk \in Nat /\ (p.type = "DATA" => p.chunk <= supplied /\ n <= p.chunk)
  BY QueuedIsGood DEF Good, Packet, InTurn
<1>6. ASSUME NEW d \in net, d.packet.type = "ACK", d.to = SenderName
      PROVE  supplied' <= d.packet.chunk + 1
  <2>1. supplied <= d.packet.chunk + 1 /\ (q.type = "ACK" => q.chunk <= d.packet.chunk)
    BY <1>6 DEF InTurn
  <2>2. d.packet.chunk \in Nat
    BY <1>4
  <2>3. supplied' = supplied \/ supplied' = 1 \/ (q.type = "ACK" /\ supplied' = q.chunk + 1)
    BY <1>1
  <2> HIDE DEF q, n
  <2>4. ASSUME q.type = "ACK", supplied' = q.chunk + 1
        PROVE  supplied' <= d.packet.chunk + 1
    <3>1. q.chunk \in Nat
      BY QueuedIsGood DEF Good, Packet, q
    <3> QED BY <2>1, <2>2, <2>4, <3>1
  <2> QED BY <1>1, <2>1, <2>2, <2>3, <2>4
<1>7. r.type = "ACK" => supplied' <= r.chunk + 1
  BY <1>6
<1>8. ASSUME NEW d \in net', d.packet.type = "ACK"
      PROVE  /\ d.from = ReceiverName
             /\ d.to = SenderName => /\ supplied' <= d.packet.chunk + 1
                                     /\ r.type = "ACK" => r.chunk <= d.packet.chunk
  <2>1. d \in net /\ d.from = ReceiverName
    BY <1>8 DEF InTurn
  <2>2. d.to = SenderName => supplied' <= d.packet.chunk + 1
    BY <1>6, <1>8, <2>1
  <2>3. ASSUME d.to = SenderName, r.type = "ACK"
        PROVE  r.chunk <= d.packet.chunk
    <3>1. PICK e \in net : r = e.packet /\ e.to = SenderName /\ ~CR!Older(d, e)
      BY <1>8, <2>3
    <3>2. e.from = ReceiverName
      BY <2>3, <3>1 DEF InTurn
    <3> QED BY <1>4, <1>8, <2>1, <2>3, <3>1, <3>2 DEF CR!Older, CR!Rank
  <2> QED BY <2>1, <2>2, <2>3
<1>9. ASSUME NEW d \in net', d.packet.type = "DATA"
      PROVE  /\ d.from = SenderName
             /\ d.to = ReceiverName => /\ n <= d.packet.chunk
                                       /\ p.type = "DATA" => p.chunk <= d.packet.chunk
  <2>1. CASE d \in net
    BY <1>9, <2>1 DEF InTurn
  <2>2. CASE d.from = SenderName /\ d.packet = Sender'.transmitPacket
    <3>1. d.packet.chunk = supplied'
      BY <1>9, <2>2
    <3> HIDE DEF p, n
    <3> QED BY <1>1, <1>2, <1>5, <2>2, <3>1
  <2> QED BY <1>9, <2>1, <2>2
<1>10. /\ Receiver'.out = {} /\ Receiver'.transmitPacket.type # "DATA"
       /\ Receiver'.transmitPacket.type = "ACK" => Receiver'.transmitPacket.chunk = n
  BY DEF InTurn
<1> HIDE DEF p, q, n, r
<1> QED BY <1>3, <1>5, <1>7, <1>8, <1>9, <1>10 DEF InTurn, p, q, n, r

(* The four operations agree on the queue, and on which datagram is older. *)
LEMMA SharedQueue ==
    /\ \A b : /\ SR!Queued(b) = CR!Queued(b) /\ CW!Queued(b) = CR!Queued(b)
              /\ SW!Queued(b) = CR!Queued(b)
    /\ \A d, e : /\ SR!Older(d, e) = CR!Older(d, e) /\ CW!Older(d, e) = CR!Older(d, e)
                 /\ SW!Older(d, e) = CR!Older(d, e)
    /\ SR!NoPacket = CR!NoPacket /\ CW!NoPacket = CR!NoPacket /\ SW!NoPacket = CR!NoPacket
    /\ CR!NoPacket.type = "INVALID"
<1>1. SR!NoPacket = CR!NoPacket /\ CW!NoPacket = CR!NoPacket /\ SW!NoPacket = CR!NoPacket
  BY DEF CR!NoPacket, SR!NoPacket, CW!NoPacket, SW!NoPacket,
         CR!InvalidPacket, SR!InvalidPacket, CW!InvalidPacket, SW!InvalidPacket
<1>2. CR!NoPacket.type = "INVALID"
  BY DEF CR!NoPacket, CR!InvalidPacket
<1> QED
  BY <1>1, <1>2
  DEF CR!Queued, SR!Queued, CW!Queued, SW!Queued, CR!Older, SR!Older, CW!Older, SW!Older,
      CR!Rank, SR!Rank, CW!Rank, SW!Rank

(* Nothing is out of turn before the transfer starts. *)
LEMMA InTurnInit == Distinguishable /\ Init => InTurn
<1> SUFFICES ASSUME Distinguishable, Init PROVE InTurn
  OBVIOUS
<1>1. client = CR!InitialClient /\ server = SR!InitialServer /\ net = {}
  BY DEF Init, CR!Init, SR!Init, Distinguishable
<1>2. \A b \in {CR!InitialClient, SR!InitialServer} :
        b.out = {} /\ CR!Queued(b) = CR!NoPacket /\ b.transmitPacket = CR!NoPacket
  BY SharedQueue
  DEF CR!InitialClient, CR!NewBase, SR!InitialServer, SR!NewBase, CR!Queued
<1>3. Sender \in {CR!InitialClient, SR!InitialServer} /\ Receiver \in {CR!InitialClient, SR!InitialServer}
  BY <1>1 DEF Sender, Receiver
<1> QED BY <1>1, <1>2, <1>3, SharedQueue DEF InTurn

(* The client of a read. *)
LEMMA ClientReadTurn ==
    ASSUME ~Overtaking, ~Coincide, TypeOK, CR!Once(client), Unambiguous, Safe, Safe', InTurn,
           ReadAtClient, CR!Step \/ CR!Timer \/ \E options : CR!Request(options)
    PROVE  InTurn'
<1> USE Assumed DEF CR!MaxBlockAssumption, CR!ParametersAssumption
<1>1. /\ kind = "read" /\ kind' = kind /\ Sender' = Sender /\ supplied' = supplied
      /\ Receiver = client /\ Receiver' = client' /\ ReceiverName = "client"
  BY DEF ReadAtClient, senderVars, Sender, Receiver, ReceiverName
<1>2. /\ client.out = {} /\ client.transmitPacket.type # "DATA" /\ client \in CR!Base
      /\ client.transmitPacket.type = "ACK" => client.transmitPacket.chunk = Len(received)
  BY <1>1 DEF InTurn, TypeOK
<1>3. CASE (CR!Passes \/ CR!Objects) /\ received' = received
  <2>1. /\ CR!Spoken /\ CR!Heard
        /\ client'.transmitPacket = client.transmitPacket \/ client'.transmitPacket.type = "ERROR"
    BY <1>2, <1>3, CR!MovesSpeak
  <2> QED BY <1>1, <1>2, <1>3, <2>1, SharedQueue, ReceiverTurn DEF CR!Spoken, CR!Heard
<1>4. ASSUME NEW packet, packet.type = "ACK", packet.chunk = Len(received'),
             CR!RepliesWith(packet), client.ready # <<>>, received' = received \/ CR!NewData
      PROVE  InTurn'
  <2>1. CR!Spoken /\ CR!Heard /\ client'.transmitPacket = packet
    BY <1>2, <1>4, CR!MovesSpeak
  <2>2. CR!Queued(client').type # "ACK" /\ CR!Queued(client').type # "DATA"
    BY <1>4, <2>1, SharedQueue DEF CR!Heard
  <2>3. CASE CR!NewData
    <3>1. /\ CR!Current.packet = CR!Queued(Receiver) /\ CR!Current.packet.type = "DATA"
          /\ CR!Current.packet.block = NextBlock(storedBlock)
          /\ received' = Append(received, CR!Current.packet.chunk)
      BY <1>1, <2>3, SharedPackets
      DEF CR!NewData, CR!PacketReceived, CR!Runs, CR!Current, CR!Queued
    <3>2. CR!Queued(Receiver).chunk = Len(received) + 1
      BY <3>1 DEF Unambiguous
    <3>3. Len(received') = Len(received) + 1
      BY <3>1, CR!AppendedAnything DEF TypeOK
    <3> QED BY <1>1, <1>4, <2>1, <2>2, <3>1, <3>2, <3>3, ReceiverTurn DEF CR!Spoken
  <2>4. CASE received' = received
    BY <1>1, <1>4, <2>1, <2>2, <2>4, ReceiverTurn DEF CR!Spoken
  <2> QED BY <1>4, <2>3, <2>4
<1>5. CASE CR!Step \/ CR!Timer
  <2>1. \A b, c : Ack(b, c).type = "ACK" /\ Ack(b, c).chunk = c
    BY DEF Ack
  <2>2. CR!DuplicateData \/ CR!NewData \/ CR!AcceptedOack => client.ready # <<>>
    BY DEF CR!DuplicateData, CR!NewData, CR!AcceptedOack, CR!PacketReceived, CR!Runs
  <2>3. CR!DuplicateData \/ CR!AcceptedOack => received' = received
    BY DEF CR!DuplicateData, CR!AcceptedOack, CR!members
  <2> QED BY <1>3, <1>4, <1>5, <2>1, <2>2, <2>3, ClientReadSends
<1>6. ASSUME NEW options, CR!Request(options)
      PROVE  InTurn'
  <2>1. PICK opened \in CR!Outcome("open"), ok \in CR!Outcome("send") :
          \/ CR!Perform(CR!Finished(CR!Initialise(client, opened), "CommunicationError"))
          \/ CR!Perform(CR!ReceiveFirst(CR!SendFirst(
               CR!StartDataHandler(CR!Initialise(client, opened)), CR!Rrq(options), ok)))
    BY <1>6 DEF CR!Request
  <2>2. client = CR!InitialClient /\ received' = received
    BY <1>6 DEF CR!Request, CR!members
  <2>3. /\ client'.out = {} /\ client'.transmitPacket \in {CR!NoPacket, CR!Rrq(options)}
        /\ CR!Queued(client') = CR!NoPacket
        /\ \A d \in net' : CR!Said(d)
    BY <2>1, <2>2, CR!RequestTells
  <2>4. CR!Rrq(options).type = "RRQ" /\ CR!Error("UnknownTransferId").type = "ERROR"
    BY DEF CR!Rrq, CR!Error
  <2> QED BY <1>1, <2>2, <2>3, <2>4, SharedQueue, ReceiverTurn DEF CR!Said
<1> QED BY <1>5, <1>6

(* The server of a write. *)
LEMMA ServerWriteTurn ==
    ASSUME ~Overtaking, ~Coincide, TypeOK, CR!Once(server), Unambiguous, Safe, Safe', InTurn,
           WriteAtServer, SW!Step \/ SW!Timer \/ SW!Start("ack")
    PROVE  InTurn'
<1> USE Assumed DEF SW!MaxBlockAssumption, SW!ParametersAssumption
<1>1. /\ kind = "write" /\ kind' = kind /\ Sender' = Sender /\ supplied' = supplied
      /\ Receiver = server /\ Receiver' = server' /\ ReceiverName = "server"
  BY DEF WriteAtServer, senderVars, Sender, Receiver, ReceiverName
<1>2. /\ server.out = {} /\ server.transmitPacket.type # "DATA" /\ server \in SW!Base
      /\ server.transmitPacket.type = "ACK" => server.transmitPacket.chunk = Len(received)
      /\ SW!Once(server)
  BY <1>1, SharedStates DEF InTurn, TypeOK
<1>3. CASE (SW!Passes \/ SW!Objects) /\ received' = received
  <2>1. /\ SW!Spoken /\ SW!Heard
        /\ server'.transmitPacket = server.transmitPacket \/ server'.transmitPacket.type = "ERROR"
    BY <1>2, <1>3, SW!MovesSpeak
  <2> QED BY <1>1, <1>2, <1>3, <2>1, SharedQueue, ReceiverTurn DEF SW!Spoken, SW!Heard
<1>4. ASSUME NEW packet, packet.type = "ACK", packet.chunk = Len(received'),
             SW!RepliesWith(packet), server.ready # <<>>, received' = received \/ SW!NewData
      PROVE  InTurn'
  <2>1. SW!Spoken /\ SW!Heard /\ server'.transmitPacket = packet
    BY <1>2, <1>4, SW!MovesSpeak
  <2>2. CR!Queued(server').type # "DATA"
    BY <1>4, <2>1, SharedQueue DEF SW!Heard
  <2>3. CASE SW!NewData
    <3>1. /\ SW!Current.packet = CR!Queued(Receiver) /\ SW!Current.packet.type = "DATA"
          /\ SW!Current.packet.block = NextBlock(storedBlock)
          /\ received' = Append(received, SW!Current.packet.chunk)
      BY <1>1, <2>3, SharedPackets
      DEF SW!NewData, SW!PacketReceived, SW!Runs, SW!Current, CR!Queued
    <3>2. CR!Queued(Receiver).chunk = Len(received) + 1
      BY <3>1 DEF Unambiguous
    <3>3. Len(received') = Len(received) + 1
      BY <3>1, SW!AppendedAnything DEF TypeOK
    <3> QED BY <1>1, <1>4, <2>1, <2>2, <3>1, <3>2, <3>3, ReceiverTurn DEF SW!Spoken
  <2>4. CASE received' = received
    BY <1>1, <1>4, <2>1, <2>2, <2>4, ReceiverTurn DEF SW!Spoken
  <2> QED BY <1>4, <2>3, <2>4
<1>5. CASE SW!Step \/ SW!Timer
  <2>1. \A b, c : Ack(b, c).type = "ACK" /\ Ack(b, c).chunk = c
    BY DEF Ack
  <2>2. SW!DuplicateData \/ SW!NewData => server.ready # <<>>
    BY DEF SW!DuplicateData, SW!NewData, SW!PacketReceived, SW!Runs
  <2>3. SW!DuplicateData => received' = received
    BY DEF SW!DuplicateData, SW!members
  <2> QED BY <1>3, <1>4, <1>5, <2>1, <2>2, <2>3, ServerWriteSends
<1>6. CASE SW!Start("ack")
  <2>1. PICK opened \in SW!Outcome("open"), ok \in SW!Outcome("send") :
          \/ SW!Perform(SW!Initialise(server, opened))
          \/ SW!Perform(SW!Finished(SW!Initialise(server, opened), "CommunicationError"))
          \/ SW!Perform(SW!Receive(SW!Send(
               SW!StartDataHandler(SW!Initialise(server, opened)), SW!Ack(0, 0), ok)))
    BY <1>6 DEF SW!Start
  <2>2. server = SW!InitialServer /\ received' = received
    BY <1>6 DEF SW!Start, SW!members
  <2>3. /\ server'.out = {} /\ server'.transmitPacket \in {SW!NoPacket, SW!Ack(0, 0)}
        /\ SW!Queued(server') = SW!NoPacket
        /\ \A d \in net' : SW!Said(d)
    BY <2>1, <2>2, SW!StartTells, Zenon
  <2>4. SW!Ack(0, 0).chunk = 0 /\ SW!Error("UnknownTransferId").type = "ERROR"
        /\ SW!Ack(0, 0).type = "ACK"
    BY DEF SW!Ack, SW!Error
  <2>5. Len(received) = 0
    <3>1. server \notin CR!BaseOf(Known)
      BY <2>2, KnownIsStarted
    <3> QED BY <1>1, <3>1 DEF Safe, ServerKnows
  <2> QED BY <1>1, <2>2, <2>3, <2>4, <2>5, SharedQueue, ReceiverTurn DEF SW!Said
<1> QED BY <1>5, <1>6

(* The server of a read. *)
LEMMA ServerReadTurn ==
    ASSUME ~Overtaking, ~Coincide, TypeOK, CR!Once(server), Unambiguous, Safe, Safe', InTurn,
           ReadAtServer, SR!Step \/ SR!Timer \/ \E answer : SR!Start(answer)
    PROVE  InTurn'
<1> USE Assumed DEF SR!MaxBlockAssumption, SR!ParametersAssumption
<1>1. /\ kind = "read" /\ kind' = kind /\ Receiver' = Receiver /\ received' = received
      /\ Sender = server /\ Sender' = server' /\ SenderName = "server"
  BY DEF ReadAtServer, receiverVars, Sender, Receiver, SenderName
<1>2. /\ server.out = {} /\ server.transmitPacket.type # "ACK" /\ server \in SR!Base
      /\ server.transmitPacket.type = "DATA" => server.transmitPacket.chunk = supplied
      /\ SR!Once(server)
  BY <1>1, SharedStates DEF InTurn, TypeOK
<1>3. \A b, c, s : Data(b, c, s).type = "DATA" /\ Data(b, c, s).chunk = c
  BY DEF Data
<1>4. CASE (SR!Passes \/ SR!Objects) /\ supplied' = supplied
  <2>1. /\ SR!Spoken /\ SR!Heard
        /\ server'.transmitPacket = server.transmitPacket \/ server'.transmitPacket.type = "ERROR"
    BY <1>2, <1>4, SR!MovesSpeak
  <2> QED BY <1>1, <1>2, <1>4, <2>1, SharedQueue, SenderTurn DEF SR!Spoken, SR!Heard
<1>5. ASSUME NEW packet, packet.type = "DATA", packet.chunk = supplied',
             SR!RepliesWith(packet), supplied' = supplied + 1, SR!ExpectedAcknowledgement
      PROVE  InTurn'
  <2>1. SR!Spoken /\ SR!Heard /\ server'.transmitPacket = packet
    BY <1>2, <1>5, SR!MovesSpeak
  <2>2. /\ server.ready # <<>> /\ CR!Queued(Sender).type = "ACK"
        /\ CR!Queued(Sender).block = transmittedBlock
    BY <1>1, <1>5
    DEF SR!ExpectedAcknowledgement, SR!PacketReceived, SR!Runs, SR!Current, CR!Queued
  <2>3. CR!Queued(server').type # "ACK"
    BY <2>1, <2>2, SharedQueue DEF SR!Heard
  <2>4. CR!Queued(Sender).chunk = supplied
    BY <2>2 DEF Unambiguous
  <2> QED BY <1>1, <1>5, <2>1, <2>2, <2>3, <2>4, SenderTurn DEF SR!Spoken
<1>6. CASE SR!Step \/ SR!Timer
  BY <1>3, <1>4, <1>5, <1>6, ServerReadSends
<1>7. ASSUME NEW answer, SR!Start(answer)
      PROVE  InTurn'
  <2>1. PICK opened \in SR!Outcome("open"), ok \in SR!Outcome("send") :
          \/ /\ \/ SR!Perform(SR!Initialise(server, opened))
                \/ SR!Perform(SR!Finished(SR!Initialise(server, opened), "CommunicationError"))
             /\ UNCHANGED SR!members
          \/ SR!SendData(SR!StartDataHandler(SR!Initialise(server, opened)), ok)
          \/ /\ SR!Perform(SR!Receive(SR!Send(
                  SR!StartDataHandler(SR!Initialise(server, opened)), SR!Oack("options"), ok)))
             /\ UNCHANGED supplied
          \/ /\ SR!Perform(SR!Reject(SR!StartDataHandler(SR!Initialise(server, opened)),
                                     "TftpOptionRefused", "TransferError", ok))
             /\ UNCHANGED SR!members
    BY <1>7 DEF SR!Start
  <2>2. PICK packet : /\ packet.type # "ACK" /\ (packet.type = "DATA" => packet.chunk = supplied')
                      /\ supplied' = supplied \/ supplied' = supplied + 1
                      /\ LET i == SR!Initialise(server, opened)
                             d == SR!StartDataHandler(i)
                         IN  \/ SR!Perform(i)
                             \/ SR!Perform(SR!Finished(i, "CommunicationError"))
                             \/ SR!Perform(SR!Receive(SR!Send(d, packet, ok)))
                             \/ \E status : SR!Perform(SR!Finished(SR!Send(d, packet, ok), status))
    <3>1. SR!Oack("options").type = "OACK" /\ SR!Error("TftpOptionRefused").type = "ERROR"
      BY DEF SR!Oack, SR!Error
    <3>2. CASE SR!SendData(SR!StartDataHandler(SR!Initialise(server, opened)), ok)
      <4>1. /\ supplied' = supplied + 1
            /\ SR!Perform(SR!Receive(SR!Send(SR!StartDataHandler(SR!Initialise(server, opened)),
                 Data(transmittedBlock', supplied', SR!SizeOf(supplied')), ok)))
        BY <3>2, SharedPackets DEF SR!SendData
      <4> QED BY <1>3, <4>1
    <3>3. SR!members' = SR!members => supplied' = supplied
      BY DEF SR!members
    <3> QED BY <2>1, <3>1, <3>2, <3>3, Zenon DEF SR!Reject
  <2>3. server = SR!InitialServer
    BY <1>7 DEF SR!Start
  <2>4. /\ server'.out = {} /\ server'.transmitPacket \in {SR!NoPacket, packet}
        /\ SR!Queued(server') = SR!NoPacket
        /\ \A d \in net' : SR!Said(d)
    BY <2>2, <2>3, SR!StartTells, Zenon
  <2>5. supplied = 0
    BY <1>1, <2>3, KnownIsStarted DEF Safe, ServerKnows
  <2>6. SR!Error("UnknownTransferId").type = "ERROR"
    BY DEF SR!Error
  <2> QED BY <1>1, <2>2, <2>4, <2>5, <2>6, SharedQueue, SenderTurn DEF SR!Said
<1> QED BY <1>6, <1>7

(* The client of a write, without options. *)
LEMMA ClientWriteTurn ==
    ASSUME ~Overtaking, ~Coincide, TypeOK, CR!Once(client), Unambiguous, Safe, Safe', InTurn,
           WriteAtClient, CW!Step \/ CW!Timer \/ \E options : CW!Request(options)
    PROVE  InTurn'
<1> USE Assumed DEF CW!MaxBlockAssumption, CW!ParametersAssumption
<1>1. /\ kind = "write" /\ kind' = kind /\ Receiver' = Receiver /\ received' = received
      /\ Sender = client /\ Sender' = client' /\ SenderName = "client"
  BY DEF WriteAtClient, receiverVars, Sender, Receiver, SenderName
<1>2. /\ client.out = {} /\ client.transmitPacket.type # "ACK" /\ client \in CW!Base
      /\ client.transmitPacket.type = "DATA" => client.transmitPacket.chunk = supplied
      /\ CW!Once(client)
  BY <1>1, SharedStates DEF InTurn, TypeOK
<1>3. \A b, c, s : Data(b, c, s).type = "DATA" /\ Data(b, c, s).chunk = c
  BY DEF Data
<1>4. CASE (CW!Passes \/ CW!Objects) /\ supplied' = supplied
  <2>1. /\ CW!Spoken /\ CW!Heard
        /\ client'.transmitPacket = client.transmitPacket \/ client'.transmitPacket.type = "ERROR"
    BY <1>2, <1>4, CW!MovesSpeak
  <2> QED BY <1>1, <1>2, <1>4, <2>1, SharedQueue, SenderTurn DEF CW!Spoken, CW!Heard
<1>5. ASSUME NEW packet, packet.type = "DATA", packet.chunk = supplied',
             CW!RepliesWith(packet), supplied' = supplied + 1, CW!ExpectedAcknowledgement
      PROVE  InTurn'
  <2>1. CW!Spoken /\ CW!Heard /\ client'.transmitPacket = packet
    BY <1>2, <1>5, CW!MovesSpeak
  <2>2. /\ client.ready # <<>> /\ CR!Queued(Sender).type = "ACK"
        /\ CR!Queued(Sender).block = transmittedBlock
    BY <1>1, <1>5
    DEF CW!ExpectedAcknowledgement, CW!PacketReceived, CW!Runs, CW!Current, CR!Queued
  <2>3. CR!Queued(client').type # "ACK"
    BY <2>1, <2>2, SharedQueue DEF CW!Heard
  <2>4. CR!Queued(Sender).chunk = supplied
    BY <2>2 DEF Unambiguous
  <2> QED BY <1>1, <1>5, <2>1, <2>2, <2>3, <2>4, SenderTurn DEF CW!Spoken
<1>6. ~CW!AcceptedOack
  <2>1. CW!AcceptedOack => CR!Queued(Sender).type = "OACK"
    BY <1>1 DEF CW!AcceptedOack, CW!PacketReceived, CW!Runs, CW!Current, CR!Queued
  <2> QED BY <1>1, <2>1, QueuedIsGood DEF Good
<1>7. CASE CW!Step \/ CW!Timer
  BY <1>3, <1>4, <1>5, <1>6, <1>7, ClientWriteSends
<1>8. ASSUME NEW options, CW!Request(options)
      PROVE  InTurn'
  <2>1. PICK opened \in CW!Outcome("open"), ok \in CW!Outcome("send") :
          \/ CW!Perform(CW!Finished(CW!Initialise(client, opened), "CommunicationError"))
          \/ CW!Perform(CW!ReceiveFirst(CW!SendFirst(
               CW!StartDataHandler(CW!Initialise(client, opened)), CW!Wrq(options), ok)))
    BY <1>8 DEF CW!Request
  <2>2. client = CW!InitialClient /\ supplied' = supplied
    BY <1>8 DEF CW!Request, CW!members
  <2>3. /\ client'.out = {} /\ client'.transmitPacket \in {CW!NoPacket, CW!Wrq(options)}
        /\ CW!Queued(client') = CW!NoPacket
        /\ \A d \in net' : CW!Said(d)
    BY <2>1, <2>2, CW!RequestTells
  <2>4. CW!Wrq(options).type = "WRQ" /\ CW!Error("UnknownTransferId").type = "ERROR"
    BY DEF CW!Wrq, CW!Error
  <2> QED BY <1>1, <2>2, <2>3, <2>4, SharedQueue, SenderTurn DEF CW!Said
<1> QED BY <1>7, <1>8

(* The error that answers a refused request is not of the transfer. *)
LEMMA OtherTurn ==
    ASSUME Safe, Safe', InTurn, Refuse \/ UNCHANGED vars
    PROVE  InTurn'
<1>1. /\ UNCHANGED <<kind, client, server, supplied, received>>
      /\ \A d \in net' : d \in net \/ d.packet.type = "ERROR"
  BY DEF Refuse, vars, senderVars, receiverVars, SR!NetAfter, Error
<1>2. /\ Sender' = Sender /\ Receiver' = Receiver
      /\ SenderName' = SenderName /\ ReceiverName' = ReceiverName
  BY <1>1 DEF Sender, Receiver, SenderName, ReceiverName
<1> QED BY <1>1, <1>2 DEF InTurn

(* Each step keeps the packets in their turn. *)
LEMMA InTurnNext ==
    ASSUME Distinguishable, ~Overtaking, ~Coincide, TypeOK, CR!Once(client), CR!Once(server),
           Unambiguous, Safe, Safe', InTurn, [Next]_vars
    PROVE  InTurn'
<1>1. CASE Request \/ ClientStep \/ ClientTimer
  <2>1. \/ ReadAtClient /\ (CR!Step \/ CR!Timer \/ \E options : CR!Request(options))
        \/ WriteAtClient /\ (CW!Step \/ CW!Timer \/ \E options : CW!Request(options))
    BY <1>1 DEF Request, ClientStep, ClientTimer
  <2> QED BY <2>1, ClientReadTurn, ClientWriteTurn
<1>2. CASE ServerStep \/ ServerTimer
  BY <1>2, ServerReadTurn, ServerWriteTurn DEF ServerStep, ServerTimer
<1>3. CASE Serve
  <2>1. \/ ReadAtServer /\ \E answer : SR!Start(answer)
        \/ WriteAtServer /\ SW!Start("ack")
    BY <1>3, PlainWritesServed
  <2> QED BY <2>1, ServerReadTurn, ServerWriteTurn
<1>4. CASE Refuse \/ UNCHANGED vars
  BY <1>4, OtherTurn
<1> QED BY <1>1, <1>2, <1>3, <1>4 DEF Next

-----------------------------------------------------------------------------
(* What both sides know is true at any time. *)
LEMMA AlwaysSafe == Distinguishable => (Spec => []Safe)
<1> SUFFICES ASSUME Distinguishable PROVE Spec => []Safe
  OBVIOUS
<1>1. Init => Safe
  BY SafeInit
<1>2. CASE LastChunk < MaxBlock
  <2>1. ASSUME Safe, [Next]_vars
        PROVE  Safe'
    BY <1>2, <2>1, UnambiguousNumbers, SafeNext
  <2> QED BY <1>1, <2>1, PTL DEF Spec
<1>3. CASE ~Overtaking /\ ~Coincide
  <2>1. Init => InTurn
    BY InTurnInit
  <2>2. ASSUME TypeOK, CR!Once(client) /\ CR!Once(server), Safe /\ InTurn, [Next]_vars
        PROVE  (Safe /\ InTurn)'
    <3>1. Unambiguous
      BY <2>2, UnambiguousInTurn
    <3>2. Safe'
      BY <2>2, <3>1, SafeNext
    <3> QED BY <1>3, <2>2, <3>1, <3>2, InTurnNext
  <2>3. Spec => [](CR!Once(client) /\ CR!Once(server))
    BY <1>3, AlwaysOnce
  <2> QED BY <1>1, <2>1, <2>2, <2>3, TypeCorrect, PTL DEF Spec
<1> QED BY <1>2, <1>3 DEF Distinguishable

(* dataPacket(): what the receiver has stored is the beginning of the file, whatever the *)
(* network, the faults, the users and the order of the completions.                      *)
THEOREM StoredIsPrefix == Distinguishable => (Spec => []ReceivedIsPrefix)
<1>1. Safe => ReceivedIsPrefix
  BY DEF Safe, Numbers
<1> QED BY <1>1, AlwaysSafe, PTL

(* dataPacket(), acknowledgementPacket(): the sender is at most one chunk ahead. *)
THEOREM InLockStep == Distinguishable => (Spec => []LockStep)
<1>1. Safe => LockStep
  BY DEF Safe, Numbers
<1> QED BY <1>1, AlwaysSafe, PTL

(* Success of either operation tells that the file is complete. *)
LEMMA SuccessIsComplete ==
    ASSUME Safe, client.status = "Successful" \/ server.status = "Successful"
    PROVE  Complete
<1>1. CR!InitialClient.status = "none" /\ SR!InitialServer.status = "none"
  BY DEF CR!InitialClient, CR!NewBase, SR!InitialServer, SR!NewBase
<1>2. SR!Idle.status = "none"
  BY Assumed, SR!IdleServer
     DEF SR!MaxBlockAssumption, SR!ParametersAssumption
<1>3. client \in CR!BaseOf(Known) \/ client.status = "none"
  BY <1>1 DEF Safe, ClientKnows
<1>4. server \in CR!BaseOf(Known) \/ server.status = "none"
  BY <1>1, <1>2 DEF Safe, ServerKnows
<1>5. \A b \in CR!BaseOf(Known) : b.status = "Successful" => Complete
  BY KnownAllows DEF CR!BaseOf
<1> QED BY <1>3, <1>4, <1>5

(* timeoutDallyHandler() and the end of dataPacket(): a receiver that reports success has *)
(* stored the whole file.                                                                *)
THEOREM ReceiverSuccess == Distinguishable => (Spec => []ReceiverSuccessIsComplete)
<1>1. Safe => ReceiverSuccessIsComplete
  BY SuccessIsComplete DEF ReceiverSuccessIsComplete, Receiver
<1> QED BY <1>1, AlwaysSafe, PTL

(* acknowledgementPacket(): a sender that reports success has sent a file of which the *)
(* receiver has stored all chunks.                                                     *)
THEOREM SenderSuccess == Distinguishable => (Spec => []SenderSuccessIsDelivered)
<1>1. Safe => SenderSuccessIsDelivered
  BY SuccessIsComplete DEF SenderSuccessIsDelivered, Sender
<1> QED BY <1>1, AlwaysSafe, PTL

-----------------------------------------------------------------------------
(***************************************************************************)
(* The operations, where they report once, implement FileTransfer.         *)
(***************************************************************************)

(* A step of FileTransfer, from what a step of Transfer does to the chunks stored and to *)
(* the two statuses: one of them changes at most, and the one of the receiver only with, *)
(* or after, the chunks.                                                                 *)
LEMMA AbstractStep ==
    ASSUME Len(received) \in 0 .. LastChunk, (Len(received) \in 0 .. LastChunk)',
           \/ Len(received') = Len(received)
           \/ Len(received') = Len(received) + 1 /\ Receiver.status = "none",
           CR!KeepsStatus(Sender, Sender'), CR!KeepsStatus(Receiver, Receiver'),
           \/ Sender'.status = Sender.status
           \/ Receiver'.status = Receiver.status /\ Len(received') = Len(received),
           (Sender.status = "Successful" => Complete)',
           (Receiver.status = "Successful" => Complete)'
    PROVE  [FT!Next]_(FT!vars)
<1>1. /\ LastChunk \in Nat /\ Len(received) \in Nat /\ Len(received') \in Nat
      /\ Len(received') <= LastChunk
  BY ParametersAssumption
<1>2. \A s : /\ OutcomeOf(s) = "none" <=> s = "none"
             /\ OutcomeOf(s) = "success" <=> s = "Successful"
             /\ OutcomeOf(s) \in {"none", "success", "failure"}
  BY DEF OutcomeOf
<1> DEFINE s == OutcomeOf(Sender.status)
           r == OutcomeOf(Receiver.status)
<1>3. /\ s # "none" => s' = s
      /\ r # "none" => r' = r
      /\ s' = s \/ (r' = r /\ Len(received') = Len(received))
      /\ Len(received') = Len(received) \/ (Len(received') = Len(received) + 1 /\ r = "none")
      /\ s' = "success" => Len(received') = LastChunk
      /\ r' = "success" => Len(received') = LastChunk
      /\ s' \in {"none", "success", "failure"} /\ r' \in {"none", "success", "failure"}
  BY <1>2 DEF CR!KeepsStatus, Complete
<1> HIDE DEF s, r
<1> USE DEF FT!Next, FT!vars
<1>4. CASE Len(received') = Len(received) + 1
  <2>1. s' = s /\ r = "none" /\ Len(received) < LastChunk
    BY <1>1, <1>3, <1>4
  <2>2. CASE r' = "none"
    BY <1>1, <1>4, <2>1, <2>2 DEF FT!Deliver, s, r
  <2>3. CASE r' = "success"
    BY <1>1, <1>3, <1>4, <2>1, <2>3 DEF FT!DeliverLast, s, r
  <2>4. CASE r' = "failure"
    BY <1>1, <1>4, <2>1, <2>4 DEF FT!DeliverAndFail, s, r
  <2> QED BY <1>3, <2>2, <2>3, <2>4
<1>5. CASE Len(received') = Len(received)
  <2>1. CASE s' = s /\ r' = r
    BY <1>5, <2>1 DEF s, r
  <2>2. CASE s' = s /\ r' # r
    <3>1. r = "none" /\ r' \in {"success", "failure"}
      BY <1>3, <2>2
    <3> QED
      BY <1>3, <1>5, <2>2, <3>1 DEF FT!ReceiverSucceeds, FT!ReceiverFails, s, r
  <2>3. CASE s' # s
    <3>1. s = "none" /\ s' \in {"success", "failure"} /\ r' = r
      BY <1>3, <2>3
    <3> QED
      BY <1>3, <1>5, <2>3, <3>1 DEF FT!SenderSucceeds, FT!SenderFails, s, r
  <2> QED BY <2>1, <2>2, <2>3
<1> QED BY <1>1, <1>3, <1>4, <1>5

(* dataPacket() of a client: a packet is only stored by an operation that has not reported. *)
LEMMA ClientStores ==
    ASSUME TypeOK, CR!Once(client), ReadAtClient,
           CR!Step \/ CR!Timer \/ \E options : CR!Request(options)
    PROVE  \/ received' = received
           \/ Len(received') = Len(received) + 1 /\ client.status = "none"
<1> USE Assumed DEF CR!MaxBlockAssumption, CR!ParametersAssumption
<1>1. received' = received \/ CR!NewData
  BY DEF CR!Request, CR!Timer, CR!Step, CR!members, CR!DuplicateData, CR!RefusedData,
         CR!WrongData, CR!AcknowledgementReceived, CR!MisplacedOack, CR!RefusedOack,
         CR!AcceptedOack
<1>2. CASE CR!NewData
  <2>1. CR!PacketReceived({"DATA"}) /\ received' = Append(received, CR!Current.packet.chunk)
    BY <1>2 DEF CR!NewData
  <2>2. received \in Seq(Nat)
    BY DEF TypeOK
  <2>3. Len(received') = Len(received) + 1
    BY <2>1, <2>2, CR!AppendedAnything
  <2>4. client.socket # "closed"
    BY <2>1 DEF CR!PacketReceived, CR!Runs, CR!Current, CR!Once, CR!Timeouts
  <2> QED BY <2>3, <2>4 DEF CR!Once
<1> QED BY <1>1, <1>2

(* ... of a server *)
LEMMA ServerStores ==
    ASSUME TypeOK, CR!Once(server), WriteAtServer,
           SW!Step \/ SW!Timer \/ \E answer : SW!Start(answer)
    PROVE  \/ received' = received
           \/ Len(received') = Len(received) + 1 /\ server.status = "none"
<1> USE Assumed DEF SW!MaxBlockAssumption, SW!ParametersAssumption
<1>1. received' = received \/ SW!NewData
  BY DEF SW!Start, SW!Timer, SW!Step, SW!members, SW!DuplicateData, SW!WrongData,
         SW!AcknowledgementReceived
<1>2. CASE SW!NewData
  <2>1. SW!PacketReceived({"DATA"}) /\ received' = Append(received, SW!Current.packet.chunk)
    BY <1>2 DEF SW!NewData
  <2>2. received \in Seq(Nat)
    BY DEF TypeOK
  <2>3. Len(received') = Len(received) + 1
    BY <2>1, <2>2, SW!AppendedAnything
  <2>4. server.socket # "closed"
    BY <2>1 DEF SW!PacketReceived
  <2> QED BY <2>3, <2>4 DEF CR!Once
<1> QED BY <1>1, <1>2

(* What the safety theorems tell the refinement. *)
Promised ==
    /\ Len(received) \in 0 .. LastChunk
    /\ ReceiverSuccessIsComplete /\ SenderSuccessIsDelivered

(* Each step implements one of FileTransfer, or none. *)
LEMMA RefinedStep ==
    ASSUME ~Coincide, TypeOK, CR!Once(client), CR!Once(server), Promised, Promised',
           [Next]_vars
    PROVE  [FT!Next]_(FT!vars)
<1>1. kind \in Kinds /\ kind' = kind
  BY ClientSteps, ServeStarts, ServerSteps, OtherSteps DEF TypeOK, Next
<1>2. CR!KeepsStatus(Sender, Sender') /\ CR!KeepsStatus(Receiver, Receiver')
  BY <1>1, StatusesKept DEF Sender, Receiver
<1>3. /\ \/ received' = received
         \/ Len(received') = Len(received) + 1 /\ Receiver.status = "none"
      /\ \/ Sender' = Sender
         \/ Receiver' = Receiver /\ received' = received
  <2>1. CASE Request \/ ClientStep \/ ClientTimer
    <3>1. server' = server
      BY <2>1, ClientSteps
    <3>2. \/ ReadAtClient /\ (CR!Step \/ CR!Timer \/ \E options : CR!Request(options))
          \/ WriteAtClient
      BY <2>1 DEF Request, ClientStep, ClientTimer
    <3>3. CASE ReadAtClient /\ (CR!Step \/ CR!Timer \/ \E options : CR!Request(options))
      BY <1>1, <3>1, <3>3, ClientStores DEF ReadAtClient, Sender, Receiver
    <3>4. CASE WriteAtClient
      BY <1>1, <3>1, <3>4 DEF WriteAtClient, receiverVars, Sender, Receiver
    <3> QED BY <3>2, <3>3, <3>4
  <2>2. CASE Serve \/ ServerStep \/ ServerTimer
    <3>1. client' = client
      BY <2>2, ServeStarts, ServerSteps
    <3>2. \/ WriteAtServer /\ (SW!Step \/ SW!Timer \/ \E answer : SW!Start(answer))
          \/ ReadAtServer
      BY <2>2 DEF Serve, ServerStep, ServerTimer
    <3>3. CASE WriteAtServer /\ (SW!Step \/ SW!Timer \/ \E answer : SW!Start(answer))
      BY <1>1, <3>1, <3>3, ServerStores DEF WriteAtServer, Sender, Receiver
    <3>4. CASE ReadAtServer
      BY <1>1, <3>1, <3>4 DEF ReadAtServer, receiverVars, Sender, Receiver
    <3> QED BY <3>2, <3>3, <3>4
  <2>3. CASE Refuse \/ UNCHANGED vars
    BY <1>1, <2>3, OtherSteps DEF Refuse, vars, receiverVars, Sender, Receiver
  <2> QED BY <2>1, <2>2, <2>3 DEF Next
<1>4. /\ Len(received) \in 0 .. LastChunk /\ (Len(received) \in 0 .. LastChunk)'
      /\ (Sender.status = "Successful" => Complete)'
      /\ (Receiver.status = "Successful" => Complete)'
  BY DEF Promised, ReceiverSuccessIsComplete, SenderSuccessIsDelivered
<1> QED BY <1>2, <1>3, <1>4, AbstractStep

(* What the two users of a transfer see is one of FileTransfer: the chunks of the file one *)
(* after the other, one outcome of each side, and success only of a complete file.         *)
THEOREM TransferImplementsFileTransfer ==
    Distinguishable /\ ~Coincide => (Spec => ImplementsFileTransfer)
<1> SUFFICES ASSUME Distinguishable, ~Coincide
             PROVE  Spec => ImplementsFileTransfer
  OBVIOUS
<1>1. Init => FT!Init
  <2> SUFFICES ASSUME Init PROVE FT!Init
    OBVIOUS
  <2>1. client.status = "none" /\ server.status = "none" /\ received = <<>>
    BY ConstructedStates DEF Init, CR!Init, SR!Init
  <2> QED BY <2>1 DEF FT!Init, Sender, Receiver, OutcomeOf
<1>2. Safe => Promised
  <2>1. Safe => Len(received) \in 0 .. LastChunk
    BY SafeMeans
  <2> QED
    BY <2>1, SuccessIsComplete
    DEF Promised, ReceiverSuccessIsComplete, SenderSuccessIsDelivered, Sender, Receiver
<1>3. Spec => []Promised
  BY <1>2, AlwaysSafe, PTL
<1>4. Spec => [](CR!Once(client) /\ CR!Once(server))
  BY AlwaysOnce
<1>5. ASSUME TypeOK, CR!Once(client) /\ CR!Once(server), Promised, Promised', [Next]_vars
      PROVE  [FT!Next]_(FT!vars)
  BY <1>5, RefinedStep
<1> QED BY <1>1, <1>3, <1>4, <1>5, TypeCorrect, PTL DEF Spec, ImplementsFileTransfer, FT!Spec

-----------------------------------------------------------------------------
(***************************************************************************)
(* The two sides understand each other, in a network that keeps the order, *)
(* where nothing fails, nobody aborts and no option is refused: neither    *)
(* takes a packet of the other one for a violation of the protocol, and    *)
(* they agree on the outcome.                                              *)
(***************************************************************************)
Peaceful ==
    /\ Distinguishable /\ ~Overtaking /\ ~Coincide
    /\ Faults = {} /\ Aborters = {} /\ FALSE \notin Verdicts

(* What a client may ask with, and what either side may say to the other one. *)
Requested == {p \in Packet : p.type = IF kind = "read" THEN "RRQ" ELSE "WRQ"}

Speech(name) ==
    {p \in Packet : IF name = ReceiverName THEN p.type = "ACK"
                    ELSE p.type = "DATA" \/ (kind = "read" /\ p = Oack("options"))}

ClientManners ==
    [peer |-> "server", asks |-> Requested, says |-> Speech("client"), hears |-> Speech("server")]

ServerManners ==
    [peer |-> "client", asks |-> {}, says |-> Speech("server"), hears |-> Speech("client")]

(* The datagrams of such a transfer, and the error that answers the request. *)
Expected(d) ==
    \/ CR!Proper(d, ClientManners) \/ SR!Proper(d, ServerManners)
    \/ d.from = "errorSocket" /\ d.to = "client" /\ d.packet.type = "ERROR"

(* Both sides keep their manners; options come before data; and a receiver that has the *)
(* file only waits for repetitions.                                                     *)
Calm ==
    /\ \A d \in net : Expected(d)
    /\ CR!Polite(client, ClientManners) /\ CR!Polite(server, ServerManners)
    /\ (\E d \in net : d.packet.type = "OACK") =>
          received = <<>> /\ CR!Queued(Receiver).type # "DATA"
    /\ CR!Queued(Receiver).type = "OACK" => received = <<>>
    /\ Sender.transmitPacket.type # "DATA" => supplied = 0
    /\ Sender.socket # "closed" =>
          acknowledgedBlock = IF supplied = 0 THEN MaxBlock ELSE BlockOf(supplied - 1)
    /\ kind = "read" /\ server.transmitPacket.type = "INVALID" => acknowledgedBlock = 0
    /\ Complete => CR!Dallying(Receiver)

Settled ==
    /\ TypeOK /\ Safe /\ InTurn /\ Calm
    /\ CR!Once(client) /\ CR!Once(server) /\ CR!Sound(client) /\ CR!Sound(server)

(* The four operations agree on the manners of an operation. *)
LEMMA SharedManners ==
    /\ \A b, t : /\ SR!Polite(b, t) = CR!Polite(b, t) /\ CW!Polite(b, t) = CR!Polite(b, t)
                 /\ SW!Polite(b, t) = CR!Polite(b, t)
    /\ \A b : /\ SR!Dallying(b) = CR!Dallying(b) /\ CW!Dallying(b) = CR!Dallying(b)
              /\ SW!Dallying(b) = CR!Dallying(b)
    /\ \A t : /\ SR!Mannerly(t) = CR!Mannerly(t) /\ CW!Mannerly(t) = CR!Mannerly(t)
              /\ SW!Mannerly(t) = CR!Mannerly(t)
    /\ \A d, t : /\ SR!Welcome(d, t) = CR!Welcome(d, t) /\ CW!Welcome(d, t) = CR!Welcome(d, t)
                 /\ SW!Welcome(d, t) = CR!Welcome(d, t)
                 /\ CW!Proper(d, t) = CR!Proper(d, t) /\ SW!Proper(d, t) = SR!Proper(d, t)
<1>1. \A b, t : /\ SR!Polite(b, t) = CR!Polite(b, t) /\ CW!Polite(b, t) = CR!Polite(b, t)
                /\ SW!Polite(b, t) = CR!Polite(b, t)
  BY DEF CR!Polite, SR!Polite, CW!Polite, SW!Polite
<1>2. \A b : /\ SR!Dallying(b) = CR!Dallying(b) /\ CW!Dallying(b) = CR!Dallying(b)
             /\ SW!Dallying(b) = CR!Dallying(b)
  BY DEF CR!Dallying, SR!Dallying, CW!Dallying, SW!Dallying
<1>3. \A t : /\ SR!Mannerly(t) = CR!Mannerly(t) /\ CW!Mannerly(t) = CR!Mannerly(t)
             /\ SW!Mannerly(t) = CR!Mannerly(t)
  BY DEF CR!Mannerly, SR!Mannerly, CW!Mannerly, SW!Mannerly
<1>4. \A d, t : /\ SR!Welcome(d, t) = CR!Welcome(d, t) /\ CW!Welcome(d, t) = CR!Welcome(d, t)
                /\ SW!Welcome(d, t) = CR!Welcome(d, t)
                /\ CW!Proper(d, t) = CR!Proper(d, t) /\ SW!Proper(d, t) = SR!Proper(d, t)
  BY DEF CR!Welcome, SR!Welcome, CW!Welcome, SW!Welcome, CR!Proper, SR!Proper, CW!Proper, SW!Proper
<1> QED BY <1>1, <1>2, <1>3, <1>4

(* The manners are such, and nobody is sent anything that is not welcome. *)
LEMMA MannersHold ==
    ASSUME Settled
    PROVE  /\ CR!Mannerly(ClientManners) /\ CR!Mannerly(ServerManners)
           /\ \A p \in ServerManners.hears : p.type # "OACK"
           /\ \A d \in net : /\ d.to = "client" => CR!Welcome(d, ClientManners)
                             /\ d.to = "server" => CR!Welcome(d, ServerManners)
           /\ client \in CR!Base /\ client.out = {} /\ server \in CR!Base /\ server.out = {}
<1>1. kind \in {"read", "write"}
  BY DEF Settled, TypeOK, Kinds
<1>2. \A name : \A p \in Speech(name) : p.type \in {"DATA", "ACK", "OACK"}
  BY DEF Speech, Oack
<1>3. \A p \in Speech("client") : p.type # "OACK"
  BY <1>1 DEF Speech, ReceiverName
<1>4. CR!Mannerly(ClientManners) /\ CR!Mannerly(ServerManners)
  BY <1>2 DEF CR!Mannerly, ClientManners, ServerManners, Requested
<1>5. ASSUME NEW d \in net
      PROVE  /\ d.to = "client" => CR!Welcome(d, ClientManners)
             /\ d.to = "server" => CR!Welcome(d, ServerManners)
  <2>1. Expected(d)
    BY DEF Settled, Calm
  <2> QED BY <2>1 DEF Expected, CR!Proper, SR!Proper, CR!Welcome, ClientManners, ServerManners
<1>6. client \in CR!Base /\ client.out = {} /\ server \in CR!Base /\ server.out = {}
  BY DEF Settled, TypeOK, InTurn, Sender, Receiver
<1> QED BY <1>3, <1>4, <1>5, <1>6 DEF ServerManners

(* A packet that the receiver finds in its queue is the last one that it has stored, or *)
(* the next one.                                                                        *)
LEMMA ExpectedData ==
    ASSUME Settled, CR!Queued(Receiver).type = "DATA"
    PROVE  LET p == CR!Queued(Receiver)
           IN  /\ p.block \in {storedBlock, NextBlock(storedBlock)} /\ p.arg # "oversized"
               /\ p.block = storedBlock => (p.arg = "short" <=> Complete)
               /\ p.block # storedBlock => (p.arg = "short" <=> Len(received) + 1 = LastChunk)
<1> DEFINE p == CR!Queued(Receiver)
           n == Len(received)
<1>1. /\ supplied \in Nat /\ n \in Nat /\ n <= supplied /\ supplied <= n + 1
      /\ storedBlock = BlockOf(n) /\ LastChunk \in Nat /\ supplied <= LastChunk
  BY SafeMeans DEF Settled, Numbers, LockStep
<1>2. /\ p.chunk \in Nat /\ p.chunk <= supplied /\ p.block = BlockOf(p.chunk)
      /\ p.arg = SR!SizeOf(p.chunk)
  BY QueuedIsGood DEF Settled, Good, Packet
<1>3. n <= p.chunk
  BY DEF Settled, InTurn
<1>4. BlockOf(n + 1) # BlockOf(n) /\ NextBlock(storedBlock) = BlockOf(n + 1)
  BY <1>1, NumberType, NextNumber
<1> HIDE DEF p
<1>5. p.chunk \in {n, n + 1}
  BY <1>1, <1>2, <1>3
<1>6. p.arg \in {"full", "short"} /\ (p.arg = "short" <=> p.chunk = LastChunk)
  BY <1>1, <1>2 DEF SR!SizeOf
<1>7. Complete <=> n = LastChunk
  BY DEF Complete
<1> HIDE DEF n
<1> QED BY <1>1, <1>2, <1>4, <1>5, <1>6, <1>7 DEF p, n

(* An acknowledgement that the sender finds in its queue is the last one that it has seen, *)
(* or the one that it waits for.                                                           *)
LEMMA ExpectedAck ==
    ASSUME Settled, CR!Queued(Sender).type = "ACK", Sender.socket # "closed"
    PROVE  LET q == CR!Queued(Sender)
           IN  /\ q.block \in {acknowledgedBlock, transmittedBlock}
               /\ supplied = 0 => q.block # acknowledgedBlock
<1> DEFINE q == CR!Queued(Sender)
<1>1. /\ supplied \in Nat /\ Len(received) \in Nat /\ Len(received) <= supplied
      /\ transmittedBlock = BlockOf(supplied)
  BY SafeMeans DEF Settled, Numbers
<1>2. /\ q.chunk \in Nat /\ q.chunk <= Len(received) /\ q.block = BlockOf(q.chunk)
      /\ supplied <= q.chunk + 1
  BY QueuedIsGood DEF Settled, Good, Packet, InTurn
<1>3. acknowledgedBlock = IF supplied = 0 THEN MaxBlock ELSE BlockOf(supplied - 1)
  BY DEF Settled, Calm
<1>4. BlockOf(0) = 0 /\ MaxBlock # 0
  BY MaxBlockAssumption DEF BlockOf
<1> HIDE DEF q
<1>5. q.chunk = supplied \/ (supplied # 0 /\ q.chunk = supplied - 1)
  BY <1>1, <1>2
<1> QED BY <1>1, <1>2, <1>3, <1>4, <1>5 DEF q

(* The packet that the sender sends next is one. *)
LEMMA SuppliedType ==
    ASSUME Safe'
    PROVE  Data(transmittedBlock', supplied', SR!SizeOf(supplied')) \in Packet
<1>1. transmittedBlock' = BlockOf(supplied') /\ supplied' \in Nat
  BY ParametersAssumption DEF Safe, Numbers
<1>2. transmittedBlock' \in BlockNumbers
  BY <1>1, NumberType
<1>3. SR!SizeOf(supplied') \in Sizes
  BY DEF SR!SizeOf, Sizes
<1> QED BY <1>1, <1>2, <1>3, PacketType

-----------------------------------------------------------------------------
(* The sender of a read: it sends the next chunk for the acknowledgement of the last one, *)
(* and nothing else that is new.                                                          *)
LEMMA ServerReadConverses ==
    ASSUME Peaceful, Settled, Safe', ReadAtServer, SR!Step \/ SR!Timer
    PROVE  /\ SR!Converses(ServerManners)
           /\ \/ /\ SR!Passes /\ supplied' = supplied
                 /\ acknowledgedBlock' = acknowledgedBlock \/ server'.socket = "closed"
              \/ /\ supplied' = supplied + 1 /\ acknowledgedBlock' = transmittedBlock
                 /\ SR!RepliesWith(Data(transmittedBlock', supplied', SR!SizeOf(supplied')))
<1> USE Assumed DEF SR!MaxBlockAssumption, SR!ParametersAssumption
<1>1. /\ kind = "read" /\ Sender = server /\ Faults = {} /\ ~Coincide /\ "server" \notin Aborters
  BY DEF ReadAtServer, Sender, Peaceful
<1>2. PICK t : t = ServerManners
  OBVIOUS
<1>3. /\ server \in SR!Base /\ SR!Once(server) /\ SR!Sound(server) /\ SR!Polite(server, t)
      /\ server.out = {} /\ SR!Mannerly(t) /\ t.asks = {} /\ \A p \in t.hears : p.type = "ACK"
  BY <1>1, <1>2, MannersHold, SharedManners, SharedStates
  DEF Settled, Calm, ServerManners, Speech, ReceiverName
<1>4. ASSUME NEW types, SR!PacketReceived(types)
      PROVE  /\ SR!OfPacket(SR!Popped) /\ SR!Starts(SR!Popped) /\ server.socket = "connected"
             /\ SR!Current.packet \in t.hears
             /\ SR!Current.packet = CR!Queued(Sender) /\ SR!Current.packet.type \in types
  BY <1>1, <1>3, <1>4
  DEF SR!PacketReceived, SR!OfPacket, SR!Starts, SR!Runs, SR!Current, SR!Polite, CR!Queued
<1>5. CASE (SR!BaseStep \/ SR!Timer) /\ UNCHANGED SR!members
  <2>1. CASE SR!BaseStep
    BY <1>1, <1>2, <1>3, <1>5, <2>1, SR!ServerConverses DEF SR!members
  <2>2. CASE SR!Timer
    BY <1>2, <1>5, <2>2, Zenon DEF SR!Timer, SR!Queues, SR!Converses, SR!Passes, SR!members
  <2> QED BY <1>5, <2>1, <2>2
<1>6. ~SR!DataReceived /\ ~SR!WrongAcknowledgement
  <2>1. ~SR!DataReceived
    BY <1>3, <1>4 DEF SR!DataReceived
  <2>2. ~SR!WrongAcknowledgement
    BY <1>1, <1>4, ExpectedAck DEF SR!WrongAcknowledgement
  <2> QED BY <2>1, <2>2
<1>7. CASE SR!DuplicateAcknowledgement
  <2>1. SR!Ignores /\ server.socket = "connected"
    BY <1>4, <1>7, Zenon DEF SR!DuplicateAcknowledgement, SR!Ignores
  <2> QED BY <1>2, <1>7, <2>1, Zenon DEF SR!DuplicateAcknowledgement, SR!Converses, SR!Passes, SR!members
<1>8. CASE SR!ExpectedAcknowledgement
  <2>1. /\ SR!OfPacket(SR!Popped) /\ SR!Starts(SR!Popped) /\ SR!Current.packet \in t.hears
        /\ SR!Current.packet.block = transmittedBlock
        /\ acknowledgedBlock' = SR!Current.packet.block
    BY <1>4, <1>8 DEF SR!ExpectedAcknowledgement
  <2>2. CASE SR!Perform(SR!Finished(SR!Popped, "Successful")) /\ supplied' = supplied
    <3>1. server'.socket = "closed"
      BY <1>1, <1>3, <2>1, <2>2, SR!StartsPolite, SR!FinishedCloses
    <3>2. "Successful" # "TransferError"
      OBVIOUS
    <3>3. SR!Converses(t)
      BY <2>1, <2>2, <3>2, Zenon DEF SR!Converses
    <3>4. SR!Passes
      BY <2>1, <2>2, Zenon DEF SR!Finishes, SR!Passes
    <3> QED BY <1>2, <2>2, <3>1, <3>3, <3>4
  <2>3. ASSUME NEW ok \in SR!Outcome("send"), SR!SendData(SR!Popped, ok)
        PROVE  /\ SR!Converses(t) /\ supplied' = supplied + 1
               /\ SR!RepliesWith(Data(transmittedBlock', supplied', SR!SizeOf(supplied')))
    <3> DEFINE packet == Data(transmittedBlock', supplied', SR!SizeOf(supplied'))
    <3>1. supplied' = supplied + 1 /\ SR!Perform(SR!Receive(SR!Send(SR!Popped, packet, ok)))
      BY <2>3, SharedPackets DEF SR!SendData
    <3>2. packet \in t.says
      <4>1. packet \in Packet /\ packet.type = "DATA"
        BY SuppliedType DEF Data
      <4> QED BY <1>1, <1>2, <4>1 DEF ServerManners, Speech, ReceiverName
    <3> HIDE DEF packet
    <3>3. ok = TRUE
      BY <1>1 DEF SR!Outcome
    <3>4. SR!Converses(t)
      BY <2>1, <3>1, <3>2, <3>3, Zenon DEF SR!Converses
    <3>5. SR!RepliesWith(packet)
      BY <2>1, <3>1, Zenon DEF SR!RepliesWith
    <3> QED BY <3>1, <3>4, <3>5 DEF packet
  <2> QED BY <1>2, <1>8, <2>1, <2>2, <2>3 DEF SR!ExpectedAcknowledgement
<1> QED BY <1>5, <1>6, <1>7, <1>8 DEF SR!Step, SR!Timer

(* The sender of a write, which is the client. *)
LEMMA ClientWriteConverses ==
    ASSUME Peaceful, Settled, Safe', WriteAtClient, CW!Step \/ CW!Timer
    PROVE  /\ CW!Converses(ClientManners)
           /\ \/ /\ CW!Passes /\ supplied' = supplied
                 /\ acknowledgedBlock' = acknowledgedBlock \/ client'.socket = "closed"
              \/ /\ supplied' = supplied + 1 /\ acknowledgedBlock' = transmittedBlock
                 /\ CW!RepliesWith(Data(transmittedBlock', supplied', CW!SizeOf(supplied')))
<1> USE Assumed DEF CW!MaxBlockAssumption, CW!ParametersAssumption
<1>1. /\ kind = "write" /\ Sender = client /\ Faults = {} /\ ~Coincide /\ "client" \notin Aborters
      /\ FALSE \notin Verdicts
  BY DEF WriteAtClient, Sender, Peaceful
<1>2. PICK t : t = ClientManners
  OBVIOUS
<1>3. /\ client \in CW!Base /\ CW!Once(client) /\ CW!Sound(client) /\ CW!Polite(client, t)
      /\ client.out = {} /\ CW!Mannerly(t) /\ \A p \in t.hears : p.type = "ACK"
      /\ \A p \in t.asks : p.type = "WRQ"
  BY <1>1, <1>2, MannersHold, SharedManners, SharedStates
  DEF Settled, Calm, ClientManners, Speech, ReceiverName, Requested
<1>4. ASSUME NEW types, CW!PacketReceived(types), "ERROR" \notin types
      PROVE  /\ CW!OfPacket(CW!Dispatched) /\ CW!Starts(CW!Dispatched)
             /\ client.socket \in {"open", "connected"}
             /\ CW!Current.packet \in t.hears
             /\ CW!Current.packet = CR!Queued(Sender) /\ CW!Current.packet.type \in types
  <2>1. CW!OfPacket(CW!Dispatched) /\ CW!Starts(CW!Dispatched)
    BY <1>4, CW!DispatchedOfPacket
  <2>2. /\ CW!Current.packet = CR!Queued(Sender) /\ CW!Current.packet.type \in types
        /\ client.ready # <<>>
    BY <1>1, <1>4 DEF CW!PacketReceived, CW!Runs, CW!Current, CR!Queued
  <2>3. client.socket \in {"open", "connected"}
    BY <1>3, <1>4, <2>2 DEF CW!PacketReceived, CW!Runs, CW!Sound, CW!Polite
  <2>4. CW!Current.packet \in t.hears
    BY <1>3, <1>4, <2>2 DEF CW!PacketReceived, CW!Runs, CW!Current, CW!Polite
  <2> QED BY <2>1, <2>2, <2>3, <2>4
<1>5. CASE (CW!BaseStep \/ CW!Timer) /\ UNCHANGED CW!members
  <2>1. CASE CW!BaseStep
    BY <1>1, <1>2, <1>3, <1>5, <2>1, CW!ClientConverses DEF CW!members
  <2>2. CASE CW!Timer
    BY <1>2, <1>5, <2>2, Zenon DEF CW!Timer, CW!Queues, CW!Converses, CW!Passes, CW!members
  <2> QED BY <1>5, <2>1, <2>2
<1>6. /\ ~CW!DataReceived /\ ~CW!WrongAcknowledgement /\ ~CW!RefusedAcknowledgement
      /\ ~CW!MisplacedOack /\ ~CW!RefusedOack /\ ~CW!AcceptedOack
  <2>1. ~CW!DataReceived
    BY <1>3, <1>4 DEF CW!DataReceived
  <2>2. ~CW!MisplacedOack /\ ~CW!RefusedOack /\ ~CW!AcceptedOack
    <3>1. ~CW!PacketReceived({"OACK"})
      BY <1>3, <1>4
    <3> QED BY <3>1, Zenon DEF CW!MisplacedOack, CW!RefusedOack, CW!AcceptedOack
  <2>3. ~CW!WrongAcknowledgement
    BY <1>1, <1>4, ExpectedAck DEF CW!WrongAcknowledgement
  <2>4. ~CW!RefusedAcknowledgement
    BY <1>1 DEF CW!RefusedAcknowledgement
  <2> QED BY <2>1, <2>2, <2>3, <2>4
<1>7. CASE CW!DuplicateAcknowledgement
  <2>1. CW!Ignores /\ CW!PacketReceived({"ACK"})
    BY <1>4, <1>7, Zenon DEF CW!DuplicateAcknowledgement, CW!Ignores
  <2>2. client.socket = "connected"
    <3>1. client.socket = "open" => client.transmitPacket.type # "DATA"
      BY <1>3 DEF CW!Polite
    <3>2. client.socket = "open" => supplied = 0
      BY <1>1, <3>1 DEF Settled, Calm
    <3>3. CW!Current.packet = CR!Queued(Sender) /\ CR!Queued(Sender).type = "ACK"
          /\ client.socket \in {"open", "connected"}
      BY <1>4, <2>1
    <3>4. supplied # 0
      BY <1>1, <1>7, <3>3, ExpectedAck DEF CW!DuplicateAcknowledgement
    <3> QED BY <3>2, <3>3, <3>4
  <2> QED BY <1>2, <1>7, <2>1, <2>2, Zenon DEF CW!DuplicateAcknowledgement, CW!Converses, CW!Passes, CW!members
<1>8. CASE CW!ExpectedAcknowledgement
  <2>1. /\ CW!OfPacket(CW!Dispatched) /\ CW!Starts(CW!Dispatched) /\ CW!Current.packet \in t.hears
        /\ CW!Current.packet.block = transmittedBlock
        /\ acknowledgedBlock' = CW!Current.packet.block
    BY <1>4, <1>8 DEF CW!ExpectedAcknowledgement
  <2>2. CASE CW!Perform(CW!Finished(CW!Dispatched, "Successful")) /\ supplied' = supplied
    <3>1. client'.socket = "closed"
      BY <1>1, <1>3, <2>1, <2>2, CW!StartsPolite, CW!FinishedCloses
    <3>2. "Successful" # "TransferError"
      OBVIOUS
    <3>3. CW!Converses(t)
      BY <2>1, <2>2, <3>2, Zenon DEF CW!Converses
    <3>4. CW!Passes
      BY <2>1, <2>2, Zenon DEF CW!Finishes, CW!Passes
    <3> QED BY <1>2, <2>2, <3>1, <3>3, <3>4
  <2>3. ASSUME NEW ok \in CW!Outcome("send"), CW!SendData(CW!Dispatched, ok)
        PROVE  /\ CW!Converses(t) /\ supplied' = supplied + 1
               /\ CW!RepliesWith(Data(transmittedBlock', supplied', CW!SizeOf(supplied')))
    <3> DEFINE packet == Data(transmittedBlock', supplied', CW!SizeOf(supplied'))
    <3>1. supplied' = supplied + 1 /\ CW!Perform(CW!Receive(CW!Send(CW!Dispatched, packet, ok)))
      BY <2>3, SharedPackets DEF CW!SendData
    <3>2. packet \in t.says
      <4>1. packet \in Packet /\ packet.type = "DATA"
        BY SuppliedType DEF Data, CW!SizeOf, SR!SizeOf
      <4> QED BY <1>1, <1>2, <4>1 DEF ClientManners, Speech, ReceiverName
    <3> HIDE DEF packet
    <3>3. ok = TRUE
      BY <1>1 DEF CW!Outcome
    <3>4. CW!Converses(t)
      BY <2>1, <3>1, <3>2, <3>3, Zenon DEF CW!Converses
    <3>5. CW!RepliesWith(packet)
      BY <2>1, <3>1, Zenon DEF CW!RepliesWith
    <3> QED BY <3>1, <3>4, <3>5 DEF packet
  <2> QED BY <1>2, <1>8, <2>1, <2>2, <2>3 DEF CW!ExpectedAcknowledgement
<1> QED BY <1>5, <1>6, <1>7, <1>8 DEF CW!Step, CW!Timer

(* The receiver of a read: it acknowledges the data it takes, and the options before them; *)
(* the last data leaves it successful, or waiting for repetitions.                         *)
LEMMA ClientReadConverses ==
    ASSUME Peaceful, Settled, Safe', ReadAtClient, CR!Step \/ CR!Timer
    PROVE  /\ CR!Converses(ClientManners)
           /\ \/ CR!Passes /\ received' = received
              \/ \E packet : /\ packet.type = "ACK" /\ CR!RepliesWith(packet)
                             /\ \/ received' = received
                                \/ CR!Queued(Receiver).type = "DATA"
           /\ Complete' => CR!Concludes \/ (CR!Queues /\ Complete /\ CR!Dallying(client))
<1> USE Assumed DEF CR!MaxBlockAssumption, CR!ParametersAssumption
<1>1. /\ kind = "read" /\ Receiver = client /\ Faults = {} /\ ~Coincide /\ "client" \notin Aborters
      /\ FALSE \notin Verdicts
  BY DEF ReadAtClient, Receiver, Peaceful
<1>2. PICK t : t = ClientManners
  OBVIOUS
<1>3. /\ client \in CR!Base /\ CR!Once(client) /\ CR!Sound(client) /\ CR!Polite(client, t)
      /\ client.out = {} /\ CR!Mannerly(t)
      /\ \A p \in t.hears : p.type = "DATA" \/ p = Oack("options")
      /\ \A p \in t.asks : p.type = "RRQ"
  BY <1>1, <1>2, MannersHold
  DEF Settled, Calm, ClientManners, Speech, ReceiverName, Requested
<1>4. ASSUME NEW types, CR!PacketReceived(types), "ERROR" \notin types
      PROVE  /\ CR!OfPacket(CR!Dispatched) /\ CR!Current.packet \in t.hears
             /\ CR!Current.packet = CR!Queued(Receiver) /\ CR!Current.packet.type \in types
  <2>1. CR!OfPacket(CR!Dispatched)
    BY <1>4, CR!DispatchedOfPacket
  <2>2. CR!Current.packet = CR!Queued(Receiver) /\ CR!Current.packet.type \in types
    BY <1>1, <1>4 DEF CR!PacketReceived, CR!Runs, CR!Current, CR!Queued
  <2>3. CR!Current.packet \in t.hears
    BY <1>3, <1>4 DEF CR!PacketReceived, CR!Runs, CR!Current, CR!Polite
  <2> QED BY <2>1, <2>2, <2>3
<1>5. Ack(storedBlock', Len(received')) \in t.says /\ Ack(storedBlock', Len(received')).type = "ACK"
  <2>1. Ack(storedBlock', Len(received')) \in Packet
    <3>1. Numbers'
      BY DEF Safe
    <3> QED BY <3>1, AckIsGood DEF Good
  <2> QED BY <1>1, <1>2, <2>1 DEF ClientManners, Speech, ReceiverName, Ack
<1>6. ASSUME NEW size, NEW ok \in CR!Outcome("send"), CR!OfPacket(CR!Dispatched),
             CR!Current.packet \in t.hears,
             CR!Acknowledge(CR!Dispatched, storedBlock', size, ok)
      PROVE  /\ CR!Converses(t) /\ CR!RepliesWith(Ack(storedBlock', Len(received')))
             /\ size = "short" => CR!Concludes
  <2> DEFINE packet == Ack(storedBlock', Len(received'))
  <2>1. ok = TRUE
    BY <1>1 DEF CR!Outcome
  <2>2. \/ CR!Perform(CR!Receive(CR!Send(CR!Dispatched, packet, TRUE))) /\ size # "short"
        \/ CR!Perform(CR!ReceiveDally(CR!Send(CR!Dispatched, packet, TRUE)))
        \/ CR!Perform(CR!Finished(CR!Send(CR!Dispatched, packet, TRUE), "Successful"))
    BY <1>6, <2>1, SharedPackets DEF CR!Acknowledge
  <2>3. packet \in t.says
    BY <1>5
  <2> HIDE DEF packet
  <2>4. CR!Converses(t)
    BY <1>6, <2>2, <2>3, Zenon DEF CR!Converses
  <2>5. CR!RepliesWith(packet)
    BY <1>6, <2>1, <2>2, Zenon DEF CR!RepliesWith
  <2>6. size = "short" => CR!Concludes
    BY <1>6, <2>2, Zenon DEF CR!Concludes
  <2> QED BY <2>4, <2>5, <2>6 DEF packet
<1>7. CASE (CR!BaseStep \/ CR!TimeoutDally \/ CR!Timer) /\ UNCHANGED CR!members
  <2>1. received' = received /\ (Complete' => Complete)
    BY <1>7 DEF CR!members, Complete
  <2>2. Complete => CR!Dallying(client)
    BY <1>1 DEF Settled, Calm
  <2>3. CASE CR!BaseStep \/ CR!TimeoutDally
    <3>1. CR!Converses(t) /\ CR!Passes /\ (CR!Dallying(client) => CR!Queues \/ CR!Concludes)
      BY <1>1, <1>3, <2>3, CR!ClientConverses
    <3> QED BY <1>2, <2>1, <2>2, <3>1
  <2>4. CASE CR!Timer
    <3>1. CR!Queues
      BY <2>4, Zenon DEF CR!Timer, CR!Queues
    <3>2. CR!Converses(t) /\ CR!Passes
      BY <3>1, Zenon DEF CR!Converses, CR!Passes
    <3> QED BY <1>2, <2>1, <2>2, <3>1, <3>2
  <2> QED BY <1>7, <2>3, <2>4
<1>8. /\ ~CR!RefusedData /\ ~CR!WrongData /\ ~CR!AcknowledgementReceived
      /\ ~CR!MisplacedOack /\ ~CR!RefusedOack
  <2>1. ~CR!RefusedData /\ ~CR!RefusedOack
    BY <1>1 DEF CR!RefusedData, CR!RefusedOack
  <2>2. ~CR!AcknowledgementReceived
    BY <1>3, <1>4 DEF CR!AcknowledgementReceived, Oack
  <2>3. ~CR!WrongData
    <3>1. CR!NextBlock(storedBlock) = NextBlock(storedBlock)
      BY SharedPackets
    <3> QED BY <1>4, <3>1, ExpectedData DEF CR!WrongData
  <2>4. ~CR!MisplacedOack
    <3>1. SUFFICES ASSUME CR!PacketReceived({"OACK"})
                   PROVE  storedBlock = 0 /\ CR!Current.packet.arg # "plain"
      BY DEF CR!MisplacedOack
    <3>2. CR!Current.packet = Oack("options") /\ CR!Queued(Receiver).type = "OACK"
      BY <1>3, <1>4, <3>1
    <3>3. received = <<>> /\ storedBlock = BlockOf(0)
      BY <3>2 DEF Settled, Calm, Safe, Numbers
    <3> QED BY <3>2, <3>3 DEF Oack, BlockOf
  <2> QED BY <2>1, <2>2, <2>3, <2>4
<1>9. CASE CR!DuplicateData
  <2>1. PICK ok \in CR!Outcome("send") :
          CR!Acknowledge(CR!Dispatched, storedBlock, CR!Current.packet.arg, ok)
    BY <1>9 DEF CR!DuplicateData
  <2>2. storedBlock' = storedBlock /\ received' = received /\ CR!PacketReceived({"DATA"})
    BY <1>9 DEF CR!DuplicateData, CR!members
  <2>3. CR!OfPacket(CR!Dispatched) /\ CR!Current.packet \in t.hears
    BY <1>4, <2>2
  <2>4. CR!Acknowledge(CR!Dispatched, storedBlock', CR!Current.packet.arg, ok)
    BY <2>1, <2>2
  <2>5. Complete' => CR!Current.packet.arg = "short"
    BY <1>4, <1>9, <2>2, ExpectedData DEF CR!DuplicateData, Complete
  <2> QED BY <1>2, <1>5, <1>6, <2>2, <2>3, <2>4, <2>5
<1>10. CASE CR!NewData
  <2>1. PICK ok \in CR!Outcome("send") :
          CR!Acknowledge(CR!Dispatched, storedBlock', CR!Current.packet.arg, ok)
    BY <1>10 DEF CR!NewData
  <2>2. CR!PacketReceived({"DATA"}) /\ CR!Current.packet.block # storedBlock
        /\ received' = Append(received, CR!Current.packet.chunk)
    BY <1>10 DEF CR!NewData
  <2>3. CR!OfPacket(CR!Dispatched) /\ CR!Current.packet \in t.hears /\ CR!Queued(Receiver).type = "DATA"
    BY <1>4, <2>2
  <2>4. Len(received') = Len(received) + 1
    BY <2>2, CR!AppendedAnything DEF Settled, TypeOK
  <2>5. Complete' => CR!Current.packet.arg = "short"
    BY <1>4, <2>2, <2>4, ExpectedData DEF Complete
  <2> QED BY <1>2, <1>5, <1>6, <2>1, <2>3, <2>5
<1>11. CASE CR!AcceptedOack
  <2>1. CR!PacketReceived({"OACK"}) /\ received' = received /\ storedBlock' = storedBlock
        /\ storedBlock = 0
    BY <1>11 DEF CR!AcceptedOack
  <2>2. PICK ok \in CR!Outcome("send") :
          CR!Perform(CR!Receive(CR!Send(CR!Dispatched, CR!Ack(0, Len(received)), ok)))
    BY <1>11 DEF CR!AcceptedOack
  <2>3. CR!OfPacket(CR!Dispatched) /\ CR!Current.packet \in t.hears
        /\ CR!Queued(Receiver).type = "OACK"
    BY <1>4, <2>1
  <2>4. PICK packet : /\ packet = Ack(storedBlock', Len(received'))
                      /\ packet = CR!Ack(0, Len(received))
    BY <2>1, SharedPackets
  <2>5. packet \in t.says /\ ok = TRUE /\ packet.type = "ACK"
    BY <1>1, <1>5, <2>4 DEF CR!Outcome
  <2>6. CR!Converses(t)
    BY <2>2, <2>3, <2>4, <2>5, Zenon DEF CR!Converses
  <2>7. CR!RepliesWith(packet)
    BY <2>2, <2>3, <2>4, Zenon DEF CR!RepliesWith
  <2>8. ~Complete'
    <3>1. received' = <<>>
      BY <2>1, <2>3 DEF Settled, Calm
    <3> QED BY <3>1, ParametersAssumption DEF Complete
  <2> QED BY <1>2, <2>1, <2>5, <2>6, <2>7, <2>8
<1> QED BY <1>7, <1>8, <1>9, <1>10, <1>11 DEF CR!Step, CR!Timer

(* The receiver of a write, which is the server. *)
LEMMA ServerWriteConverses ==
    ASSUME Peaceful, Settled, Safe', WriteAtServer, SW!Step \/ SW!Timer
    PROVE  /\ SW!Converses(ServerManners)
           /\ \/ SW!Passes /\ received' = received
              \/ \E packet : /\ packet.type = "ACK" /\ SW!RepliesWith(packet)
                             /\ \/ received' = received
                                \/ CR!Queued(Receiver).type = "DATA"
           /\ Complete' => SW!Concludes \/ (SW!Queues /\ Complete /\ SW!Dallying(server))
<1> USE Assumed DEF SW!MaxBlockAssumption, SW!ParametersAssumption
<1>1. /\ kind = "write" /\ Receiver = server /\ Faults = {} /\ ~Coincide /\ "server" \notin Aborters
  BY DEF WriteAtServer, Receiver, Peaceful
<1>2. PICK t : t = ServerManners
  OBVIOUS
<1>3. /\ server \in SW!Base /\ SW!Once(server) /\ SW!Sound(server) /\ SW!Polite(server, t)
      /\ server.out = {} /\ SW!Mannerly(t) /\ t.asks = {}
      /\ \A p \in t.hears : p.type = "DATA"
  BY <1>1, <1>2, MannersHold, SharedManners, SharedStates
  DEF Settled, Calm, ServerManners, Speech, ReceiverName
<1>4. ASSUME NEW types, SW!PacketReceived(types)
      PROVE  /\ SW!OfPacket(SW!Popped) /\ SW!Current.packet \in t.hears
             /\ SW!Current.packet = CR!Queued(Receiver) /\ SW!Current.packet.type \in types
  BY <1>1, <1>3, <1>4
  DEF SW!PacketReceived, SW!OfPacket, SW!Runs, SW!Current, SW!Polite, CR!Queued
<1>5. Ack(storedBlock', Len(received')) \in t.says /\ Ack(storedBlock', Len(received')).type = "ACK"
  <2>1. Ack(storedBlock', Len(received')) \in Packet
    <3>1. Numbers'
      BY DEF Safe
    <3> QED BY <3>1, AckIsGood DEF Good
  <2> QED BY <1>1, <1>2, <2>1 DEF ServerManners, Speech, ReceiverName, Ack
<1>6. ASSUME NEW size, NEW ok \in SW!Outcome("send"), SW!OfPacket(SW!Popped),
             SW!Current.packet \in t.hears,
             SW!Acknowledge(SW!Popped, storedBlock', size, ok)
      PROVE  /\ SW!Converses(t) /\ SW!RepliesWith(Ack(storedBlock', Len(received')))
             /\ size = "short" => SW!Concludes
  <2> DEFINE packet == Ack(storedBlock', Len(received'))
  <2>1. ok = TRUE
    BY <1>1 DEF SW!Outcome
  <2>2. \/ SW!Perform(SW!Receive(SW!Send(SW!Popped, packet, TRUE))) /\ size # "short"
        \/ SW!Perform(SW!ReceiveDally(SW!Send(SW!Popped, packet, TRUE)))
        \/ SW!Perform(SW!Finished(SW!Send(SW!Popped, packet, TRUE), "Successful"))
    BY <1>6, <2>1, SharedPackets DEF SW!Acknowledge
  <2>3. packet \in t.says
    BY <1>5
  <2> HIDE DEF packet
  <2>4. SW!Converses(t)
    BY <1>6, <2>2, <2>3, Zenon DEF SW!Converses
  <2>5. SW!RepliesWith(packet)
    BY <1>6, <2>1, <2>2, Zenon DEF SW!RepliesWith
  <2>6. size = "short" => SW!Concludes
    BY <1>6, <2>2, Zenon DEF SW!Concludes
  <2> QED BY <2>4, <2>5, <2>6 DEF packet
<1>7. CASE (SW!BaseStep \/ SW!TimeoutDally \/ SW!Timer) /\ UNCHANGED SW!members
  <2>1. received' = received /\ (Complete' => Complete)
    BY <1>7 DEF SW!members, Complete
  <2>2. Complete => SW!Dallying(server)
    BY <1>1, SharedManners DEF Settled, Calm
  <2>3. CASE SW!BaseStep \/ SW!TimeoutDally
    <3>1. \A p \in t.hears : p.type # "OACK"
      BY <1>3
    <3>2. SW!Converses(t) /\ SW!Passes /\ (SW!Dallying(server) => SW!Queues \/ SW!Concludes)
      BY <1>1, <1>3, <2>3, <3>1, SW!ServerConverses
    <3> QED BY <1>2, <2>1, <2>2, <3>2
  <2>4. CASE SW!Timer
    <3>1. SW!Queues
      BY <2>4, Zenon DEF SW!Timer, SW!Queues
    <3>2. SW!Converses(t) /\ SW!Passes
      BY <3>1, Zenon DEF SW!Converses, SW!Passes
    <3> QED BY <1>2, <2>1, <2>2, <3>1, <3>2
  <2> QED BY <1>7, <2>3, <2>4
<1>8. ~SW!WrongData /\ ~SW!AcknowledgementReceived
  <2>1. ~SW!AcknowledgementReceived
    BY <1>3, <1>4 DEF SW!AcknowledgementReceived
  <2>2. ~SW!WrongData
    <3>1. SW!NextBlock(storedBlock) = NextBlock(storedBlock)
      BY SharedPackets
    <3> QED BY <1>4, <3>1, ExpectedData DEF SW!WrongData
  <2> QED BY <2>1, <2>2
<1>9. CASE SW!DuplicateData
  <2>1. PICK ok \in SW!Outcome("send") :
          SW!Acknowledge(SW!Popped, storedBlock, SW!Current.packet.arg, ok)
    BY <1>9 DEF SW!DuplicateData
  <2>2. storedBlock' = storedBlock /\ received' = received /\ SW!PacketReceived({"DATA"})
    BY <1>9 DEF SW!DuplicateData, SW!members
  <2>3. SW!OfPacket(SW!Popped) /\ SW!Current.packet \in t.hears
    BY <1>4, <2>2
  <2>4. SW!Acknowledge(SW!Popped, storedBlock', SW!Current.packet.arg, ok)
    BY <2>1, <2>2
  <2>5. Complete' => SW!Current.packet.arg = "short"
    BY <1>4, <1>9, <2>2, ExpectedData DEF SW!DuplicateData, Complete
  <2> QED BY <1>2, <1>5, <1>6, <2>2, <2>3, <2>4, <2>5
<1>10. CASE SW!NewData
  <2>1. PICK ok \in SW!Outcome("send") :
          SW!Acknowledge(SW!Popped, storedBlock', SW!Current.packet.arg, ok)
    BY <1>10 DEF SW!NewData
  <2>2. SW!PacketReceived({"DATA"}) /\ SW!Current.packet.block # storedBlock
        /\ received' = Append(received, SW!Current.packet.chunk)
    BY <1>10 DEF SW!NewData
  <2>3. SW!OfPacket(SW!Popped) /\ SW!Current.packet \in t.hears /\ CR!Queued(Receiver).type = "DATA"
    BY <1>4, <2>2
  <2>4. Len(received') = Len(received) + 1
    BY <2>2, SW!AppendedAnything DEF Settled, TypeOK
  <2>5. Complete' => SW!Current.packet.arg = "short"
    BY <1>4, <2>2, <2>4, ExpectedData DEF Complete
  <2> QED BY <1>2, <1>5, <1>6, <2>1, <2>3, <2>5
<1> QED BY <1>7, <1>8, <1>9, <1>10 DEF SW!Step, SW!Timer

-----------------------------------------------------------------------------
(* A step of the sender leaves the network calm: it offers options before it has supplied *)
(* anything, and data afterwards.                                                         *)
LEMMA SenderCalm ==
    ASSUME Peaceful, Settled, Safe', kind' = kind, Receiver' = Receiver, received' = received,
           supplied <= supplied',
           CR!Polite(client', ClientManners), CR!Polite(server', ServerManners),
           \A d \in net' : \/ d \in net
                           \/ /\ Expected(d)
                              /\ d.packet.type = "ERROR" \/ d.packet = Sender'.transmitPacket,
           Sender'.transmitPacket.type # "DATA" => supplied' = 0,
           Sender'.socket # "closed" =>
              acknowledgedBlock' = IF supplied' = 0 THEN MaxBlock ELSE BlockOf(supplied' - 1),
           kind = "read" /\ server'.transmitPacket.type = "INVALID" => acknowledgedBlock' = 0
    PROVE  Calm'
<1>1. ClientManners' = ClientManners /\ ServerManners' = ServerManners
  BY DEF ClientManners, ServerManners, Requested, Speech, ReceiverName
<1>2. \A d \in net' : Expected(d)
  BY DEF Settled, Calm
<1>3. \A d \in net' : \/ CR!Proper(d, ClientManners') \/ SR!Proper(d, ServerManners')
                      \/ d.from = "errorSocket" /\ d.to = "client" /\ d.packet.type = "ERROR"
  BY <1>1, <1>2 DEF Expected
<1>4. supplied \in Nat /\ (CR!Queued(Receiver).type = "DATA" => supplied # 0)
  <2>1. CR!Queued(Receiver).type = "DATA" => CR!Queued(Receiver).chunk \in 1 .. supplied
    BY QueuedIsGood DEF Settled, Good
  <2> QED BY <2>1, SafeMeans DEF Settled
<1>5. supplied' = 0 => received' = <<>>
  BY DEF Safe, Numbers, LockStep
<1>6. ASSUME NEW d \in net', d.packet.type = "OACK"
      PROVE  received' = <<>> /\ CR!Queued(Receiver').type # "DATA"
  <2>1. CASE d \in net
    BY <1>6, <2>1 DEF Settled, Calm
  <2>2. CASE d.packet = Sender'.transmitPacket
    <3>1. supplied' = 0
      BY <1>6, <2>2
    <3> QED BY <1>4, <1>5, <3>1 DEF Safe, Numbers
  <2> QED BY <1>6, <2>1, <2>2
<1>7. CR!Queued(Receiver').type = "OACK" => received' = <<>>
  BY DEF Settled, Calm
<1>8. Complete' => CR!Dallying(Receiver')
  BY DEF Settled, Calm, Complete
<1>9. CR!Polite(client', ClientManners') /\ CR!Polite(server', ServerManners')
  BY <1>1
<1> QED BY <1>3, <1>6, <1>7, <1>8, <1>9 DEF Calm, Expected

(* ... and so does one of the receiver: data that it takes from the network is not *)
(* followed by options.                                                            *)
LEMMA ReceiverCalm ==
    ASSUME Peaceful, Settled, Safe', kind' = kind, Sender' = Sender,
           UNCHANGED <<supplied, acknowledgedBlock>>,
           CR!Polite(client', ClientManners), CR!Polite(server', ServerManners),
           \A d \in net' : \/ d \in net
                           \/ /\ Expected(d)
                              /\ d.packet.type = "ERROR" \/ d.packet = Receiver'.transmitPacket,
           Receiver'.transmitPacket.type # "OACK",
           \/ received' = received
           \/ CR!Queued(Receiver).type = "DATA" /\ CR!Queued(Receiver').type \notin {"DATA", "OACK"},
           \/ CR!Queued(Receiver').type \notin {"DATA", "OACK"}
           \/ \E d \in net : /\ CR!Queued(Receiver') = d.packet /\ d.to = ReceiverName
                             /\ \A e \in net' : e \in net /\ ~CR!Older(e, d),
           Complete' => CR!Dallying(Receiver')
    PROVE  Calm'
<1>1. ClientManners' = ClientManners /\ ServerManners' = ServerManners
  BY DEF ClientManners, ServerManners, Requested, Speech, ReceiverName
<1>2. \A d \in net' : Expected(d)
  BY DEF Settled, Calm
<1>3. \A d \in net' : \/ CR!Proper(d, ClientManners') \/ SR!Proper(d, ServerManners')
                      \/ d.from = "errorSocket" /\ d.to = "client" /\ d.packet.type = "ERROR"
  BY <1>1, <1>2 DEF Expected
<1>4. \A d \in net : Expected(d) /\ (d.packet.type = "DATA" => d.packet.chunk \in Nat /\ d.packet.chunk >= 1)
  BY DEF Settled, Calm, Safe, DatagramOf, Good
<1>5. ASSUME NEW e \in net, e.packet.type = "OACK"
      PROVE  /\ e.from = "server" /\ e.to = "client" /\ e.packet = Oack("options") /\ kind = "read"
  BY <1>4, <1>5 DEF Expected, CR!Proper, SR!Proper, ClientManners, ServerManners, Requested,
                    Speech, ReceiverName
<1>6. ASSUME NEW d \in net, d.packet.type = "DATA", d.to = "client"
      PROVE  d.from = "server"
  BY <1>4, <1>6 DEF Expected, CR!Proper, SR!Proper, ClientManners, ServerManners
<1>7. ASSUME NEW e \in net', e.packet.type = "OACK"
      PROVE  received' = <<>> /\ CR!Queued(Receiver').type # "DATA"
  <2>1. e \in net
    BY <1>7
  <2>2. received = <<>> /\ CR!Queued(Receiver).type # "DATA" /\ received' = received
    BY <1>7, <2>1 DEF Settled, Calm
  <2>3. ASSUME CR!Queued(Receiver').type = "DATA"
        PROVE  FALSE
    <3>1. PICK d \in net : /\ d.packet.type = "DATA" /\ d.to = ReceiverName /\ ~CR!Older(e, d)
      BY <2>3
    <3>2. d.from = "server" /\ d.to = "client"
      BY <1>5, <1>6, <1>7, <2>1, <3>1 DEF ReceiverName
    <3>3. CR!Rank(e.packet) = 0 /\ CR!Rank(d.packet) = d.packet.chunk
      BY <1>5, <1>7, <2>1, <3>1 DEF CR!Rank, Oack
    <3> QED BY <1>4, <1>5, <1>7, <2>1, <3>1, <3>2, <3>3 DEF CR!Older
  <2> QED BY <2>2, <2>3
<1>8. CR!Queued(Receiver').type = "OACK" => received' = <<>>
  BY DEF Settled, Calm
<1>9. /\ Sender'.transmitPacket.type # "DATA" => supplied' = 0
      /\ Sender'.socket # "closed" =>
            acknowledgedBlock' = IF supplied' = 0 THEN MaxBlock ELSE BlockOf(supplied' - 1)
      /\ kind' = "read" /\ server'.transmitPacket.type = "INVALID" => acknowledgedBlock' = 0
  BY DEF Settled, Calm, Sender
<1>10. CR!Polite(client', ClientManners') /\ CR!Polite(server', ServerManners')
  BY <1>1
<1> QED BY <1>3, <1>7, <1>8, <1>9, <1>10 DEF Calm, Expected

(* The steps of the server of a read. *)
LEMMA ServerReadCalm ==
    ASSUME Peaceful, Settled, Safe', ReadAtServer, SR!Step \/ SR!Timer
    PROVE  Calm'
<1> USE Assumed DEF SR!MaxBlockAssumption, SR!ParametersAssumption
<1>1. /\ kind = "read" /\ kind' = kind /\ client' = client /\ Receiver' = Receiver
      /\ received' = received /\ Sender = server /\ Sender' = server'
      /\ Faults = {} /\ ~Coincide /\ ~Overtaking /\ "server" \notin Aborters
  BY DEF ReadAtServer, receiverVars, Sender, Receiver, Peaceful
<1>2. PICK t : t = ServerManners
  OBVIOUS
<1>3. /\ server \in SR!Base /\ SR!Once(server) /\ SR!Sound(server) /\ SR!Polite(server, t)
      /\ server.out = {} /\ SR!Mannerly(t) /\ t.asks = {}
      /\ \A d \in net : d.to = "server" => SR!Welcome(d, t)
      /\ \A p \in t.says : p.type \in {"DATA", "OACK"}
  <2>1. t.asks = {} /\ \A p \in t.says : p.type \in {"DATA", "OACK"}
    BY <1>1, <1>2 DEF ServerManners, Speech, ReceiverName, Oack
  <2> QED BY <1>1, <1>2, <2>1, MannersHold, SharedManners, SharedStates DEF Settled, Calm
<1>4. /\ supplied \in Nat /\ transmittedBlock = BlockOf(supplied)
  BY SafeMeans DEF Settled, Numbers
<1>5. PICK packet : /\ packet.type = "DATA"
                    /\ SR!Converses(t)
                    /\ \/ /\ SR!Passes /\ supplied' = supplied
                          /\ acknowledgedBlock' = acknowledgedBlock \/ server'.socket = "closed"
                       \/ /\ supplied' = supplied + 1 /\ acknowledgedBlock' = transmittedBlock
                          /\ SR!RepliesWith(packet)
  BY <1>2, ServerReadConverses DEF Data
<1>6. /\ SR!Polite(server', t) /\ \A d \in net' : d \in net \/ SR!Proper(d, t)
  BY <1>1, <1>3, <1>5, SR!ConversesPolite
<1>7. /\ CR!Polite(client', ClientManners) /\ CR!Polite(server', ServerManners)
      /\ \A d \in net' : d \in net \/ Expected(d)
  BY <1>1, <1>2, <1>6, SharedManners DEF Settled, Calm, Expected
<1>8. SR!Moves
  BY <1>5, SR!MovesAre
<1>9. server.socket = "connected"
  <2>1. server.socket # "closed"
    BY <1>3, <1>8, SR!FinalMoves
  <2> QED BY <1>3, <2>1 DEF SR!Base, SR!BaseOf, SR!Sound, SR!Polite
<1>10. server.transmitPacket.type \in {"DATA", "OACK"}
  BY <1>3, <1>9 DEF SR!Polite
<1>11. SR!Spoken
  BY <1>1, <1>3, <1>5, SR!MovesSpeak
<1>12. \A d \in net' : d \in net \/ d.packet.type = "ERROR" \/ d.packet = Sender'.transmitPacket
  BY <1>1, <1>11 DEF SR!Spoken
<1>13. CASE /\ SR!Passes /\ supplied' = supplied
            /\ acknowledgedBlock' = acknowledgedBlock \/ server'.socket = "closed"
  <2>1. server'.transmitPacket = server.transmitPacket
    BY <1>3, <1>13, SR!PassesTell
  <2>2. /\ Sender'.transmitPacket.type # "DATA" => supplied' = 0
        /\ Sender'.socket # "closed" =>
              acknowledgedBlock' = IF supplied' = 0 THEN MaxBlock ELSE BlockOf(supplied' - 1)
    BY <1>1, <1>9, <1>13, <2>1 DEF Settled, Calm
  <2> QED BY <1>1, <1>4, <1>7, <1>10, <1>12, <1>13, <2>1, <2>2, SenderCalm
<1>14. CASE /\ supplied' = supplied + 1 /\ acknowledgedBlock' = transmittedBlock
            /\ SR!RepliesWith(packet)
  <2>1. server'.transmitPacket = packet
    BY <1>3, <1>14, SR!RepliesTell
  <2>2. supplied' # 0 /\ supplied' - 1 = supplied /\ supplied <= supplied'
    BY <1>4, <1>14
  <2> QED BY <1>1, <1>4, <1>5, <1>7, <1>12, <1>14, <2>1, <2>2, SenderCalm
<1> QED BY <1>5, <1>13, <1>14

(* The steps of the client of a write. *)
LEMMA ClientWriteCalm ==
    ASSUME Peaceful, Settled, Safe', WriteAtClient, CW!Step \/ CW!Timer
    PROVE  Calm'
<1> USE Assumed DEF CW!MaxBlockAssumption, CW!ParametersAssumption
<1>1. /\ kind = "write" /\ kind' = kind /\ server' = server /\ Receiver' = Receiver
      /\ received' = received /\ Sender = client /\ Sender' = client'
      /\ Faults = {} /\ ~Coincide /\ ~Overtaking /\ "client" \notin Aborters
  BY DEF WriteAtClient, receiverVars, Sender, Receiver, Peaceful
<1>2. PICK t : t = ClientManners
  OBVIOUS
<1>3. /\ client \in CW!Base /\ CW!Once(client) /\ CW!Sound(client) /\ CW!Polite(client, t)
      /\ client.out = {} /\ CW!Mannerly(t)
      /\ \A d \in net : d.to = "client" => CW!Welcome(d, t)
  BY <1>1, <1>2, MannersHold, SharedManners, SharedStates DEF Settled, Calm
<1>4. /\ supplied \in Nat /\ transmittedBlock = BlockOf(supplied)
  BY SafeMeans DEF Settled, Numbers
<1>5. PICK packet : /\ packet.type = "DATA"
                    /\ CW!Converses(t)
                    /\ \/ /\ CW!Passes /\ supplied' = supplied
                          /\ acknowledgedBlock' = acknowledgedBlock \/ client'.socket = "closed"
                       \/ /\ supplied' = supplied + 1 /\ acknowledgedBlock' = transmittedBlock
                          /\ CW!RepliesWith(packet)
  BY <1>2, ClientWriteConverses DEF Data
<1>6. /\ CW!Polite(client', t) /\ \A d \in net' : d \in net \/ CW!Proper(d, t)
  BY <1>1, <1>3, <1>5, CW!ConversesPolite
<1>7. /\ CR!Polite(client', ClientManners) /\ CR!Polite(server', ServerManners)
      /\ \A d \in net' : d \in net \/ Expected(d)
  BY <1>1, <1>2, <1>6, SharedManners DEF Settled, Calm, Expected
<1>8. client.socket # "closed"
  <2>1. CW!Moves
    BY <1>5, CW!MovesAre
  <2> QED BY <1>3, <2>1, CW!FinalMoves
<1>9. CW!Spoken
  BY <1>1, <1>3, <1>5, CW!MovesSpeak
<1>10. \A d \in net' : d \in net \/ d.packet.type = "ERROR" \/ d.packet = Sender'.transmitPacket
  BY <1>1, <1>9 DEF CW!Spoken
<1>11. CASE /\ CW!Passes /\ supplied' = supplied
            /\ acknowledgedBlock' = acknowledgedBlock \/ client'.socket = "closed"
  <2>1. client'.transmitPacket = client.transmitPacket
    BY <1>3, <1>11, CW!PassesTell
  <2>2. /\ Sender'.transmitPacket.type # "DATA" => supplied' = 0
        /\ Sender'.socket # "closed" =>
              acknowledgedBlock' = IF supplied' = 0 THEN MaxBlock ELSE BlockOf(supplied' - 1)
    BY <1>1, <1>8, <1>11, <2>1 DEF Settled, Calm
  <2> QED BY <1>1, <1>4, <1>7, <1>10, <1>11, <2>2, SenderCalm
<1>12. CASE /\ supplied' = supplied + 1 /\ acknowledgedBlock' = transmittedBlock
            /\ CW!RepliesWith(packet)
  <2>1. client'.transmitPacket = packet
    BY <1>3, <1>12, CW!RepliesTell
  <2>2. supplied' # 0 /\ supplied' - 1 = supplied /\ supplied <= supplied'
    BY <1>4, <1>12
  <2> QED BY <1>1, <1>4, <1>5, <1>7, <1>10, <1>12, <2>1, <2>2, SenderCalm
<1> QED BY <1>5, <1>11, <1>12

(* The steps of the client of a read. *)
LEMMA ClientReadCalm ==
    ASSUME Peaceful, Settled, Safe', ReadAtClient, CR!Step \/ CR!Timer
    PROVE  Calm'
<1> USE Assumed DEF CR!MaxBlockAssumption, CR!ParametersAssumption
<1>1. /\ kind = "read" /\ kind' = kind /\ server' = server /\ Sender' = Sender
      /\ UNCHANGED <<supplied, acknowledgedBlock>>
      /\ Receiver = client /\ Receiver' = client' /\ ReceiverName = "client"
      /\ Faults = {} /\ ~Coincide /\ ~Overtaking /\ "client" \notin Aborters
  BY DEF ReadAtClient, senderVars, Sender, Receiver, ReceiverName, Peaceful
<1>2. PICK t : t = ClientManners
  OBVIOUS
<1>3. /\ client \in CR!Base /\ CR!Once(client) /\ CR!Sound(client) /\ CR!Polite(client, t)
      /\ client.out = {} /\ CR!Mannerly(t)
      /\ \A d \in net : d.to = "client" => CR!Welcome(d, t)
      /\ \A p \in t.asks : p.type = "RRQ"
      /\ \A p \in t.says : p.type = "ACK"
  <2>1. (\A p \in t.asks : p.type = "RRQ") /\ (\A p \in t.says : p.type = "ACK")
    BY <1>1, <1>2 DEF ClientManners, Requested, Speech
  <2> QED BY <1>1, <1>2, <2>1, MannersHold, SharedManners, SharedStates DEF Settled, Calm
<1>4. PICK packet : /\ packet.type = "ACK"
                    /\ CR!Converses(t)
                    /\ \/ CR!Passes /\ received' = received
                       \/ /\ CR!RepliesWith(packet)
                          /\ received' = received \/ CR!Queued(Receiver).type = "DATA"
                    /\ Complete' => \/ CR!Concludes
                                    \/ CR!Queues /\ Complete /\ CR!Dallying(client)
  <2>1. Ack(0, 0).type = "ACK"
    BY DEF Ack
  <2> QED BY <1>2, <2>1, ClientReadConverses
<1>5. /\ CR!Polite(client', t) /\ \A d \in net' : d \in net \/ CR!Proper(d, t)
  BY <1>1, <1>3, <1>4, CR!ConversesPolite
<1>6. /\ CR!Polite(client', ClientManners) /\ CR!Polite(server', ServerManners)
      /\ \A d \in net' : d \in net \/ Expected(d)
  BY <1>1, <1>2, <1>5, SharedManners DEF Settled, Calm, Expected
<1>7. client.transmitPacket.type # "OACK"
  <2>1. CR!Moves
    BY <1>4, CR!MovesAre
  <2>2. client.socket \in {"open", "connected"}
    BY <1>3, <2>1, CR!FinalMoves DEF CR!Base, CR!BaseOf, CR!Sound
  <2> QED BY <1>3, <2>2 DEF CR!Polite
<1>8. /\ CR!Spoken /\ CR!Heard
      /\ client'.transmitPacket \in {client.transmitPacket, packet}
  <2>1. CASE CR!Passes
    BY <1>1, <1>3, <2>1, CR!MovesSpeak, CR!PassesTell
  <2>2. CASE CR!RepliesWith(packet)
    BY <1>1, <1>3, <2>2, CR!MovesSpeak
  <2> QED BY <1>4, <2>1, <2>2
<1>9. /\ \A d \in net' : d \in net \/ d.packet.type = "ERROR" \/ d.packet = Receiver'.transmitPacket
      /\ Receiver'.transmitPacket.type # "OACK"
      /\ \/ CR!Queued(Receiver').type \notin {"DATA", "OACK"}
         \/ \E d \in net : /\ CR!Queued(Receiver') = d.packet /\ d.to = ReceiverName
                           /\ \A e \in net' : e \in net /\ ~CR!Older(e, d)
  BY <1>1, <1>4, <1>7, <1>8, SharedQueue DEF CR!Spoken, CR!Heard
<1>10. \/ received' = received
       \/ /\ CR!Queued(Receiver).type = "DATA"
          /\ CR!Queued(Receiver').type \notin {"DATA", "OACK"}
  <2>1. SUFFICES ASSUME CR!RepliesWith(packet), CR!Queued(Receiver).type = "DATA"
                 PROVE  CR!Queued(Receiver').type \notin {"DATA", "OACK"}
    BY <1>4
  <2>2. client.ready # <<>>
    BY <1>1, <2>1, SharedQueue DEF CR!Queued
  <2> QED BY <1>1, <1>8, <2>2, SharedQueue DEF CR!Heard
<1>11. Complete' => CR!Dallying(Receiver')
  <2>1. SUFFICES ASSUME Complete' PROVE CR!Dallying(client')
    BY <1>1, SharedManners
  <2>2. CASE CR!Concludes
    BY <1>1, <1>3, <2>2, CR!ConcludesDally
  <2>3. CASE CR!Queues /\ Complete /\ CR!Dallying(client)
    BY <1>1, <1>3, <2>3, CR!QueuesPolite
  <2> QED BY <1>4, <2>1, <2>2, <2>3
<1> QED BY <1>1, <1>6, <1>9, <1>10, <1>11, ReceiverCalm

(* The steps of the server of a write. *)
LEMMA ServerWriteCalm ==
    ASSUME Peaceful, Settled, Safe', WriteAtServer, SW!Step \/ SW!Timer
    PROVE  Calm'
<1> USE Assumed DEF SW!MaxBlockAssumption, SW!ParametersAssumption
<1>1. /\ kind = "write" /\ kind' = kind /\ client' = client /\ Sender' = Sender
      /\ UNCHANGED <<supplied, acknowledgedBlock>>
      /\ Receiver = server /\ Receiver' = server' /\ ReceiverName = "server"
      /\ Faults = {} /\ ~Coincide /\ ~Overtaking /\ "server" \notin Aborters
  BY DEF WriteAtServer, senderVars, Sender, Receiver, ReceiverName, Peaceful
<1>2. PICK t : t = ServerManners
  OBVIOUS
<1>3. /\ server \in SW!Base /\ SW!Once(server) /\ SW!Sound(server) /\ SW!Polite(server, t)
      /\ server.out = {} /\ SW!Mannerly(t)
      /\ \A d \in net : d.to = "server" => SW!Welcome(d, t)
      /\ \A p \in t.asks : p.type = "RRQ"
      /\ \A p \in t.says : p.type = "ACK"
  <2>1. (\A p \in t.asks : p.type = "RRQ") /\ (\A p \in t.says : p.type = "ACK")
    BY <1>1, <1>2 DEF ServerManners, Requested, Speech
  <2> QED BY <1>1, <1>2, <2>1, MannersHold, SharedManners, SharedStates DEF Settled, Calm
<1>4. PICK packet : /\ packet.type = "ACK"
                    /\ SW!Converses(t)
                    /\ \/ SW!Passes /\ received' = received
                       \/ /\ SW!RepliesWith(packet)
                          /\ received' = received \/ CR!Queued(Receiver).type = "DATA"
                    /\ Complete' => \/ SW!Concludes
                                    \/ SW!Queues /\ Complete /\ SW!Dallying(server)
  <2>1. Ack(0, 0).type = "ACK"
    BY DEF Ack
  <2> QED BY <1>2, <2>1, ServerWriteConverses
<1>5. /\ SW!Polite(server', t) /\ \A d \in net' : d \in net \/ SW!Proper(d, t)
  BY <1>1, <1>3, <1>4, SW!ConversesPolite
<1>6. /\ CR!Polite(client', ClientManners) /\ CR!Polite(server', ServerManners)
      /\ \A d \in net' : d \in net \/ Expected(d)
  BY <1>1, <1>2, <1>5, SharedManners DEF Settled, Calm, Expected
<1>7. server.transmitPacket.type # "OACK"
  <2>1. SW!Moves
    BY <1>4, SW!MovesAre
  <2>2. server.socket \in {"open", "connected"}
    BY <1>3, <2>1, SW!FinalMoves DEF SW!Base, SW!BaseOf, SW!Sound
  <2> QED BY <1>3, <2>2 DEF SW!Polite
<1>8. /\ SW!Spoken /\ SW!Heard
      /\ server'.transmitPacket \in {server.transmitPacket, packet}
  <2>1. CASE SW!Passes
    BY <1>1, <1>3, <2>1, SW!MovesSpeak, SW!PassesTell
  <2>2. CASE SW!RepliesWith(packet)
    BY <1>1, <1>3, <2>2, SW!MovesSpeak
  <2> QED BY <1>4, <2>1, <2>2
<1>9. /\ \A d \in net' : d \in net \/ d.packet.type = "ERROR" \/ d.packet = Receiver'.transmitPacket
      /\ Receiver'.transmitPacket.type # "OACK"
      /\ \/ CR!Queued(Receiver').type \notin {"DATA", "OACK"}
         \/ \E d \in net : /\ CR!Queued(Receiver') = d.packet /\ d.to = ReceiverName
                           /\ \A e \in net' : e \in net /\ ~CR!Older(e, d)
  BY <1>1, <1>4, <1>7, <1>8, SharedQueue DEF SW!Spoken, SW!Heard
<1>10. \/ received' = received
       \/ /\ CR!Queued(Receiver).type = "DATA"
          /\ CR!Queued(Receiver').type \notin {"DATA", "OACK"}
  <2>1. SUFFICES ASSUME SW!RepliesWith(packet), CR!Queued(Receiver).type = "DATA"
                 PROVE  CR!Queued(Receiver').type \notin {"DATA", "OACK"}
    BY <1>4
  <2>2. server.ready # <<>>
    BY <1>1, <2>1, SharedQueue DEF CR!Queued
  <2> QED BY <1>1, <1>8, <2>2, SharedQueue DEF SW!Heard
<1>11. Complete' => CR!Dallying(Receiver')
  <2>1. SUFFICES ASSUME Complete' PROVE SW!Dallying(server')
    BY <1>1, SharedManners
  <2>2. CASE SW!Concludes
    BY <1>1, <1>3, <2>2, SW!ConcludesDally
  <2>3. CASE SW!Queues /\ Complete /\ SW!Dallying(server)
    BY <1>1, <1>3, <2>3, SW!QueuesPolite
  <2> QED BY <1>4, <2>1, <2>2, <2>3
<1> QED BY <1>1, <1>6, <1>9, <1>10, <1>11, ReceiverCalm

(* The request, where nothing fails. *)
LEMMA RequestCalm ==
    ASSUME Peaceful, Settled, Safe', Request
    PROVE  Calm'
<1> USE Assumed DEF CR!MaxBlockAssumption, CR!ParametersAssumption,
                    CW!MaxBlockAssumption, CW!ParametersAssumption
<1>1. Faults = {} /\ client.out = {} /\ CR!Error("UnknownTransferId").type = "ERROR"
      /\ CW!Error("UnknownTransferId").type = "ERROR"
  BY MannersHold DEF Peaceful, CR!Error, CW!Error
<1>2. PICK t : t = ClientManners
  OBVIOUS
<1>3. PICK options \in Requests[kind] :
        \/ ReadAtClient  /\ CR!Request(options)
        \/ WriteAtClient /\ CW!Request(options)
  BY DEF Request
<1>4. options \in OptionLists
  BY TransferAssumption DEF TransferAssumption, Settled, TypeOK
<1>5. CASE ReadAtClient /\ CR!Request(options)
  <2>1. /\ kind = "read" /\ kind' = kind /\ server' = server /\ Sender' = Sender
        /\ UNCHANGED <<supplied, acknowledgedBlock>>
        /\ Receiver' = client' /\ ReceiverName = "client" /\ client = CR!InitialClient
        /\ received' = received
    BY <1>5 DEF ReadAtClient, senderVars, Sender, Receiver, ReceiverName, CR!Request, CR!members
  <2>2. PICK packet : packet = Rrq(options)
    OBVIOUS
  <2>3. packet \in t.asks /\ packet.type = "RRQ"
    BY <1>2, <1>4, <2>1, <2>2, PacketType DEF ClientManners, Requested, Rrq
  <2>4. PICK opened \in CR!Outcome("open"), ok \in CR!Outcome("send") :
          CR!Perform(CR!ReceiveFirst(CR!SendFirst(
               CR!StartDataHandler(CR!Initialise(client, opened)), packet, ok)))
    BY <1>1, <1>5, <2>2, SharedPackets DEF CR!Request, CR!Outcome
  <2>5. /\ CR!Polite(client', t) /\ client'.transmitPacket = packet
        /\ CR!Queued(client') = CR!NoPacket
        /\ \A d \in net' : d \in net \/ CR!Proper(d, t)
    BY <1>1, <2>1, <2>3, <2>4, CR!RequestPolite
  <2>6. \A d \in net' : CR!Said(d)
    BY <2>1, <2>4, CR!RequestTells
  <2>7. /\ CR!Polite(client', ClientManners) /\ CR!Polite(server', ServerManners)
        /\ \A d \in net' : \/ d \in net
                           \/ /\ Expected(d)
                              /\ d.packet.type = "ERROR" \/ d.packet = Receiver'.transmitPacket
    BY <1>1, <1>2, <2>1, <2>5, <2>6 DEF Settled, Calm, Expected, CR!Said
  <2>8. ~Complete'
    <3>1. received' = <<>>
      BY <2>1, KnownIsStarted DEF Settled, Safe, ClientKnows
    <3> QED BY <3>1, ParametersAssumption DEF Complete
  <2> QED BY <2>1, <2>3, <2>5, <2>7, <2>8, SharedQueue, ReceiverCalm
<1>6. CASE WriteAtClient /\ CW!Request(options)
  <2>1. /\ kind = "write" /\ kind' = kind /\ server' = server /\ Receiver' = Receiver
        /\ received' = received /\ Sender' = client' /\ client = CW!InitialClient
        /\ supplied' = supplied
    BY <1>6 DEF WriteAtClient, receiverVars, Sender, Receiver, CW!Request, CW!members
  <2>2. PICK packet : packet = Wrq(options)
    OBVIOUS
  <2>3. packet \in t.asks /\ packet.type = "WRQ"
    BY <1>2, <1>4, <2>1, <2>2, PacketType DEF ClientManners, Requested, Wrq
  <2>4. PICK opened \in CW!Outcome("open"), ok \in CW!Outcome("send") :
          /\ acknowledgedBlock' = MaxBlock
          /\ CW!Perform(CW!ReceiveFirst(CW!SendFirst(
               CW!StartDataHandler(CW!Initialise(client, opened)), packet, ok)))
    BY <1>1, <1>6, <2>2, SharedPackets DEF CW!Request, CW!Outcome
  <2>5. /\ CW!Polite(client', t) /\ client'.transmitPacket = packet
        /\ \A d \in net' : d \in net \/ CW!Proper(d, t)
    BY <1>1, <2>1, <2>3, <2>4, CW!RequestPolite
  <2>6. \A d \in net' : CW!Said(d)
    BY <2>1, <2>4, CW!RequestTells
  <2>7. /\ CR!Polite(client', ClientManners) /\ CR!Polite(server', ServerManners)
        /\ \A d \in net' : \/ d \in net
                           \/ /\ Expected(d)
                              /\ d.packet.type = "ERROR" \/ d.packet = Sender'.transmitPacket
    BY <1>1, <1>2, <2>1, <2>5, <2>6, SharedManners DEF Settled, Calm, Expected, CW!Said
  <2>8. supplied = 0
    BY <2>1, KnownIsStarted DEF Settled, Safe, ClientKnows
  <2> QED BY <2>1, <2>4, <2>7, <2>8, SenderCalm
<1> QED BY <1>3, <1>5, <1>6

(* The server of a read answers with data, or with the options. *)
LEMMA StartReadCalm ==
    ASSUME Peaceful, Settled, Safe', ReadAtServer, NEW answer \in {"data", "oack"}, SR!Start(answer)
    PROVE  Calm'
<1> USE Assumed DEF SR!MaxBlockAssumption, SR!ParametersAssumption
<1>1. /\ kind = "read" /\ kind' = kind /\ client' = client /\ Receiver' = Receiver
      /\ received' = received /\ Sender' = server' /\ server = SR!InitialServer
      /\ Faults = {} /\ SR!Error("UnknownTransferId").type = "ERROR"
  BY DEF ReadAtServer, receiverVars, Sender, Receiver, SR!Start, SR!Error, Peaceful
<1>2. supplied = 0 /\ acknowledgedBlock = 0
  <2>1. supplied = 0
    BY <1>1, KnownIsStarted DEF Settled, Safe, ServerKnows
  <2>2. server.transmitPacket.type = "INVALID"
    BY <1>1 DEF SR!InitialServer, SR!NewBase, SR!NoPacket, SR!InvalidPacket
  <2> QED BY <1>1, <2>1, <2>2 DEF Settled, Calm
<1>3. PICK t : t = ServerManners
  OBVIOUS
<1>4. PICK packet, opened, ok :
        /\ opened \in SR!Outcome("open") /\ ok \in SR!Outcome("send")
        /\ packet \in t.says /\ t.peer = "client"
        /\ SR!Perform(SR!Receive(SR!Send(
             SR!StartDataHandler(SR!Initialise(server, opened)), packet, ok)))
        /\ \/ packet.type = "DATA" /\ supplied' = 1 /\ acknowledgedBlock' = 0
           \/ packet.type = "OACK" /\ supplied' = 0 /\ acknowledgedBlock' = MaxBlock
  <2>1. PICK opened \in SR!Outcome("open"), ok \in SR!Outcome("send") :
          LET c == SR!StartDataHandler(SR!Initialise(server, opened))
          IN  \/ SR!SendData(c, ok) /\ UNCHANGED acknowledgedBlock
              \/ /\ acknowledgedBlock' = MaxBlock
                 /\ SR!Perform(SR!Receive(SR!Send(c, SR!Oack("options"), ok)))
                 /\ UNCHANGED supplied
    BY <1>1 DEF SR!Start, SR!Outcome
  <2>2. t.peer = "client"
    BY <1>3 DEF ServerManners
  <2>3. CASE SR!SendData(SR!StartDataHandler(SR!Initialise(server, opened)), ok)
             /\ UNCHANGED acknowledgedBlock
    <3> DEFINE packet == Data(transmittedBlock', supplied', SR!SizeOf(supplied'))
    <3>1. /\ supplied' = supplied + 1
          /\ SR!Perform(SR!Receive(SR!Send(
               SR!StartDataHandler(SR!Initialise(server, opened)), packet, ok)))
      BY <2>3, SharedPackets DEF SR!SendData
    <3>2. packet \in Packet /\ packet.type = "DATA"
      BY SuppliedType DEF Data
    <3>3. packet \in t.says
      BY <1>1, <1>3, <3>2 DEF ServerManners, Speech, ReceiverName
    <3> HIDE DEF packet
    <3>4. supplied' = 1 /\ acknowledgedBlock' = 0
      BY <1>2, <2>3, <3>1
    <3> QED BY <2>2, <3>1, <3>2, <3>3, <3>4
  <2>4. CASE /\ acknowledgedBlock' = MaxBlock
             /\ SR!Perform(SR!Receive(SR!Send(
                  SR!StartDataHandler(SR!Initialise(server, opened)), SR!Oack("options"), ok)))
             /\ UNCHANGED supplied
    <3>1. PICK packet : packet = Oack("options")
      OBVIOUS
    <3>2. packet \in Packet /\ packet.type = "OACK"
      BY <3>1, PacketType DEF OptionLists, Oack
    <3>3. packet \in t.says
      BY <1>1, <1>3, <3>1, <3>2 DEF ServerManners, Speech, ReceiverName
    <3>4. packet = SR!Oack("options")
      BY <3>1, SharedPackets
    <3> QED BY <1>2, <2>2, <2>4, <3>2, <3>3, <3>4
  <2> QED BY <2>1, <2>3, <2>4
<1>5. /\ SR!Polite(server', t) /\ server'.transmitPacket = packet
      /\ \A d \in net' : d \in net \/ SR!Proper(d, t)
  BY <1>1, <1>4, SR!StartPolite
<1>6. \A d \in net' : SR!Said(d)
  BY <1>1, <1>4, SR!StartTells, Zenon
<1>7. /\ CR!Polite(client', ClientManners) /\ CR!Polite(server', ServerManners)
      /\ \A d \in net' : \/ d \in net
                         \/ /\ Expected(d)
                            /\ d.packet.type = "ERROR" \/ d.packet = Sender'.transmitPacket
  BY <1>1, <1>3, <1>5, <1>6, SharedManners DEF Settled, Calm, Expected, SR!Said
<1>8. /\ BlockOf(0) = 0 /\ supplied <= supplied'
      /\ Sender'.transmitPacket.type # "DATA" => supplied' = 0
      /\ acknowledgedBlock' = IF supplied' = 0 THEN MaxBlock ELSE BlockOf(supplied' - 1)
      /\ server'.transmitPacket.type # "INVALID"
  BY <1>1, <1>2, <1>4, <1>5 DEF BlockOf
<1> QED BY <1>1, <1>7, <1>8, SenderCalm

(* The server of a write answers with an acknowledgement. *)
LEMMA StartWriteCalm ==
    ASSUME Peaceful, Settled, Safe', WriteAtServer, SW!Start("ack")
    PROVE  Calm'
<1> USE Assumed DEF SW!MaxBlockAssumption, SW!ParametersAssumption
<1>1. /\ kind = "write" /\ kind' = kind /\ client' = client /\ Sender' = Sender
      /\ UNCHANGED <<supplied, acknowledgedBlock>>
      /\ Receiver' = server' /\ ReceiverName = "server" /\ server = SW!InitialServer
      /\ received' = received /\ Faults = {} /\ SW!Error("UnknownTransferId").type = "ERROR"
  BY DEF WriteAtServer, senderVars, Sender, Receiver, ReceiverName, SW!Start, SW!members, SW!Error,
         Peaceful
<1>2. PICK t : t = ServerManners
  OBVIOUS
<1>3. PICK packet : packet = Ack(0, 0)
  OBVIOUS
<1>4. packet \in t.says /\ t.peer = "client" /\ packet.type = "ACK"
  <2>1. packet \in Packet /\ packet.type = "ACK"
    BY <1>3, PacketType, NumberType DEF Ack, BlockOf
  <2> QED BY <1>1, <1>2, <2>1 DEF ServerManners, Speech
<1>5. PICK opened \in SW!Outcome("open"), ok \in SW!Outcome("send") :
        SW!Perform(SW!Receive(SW!Send(
          SW!StartDataHandler(SW!Initialise(server, opened)), packet, ok)))
  BY <1>1, <1>3, SharedPackets DEF SW!Start, SW!Outcome
<1>6. /\ SW!Polite(server', t) /\ server'.transmitPacket = packet
      /\ SW!Queued(server') = SW!NoPacket
      /\ \A d \in net' : d \in net \/ SW!Proper(d, t)
  BY <1>1, <1>4, <1>5, SW!StartPolite
<1>7. \A d \in net' : SW!Said(d)
  BY <1>1, <1>5, SW!StartTells, Zenon
<1>8. /\ CR!Polite(client', ClientManners) /\ CR!Polite(server', ServerManners)
      /\ \A d \in net' : \/ d \in net
                         \/ /\ Expected(d)
                            /\ d.packet.type = "ERROR" \/ d.packet = Receiver'.transmitPacket
  BY <1>1, <1>2, <1>6, <1>7, SharedManners DEF Settled, Calm, Expected, SW!Said
<1>9. ~Complete'
  <2>1. received' = <<>>
    BY <1>1, KnownIsStarted DEF Settled, Safe, ServerKnows
  <2> QED BY <2>1, ParametersAssumption DEF Complete
<1> QED BY <1>1, <1>4, <1>6, <1>8, <1>9, SharedQueue, ReceiverCalm

(* The error that answers a repeated request goes to the client. *)
LEMMA OtherCalm ==
    ASSUME Peaceful, Settled, Safe', Refuse \/ UNCHANGED vars
    PROVE  Calm'
<1>1. /\ UNCHANGED <<kind, client, server, supplied, acknowledgedBlock, received>>
      /\ \A d \in net' :
           \/ d \in net
           \/ /\ d.packet.type = "ERROR" /\ d.from = "errorSocket"
              /\ \E e \in net : e.to = "wellKnown" /\ d.to = e.from
  BY DEF Refuse, vars, senderVars, receiverVars, SR!NetAfter, Error
<1>2. Sender' = Sender /\ Receiver' = Receiver
  BY <1>1 DEF Sender, Receiver
<1>3. \A e \in net : e.to = "wellKnown" => e.from = "client"
  BY DEF Settled, Calm, Expected, CR!Proper, SR!Proper, ClientManners, ServerManners
<1>4. \A d \in net' : d \in net \/ (Expected(d) /\ d.packet.type = "ERROR")
  BY <1>1, <1>3 DEF Expected
<1>5. /\ CR!Polite(client', ClientManners) /\ CR!Polite(server', ServerManners)
      /\ supplied <= supplied'
      /\ Sender'.transmitPacket.type # "DATA" => supplied' = 0
      /\ Sender'.socket # "closed" =>
            acknowledgedBlock' = IF supplied' = 0 THEN MaxBlock ELSE BlockOf(supplied' - 1)
      /\ kind = "read" /\ server'.transmitPacket.type = "INVALID" => acknowledgedBlock' = 0
  BY <1>1, <1>2, SafeMeans DEF Settled, Calm
<1> QED BY <1>1, <1>2, <1>4, <1>5, SenderCalm

(* Nothing has been said before the transfer starts. *)
LEMMA CalmInit == Peaceful /\ Init => Calm
<1> SUFFICES ASSUME Peaceful, Init PROVE Calm
  OBVIOUS
<1>1. /\ client = CR!InitialClient /\ server = SR!InitialServer /\ net = {}
      /\ supplied = 0 /\ acknowledgedBlock = 0 /\ received = <<>>
  BY DEF Init, CR!Init, SR!Init, Peaceful, Distinguishable
<1>2. \A b \in {CR!InitialClient, SR!InitialServer} :
        /\ b.socket = "closed" /\ b.status = "none" /\ b.rx = "none" /\ b.timer = "none"
        /\ b.ready = <<>> /\ CR!Queued(b) = CR!NoPacket
  BY SharedQueue DEF CR!InitialClient, CR!NewBase, SR!InitialServer, SR!NewBase, CR!Queued
<1>3. Sender \in {CR!InitialClient, SR!InitialServer} /\ Receiver \in {CR!InitialClient, SR!InitialServer}
  BY <1>1 DEF Sender, Receiver
<1>4. CR!Polite(client, ClientManners) /\ CR!Polite(server, ServerManners)
  BY <1>1, <1>2 DEF CR!Polite
<1>5. CR!Queued(Receiver).type = "INVALID"
  BY <1>2, <1>3 DEF CR!NoPacket, CR!InvalidPacket
<1>6. ~Complete
  BY <1>1, ParametersAssumption DEF Complete
<1> QED BY <1>1, <1>2, <1>3, <1>4, <1>5, <1>6 DEF Calm

(* Each step keeps it so. *)
LEMMA CalmNext ==
    ASSUME Peaceful, Settled, Safe', [Next]_vars
    PROVE  Calm'
<1>1. CASE Request
  BY <1>1, RequestCalm
<1>2. CASE ClientStep \/ ClientTimer
  BY <1>2, ClientReadCalm, ClientWriteCalm DEF ClientStep, ClientTimer
<1>3. CASE ServerStep \/ ServerTimer
  BY <1>3, ServerReadCalm, ServerWriteCalm DEF ServerStep, ServerTimer
<1>4. CASE Serve
  <2>1. \/ ReadAtServer /\ \E answer \in {"data", "oack"} : SR!Start(answer)
        \/ WriteAtServer
    <3>1. \A options : SR!Answers(options) \ {"refused"} \subseteq {"data", "oack"}
      BY DEF SR!Answers
    <3> QED BY <1>4, <3>1 DEF Serve
  <2>2. \/ ReadAtServer
        \/ WriteAtServer /\ SW!Start("ack")
    BY <1>4, PlainWritesServed DEF Settled
  <2>3. ~(ReadAtServer /\ WriteAtServer)
    BY DEF ReadAtServer, WriteAtServer
  <2> QED BY <2>1, <2>2, <2>3, StartReadCalm, StartWriteCalm
<1>5. CASE Refuse \/ UNCHANGED vars
  BY <1>5, OtherCalm
<1> QED BY <1>1, <1>2, <1>3, <1>4, <1>5 DEF Next

(* What both sides know, and how they behave, at any time. *)
LEMMA AlwaysCalm == Peaceful => (Spec => [](Safe /\ Calm))
<1> SUFFICES ASSUME Peaceful PROVE Spec => [](Safe /\ Calm)
  OBVIOUS
<1> DEFINE I == Safe /\ InTurn /\ Calm
           O == /\ CR!Once(client) /\ CR!Once(server)
                /\ CR!Sound(client) /\ CR!Sound(server)
<1>1. Distinguishable /\ ~Overtaking /\ ~Coincide /\ Faults = {} /\ "client" \notin Aborters
  BY DEF Peaceful
<1>2. Init => I
  BY <1>1, SafeInit, InTurnInit, CalmInit
<1>3. ASSUME TypeOK, O, I, [Next]_vars
      PROVE  I'
  <2>1. Unambiguous
    BY <1>1, <1>3, UnambiguousInTurn
  <2>2. Safe'
    BY <1>1, <1>3, <2>1, SafeNext
  <2>3. InTurn'
    BY <1>1, <1>3, <2>1, <2>2, InTurnNext
  <2>4. Calm'
    BY <1>3, <2>2, CalmNext DEF Settled
  <2> QED BY <2>2, <2>3, <2>4
<1>4. Spec => []O
  <2>1. Spec => [](CR!Once(client) /\ CR!Once(server))
    BY <1>1, AlwaysOnce
  <2>2. Spec => [](CR!Sound(client) /\ CR!Sound(server))
    BY <1>1, AlwaysSound
  <2> QED BY <2>1, <2>2, PTL
<1>5. I => Safe /\ Calm
  OBVIOUS
<1> HIDE DEF I, O
<1> QED BY <1>2, <1>3, <1>4, <1>5, TypeCorrect, PTL DEF Spec

(* receiveHandler(), receiveFirstHandler() and the handlers of packets: in a network that *)
(* keeps the order no packet of the peer is taken for a violation of the protocol, not    *)
(* even a repeated one, in a file of any length.                                          *)
THEOREM Understood == Peaceful => (Spec => []NoProtocolError)
<1>1. Safe /\ Calm => NoProtocolError
  BY DEF Calm, CR!Polite, NoProtocolError
<1> QED BY <1>1, AlwaysCalm, PTL

(* receiveDally() and timeoutDallyHandler(): a receiver that has the whole file waits only *)
(* for repetitions of the last packet, and so reports nothing but the success that the     *)
(* sender has reported.                                                                    *)
THEOREM Agreed == Peaceful => (Spec => []AgreedOutcome)
<1>1. ASSUME Safe, Calm
      PROVE  AgreedOutcome
  <2> SUFFICES ASSUME Sender.status = "Successful"
               PROVE  Receiver.status \in {"none", "Successful"}
    BY DEF AgreedOutcome
  <2>1. Complete
    BY <1>1, SuccessIsComplete DEF Sender
  <2>2. CR!Dallying(Receiver)
    BY <1>1, <2>1 DEF Calm
  <2> QED BY <2>2 DEF CR!Dallying
<1>2. Safe /\ Calm => AgreedOutcome
  BY <1>1
<1> QED BY <1>2, AlwaysCalm, PTL

=============================================================================
