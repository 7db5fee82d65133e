----------------------------- MODULE PeerProofs -----------------------------
(***************************************************************************)
(* What holds of one operation alone, whatever its peer sends and for      *)
(* every value of the constants.  The steps are those of Transfer, so that *)
(* the lemmas of TransferProofs apply; the other operation is never        *)
(* started, and holds no data.                                             *)
(***************************************************************************)
EXTENDS AnyPeer, TransferProofs

-----------------------------------------------------------------------------
(* The operation that does not run is as its constructor has left it. *)
Apart ==
    /\ TypeOK /\ Counted
    /\ \/ /\ alone = "client" /\ server = SR!InitialServer
          /\ IF kind = "read" THEN supplied = 0 ELSE received = <<>>
       \/ /\ alone = "server" /\ client = CR!InitialClient
          /\ IF kind = "read" THEN received = <<>> ELSE supplied = 0

LEMMA ApartInit == PeerInit => Apart
<1> SUFFICES ASSUME PeerInit PROVE Apart
  OBVIOUS
<1>1. Init /\ client = CR!InitialClient /\ server = SR!InitialServer /\ supplied = 0 /\ received = <<>>
  BY DEF PeerInit, Init, CR!Init, SR!Init
<1> QED BY <1>1, TypeOKInit, CountedInit DEF PeerInit, Apart

(* A step is one of the client, and leaves the server alone, or the other way round. *)
ClientMoved == alone = "client" /\ (Request \/ ClientStep \/ ClientTimer)
ServerMoved == alone = "server" /\ (ServerStarted \/ ServerStep \/ ServerTimer)

LEMMA PeerSteps ==
    ASSUME [PeerNext]_peerVars
    PROVE  UNCHANGED alone /\ (ClientMoved \/ ServerMoved \/ UNCHANGED vars)
<1>1. Started => ServerStarted
  BY Zenon DEF Started, ServerStarted
<1> QED BY <1>1 DEF PeerNext, peerVars, ClientMoved, ServerMoved

(* What the client leaves alone, and the server. *)
LEMMA LeftAlone ==
    /\ Request \/ ClientStep \/ ClientTimer =>
          /\ server' = server /\ kind' = kind
          /\ IF kind = "read" THEN UNCHANGED senderVars ELSE UNCHANGED receiverVars
    /\ ServerStarted \/ ServerStep \/ ServerTimer =>
          /\ client' = client /\ kind' = kind
          /\ IF kind = "read" THEN UNCHANGED receiverVars ELSE UNCHANGED <<senderVars, oackReceived>>
BY DEF Request, ClientStep, ClientTimer, ServerStarted, ServerStep, ServerTimer,
       ReadAtClient, WriteAtClient, ReadAtServer, WriteAtServer

LEMMA ApartSteps ==
    ASSUME Apart, [PeerNext]_peerVars
    PROVE  Apart'
<1>1. CASE ClientMoved
  <2>1. TypeOK' /\ Counted'
    BY <1>1, TypeOKClient, CountedClient DEF Apart, ClientMoved
  <2> QED BY <1>1, <2>1, PeerSteps, LeftAlone DEF Apart, ClientMoved, senderVars, receiverVars
<1>2. CASE ServerMoved
  <2>1. TypeOK' /\ Counted'
    BY <1>2, TypeOKServer, CountedServer DEF Apart, ServerMoved
  <2> QED BY <1>2, <2>1, PeerSteps, LeftAlone DEF Apart, ServerMoved, senderVars, receiverVars
<1>3. CASE UNCHANGED vars
  <2>1. /\ kind' = kind /\ client' = client /\ server' = server
        /\ transmittedBlock' = transmittedBlock /\ acknowledgedBlock' = acknowledgedBlock
        /\ lastDataPacketTransmitted' = lastDataPacketTransmitted /\ supplied' = supplied
        /\ storedBlock' = storedBlock /\ oackReceived' = oackReceived /\ received' = received
        /\ net' = net
    BY <1>3 DEF vars, senderVars, receiverVars
  <2>2. TypeOK'
    BY <2>1, TypeOKMeans DEF Apart, SenderType, ReceiverType
  <2>3. Counted'
    BY <2>1 DEF Apart, Counted, Numbering, Unstarted
  <2> QED BY <2>1, <2>2, <2>3, PeerSteps DEF Apart
<1> QED BY <1>1, <1>2, <1>3, PeerSteps

LEMMA AlwaysApart == PeerSpec => []Apart
BY ApartInit, ApartSteps, PTL DEF PeerSpec

-----------------------------------------------------------------------------
(* What the first results of TransferProofs say of the base classes. *)
LEMMA PeerStates ==
    ASSUME Apart, [PeerNext]_peerVars
    PROVE  /\ /\ "dataHandler" \notin Faults /\ CR!Alive(client) /\ CR!Alive(server)
              => CR!Alive(client') /\ CR!Alive(server')
           /\ ~Coincide /\ CR!Once(client) /\ CR!Once(server) => CR!Once(client') /\ CR!Once(server')
           /\ /\ Faults = {} /\ "client" \notin Aborters /\ ~Coincide
              /\ CR!Sound(client) /\ CR!Sound(server) /\ server.socket # "open"
              => CR!Sound(client') /\ CR!Sound(server') /\ server'.socket # "open"
<1>1. CASE ClientMoved
  BY <1>1, ClientSteps DEF Apart, ClientMoved
<1>2. CASE ServerMoved
  BY <1>2, ServerSteps DEF Apart, ServerMoved
<1>3. CASE UNCHANGED vars
  BY <1>3, OtherSteps
<1> QED BY <1>1, <1>2, <1>3, PeerSteps

(* receive() and receiveDally() arm the timer: the operation goes on until it has *)
(* finished, whatever packets its peer sends, or does not send.                   *)
THEOREM PeerGoesOn == "dataHandler" \notin Faults => (PeerSpec => []NeverStuck)
<1> SUFFICES ASSUME "dataHandler" \notin Faults
             PROVE  PeerSpec => []NeverStuck
  OBVIOUS
<1> DEFINE I == CR!Alive(client) /\ CR!Alive(server)
<1>1. PeerInit => I
  BY ConstructedStates DEF PeerInit, Init, CR!Init, SR!Init
<1>2. ASSUME Apart, I, [PeerNext]_peerVars
      PROVE  I'
  BY <1>2, PeerStates
<1>3. I => NeverStuck
  BY AliveNeverStuck
<1> QED BY <1>1, <1>2, <1>3, AlwaysApart, PTL DEF PeerSpec

(* Where nothing fails, is aborted by the client's user or is stale, the operations are *)
(* sound, and leave one completion at most.                                             *)
LEMMA PeerSound ==
    Faults = {} /\ "client" \notin Aborters /\ ~Coincide =>
       (PeerSpec => [](/\ CR!Sound(client) /\ CR!Sound(server) /\ server.socket # "open"
                       /\ CR!Once(client) /\ CR!Once(server)))
<1> SUFFICES ASSUME Faults = {}, "client" \notin Aborters, ~Coincide
             PROVE  PeerSpec => [](/\ CR!Sound(client) /\ CR!Sound(server) /\ server.socket # "open"
                                   /\ CR!Once(client) /\ CR!Once(server))
  OBVIOUS
<1> DEFINE I == /\ CR!Sound(client) /\ CR!Sound(server) /\ server.socket # "open"
                /\ CR!Once(client) /\ CR!Once(server)
<1>1. PeerInit => I
  BY ConstructedStates DEF PeerInit, Init, CR!Init, SR!Init
<1>2. ASSUME Apart, I, [PeerNext]_peerVars
      PROVE  I'
  BY <1>2, PeerStates
<1> HIDE DEF I
<1>3. PeerSpec => []I
  BY <1>1, <1>2, AlwaysApart, PTL DEF PeerSpec
<1> QED BY <1>3 DEF I

(* No sequence of packets makes the operation throw out of finished() or of a handler. *)
THEOREM PeerThrowsNothing ==
    Faults = {} /\ "client" \notin Aborters /\ ~Coincide => (PeerSpec => []NoCrash)
<1> SUFFICES ASSUME Faults = {}, "client" \notin Aborters, ~Coincide
             PROVE  PeerSpec => []NoCrash
  OBVIOUS
<1>1. CR!Sound(client) /\ CR!Sound(server) => NoCrash
  BY DEF NoCrash, CR!NoCrash, SR!NoCrash, CR!Sound, CR!Running, SR!Running
<1> QED BY <1>1, PeerSound, PTL

(* finished() cancels all that could still run: once the operation has reported, no *)
(* packet that arrives makes it send, store or report again.                        *)
THEOREM PeerEndsOnce ==
    Faults = {} /\ "client" \notin Aborters /\ ~Coincide => (PeerSpec => CompletionIsFinal)
<1> SUFFICES ASSUME Faults = {}, "client" \notin Aborters, ~Coincide
             PROVE  PeerSpec => CompletionIsFinal
  OBVIOUS
<1> USE Assumed
    DEF CR!MaxBlockAssumption, CR!ParametersAssumption, CW!MaxBlockAssumption, CW!ParametersAssumption,
        SR!MaxBlockAssumption, SR!ParametersAssumption, SW!MaxBlockAssumption, SW!ParametersAssumption
<1> DEFINE I == /\ CR!Sound(client) /\ CR!Sound(server) /\ CR!Once(client) /\ CR!Once(server)
           C == [client.status = "none"]_<<client, net>>
           S == [server.status = "none"]_<<server, net>>
<1>1. ASSUME Apart, I, [PeerNext]_peerVars
      PROVE  C /\ S
  <2>1. /\ client \in CR!Base /\ client \in CW!Base /\ server \in SR!Base /\ server \in SW!Base
    BY <1>1, SharedStates DEF Apart, TypeOK
  <2>2. CASE ClientMoved
    <3>1. server.status = "none"
      BY <1>1, <2>2, ConstructedStates DEF Apart, ClientMoved
    <3>2. CASE Request
      BY <3>1, <3>2 DEF Request, CR!Request, CW!Request, CR!InitialClient, CW!InitialClient,
                        CR!NewBase, CW!NewBase
    <3>3. CASE CR!Moves \/ CW!Moves
      <4>1. client.socket # "closed"
        BY <1>1, <2>1, <3>3, SharedStates, CR!FinalMoves, CW!FinalMoves
      <4> QED BY <1>1, <3>1, <4>1 DEF CR!Once
    <3> QED BY <2>2, <3>2, <3>3, ClientReadMoves, ClientWriteMoves
            DEF ClientMoved, ClientStep, ClientTimer
  <2>3. CASE ServerMoved
    <3>1. client.status = "none"
      BY <1>1, <2>3, ConstructedStates DEF Apart, ServerMoved
    <3>2. CASE ServerStarted
      BY <3>1, <3>2 DEF ServerStarted, SR!Start, SW!Start, SR!InitialServer, SW!InitialServer,
                        SR!NewBase, SW!NewBase
    <3>3. CASE SR!Moves \/ SW!Moves
      <4>1. server.socket # "closed"
        BY <1>1, <2>1, <3>3, SharedStates, SR!FinalMoves, SW!FinalMoves
      <4> QED BY <1>1, <3>1, <4>1 DEF CR!Once
    <3> QED BY <2>3, <3>2, <3>3, ServerReadMoves, ServerWriteMoves
            DEF ServerMoved, ServerStep, ServerTimer
  <2>4. CASE UNCHANGED vars
    BY <2>4 DEF vars
  <2> QED BY <1>1, <2>2, <2>3, <2>4, PeerSteps
<1>2. PeerSpec => [][C /\ S]_peerVars
  BY <1>1, PeerSound, AlwaysApart, PTL DEF PeerSpec
<1>3. ((C /\ S) \/ UNCHANGED peerVars) => (C /\ S)
  BY DEF peerVars, vars
<1> QED BY <1>2, <1>3, PTL DEF CompletionIsFinal, CR!CompletionIsFinal, SR!CompletionIsFinal

-----------------------------------------------------------------------------
(* Where the strays carry their block number as their chunk, so do all packets that *)
(* the operation sees: one that stores sends no data.                               *)
Marked(p) == p.type = "DATA" => p.chunk = p.block

Marks == [packets |-> {p \in Packet : Marked(p)}, timeouts |-> CR!Timeouts,
          statuses |-> CR!TransferStatus, progress |-> CR!Progress]

(* Marks allows everything else. *)
LEMMA MarksAllow ==
    /\ Allows(Marks) /\ "idle" \in Marks.progress
    /\ "Successful" \in Marks.statuses /\ "timeoutDally" \in Marks.timeouts
    /\ \A p \in Packet : p.type # "DATA" => p \in Marks.packets
    /\ \A p \in Marks.packets : Marked(p)
    /\ Marks.statuses = CR!Any.statuses /\ Marks.timeouts = CR!Any.timeouts
    /\ Marks.progress = CR!Any.progress /\ Marks.packets \subseteq CR!Any.packets
<1>1. /\ \A p \in Packet : p.type # "DATA" => p \in Marks.packets
      /\ \A p \in Marks.packets : Marked(p)
      /\ Marks.packets \subseteq Packet
      /\ Marks.statuses = CR!TransferStatus /\ Marks.timeouts = CR!Timeouts
      /\ Marks.progress = CR!Progress
  BY DEF Marks, Marked
<1>2. NoPacket.type # "DATA" /\ \A code : Error(code).type # "DATA"
  BY DEF NoPacket, InvalidPacket, Error
<1>3. /\ CR!Any.statuses = CR!TransferStatus /\ CR!Any.timeouts = CR!Timeouts
      /\ CR!Any.progress = CR!Progress /\ CR!Any.packets = Packet
  BY SharedPackets DEF CR!Progress
<1> HIDE DEF Marks
<1> QED BY <1>1, <1>2, <1>3, PacketType DEF Allows, CR!TransferStatus, CR!Timeouts, CR!Progress

(* The operation that runs is the one that stores. *)
Storing == alone = IF kind = "read" THEN "client" ELSE "server"

(* The chunks stored so far are the successors of 0, in terms of the block numbers. *)
Gapless ==
    /\ NoGap
    /\ Storing =>
         /\ net \subseteq DatagramOf(Marks.packets)
         /\ Receiver \in CR!BaseOf(Marks)

(* A chunk that is appended has the number of the block it is stored as. *)
LEMMA GaplessAppended ==
    ASSUME Apart, NoGap,
           \/ received' = received
           \/ \E chunk : received' = Append(received, chunk) /\ chunk = NextBlock(storedBlock)
    PROVE  NoGap'
<1>1. received \in Seq(Nat) /\ storedBlock = BlockOf(Len(received)) /\ Len(received) \in Nat
  BY DEF Apart, TypeOK, Counted, Numbering
<1>2. CASE received' = received
  BY <1>2 DEF NoGap
<1>3. ASSUME NEW chunk, received' = Append(received, chunk), chunk = NextBlock(storedBlock)
      PROVE  NoGap'
  <2>1. chunk = BlockOf(Len(received) + 1)
    BY <1>1, <1>3, NextNumber
  <2>2. /\ Len(received') = Len(received) + 1
        /\ \A i \in 1 .. Len(received) : received'[i] = received[i]
        /\ received'[Len(received) + 1] = chunk
    BY <1>1, <1>3
  <2> QED BY <1>1, <2>1, <2>2 DEF NoGap
<1> QED BY <1>2, <1>3

(* The client of a read. *)
LEMMA GaplessClient ==
    ASSUME Apart, Gapless, ClientMoved, kind = "read", UNCHANGED alone
    PROVE  Gapless'
<1> USE Assumed DEF CR!MaxBlockAssumption, CR!ParametersAssumption
<1>1. /\ CR!ClientAdmits(Marks) /\ CR!Admits(Marks) /\ "started" \in Marks.progress
      /\ "OptionNegotiationError" \in Marks.statuses
      /\ client \in CR!BaseOf(Marks) /\ net \subseteq CR!DatagramOf(Marks.packets)
  BY MarksAllow, Admitted, Shared DEF Gapless, Storing, ClientMoved, Receiver, CR!ClientAdmits, Allows
<1>2. TypeOK' /\ kind' = "read" /\ alone' = "client"
  BY LeftAlone, TypeOKClient DEF Apart, ClientMoved
<1>3. \A b \in BlockNumbers, c \in Nat : CR!Ack(b, c) \in Marks.packets
  BY SharedPackets, PacketType, MarksAllow DEF Ack
<1>4. /\ CR!Ack(storedBlock', Len(received')) \in Marks.packets
      /\ CR!Ack(0, Len(received)) \in Marks.packets
  <2>1. 0 \in BlockNumbers
    BY MaxBlockAssumption DEF BlockNumbers
  <2>2. storedBlock' \in BlockNumbers /\ Len(received') \in Nat /\ Len(received) \in Nat
    BY <1>2 DEF TypeOK, Apart
  <2> QED BY <1>3, <2>1, <2>2
<1>5. CASE CR!Step
  <2>1. client' \in CR!BaseOf(Marks) /\ net' \subseteq CR!DatagramOf(Marks.packets)
    BY <1>1, <1>4, <1>5, MarksAllow, ClientReadStepType
  <2>2. ASSUME CR!NewData
        PROVE  /\ received' = Append(received, CR!Current.packet.chunk)
               /\ CR!Current.packet.chunk = NextBlock(storedBlock)
    <3>1. CR!Current \in CR!CompletionOf(Marks)
      BY <1>1, <2>2, CR!DispatchedType DEF CR!NewData
    <3>2. Marked(CR!Current.packet) /\ CR!Current.packet.type = "DATA"
      BY <2>2, <3>1, MarksAllow DEF CR!CompletionOf, CR!NewData, CR!PacketReceived
    <3> QED BY <2>2, <3>2, SharedPackets DEF CR!NewData, Marked
  <2>3. CR!NewData \/ received' = received
    BY <1>5, ClientReadSends DEF CR!DuplicateData, CR!AcceptedOack, CR!members
  <2> QED BY <1>2, <2>1, <2>2, <2>3, Shared, GaplessAppended DEF Gapless, Receiver
<1>6. CASE CR!Timer
  <2>1. client' \in CR!BaseOf(Marks) /\ net' \subseteq CR!DatagramOf(Marks.packets)
    BY <1>1, <1>6, CR!QueueType DEF CR!Timer
  <2> QED BY <1>2, <1>6, <2>1, Shared, GaplessAppended DEF CR!Timer, CR!members, Gapless, Receiver
<1>7. ASSUME NEW options \in OptionLists, CR!Request(options)
      PROVE  Gapless'
  <2>1. CR!Rrq(options) \in Marks.packets
    BY SharedPackets, PacketType, MarksAllow DEF Rrq
  <2>2. client' \in CR!BaseOf(Marks) /\ net' \subseteq CR!DatagramOf(Marks.packets)
    BY <1>1, <1>7, <2>1, ClientReadRequestType
  <2> QED BY <1>2, <1>7, <2>2, Shared, GaplessAppended
          DEF CR!Request, CR!members, Gapless, Receiver
<1>8. Requests["read"] \subseteq OptionLists
  BY TransferAssumption DEF Kinds
<1> QED BY <1>5, <1>6, <1>7, <1>8 DEF ClientMoved, Request, ClientStep, ClientTimer,
                                      WriteAtClient, ReadAtClient

(* The server of a write. *)
LEMMA GaplessServer ==
    ASSUME Apart, Gapless, ServerMoved, kind = "write", UNCHANGED alone
    PROVE  Gapless'
<1> USE Assumed DEF SW!MaxBlockAssumption, SW!ParametersAssumption
<1>1. /\ SW!ServerAdmits(Marks) /\ SR!ServerAdmits(Marks) /\ SW!Admits(Marks)
      /\ "started" \in Marks.progress
      /\ server \in SW!BaseOf(Marks) /\ net \subseteq SW!DatagramOf(Marks.packets)
  BY MarksAllow, Admitted, Shared DEF Gapless, Storing, ServerMoved, Receiver, SW!ServerAdmits
<1>2. TypeOK' /\ kind' = "write" /\ alone' = "server"
  BY LeftAlone, TypeOKServer DEF Apart, ServerMoved
<1>3. \A b \in BlockNumbers, c \in Nat : SW!Ack(b, c) \in Marks.packets
  BY SharedPackets, PacketType, MarksAllow DEF Ack
<1>4. SW!Ack(storedBlock', Len(received')) \in Marks.packets /\ SW!Ack(0, 0) \in Marks.packets
  <2>1. 0 \in BlockNumbers
    BY MaxBlockAssumption DEF BlockNumbers
  <2>2. storedBlock' \in BlockNumbers /\ Len(received') \in Nat
    BY <1>2 DEF TypeOK
  <2> QED BY <1>3, <2>1, <2>2
<1>5. CASE SW!Step
  <2>1. server' \in SW!BaseOf(Marks) /\ net' \subseteq SW!DatagramOf(Marks.packets)
    BY <1>1, <1>4, <1>5, MarksAllow, ServerWriteStepType
  <2>2. ASSUME SW!NewData
        PROVE  /\ received' = Append(received, SW!Current.packet.chunk)
               /\ SW!Current.packet.chunk = NextBlock(storedBlock)
    <3>1. SW!Current \in SW!CompletionOf(Marks)
      BY <1>1, <2>2, SW!RunsType DEF SW!NewData, SW!PacketReceived
    <3>2. Marked(SW!Current.packet) /\ SW!Current.packet.type = "DATA"
      BY <2>2, <3>1, MarksAllow DEF SW!CompletionOf, SW!NewData, SW!PacketReceived
    <3> QED BY <2>2, <3>2, SharedPackets DEF SW!NewData, Marked
  <2>3. SW!NewData \/ received' = received
    BY <1>5, ServerWriteSends DEF SW!DuplicateData, SW!members
  <2> QED BY <1>2, <2>1, <2>2, <2>3, Shared, GaplessAppended DEF Gapless, Receiver
<1>6. CASE SW!Timer
  <2>1. server' \in SW!BaseOf(Marks) /\ net' \subseteq SW!DatagramOf(Marks.packets)
    BY <1>1, <1>6, SW!QueueType DEF SW!Timer
  <2> QED BY <1>2, <1>6, <2>1, Shared, GaplessAppended DEF SW!Timer, SW!members, Gapless, Receiver
<1>7. ASSUME NEW answer, SW!Start(answer)
      PROVE  Gapless'
  <2>1. SW!Oack("options") \in Marks.packets
    BY SharedPackets, PacketType, MarksAllow DEF Oack, OptionLists
  <2>2. SW!Idle \in SW!BaseOf(Marks)
    BY <1>1, MarksAllow, SW!InitialiseType DEF SW!Idle
  <2>3. server' \in SW!BaseOf(Marks) /\ net' \subseteq SW!DatagramOf(Marks.packets)
    BY <1>1, <1>4, <1>7, <2>1, <2>2, ServerWriteStartType
  <2> QED BY <1>2, <1>7, <2>3, Shared, GaplessAppended
          DEF SW!Start, SW!members, Gapless, Receiver
<1> QED BY <1>5, <1>6, <1>7 DEF ServerMoved, ServerStarted, ServerStep, ServerTimer,
                                ReadAtServer, WriteAtServer

(* dataPacket(): whatever the peer sends, the operation stores the blocks 1, 2, ... in *)
(* this order, over any number of roll-overs.                                          *)
THEOREM PeerLeavesNoGap ==
    (\A d \in Strays : Marked(d.packet)) => (PeerSpec => []NoGap)
<1> SUFFICES ASSUME \A d \in Strays : Marked(d.packet)
             PROVE  PeerSpec => []NoGap
  OBVIOUS
<1>1. PeerInit => Gapless
  <2> SUFFICES ASSUME PeerInit PROVE Gapless
    OBVIOUS
  <2>1. net = Strays /\ received = <<>> /\ client = CR!InitialClient /\ server = SR!InitialServer
    BY DEF PeerInit, Init, CR!Init, SR!Init
  <2>2. net \subseteq DatagramOf(Marks.packets)
    BY <2>1, ParametersAssumption DEF Datagram, DatagramOf, Marks
  <2>3. client \in CR!BaseOf(Marks) /\ server \in CR!BaseOf(Marks)
    BY <2>1, Assumed, MarksAllow, Admitted, CR!InitialType, SR!InitialType, Shared
    DEF CR!MaxBlockAssumption, CR!ParametersAssumption, SR!MaxBlockAssumption, SR!ParametersAssumption
  <2> QED BY <2>1, <2>2, <2>3 DEF Gapless, NoGap, Receiver
<1>2. ASSUME Apart, Gapless, [PeerNext]_peerVars
      PROVE  Gapless'
  <2>1. CASE (ClientMoved /\ kind = "write") \/ (ServerMoved /\ kind = "read")
    <3>1. received' = received /\ kind' = kind /\ alone' = alone
      BY <1>2, <2>1, LeftAlone, PeerSteps DEF ClientMoved, ServerMoved, receiverVars
    <3>2. ~Storing'
      BY <2>1, <3>1 DEF Storing, ClientMoved, ServerMoved
    <3>3. NoGap'
      BY <1>2, <3>1 DEF Gapless, NoGap
    <3> QED BY <3>2, <3>3 DEF Gapless
  <2>2. CASE UNCHANGED vars
    BY <1>2, <2>2, PeerSteps DEF Gapless, NoGap, Storing, Receiver, vars, receiverVars
  <2>3. kind \in Kinds
    BY <1>2 DEF Apart, TypeOK
  <2>4. UNCHANGED alone /\ (ClientMoved \/ ServerMoved \/ UNCHANGED vars)
    BY <1>2, PeerSteps
  <2>5. kind = "read" \/ kind = "write"
    BY <2>3 DEF Kinds
  <2> QED BY <1>2, <2>1, <2>2, <2>4, <2>5, GaplessClient, GaplessServer
<1>3. Gapless => NoGap
  BY DEF Gapless
<1> QED BY <1>1, <1>2, <1>3, AlwaysApart, PTL DEF PeerSpec

-----------------------------------------------------------------------------
(* The operation that sends may only report success once the short packet is sent. *)
Sends(n) == [packets |-> Packet, timeouts |-> CR!Timeouts, progress |-> CR!Progress,
             statuses |-> {status \in CR!TransferStatus : status = "Successful" => n >= LastChunk}]

LEMMA SendsAllow ==
    ASSUME NEW n
    PROVE  /\ Allows(Sends(n)) /\ "idle" \in Sends(n).progress
           /\ Sends(n).packets = Packet
           /\ "Successful" \in Sends(n).statuses <=> n >= LastChunk
           /\ \A m : (n >= LastChunk => m >= LastChunk) => CR!BaseOf(Sends(n)) \subseteq CR!BaseOf(Sends(m))
<1>1. /\ Sends(n).packets = Packet /\ Sends(n).timeouts = CR!Timeouts
      /\ Sends(n).progress = CR!Progress
      /\ \A s : s \in Sends(n).statuses <=> s \in CR!TransferStatus /\ (s = "Successful" => n >= LastChunk)
  BY DEF Sends
<1>2. ASSUME NEW m, n >= LastChunk => m >= LastChunk
      PROVE  CR!BaseOf(Sends(n)) \subseteq CR!BaseOf(Sends(m))
  <2>1. /\ Sends(m).packets = Sends(n).packets /\ Sends(m).timeouts = Sends(n).timeouts
        /\ Sends(m).progress = Sends(n).progress /\ Sends(n).statuses \subseteq Sends(m).statuses
    BY <1>2 DEF Sends
  <2> QED BY <2>1, CR!GrowingType, Assumed DEF CR!MaxBlockAssumption, CR!ParametersAssumption
<1> HIDE DEF Sends
<1> QED BY <1>1, <1>2, PacketType DEF Allows, CR!TransferStatus, CR!Timeouts, CR!Progress

(* The last packet that has been transmitted is the short one. *)
AllSent ==
    /\ lastDataPacketTransmitted => supplied >= LastChunk
    /\ Sender \in CR!BaseOf(Sends(supplied))

(* The client of a write. *)
LEMMA AllSentClient ==
    ASSUME Apart, AllSent, ClientMoved, kind = "write"
    PROVE  AllSent'
<1> USE Assumed DEF CW!MaxBlockAssumption, CW!ParametersAssumption
<1> DEFINE k == Sends(supplied')
<1>1. /\ TypeOK' /\ kind' = "write" /\ supplied \in Nat /\ supplied' \in Nat
      /\ net \subseteq CW!DatagramOf(Packet)
  BY LeftAlone, TypeOKClient, TypeOKMeans, Shared DEF Apart, ClientMoved, TypeOK
<1>2. /\ \/ CW!Step \/ CW!Timer \/ \E options \in OptionLists : CW!Request(options)
      /\ client \in CR!BaseOf(Sends(supplied))
  <2>1. Requests["write"] \subseteq OptionLists
    BY TransferAssumption DEF Kinds
  <2> QED BY <2>1 DEF ClientMoved, Request, ClientStep, ClientTimer, ReadAtClient, WriteAtClient,
                      AllSent, Sender
<1>3. /\ supplied' >= supplied
      /\ lastDataPacketTransmitted' => supplied' >= LastChunk
  <2>1. CASE CW!Timer \/ UNCHANGED CW!members
    BY <1>1, <2>1 DEF CW!Timer, CW!members, AllSent
  <2>2. CASE \E options : CW!Request(options)
    BY <1>1, <2>2 DEF CW!Request, CW!members, AllSent
  <2>3. ASSUME NEW b, NEW ok, CW!SendData(b, ok)
        PROVE  /\ supplied' >= supplied
               /\ lastDataPacketTransmitted' => supplied' >= LastChunk
    <3>1. /\ supplied' = supplied + 1
          /\ lastDataPacketTransmitted' => lastDataPacketTransmitted \/ supplied + 1 >= LastChunk
      BY <2>3 DEF CW!SendData, CW!SizeOf
    <3> QED BY <1>1, <3>1, ParametersAssumption DEF AllSent
  <2>4. CASE CW!Step
    <3>1. CASE CW!ExpectedAcknowledgement \/ CW!AcceptedOack
      <4>1. \/ \E b, ok : CW!SendData(b, ok)
            \/ supplied' = supplied /\ lastDataPacketTransmitted' = lastDataPacketTransmitted
        BY <3>1, Zenon DEF CW!ExpectedAcknowledgement, CW!AcceptedOack
      <4> QED BY <1>1, <2>3, <4>1 DEF AllSent
    <3>2. CASE CW!RefusedAcknowledgement
      BY <1>1, <3>2 DEF CW!RefusedAcknowledgement, AllSent
    <3> QED BY <2>1, <2>4, <3>1, <3>2, Zenon
            DEF CW!Step, CW!DataReceived, CW!DuplicateAcknowledgement, CW!WrongAcknowledgement,
                CW!MisplacedOack, CW!RefusedOack
  <2> QED BY <1>2, <2>1, <2>2, <2>4
<1>4. supplied >= LastChunk => supplied' >= LastChunk
  BY <1>1, <1>3, ParametersAssumption
<1>5. /\ CW!ClientAdmits(k) /\ CW!Admits(k) /\ "started" \in k.progress /\ k.packets = Packet
      /\ "OptionNegotiationError" \in k.statuses
      /\ client \in CW!BaseOf(k) /\ (lastDataPacketTransmitted => "Successful" \in k.statuses)
  BY <1>2, <1>4, SendsAllow, Admitted, Shared DEF AllSent, CW!ClientAdmits, Allows
<1>6. CW!Data(transmittedBlock', supplied', CW!SizeOf(supplied')) \in Packet
  <2>1. CW!SizeOf(supplied') \in Sizes
    BY DEF CW!SizeOf, Sizes
  <2> QED BY <1>1, <2>1, SharedPackets, PacketType DEF TypeOK
<1> HIDE DEF k
<1>7. client' \in CW!BaseOf(k)
  <2>1. CASE CW!Step
    BY <1>1, <1>5, <1>6, <2>1, ClientWriteStepType
  <2>2. CASE CW!Timer
    BY <1>1, <1>5, <2>2, CW!QueueType DEF CW!Timer
  <2>3. ASSUME NEW options \in OptionLists, CW!Request(options)
        PROVE  client' \in CW!BaseOf(k)
    BY <1>1, <1>5, <2>3, SharedPackets, PacketType, ClientWriteRequestType
  <2> QED BY <1>2, <2>1, <2>2, <2>3
<1> QED BY <1>1, <1>3, <1>7, Shared DEF AllSent, Sender, k

(* The server of a read. *)
LEMMA AllSentServer ==
    ASSUME Apart, AllSent, ServerMoved, kind = "read"
    PROVE  AllSent'
<1> USE Assumed DEF SR!MaxBlockAssumption, SR!ParametersAssumption
<1> DEFINE k == Sends(supplied')
<1>1. /\ TypeOK' /\ kind' = "read" /\ supplied \in Nat /\ supplied' \in Nat
      /\ net \subseteq SR!DatagramOf(Packet)
  BY LeftAlone, TypeOKServer, TypeOKMeans, Shared DEF Apart, ServerMoved, TypeOK
<1>2. /\ SR!Step \/ SR!Timer \/ \E answer : SR!Start(answer)
      /\ server \in CR!BaseOf(Sends(supplied))
  BY DEF ServerMoved, ServerStarted, ServerStep, ServerTimer, ReadAtServer, WriteAtServer,
         AllSent, Sender
<1>3. /\ supplied' >= supplied
      /\ lastDataPacketTransmitted' => supplied' >= LastChunk
  <2>1. CASE SR!Timer \/ UNCHANGED SR!members
    BY <1>1, <2>1 DEF SR!Timer, SR!members, AllSent
  <2>2. ASSUME NEW b, NEW ok, SR!SendData(b, ok)
        PROVE  /\ supplied' >= supplied
               /\ lastDataPacketTransmitted' => supplied' >= LastChunk
    <3>1. /\ supplied' = supplied + 1
          /\ lastDataPacketTransmitted' => lastDataPacketTransmitted \/ supplied + 1 >= LastChunk
      BY <2>2 DEF SR!SendData, SR!SizeOf
    <3> QED BY <1>1, <3>1, ParametersAssumption DEF AllSent
  <2>3. CASE SR!Step
    <3>1. CASE SR!ExpectedAcknowledgement
      <4>1. \/ \E b, ok : SR!SendData(b, ok)
            \/ supplied' = supplied /\ lastDataPacketTransmitted' = lastDataPacketTransmitted
        BY <3>1, Zenon DEF SR!ExpectedAcknowledgement
      <4> QED BY <1>1, <2>2, <4>1 DEF AllSent
    <3> QED BY <2>1, <2>3, <3>1, Zenon
            DEF SR!Step, SR!DataReceived, SR!DuplicateAcknowledgement, SR!WrongAcknowledgement
  <2>4. CASE \E answer : SR!Start(answer)
    BY <1>1, <2>1, <2>2, <2>4 DEF SR!Start, AllSent
  <2> QED BY <1>2, <2>1, <2>3, <2>4
<1>4. supplied >= LastChunk => supplied' >= LastChunk
  BY <1>1, <1>3, ParametersAssumption
<1>5. /\ SR!ServerAdmits(k) /\ SR!Admits(k) /\ "started" \in k.progress /\ k.packets = Packet
      /\ "idle" \in k.progress
      /\ server \in SR!BaseOf(k) /\ (lastDataPacketTransmitted => "Successful" \in k.statuses)
  BY <1>2, <1>4, SendsAllow, Admitted, Shared DEF AllSent, SR!ServerAdmits
<1>6. SR!Data(transmittedBlock', supplied', SR!SizeOf(supplied')) \in Packet
  <2>1. SR!SizeOf(supplied') \in Sizes
    BY DEF SR!SizeOf, Sizes
  <2> QED BY <1>1, <2>1, SharedPackets, PacketType DEF TypeOK
<1> HIDE DEF k
<1>7. server' \in SR!BaseOf(k)
  <2>1. CASE SR!Step
    BY <1>1, <1>5, <1>6, <2>1, ServerReadStepType
  <2>2. CASE SR!Timer
    BY <1>1, <1>5, <2>2, SR!QueueType DEF SR!Timer
  <2>3. ASSUME NEW answer, SR!Start(answer)
        PROVE  server' \in SR!BaseOf(k)
    <3>1. SR!Oack("options") \in Packet
      BY SharedPackets, PacketType DEF OptionLists
    <3>2. SR!Idle \in SR!BaseOf(k)
      BY <1>5, SR!InitialiseType DEF SR!Idle
    <3> QED BY <1>1, <1>5, <1>6, <2>3, <3>1, <3>2, ServerReadStartType
  <2> QED BY <1>2, <2>1, <2>2, <2>3
<1> QED BY <1>1, <1>3, <1>7, Shared DEF AllSent, Sender, k

(* acknowledgementPacket(): whatever acknowledgements the peer makes up, early, repeated or *)
(* of another block, success is only reported after the short packet has been sent.         *)
THEOREM PeerSuccessIsAllSent == PeerSpec => []SuccessIsAllSent
<1>1. PeerInit => AllSent
  <2> SUFFICES ASSUME PeerInit PROVE AllSent
    OBVIOUS
  <2>1. lastDataPacketTransmitted = FALSE /\ client = CR!InitialClient /\ server = SR!InitialServer
    BY DEF PeerInit, Init, CR!Init, SR!Init
  <2>2. client \in CR!BaseOf(Sends(supplied)) /\ server \in CR!BaseOf(Sends(supplied))
    BY <2>1, Assumed, SendsAllow, Admitted, CR!InitialType, SR!InitialType, Shared
    DEF CR!MaxBlockAssumption, CR!ParametersAssumption, SR!MaxBlockAssumption, SR!ParametersAssumption
  <2> QED BY <2>1, <2>2 DEF AllSent, Sender
<1>2. ASSUME Apart, AllSent, [PeerNext]_peerVars
      PROVE  AllSent'
  <2>1. CASE (ClientMoved /\ kind = "read") \/ (ServerMoved /\ kind = "write")
    <3>1. /\ Sender' = Sender /\ supplied' = supplied
          /\ lastDataPacketTransmitted' = lastDataPacketTransmitted
      BY <1>2, <2>1, LeftAlone DEF ClientMoved, ServerMoved, senderVars, Sender
    <3> QED BY <1>2, <3>1 DEF AllSent
  <2>2. CASE UNCHANGED vars
    BY <1>2, <2>2 DEF AllSent, Sender, vars, senderVars
  <2>3. kind \in Kinds
    BY <1>2 DEF Apart, TypeOK
  <2>4. ClientMoved \/ ServerMoved \/ UNCHANGED vars
    BY <1>2, PeerSteps
  <2>5. kind = "read" \/ kind = "write"
    BY <2>3 DEF Kinds
  <2> QED BY <1>2, <2>1, <2>2, <2>4, <2>5, AllSentClient, AllSentServer
<1>3. ASSUME AllSent
      PROVE  SuccessIsAllSent
  <2>1. Sender.status \in {"none"} \cup Sends(supplied).statuses
    BY <1>3 DEF AllSent, CR!BaseOf
  <2> QED BY <2>1, SendsAllow DEF SuccessIsAllSent
<1> QED BY <1>1, <1>2, <1>3, AlwaysApart, PTL DEF PeerSpec

-----------------------------------------------------------------------------
(* Before any data has been sent or stored. *)
Untransferred == supplied = 0 /\ received = <<>>

(* The packets that are answered by a refusal: errorPacket() looks for them. *)
Opens(packet) == packet.type \in {"RRQ", "WRQ", "OACK"}

Refusals == {"RequestError", "OptionNegotiationError"}

(* What is not reported once data has been transferred. *)
Early == IF alone = "client" /\ kind = "write" THEN {"RequestError"} ELSE Refusals

(* An operation that has been started and does not report an early refusal. *)
Late(early) == [packets |-> Packet, timeouts |-> CR!Timeouts, progress |-> {"started", "finished"},
                statuses |-> CR!TransferStatus \ early]

LEMMA LateMeans ==
    ASSUME NEW early, early \subseteq Refusals
    PROVE  /\ Late(early).packets = Packet /\ Late(early).timeouts = CR!Timeouts
           /\ Late(early).statuses = CR!TransferStatus \ early
           /\ Late(early).progress = {"started", "finished"}
           /\ \A b : b \in CR!BaseOf(Late(early))
                     <=> b \in CR!Base /\ b.dataHandler # "idle" /\ b.status \notin early
<1>1. /\ Late(early).packets = Packet /\ Late(early).timeouts = CR!Timeouts
      /\ Late(early).progress = {"started", "finished"}
      /\ Late(early).statuses = CR!TransferStatus \ early
  BY DEF Late
<1>2. /\ CR!Any.packets = Packet /\ CR!Any.timeouts = CR!Timeouts
      /\ CR!Any.progress = {"idle", "started", "finished"} /\ CR!Any.statuses = CR!TransferStatus
  BY SharedPackets
<1>3. "none" \notin early
  BY DEF Refusals
<1> HIDE DEF Late
<1>4. CR!CompletionOf(Late(early)) = CR!CompletionOf(CR!Any)
  BY <1>1, <1>2 DEF CR!CompletionOf
<1>5. ASSUME NEW b
      PROVE  b \in CR!BaseOf(Late(early)) <=> b \in CR!Base /\ b.dataHandler # "idle" /\ b.status \notin early
  BY <1>1, <1>2, <1>3, <1>4 DEF CR!Base, CR!BaseOf
<1> QED BY <1>1, <1>5

(* A step of the clients and the servers is one of Late, if it does not tell of a refusal. *)
LEMMA LateAdmits ==
    ASSUME NEW early, early \subseteq Refusals, client \in CR!Base, server \in CR!Base
    PROVE  /\ (CR!PacketReceived({"ERROR"}) => ~Opens(client.transmitPacket)) =>
                 CR!ClientAdmits(Late(early)) /\ CW!ClientAdmits(Late(early))
           /\ (SR!PacketReceived({"ERROR"}) => ~Opens(server.transmitPacket)) =>
                 SR!ServerAdmits(Late(early)) /\ SW!ServerAdmits(Late(early))
<1>1. PICK k : k = Late(early)
  OBVIOUS
<1>2. /\ k.packets = Packet /\ {"timeoutFirst", "timeout"} \subseteq k.timeouts
      /\ {"CommunicationError", "TransferError", "Aborted"} \subseteq k.statuses
      /\ "finished" \in k.progress
      /\ NoPacket \in k.packets /\ \A code \in ErrorCodes : Error(code) \in k.packets
  <2>1. /\ k.packets = Packet /\ k.timeouts = CR!Timeouts /\ k.progress = {"started", "finished"}
        /\ k.statuses = CR!TransferStatus \ early
    BY <1>1, LateMeans
  <2> QED BY <2>1, PacketType DEF Refusals, CR!Timeouts, CR!TransferStatus
<1> USE <1>2 DEF Endpoints, ErrorCodes, Error, NoPacket, InvalidPacket
<1>3. ASSUME CR!PacketReceived({"ERROR"}) => ~Opens(client.transmitPacket)
      PROVE  CR!ClientAdmits(k) /\ CW!ClientAdmits(k)
  <2>1. CR!PacketReceived({"ERROR"}) => /\ CR!ErrorStatus(CR!Popped, CR!Current.packet.arg) = "TransferError"
                                       /\ CW!ErrorStatus(CW!Popped, CW!Current.packet.arg) = "TransferError"
    <3>1. CR!Popped.transmitPacket = client.transmitPacket /\ CW!Popped.transmitPacket = client.transmitPacket
      BY DEF CR!Popped, CW!Popped, CR!Base, CR!BaseOf
    <3> QED BY <1>3, <3>1 DEF CR!ErrorStatus, CW!ErrorStatus, Opens
  <2>2. CW!PacketReceived({"ERROR"}) => CR!PacketReceived({"ERROR"})
    BY DEF CW!PacketReceived, CR!PacketReceived, CW!Runs, CR!Runs, CW!Current, CR!Current,
           CW!FromServer, CR!FromServer, CW!Running, CR!Running
  <2>3. CR!ClientAdmits(k)
    BY <2>1 DEF CR!ClientAdmits, CR!Admits, CR!Endpoints, CR!ErrorCodes, CR!Error, CR!NoPacket, CR!InvalidPacket
  <2>4. CW!ClientAdmits(k)
    BY <2>1, <2>2 DEF CW!ClientAdmits, CW!Admits, CW!Endpoints, CW!ErrorCodes, CW!Error, CW!NoPacket, CW!InvalidPacket
  <2> QED BY <2>3, <2>4
<1>4. ASSUME SR!PacketReceived({"ERROR"}) => ~Opens(server.transmitPacket)
      PROVE  SR!ServerAdmits(k) /\ SW!ServerAdmits(k)
  <2>1. SR!PacketReceived({"ERROR"}) => /\ SR!ErrorStatus(SR!Popped, SR!Current.packet.arg) = "TransferError"
                                       /\ SW!ErrorStatus(SW!Popped, SW!Current.packet.arg) = "TransferError"
    <3>1. SR!Popped.transmitPacket = server.transmitPacket /\ SW!Popped.transmitPacket = server.transmitPacket
      BY DEF SR!Popped, SW!Popped, CR!Base, CR!BaseOf
    <3> QED BY <1>4, <3>1 DEF SR!ErrorStatus, SW!ErrorStatus, Opens
  <2>2. SW!PacketReceived({"ERROR"}) => SR!PacketReceived({"ERROR"})
    BY DEF SW!PacketReceived, SR!PacketReceived, SW!Runs, SR!Runs, SW!Current, SR!Current,
           SW!Running, SR!Running
  <2>3. SR!ServerAdmits(k)
    BY <2>1 DEF SR!ServerAdmits, SR!Admits, SR!Endpoints, SR!ErrorCodes, SR!Error, SR!NoPacket, SR!InvalidPacket
  <2>4. SW!ServerAdmits(k)
    BY <2>1, <2>2 DEF SW!ServerAdmits, SW!Admits, SW!Endpoints, SW!ErrorCodes, SW!Error, SW!NoPacket, SW!InvalidPacket
  <2> QED BY <2>3, <2>4
<1> QED BY <1>1, <1>3, <1>4

(* The server, when it begins or has stopped short of it, remembers no refusal. *)
LEMMA ServerBegins ==
    ASSUME Apart, ServerMoved, server \in {SR!InitialServer, SR!Idle}
    PROVE  /\ \/ server' \in CR!BaseOf(Late(Refusals))
              \/ server = SR!InitialServer /\ server' = SR!Idle /\ UNCHANGED <<supplied, received>>
           /\ server = SR!Idle => SR!Idle # SR!InitialServer
<1> USE Assumed
    DEF SR!MaxBlockAssumption, SR!ParametersAssumption, SW!MaxBlockAssumption, SW!ParametersAssumption
<1>1. PICK k : k = Late(Refusals)
  OBVIOUS
<1>2. SW!InitialServer = SR!InitialServer /\ SW!Idle = SR!Idle
  BY DEF SW!Idle, SR!Idle, SW!Initialise, SR!Initialise, SW!InitialServer, SR!InitialServer,
         SW!NewBase, SR!NewBase, SW!NoPacket, SR!NoPacket, SW!InvalidPacket, SR!InvalidPacket,
         SW!Finished, SR!Finished, SW!Running, SR!Running
<1>3. /\ client \in CR!Base /\ server \in CR!Base /\ supplied \in Nat /\ TypeOK'
      /\ net \subseteq SR!DatagramOf(Packet) /\ net \subseteq SW!DatagramOf(Packet)
  BY TypeOKServer, TypeOKMeans, Shared DEF Apart, TypeOK, ServerMoved
<1>4. /\ \A handler : ~SR!Runs(handler) /\ ~SW!Runs(handler)
      /\ ~SR!Expire /\ ~SW!Expire
      /\ server = SR!Idle => server # SR!InitialServer
  BY <1>2, SR!UnstartedServer, SW!UnstartedServer
<1>5. SR!ServerAdmits(k) /\ SW!ServerAdmits(k) /\ k.packets = Packet /\ "started" \in k.progress
  BY <1>1, <1>3, <1>4, LateAdmits, LateMeans DEF SR!PacketReceived
<1>6. /\ SR!Data(transmittedBlock', supplied', SR!SizeOf(supplied')) \in Packet
      /\ SR!Oack("options") \in Packet /\ SW!Oack("options") \in Packet /\ SW!Ack(0, 0) \in Packet
  <2>1. SR!SizeOf(supplied') \in Sizes /\ 0 \in BlockNumbers /\ "options" \in OptionLists
    BY MaxBlockAssumption DEF SR!SizeOf, Sizes, BlockNumbers, OptionLists
  <2> QED BY <1>3, <2>1, SharedPackets, PacketType DEF TypeOK
<1>7. CASE server = SR!Idle
  <2>1. \/ kind = "read" /\ SR!BaseStep
        \/ kind = "write" /\ SW!BaseStep
    BY <1>2, <1>4, <1>7
       DEF ServerMoved, ServerStarted, ServerStep, ServerTimer, ReadAtServer, WriteAtServer,
           SR!Start, SW!Start, SR!Timer, SW!Timer,
           SR!Step, SR!DataReceived, SR!DuplicateAcknowledgement, SR!WrongAcknowledgement,
           SR!ExpectedAcknowledgement, SR!PacketReceived,
           SW!Step, SW!DuplicateData, SW!NewData, SW!WrongData, SW!AcknowledgementReceived,
           SW!TimeoutDally, SW!PacketReceived
  <2> QED BY <1>1, <1>2, <1>3, <1>4, <1>5, <1>7, <2>1, SR!IdleStepType, SW!IdleStepType, Shared
<1>8. CASE server = SR!InitialServer
  <2>1. \/ kind = "read" /\ (\E answer : SR!Start(answer)) /\ received' = received
        \/ kind = "write" /\ (\E answer : SW!Start(answer)) /\ supplied' = supplied
    BY <1>2, <1>4, <1>8, SR!UnstartedServer, SW!UnstartedServer
       DEF ServerMoved, ServerStarted, ServerStep, ServerTimer, ReadAtServer, WriteAtServer,
           senderVars, receiverVars, SR!Timer, SW!Timer,
           SR!Step, SR!DataReceived, SR!DuplicateAcknowledgement, SR!WrongAcknowledgement,
           SR!ExpectedAcknowledgement, SR!PacketReceived,
           SW!Step, SW!DuplicateData, SW!NewData, SW!WrongData, SW!AcknowledgementReceived,
           SW!TimeoutDally, SW!PacketReceived
  <2>2. ASSUME NEW answer, SR!Start(answer), received' = received
        PROVE  \/ server' \in CR!BaseOf(k)
               \/ server' = SR!Idle /\ UNCHANGED <<supplied, received>>
    BY <1>3, <1>5, <1>6, <2>2, ServerReadStartType, Shared DEF SR!members
  <2>3. ASSUME NEW answer, SW!Start(answer), supplied' = supplied
        PROVE  \/ server' \in CR!BaseOf(k)
               \/ server' = SR!Idle /\ UNCHANGED <<supplied, received>>
    BY <1>2, <1>3, <1>5, <1>6, <2>3, ServerWriteStartType, Shared DEF SW!members
  <2> QED BY <1>1, <1>4, <1>8, <2>1, <2>2, <2>3
<1> QED BY <1>4, <1>7, <1>8

(* Once data has been transferred, neither has a refusal been reported nor would an *)
(* error be taken for one; and a server that has not been started has sent nothing. *)
RefusesEarly ==
    /\ CR!Once(client) /\ CR!Once(server)
    /\ client.out = {} /\ server.out = {}
    /\ alone = "server" /\ server.dataHandler = "idle" =>
          server = SR!Idle \/ (server = SR!InitialServer /\ Untransferred)
    /\ Untransferred \/ (Alone.status \notin Early /\ ~Opens(Alone.transmitPacket))

(* The packets that an operation replies with once it has been started. *)
LEMMA RepliesOpenNothing ==
    /\ \A b, c : ~Opens(Ack(b, c))
    /\ \A b, c, s : ~Opens(Data(b, c, s))
    /\ \A packet : packet.type = "ERROR" => ~Opens(packet)
    /\ ~Opens(NoPacket)
BY DEF Opens, Ack, Data, NoPacket, InvalidPacket

(* The client of a read. *)
LEMMA LateClientRead ==
    ASSUME Apart, RefusesEarly, ClientMoved, kind = "read", ~Untransferred'
    PROVE  client'.status \notin Refusals /\ ~Opens(client'.transmitPacket) /\ client'.out = {}
<1> USE Assumed DEF CR!MaxBlockAssumption, CR!ParametersAssumption
<1>1. /\ client \in CR!Base /\ server \in CR!Base /\ TypeOK' /\ TypeOK /\ Counted
      /\ net \subseteq CR!DatagramOf(Packet)
      /\ received \in Seq(Nat) /\ storedBlock = BlockOf(Len(received))
      /\ CR!Once(client) /\ client.out = {}
  BY TypeOKClient, TypeOKMeans, Shared DEF Apart, TypeOK, ClientMoved, Counted, Numbering, RefusesEarly
<1>2. supplied' = 0 /\ received' # <<>>
  BY LeftAlone DEF ClientMoved, Apart, senderVars, Untransferred
<1>3. ASSUME received' = received
      PROVE  client.status \notin Refusals /\ ~Opens(client.transmitPacket) /\ storedBlock # 0
  <2>1. ~Untransferred
    BY <1>2, <1>3 DEF Untransferred
  <2>2. Len(received) \in Nat \ {0}
    BY <1>1, <1>2, <1>3
  <2>3. BlockOf(Len(received)) # 0
    BY <2>2, MaxBlockAssumption DEF BlockOf
  <2> QED BY <1>1, <2>1, <2>3 DEF RefusesEarly, Alone, Early, ClientMoved
<1>4. CASE CR!Step \/ CR!Timer
  <2>1. client.dataHandler # "idle"
    <3>1. client # CR!InitialClient
      BY <1>4, CR!UnstartedClient
         DEF CR!Timer, CR!Step, CR!DuplicateData, CR!NewData, CR!RefusedData, CR!WrongData,
             CR!TimeoutDally, CR!AcknowledgementReceived, CR!MisplacedOack, CR!RefusedOack,
             CR!AcceptedOack, CR!PacketReceived
    <3> QED BY <1>1, <3>1 DEF Counted, Unstarted
  <2>2. received' = received \/ CR!NewData
    BY <1>4, ClientReadSends DEF CR!DuplicateData, CR!AcceptedOack, CR!members
  <2>3. CR!NewData => client.status = "none"
    BY <1>1, CR!PacketUnreported DEF CR!NewData, CR!PacketReceived
  <2>4. client.status \notin Refusals
    BY <1>3, <2>2, <2>3 DEF Refusals
  <2>5. CR!PacketReceived({"ERROR"}) => ~Opens(client.transmitPacket)
    BY <1>3, <2>2 DEF CR!NewData, CR!PacketReceived
  <2>6. ~CR!RefusedOack
    BY <1>3 DEF CR!RefusedOack, CR!members
  <2>7. PICK k : k = Late(Refusals)
    OBVIOUS
  <2>8. /\ CR!ClientAdmits(k) /\ CR!Admits(k) /\ client \in CR!BaseOf(k) /\ k.packets = Packet
        /\ "Successful" \in k.statuses /\ "timeoutDally" \in k.timeouts
    <3>1. k.statuses = CR!TransferStatus \ Refusals /\ k.timeouts = CR!Timeouts
      BY <2>7, LateMeans
    <3>2. "Successful" \in k.statuses /\ "timeoutDally" \in k.timeouts
      BY <3>1 DEF Refusals, CR!TransferStatus, CR!Timeouts
    <3> QED BY <1>1, <2>1, <2>4, <2>5, <2>7, <3>2, LateMeans, LateAdmits DEF CR!ClientAdmits
  <2>9. /\ CR!Ack(storedBlock', Len(received')) \in Packet
        /\ CR!Ack(0, Len(received)) \in Packet
    <3>1. 0 \in BlockNumbers
      BY MaxBlockAssumption DEF BlockNumbers
    <3>2. storedBlock' \in BlockNumbers /\ Len(received') \in Nat /\ Len(received) \in Nat
      BY <1>1 DEF TypeOK
    <3> QED BY <3>1, <3>2, SharedPackets, PacketType
  <2>10. client' \in CR!BaseOf(k)
    <3>1. CASE CR!Step
      BY <1>1, <2>6, <2>8, <2>9, <3>1, ClientReadStepType
    <3>2. CASE CR!Timer
      BY <1>1, <2>8, <3>2, CR!QueueType DEF CR!Timer
    <3> QED BY <1>4, <3>1, <3>2
  <2>11. ~Opens(client'.transmitPacket) /\ client'.out = {}
    BY <1>1, <1>3, <1>4, ClientReadSends, CR!PassesTell, CR!RepliesTell, RepliesOpenNothing
       DEF CR!Objects
  <2> QED BY <2>7, <2>10, <2>11, LateMeans
<1>5. CASE \E options : CR!Request(options)
  BY <1>1, <1>2, <1>5 DEF CR!Request, CR!members, Counted, Unstarted, CR!InitialClient, CR!NewBase
<1> QED BY <1>4, <1>5 DEF ClientMoved, Request, ClientStep, ClientTimer, ReadAtClient, WriteAtClient


(* The client of a write, which may accept an OACK, or refuse one, late. *)
LEMMA LateClientWrite ==
    ASSUME Apart, RefusesEarly, ClientMoved, kind = "write", ~Untransferred'
    PROVE  client'.status # "RequestError" /\ ~Opens(client'.transmitPacket) /\ client'.out = {}
<1> USE Assumed DEF CW!MaxBlockAssumption, CW!ParametersAssumption
<1>1. /\ client \in CW!Base /\ client \in CR!Base /\ server \in CR!Base /\ TypeOK' /\ TypeOK /\ Counted
      /\ net \subseteq CW!DatagramOf(Packet) /\ supplied \in Nat
      /\ CW!Once(client) /\ client.out = {}
      /\ CW!InitialClient = CR!InitialClient
  BY TypeOKClient, TypeOKMeans, Shared, SharedStates
  DEF Apart, TypeOK, ClientMoved, RefusesEarly,
      CW!InitialClient, CW!NewBase, CR!InitialClient, CR!NewBase,
      CW!NoPacket, CR!NoPacket, CW!InvalidPacket, CR!InvalidPacket
<1>2. received' = <<>> /\ supplied' # 0
  BY LeftAlone DEF ClientMoved, Apart, receiverVars, Untransferred
<1>3. ASSUME supplied' = supplied
      PROVE  client.status # "RequestError" /\ ~Opens(client.transmitPacket)
  BY <1>2, <1>3 DEF RefusesEarly, Alone, Early, ClientMoved, Untransferred
<1>4. CASE CW!Step \/ CW!Timer
  <2>1. client.dataHandler # "idle"
    <3>1. client # CR!InitialClient
      BY <1>1, <1>4, CW!UnstartedClient
         DEF CW!Timer, CW!Step, CW!DataReceived, CW!DuplicateAcknowledgement,
             CW!WrongAcknowledgement, CW!RefusedAcknowledgement, CW!ExpectedAcknowledgement,
             CW!MisplacedOack, CW!RefusedOack, CW!AcceptedOack, CW!PacketReceived
    <3> QED BY <1>1, <3>1 DEF Counted, Unstarted
  <2>2. supplied' = supplied \/ CW!ExpectedAcknowledgement \/ CW!AcceptedOack
    BY <1>4, ClientWriteSends
  <2>3. CW!ExpectedAcknowledgement \/ CW!AcceptedOack =>
           client.status = "none" /\ ~CW!PacketReceived({"ERROR"})
    BY <1>1, CW!PacketUnreported DEF CW!ExpectedAcknowledgement, CW!AcceptedOack, CW!PacketReceived
  <2>4. client.status # "RequestError"
    BY <1>3, <2>2, <2>3
  <2>5. CW!PacketReceived({"ERROR"}) => ~Opens(client.transmitPacket)
    BY <1>3, <2>2, <2>3
  <2>6. CR!PacketReceived({"ERROR"}) => CW!PacketReceived({"ERROR"})
    BY DEF CW!PacketReceived, CR!PacketReceived, CW!Runs, CR!Runs, CW!Current, CR!Current,
           CW!FromServer, CR!FromServer, CW!Running, CR!Running
  <2>7. PICK k : k = Late({"RequestError"})
    OBVIOUS
  <2>8. /\ CW!ClientAdmits(k) /\ CW!Admits(k) /\ client \in CW!BaseOf(k) /\ k.packets = Packet
        /\ "Successful" \in k.statuses /\ "OptionNegotiationError" \in k.statuses
        /\ \A b : b \in CR!BaseOf(k) => b.status # "RequestError"
    <3>1. {"RequestError"} \subseteq Refusals
      BY DEF Refusals
    <3>2. k.statuses = CR!TransferStatus \ {"RequestError"}
      BY <2>7, <3>1, LateMeans
    <3>3. "Successful" \in k.statuses /\ "OptionNegotiationError" \in k.statuses
      BY <3>2 DEF CR!TransferStatus
    <3> QED BY <1>1, <2>1, <2>4, <2>5, <2>6, <2>7, <3>1, <3>3, LateMeans, LateAdmits, Shared
            DEF CW!ClientAdmits
  <2>9. CW!Data(transmittedBlock', supplied', CW!SizeOf(supplied')) \in Packet
    <3>1. CW!SizeOf(supplied') \in Sizes
      BY DEF CW!SizeOf, Sizes
    <3> QED BY <1>1, <3>1, SharedPackets, PacketType DEF TypeOK
  <2>10. client' \in CW!BaseOf(k)
    <3>1. CASE CW!Step
      BY <1>1, <2>8, <2>9, <3>1, ClientWriteStepType
    <3>2. CASE CW!Timer
      BY <1>1, <2>8, <3>2, CW!QueueType DEF CW!Timer
    <3> QED BY <1>4, <3>1, <3>2
  <2>11. ~Opens(client'.transmitPacket) /\ client'.out = {}
    BY <1>1, <1>3, <1>4, ClientWriteSends, CW!PassesTell, CW!RepliesTell, RepliesOpenNothing
       DEF CW!Objects
  <2> QED BY <2>8, <2>10, <2>11, Shared
<1>5. CASE \E options : CW!Request(options)
  BY <1>1, <1>2, <1>5 DEF CW!Request, CW!members, Counted, Unstarted, CR!InitialClient, CR!NewBase
<1> QED BY <1>4, <1>5 DEF ClientMoved, Request, ClientStep, ClientTimer, ReadAtClient, WriteAtClient


(* The server of a read. *)
LEMMA LateServerRead ==
    ASSUME Apart, RefusesEarly, ServerMoved, kind = "read", ~Untransferred'
    PROVE  server'.status \notin Refusals /\ ~Opens(server'.transmitPacket)
<1> USE Assumed DEF SR!MaxBlockAssumption, SR!ParametersAssumption
<1>1. /\ server \in SR!Base /\ client \in CR!Base /\ server \in CR!Base /\ TypeOK' /\ TypeOK
      /\ net \subseteq SR!DatagramOf(Packet) /\ supplied \in Nat
      /\ SR!Once(server) /\ server.out = {}
  BY TypeOKServer, TypeOKMeans, Shared, SharedStates DEF Apart, TypeOK, ServerMoved, RefusesEarly
<1>2. received' = <<>> /\ supplied' # 0
  BY LeftAlone DEF ServerMoved, Apart, receiverVars, Untransferred
<1>3. ASSUME supplied' = supplied
      PROVE  server.status \notin Refusals /\ ~Opens(server.transmitPacket)
  BY <1>2, <1>3 DEF RefusesEarly, Alone, Early, ServerMoved, Untransferred
<1>4. CASE SR!Step \/ SR!Timer
  <2>1. ~Opens(server'.transmitPacket)
    BY <1>1, <1>3, <1>4, ServerReadSends, SR!PassesTell, SR!RepliesTell, RepliesOpenNothing
       DEF SR!Objects
  <2>2. supplied' = supplied \/ SR!ExpectedAcknowledgement
    BY <1>4, ServerReadSends
  <2>3. SR!ExpectedAcknowledgement => server.status = "none" /\ ~SR!PacketReceived({"ERROR"})
    BY <1>1, SR!PacketUnreported DEF SR!ExpectedAcknowledgement, SR!PacketReceived
  <2>4. PICK k : k = Late(Refusals)
    OBVIOUS
  <2>5. "Successful" \in k.statuses
    BY <2>4, LateMeans DEF Refusals, CR!TransferStatus
  <2>6. CASE server.dataHandler # "idle"
    <3>1. server.status \notin Refusals
      BY <1>3, <2>2, <2>3 DEF Refusals
    <3>2. SR!PacketReceived({"ERROR"}) => ~Opens(server.transmitPacket)
      BY <1>3, <2>2, <2>3
    <3>3. SR!ServerAdmits(k) /\ SR!Admits(k) /\ server \in SR!BaseOf(k) /\ k.packets = Packet
      BY <1>1, <2>4, <2>6, <3>1, <3>2, LateMeans, LateAdmits, Shared DEF SR!ServerAdmits
    <3>4. SR!Data(transmittedBlock', supplied', SR!SizeOf(supplied')) \in Packet
      <4>1. SR!SizeOf(supplied') \in Sizes
        BY DEF SR!SizeOf, Sizes
      <4> QED BY <1>1, <4>1, SharedPackets, PacketType DEF TypeOK
    <3>5. CASE SR!Step
      BY <1>1, <2>1, <2>4, <2>5, <3>3, <3>4, <3>5, ServerReadStepType, LateMeans, Shared
    <3>6. CASE SR!Timer
      BY <1>1, <2>1, <2>4, <3>3, <3>6, SR!QueueType, LateMeans, Shared DEF SR!Timer
    <3> QED BY <1>4, <3>5, <3>6
  <2>7. CASE server.dataHandler = "idle"
    <3>1. server \in {SR!InitialServer, SR!Idle}
      BY <2>7 DEF RefusesEarly, ServerMoved
    <3>2. server' \in CR!BaseOf(Late(Refusals))
      BY <1>2, <2>7, <3>1, ServerBegins DEF RefusesEarly, ServerMoved, Untransferred
    <3> QED BY <2>1, <3>2, LateMeans
  <2> QED BY <2>6, <2>7
<1>5. ASSUME NEW answer, SR!Start(answer)
      PROVE  server'.status \notin Refusals /\ ~Opens(server'.transmitPacket)
  <2>1. server = SR!InitialServer /\ supplied = 0
    BY <1>2, <1>5, ConstructedStates, SR!IdleServer
    DEF SR!Start, RefusesEarly, ServerMoved, Untransferred, SR!InitialServer, SR!NewBase
  <2>2. server' \in CR!BaseOf(Late(Refusals))
    BY <1>2, <2>1, ServerBegins
  <2>3. PICK opened, ok : SR!SendData(SR!StartDataHandler(SR!Initialise(server, opened)), ok)
    BY <1>2, <1>5, <2>1 DEF SR!Start, SR!members
  <2>4. PICK c : c = SR!StartDataHandler(SR!Initialise(server, opened))
    OBVIOUS
  <2>5. DOMAIN c = SR!Fields /\ c.out = {} /\ c.transmitPacket = NoPacket
    BY <2>1, <2>4
    DEF SR!StartDataHandler, SR!Initialise, SR!Finished, SR!Running, SR!InitialServer, SR!NewBase,
        SR!Fields, SR!NoPacket, NoPacket, SR!InvalidPacket, InvalidPacket
  <2>6. PICK packet : packet.type = "DATA" /\ SR!Perform(SR!Receive(SR!Send(c, packet, ok)))
    BY <2>3, <2>4 DEF SR!SendData, SR!Data
  <2>7. PICK s : s = SR!Send(c, packet, ok)
    OBVIOUS
  <2>8. DOMAIN s = SR!Fields /\ SR!Tells(s) /\ ~Opens(s.transmitPacket)
    <3>1. ~Opens(packet) /\ ~Opens(c.transmitPacket)
      BY <2>5, <2>6, RepliesOpenNothing DEF Opens
    <3>2. DOMAIN s = SR!Fields /\ SR!Tells(s) /\ (SR!Running(c) => s.transmitPacket = packet)
      BY <2>5, <2>7, SR!FunctionsTell
    <3>3. ~SR!Running(c) => s = c
      BY <2>7 DEF SR!Send
    <3> QED BY <3>1, <3>2, <3>3
  <2>9. PICK e : DOMAIN e = SR!Fields /\ ~Opens(e.transmitPacket) /\ SR!Perform(e)
    BY <2>6, <2>7, <2>8, SR!EndsTell DEF SR!Receive
  <2> QED BY <2>2, <2>9, LateMeans DEF SR!Perform, SR!Fields
<1> QED BY <1>4, <1>5 DEF ServerMoved, ServerStarted, ServerStep, ServerTimer, ReadAtServer, WriteAtServer

(* The server of a write. *)
LEMMA LateServerWrite ==
    ASSUME Apart, RefusesEarly, ServerMoved, kind = "write", ~Untransferred'
    PROVE  server'.status \notin Refusals /\ ~Opens(server'.transmitPacket)
<1> USE Assumed
    DEF SW!MaxBlockAssumption, SW!ParametersAssumption, SR!MaxBlockAssumption, SR!ParametersAssumption
<1>1. /\ server \in SW!Base /\ client \in CR!Base /\ server \in CR!Base /\ TypeOK' /\ TypeOK
      /\ net \subseteq SW!DatagramOf(Packet)
      /\ SW!Once(server) /\ server.out = {}
  BY TypeOKServer, TypeOKMeans, Shared, SharedStates DEF Apart, TypeOK, ServerMoved, RefusesEarly
<1>2. supplied' = 0 /\ received' # <<>>
  BY LeftAlone DEF ServerMoved, Apart, senderVars, Untransferred
<1>3. ASSUME received' = received
      PROVE  server.status \notin Refusals /\ ~Opens(server.transmitPacket) /\ ~Untransferred
  BY <1>2, <1>3 DEF RefusesEarly, Alone, Early, ServerMoved, Untransferred
<1>4. CASE SW!Step \/ SW!Timer
  <2>1. received' = received \/ SW!NewData
    BY <1>4, ServerWriteSends DEF SW!DuplicateData, SW!members
  <2>2. ~Opens(server'.transmitPacket)
    BY <1>1, <1>3, <1>4, ServerWriteSends, SW!PassesTell, SW!RepliesTell, RepliesOpenNothing
       DEF SW!Objects
  <2>3. SW!NewData => server.status = "none" /\ ~SW!PacketReceived({"ERROR"})
    BY <1>1, SW!PacketUnreported DEF SW!NewData, SW!PacketReceived
  <2>4. PICK k : k = Late(Refusals)
    OBVIOUS
  <2>5. "Successful" \in k.statuses /\ "timeoutDally" \in k.timeouts
    BY <2>4, LateMeans DEF Refusals, CR!TransferStatus, CR!Timeouts
  <2>6. CASE server.dataHandler # "idle"
    <3>1. server.status \notin Refusals
      BY <1>3, <2>1, <2>3 DEF Refusals
    <3>2. SW!PacketReceived({"ERROR"}) => ~Opens(server.transmitPacket)
      BY <1>3, <2>1, <2>3
    <3>3. SR!PacketReceived({"ERROR"}) => SW!PacketReceived({"ERROR"})
      BY DEF SW!PacketReceived, SR!PacketReceived, SW!Runs, SR!Runs, SW!Current, SR!Current,
             SW!Running, SR!Running
    <3>4. /\ SW!ServerAdmits(k) /\ SR!ServerAdmits(k) /\ SW!Admits(k) /\ server \in SW!BaseOf(k)
          /\ k.packets = Packet
      BY <1>1, <2>4, <2>6, <3>1, <3>2, <3>3, LateMeans, LateAdmits, Shared DEF SW!ServerAdmits
    <3>5. SW!Ack(storedBlock', Len(received')) \in Packet
      <4>1. storedBlock' \in BlockNumbers /\ Len(received') \in Nat
        BY <1>1 DEF TypeOK
      <4> QED BY <4>1, SharedPackets, PacketType
    <3>6. CASE SW!Step
      BY <1>1, <2>2, <2>4, <2>5, <3>4, <3>5, <3>6, ServerWriteStepType, LateMeans, Shared
    <3>7. CASE SW!Timer
      BY <1>1, <2>2, <2>4, <3>4, <3>7, SW!QueueType, LateMeans, Shared DEF SW!Timer
    <3> QED BY <1>4, <3>6, <3>7
  <2>7. CASE server.dataHandler = "idle"
    <3>1. server \in {SR!InitialServer, SR!Idle}
      BY <2>7 DEF RefusesEarly, ServerMoved
    <3>2. server' \in CR!BaseOf(Late(Refusals))
      BY <1>2, <2>7, <3>1, ServerBegins DEF RefusesEarly, ServerMoved, Untransferred
    <3> QED BY <2>2, <3>2, LateMeans
  <2> QED BY <2>6, <2>7
<1>5. ASSUME NEW answer, SW!Start(answer)
      PROVE  FALSE
  <2>1. SW!InitialServer = SR!InitialServer
    BY DEF SW!InitialServer, SR!InitialServer, SW!NewBase, SR!NewBase, SW!NoPacket, SR!NoPacket,
           SW!InvalidPacket, SR!InvalidPacket
  <2>2. server = SR!InitialServer /\ server.dataHandler = "idle"
    BY <1>5, <2>1 DEF SW!Start, SR!InitialServer, SR!NewBase
  <2>3. Untransferred
    BY <2>2, ServerBegins DEF RefusesEarly, ServerMoved
  <2> QED BY <1>3, <1>5, <2>3 DEF SW!Start, SW!members
<1> QED BY <1>4, <1>5 DEF ServerMoved, ServerStarted, ServerStep, ServerTimer, ReadAtServer, WriteAtServer


(* Each step ends with all sent. *)
LEMMA AllOut ==
    ASSUME Apart, client.out = {}, server.out = {}, [PeerNext]_peerVars
    PROVE  client'.out = {} /\ server'.out = {}
<1> USE Assumed
    DEF CR!MaxBlockAssumption, CR!ParametersAssumption, CW!MaxBlockAssumption, CW!ParametersAssumption,
        SR!MaxBlockAssumption, SR!ParametersAssumption, SW!MaxBlockAssumption, SW!ParametersAssumption
<1>1. /\ client \in CR!Base /\ client \in CW!Base /\ server \in SR!Base /\ server \in SW!Base
      /\ client' \in CR!Base /\ client' \in CW!Base /\ server' \in SR!Base /\ server' \in SW!Base
  BY ApartSteps, SharedStates DEF Apart, TypeOK
<1>2. CASE ClientMoved
  <2>1. ASSUME NEW options, CR!Request(options) \/ CW!Request(options)
        PROVE  client'.out = {}
    <3>1. (\E b : CR!Perform(b)) \/ (\E b : CW!Perform(b))
      BY <2>1 DEF CR!Request, CW!Request
    <3> QED BY <1>1, <3>1, CR!PerformSends, CW!PerformSends
  <2>2. CR!Moves \/ CW!Moves => client'.out = {}
    BY <1>1, CR!MovesTell, CW!MovesTell
  <2>3. server' = server
    BY <1>2, LeftAlone DEF ClientMoved
  <2> QED BY <1>2, <2>1, <2>2, <2>3, ClientReadMoves, ClientWriteMoves
          DEF ClientMoved, Request, ClientStep, ClientTimer
<1>3. CASE ServerMoved
  <2>1. ASSUME NEW answer, SR!Start(answer) \/ SW!Start(answer)
        PROVE  server'.out = {}
    <3>1. (\E b : SR!Perform(b)) \/ (\E b : SW!Perform(b))
      BY <2>1 DEF SR!Start, SW!Start, SR!SendData
    <3> QED BY <1>1, <3>1, SR!PerformSends, SW!PerformSends
  <2>2. SR!Moves \/ SW!Moves => server'.out = {}
    BY <1>1, SR!MovesTell, SW!MovesTell
  <2>3. client' = client
    BY <1>3, LeftAlone DEF ServerMoved
  <2> QED BY <1>3, <2>1, <2>2, <2>3, ServerReadMoves, ServerWriteMoves
          DEF ServerMoved, ServerStarted, ServerStep, ServerTimer
<1>4. CASE UNCHANGED vars
  BY <1>4 DEF vars
<1> QED BY <1>2, <1>3, <1>4, PeerSteps

(* A server that has not been started has sent nothing, and stored nothing. *)
LEMMA IdleIsUntransferred ==
    ASSUME Apart, RefusesEarly, ServerMoved, server'.dataHandler = "idle"
    PROVE  server' = SR!Idle
<1> USE Assumed
    DEF SR!MaxBlockAssumption, SR!ParametersAssumption, SW!MaxBlockAssumption, SW!ParametersAssumption
<1>1. server \in SR!Base /\ server \in SW!Base
  BY SharedStates DEF Apart, TypeOK
<1>2. CASE server.dataHandler = "idle"
  <2>1. server \in {SR!InitialServer, SR!Idle}
    BY <1>2 DEF RefusesEarly, ServerMoved
  <2>2. server' \notin CR!BaseOf(Late(Refusals))
    BY LateMeans
  <2> QED BY <2>1, <2>2, ServerBegins
<1>3. CASE server.dataHandler # "idle"
  <2>1. ~(\E answer : SR!Start(answer) \/ SW!Start(answer))
    BY <1>3 DEF SR!Start, SW!Start, SR!InitialServer, SR!NewBase, SW!InitialServer, SW!NewBase
  <2>2. SR!Moves \/ SW!Moves
    BY <2>1, ServerReadMoves, ServerWriteMoves DEF ServerMoved, ServerStarted, ServerStep, ServerTimer
  <2> QED BY <1>1, <1>3, <2>2, SR!MovesStarted, SW!MovesStarted
<1> QED BY <1>2, <1>3

(* A step that leaves data transferred leaves no refusal. *)
LEMMA RefusesEarlySteps ==
    ASSUME ~Coincide, Apart, RefusesEarly, [PeerNext]_peerVars
    PROVE  RefusesEarly'
<1>1. CR!Once(client') /\ CR!Once(server')
  BY PeerStates DEF RefusesEarly
<1>2. client'.out = {} /\ server'.out = {}
  BY AllOut DEF RefusesEarly
<1>3. kind \in Kinds /\ UNCHANGED alone
  BY PeerSteps DEF Apart, TypeOK
<1>4. CASE ClientMoved
  <2>1. alone = "client" /\ kind' = kind
    BY <1>4, LeftAlone DEF ClientMoved
  <2>2. CASE kind = "read"
    BY <1>1, <1>2, <1>3, <1>4, <2>1, <2>2, LateClientRead DEF RefusesEarly, Alone, Early
  <2>3. CASE kind = "write"
    BY <1>1, <1>2, <1>3, <1>4, <2>1, <2>3, LateClientWrite DEF RefusesEarly, Alone, Early
  <2> QED BY <1>3, <2>2, <2>3 DEF Kinds
<1>5. CASE ServerMoved
  <2>1. alone = "server" /\ kind' = kind
    BY <1>5, LeftAlone DEF ServerMoved
  <2>2. ~Untransferred' => server'.status \notin Refusals /\ ~Opens(server'.transmitPacket)
    BY <1>3, <1>5, LateServerRead, LateServerWrite DEF Kinds
  <2> QED BY <1>1, <1>2, <1>3, <1>5, <2>1, <2>2, IdleIsUntransferred DEF RefusesEarly, Alone, Early
<1>6. CASE UNCHANGED vars
  <2>1. /\ client' = client /\ server' = server /\ kind' = kind /\ supplied' = supplied
        /\ received' = received
    BY <1>6 DEF vars, senderVars, receiverVars
  <2> QED BY <1>3, <2>1 DEF RefusesEarly, Untransferred, Alone, Early
<1> QED BY <1>4, <1>5, <1>6, PeerSteps

(* errorPacket(), optionsAcknowledgementPacket(): once data has been sent or stored, no *)
(* error of the peer, and no OACK, is taken for an answer to the request.               *)
THEOREM PeerRefusesEarly == ~Coincide => (PeerSpec => []RefusedBeforeTransfer)
<1> SUFFICES ASSUME ~Coincide
             PROVE  PeerSpec => []RefusedBeforeTransfer
  OBVIOUS
<1>1. PeerInit => RefusesEarly
  <2> SUFFICES ASSUME PeerInit PROVE RefusesEarly
    OBVIOUS
  <2>1. supplied = 0 /\ received = <<>> /\ client = CR!InitialClient /\ server = SR!InitialServer
    BY DEF PeerInit, Init, CR!Init, SR!Init
  <2>2. client.out = {} /\ server.out = {}
    BY <2>1 DEF CR!InitialClient, CR!NewBase, SR!InitialServer, SR!NewBase
  <2> QED BY <2>1, <2>2, ConstructedStates DEF RefusesEarly, Untransferred
<1>2. ASSUME Apart, RefusesEarly, [PeerNext]_peerVars
      PROVE  RefusesEarly'
  BY <1>2, RefusesEarlySteps
<1>3. Apart /\ RefusesEarly => RefusedBeforeTransfer
  BY DEF Apart, RefusesEarly, RefusedBeforeTransfer, Untransferred, Alone, Early, Refusals
<1> QED BY <1>1, <1>2, <1>3, AlwaysApart, PTL DEF PeerSpec

=============================================================================
