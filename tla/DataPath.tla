------------------------------ MODULE DataPath ------------------------------
(***************************************************************************)
(* The way of options and data through a transfer: the configuration of    *)
(* both sides, the request and its decoding by the dispatcher, the         *)
(* negotiation, the packets as they are encoded, cut and decoded, and the  *)
(* data handlers.                                                          *)
(*                                                                         *)
(* No datagram is lost, repeated or late here, so that the branches for    *)
(* repeated and misplaced packets are not reached: Transfer has them, with *)
(* a verdict in the place of the negotiation and the index of a chunk in   *)
(* the place of the data.  A client operation may make a second request,   *)
(* of another server operation.                                            *)
(***************************************************************************)
EXTENDS BlockNumber, PacketCodec, DataFiles

CONSTANTS
    Setups,          \* how the two sides are configured, see Setup
    SecondServers,   \* the server of the second request
    Rounds,          \* bound: requests of the client operation
    DefaultTimeout   \* DefaultTftpReceiveTimeout

(* A side is configured by calls of optionsConfiguration(): by the factory for its default, *)
(* by the user.                                                                              *)
ServerSetup == [configurations : Seq(Configuration), extra : {"none", "remaining", "unasked"},
                file : File(Seq(Nat))]
ClientSetup(options) ==
    [configurations : Seq(Configuration), additional : options, handler : Handlers,
     name : Seq({Letter}), mode : Modes, file : File(Seq(Nat))]
Setup(options) == [kind : {"read", "write"}, client : ClientSetup(options), server : ServerSetup]

(* A NullSinkFile is not sent.  The size of a file that is sent is told, or not. *)
SourceFile(file) ==
    file.operation = "Transmit" /\ file.type # "null" /\ file.size \in {Unknown, Len(file.content)}
SinkFile(file) == file.operation = "Receive"

ASSUME DataPathAssumption ==
    /\ Rounds \in Nat /\ DefaultTimeout \in Nat
    /\ SecondServers \subseteq ServerSetup
    /\ \A s \in Setups :
          /\ IsOptions(s.client.additional) /\ s \in Setup({s.client.additional})
          /\ IF s.kind = "read" THEN SinkFile(s.client.file) /\ SourceFile(s.server.file)
             ELSE SourceFile(s.client.file) /\ SinkFile(s.server.file)

VARIABLES
    setup,    \* of the first request
    round,    \* requests that have been made
    client,   \* the operation of the client
    server,   \* the operation of the server, or the one that the dispatcher will create
    wire      \* the datagram on its way

vars == <<setup, round, client, server, wire>>

Nothing == [to |-> "nobody", cells |-> <<>>]

NoConfiguration == [blockSize |-> None, timeout |-> None, transferSize |-> FALSE]

-----------------------------------------------------------------------------
(* Configuration *)

NewOperation(file) ==
    [config |-> NoConfiguration, buffer |-> HeaderSize + DefaultDataSize, file |-> file,
     phase |-> "idle", status |-> "none", dataSize |-> DefaultDataSize,
     timeout |-> DefaultTimeout, lastReceived |-> 0, lastTransmitted |-> 0, last |-> FALSE,
     packet |-> <<>>, announced |-> None]

(* optionsConfiguration(): an operation that receives data sizes its buffer. *)
OptionsConfiguration(o, config) ==
    [o EXCEPT !.config = config,
              !.buffer = IF o.file.operation = "Receive" THEN BufferSize(config) ELSE @]

(* readOperation(), writeOperation() of the factories, and the calls of the user: a call *)
(* replaces what the one before has set.                                                  *)
Configured(configurations, file) ==
    IF configurations = <<>> THEN NewOperation(file)
    ELSE OptionsConfiguration(NewOperation(file), Last(configurations))

(* What the operations of one side have in addition *)
With(o, more) == [f \in DOMAIN o \cup DOMAIN more |-> IF f \in DOMAIN o THEN o[f] ELSE more[f]]

NewClient(s) ==
    With(Configured(s.client.configurations, s.client.file),
         [oackReceived |-> FALSE, transferSize |-> None, asked |-> FALSE, requested |-> NoOptions])

NewServer(s) ==
    With(Configured(s.configurations, s.file), [extra |-> s.extra, decoded |-> InvalidPacket])

Init ==
    /\ setup \in Setups
    /\ round = 0
    /\ client = NewClient(setup)
    /\ server = NewServer(setup.server)
    /\ wire = Nothing

Reading == setup.kind = "read"

-----------------------------------------------------------------------------
(* The end of a handler: an operation is stored, and what it sends is on its way. *)

Finish(o, status) == [o EXCEPT !.phase = "done", !.status = status, !.file = Closed(@)]

ClientSends(o, to) ==
    /\ client' = o /\ wire' = [to |-> to, cells |-> o.packet]
    /\ UNCHANGED <<setup, round, server>>

ClientEnds(o, status) ==
    /\ client' = Finish(o, status) /\ wire' = Nothing
    /\ UNCHANGED <<setup, round, server>>

ServerSends(o) ==
    /\ server' = o /\ wire' = [to |-> "client", cells |-> o.packet]
    /\ UNCHANGED <<setup, round, client>>

ServerEnds(o, status) ==
    /\ server' = Finish(o, status) /\ wire' = Nothing
    /\ UNCHANGED <<setup, round, client>>

(* An error packet is sent, and the operation ends. *)
Refused(o, code, status) == Finish([o EXCEPT !.packet = EncodeError(code)], status)

(* Mutant: the last packet is the one after which nothing is left. *)
SendDataUntilEnd(o) ==
    LET block == NextBlock(o.lastTransmitted)
        data  == DataToSend(o.file, o.dataSize)
    IN  [o EXCEPT !.phase = "transfer", !.lastTransmitted = block, !.file = Sent(@, o.dataSize),
                  !.last = o.file.position + o.dataSize >= Len(o.file.content),
                  !.packet = EncodeData(block, data)]

(* sendData() *)
SendData(o) ==
    LET block == NextBlock(o.lastTransmitted)
        data  == DataToSend(o.file, o.dataSize)
    IN  [o EXCEPT !.phase = "transfer", !.lastTransmitted = block, !.file = Sent(@, o.dataSize),
                  !.last = @ \/ Len(data) < o.dataSize,
                  !.packet = EncodeData(block, data)]

Acknowledge(o, block) ==
    [o EXCEPT !.phase = "transfer", !.lastReceived = block, !.packet = EncodeAck(block)]

(* dataPacket(), the next block: too much, or stored and acknowledged *)
Store(o, packet) ==
    LET stored == [Acknowledge(o, packet.block) EXCEPT !.file = Received(@, packet.data)]
    IN  IF Len(packet.data) > o.dataSize THEN Refused(o, "IllegalTftpOperation", "TransferError")
        ELSE IF Len(packet.data) < o.dataSize THEN Finish(stored, "Successful")
        ELSE stored

(* acknowledgementPacket(), the expected one, and not of the last block *)
Acknowledged(o, packet) == [o EXCEPT !.lastReceived = packet.block]

-----------------------------------------------------------------------------
(* The client *)

(* request(): what is reset.  oackReceived and the timeout are not. *)
Fresh(o) ==
    [o EXCEPT !.phase = "requested", !.status = "none", !.file = Started(@),
              !.dataSize = DefaultDataSize, !.lastTransmitted = 0, !.last = FALSE,
              !.lastReceived = IF Reading THEN 0 ELSE MaxBlock,
              !.asked = FALSE, !.announced = None]

Request ==
    /\ wire = Nothing /\ client.phase \in {"idle", "done"} /\ round < Rounds
    /\ LET size    == IF Reading THEN 0 ELSE RequestedTransferSize(client.file)
           options == RequestOptions(client.config, setup.client.additional, size)
           packet  == EncodeRequest(IF Reading THEN "RRQ" ELSE "WRQ",
                                    setup.client.name, setup.client.mode, options)
       IN  /\ client' = [Fresh(client) EXCEPT !.packet = packet, !.requested = options,
                            !.transferSize = IF client.config.transferSize THEN size ELSE @]
           /\ wire' = [to |-> "dispatcher", cells |-> packet]
    /\ round' = round + 1
    /\ \/ round = 0 /\ server' = server
       \/ round > 0 /\ \E s \in SecondServers :
              server' = NewServer([s EXCEPT !.file = setup.server.file])
    /\ UNCHANGED setup

ClientReceives(type) ==
    /\ wire.to = "client" /\ client.phase \in {"requested", "transfer"}
    /\ Decode(Cut(wire.cells, client.buffer)).type = type

ClientPacket == Decode(Cut(wire.cells, client.buffer))

HasHandler == setup.client.handler # "none"

(* optionsAcknowledgementPacket(): block size, timeout and transfer size, then the handler *)
(* and what it leaves                                                                       *)
RefusedBlockSize == RefusesBlockSize(client.config, BlockSizeOption(ClientPacket.options))

RefusedTimeout ==
    ~RefusedBlockSize /\ RefusesTimeout(client.config, TimeoutOption(ClientPacket.options))

(* A write compares with what it has sent. *)
AcceptableSize(size) ==
    IF Reading THEN ReceivedTransferSize(client.file, size) ELSE size = client.transferSize

RefusedTransferSize ==
    LET size == TransferSizeOption(ClientPacket.options)
    IN  /\ ~RefusedBlockSize /\ ~RefusedTimeout
        /\ RefusesTransferSize(client.config, size, AcceptableSize(size.value))

Consulted == ~RefusedBlockSize /\ ~RefusedTimeout /\ ~RefusedTransferSize

RefusedOack ==
    Consulted => RefusesRemaining(setup.client.handler, Remaining(ClientPacket.options))

OackError ==
    IF /\ RefusedTransferSize /\ Reading /\ client.config.transferSize
       /\ TransferSizeOption(ClientPacket.options).valid
    THEN "DiskFullOrAllocationExceeds" ELSE "TftpOptionRefused"

(* What is used of the answer, also of one that is refused *)
Adopted ==
    LET blockSize == BlockSizeOption(ClientPacket.options).value
        timeout   == TimeoutOption(ClientPacket.options).value
        size      == TransferSizeOption(ClientPacket.options).value
    IN  [client EXCEPT
            !.dataSize  = IF RefusedBlockSize \/ blockSize = None THEN @ ELSE blockSize,
            !.timeout   = IF RefusedBlockSize \/ RefusedTimeout \/ timeout = None THEN @ ELSE timeout,
            !.announced = IF Consulted /\ Reading THEN size ELSE @,
            !.asked     = Consulted /\ HasHandler]

(* Mutant: nothing is sent. *)
RefuseOackSilently ==
    /\ ClientReceives("OACK") /\ RefusedOack
    /\ ClientEnds(Adopted, "OptionNegotiationError")

RefuseOack ==
    /\ ClientReceives("OACK") /\ RefusedOack
    /\ ClientSends(Refused(Adopted, OackError, "OptionNegotiationError"), "server")

AcceptOack ==
    /\ ClientReceives("OACK") /\ ~RefusedOack
    /\ IF Reading
       THEN ClientSends([Acknowledge(Adopted, 0) EXCEPT !.oackReceived = TRUE], "server")
       ELSE ClientSends(SendData(Adopted), "server")

(* Mutant: the number of the last block is looked at. *)
AsksLate ==
    IF Reading THEN client.lastReceived = 1 /\ ~client.oackReceived ELSE ClientPacket.block = 0

(* The first DATA or ACK packet without an OACK: the handler is asked with no options. *)
Asks ==
    IF Reading THEN ClientPacket.block = 1 /\ ~client.oackReceived ELSE ClientPacket.block = 0

RefusesPlain == Asks /\ HasHandler /\ ~HandlerAccepts(setup.client.handler, NoOptions)

Asked == [client EXCEPT !.asked = @ \/ (Asks /\ HasHandler)]

RefusePlain ==
    /\ ClientReceives("DATA") \/ ClientReceives("ACK")
    /\ RefusesPlain
    /\ ClientSends(Refused(Asked, "TftpOptionRefused", "TransferError"), "server")

ClientStores ==
    /\ ClientReceives("DATA") /\ ~RefusesPlain
    /\ ClientPacket.block = NextBlock(client.lastReceived)
    /\ ClientSends(Store(Asked, ClientPacket), "server")

ClientSupplies ==
    /\ ClientReceives("ACK") /\ ~RefusesPlain
    /\ ClientPacket.block = client.lastTransmitted /\ ~client.last
    /\ ClientSends(SendData(Acknowledged(Asked, ClientPacket)), "server")

ClientSucceeds ==
    /\ ClientReceives("ACK") /\ ~RefusesPlain
    /\ ClientPacket.block = client.lastTransmitted /\ client.last
    /\ ClientEnds(Acknowledged(client, ClientPacket), "Successful")

(* errorPacket() *)
ClientError ==
    /\ ClientReceives("ERROR")
    /\ ClientEnds(client, IF PacketType(client.packet) \notin {"RRQ", "WRQ"} THEN "TransferError"
                          ELSE IF ClientPacket.code = "TftpOptionRefused"
                          THEN "OptionNegotiationError" ELSE "RequestError")

(* invalidPacket() *)
ClientInvalid ==
    /\ ClientReceives("INVALID")
    /\ ClientSends(Refused(client, "IllegalTftpOperation", "TransferError"), "server")

(* Nobody answers, as often as the request is repeated. *)
ClientTimesOut ==
    /\ client.phase = "requested" /\ wire = Nothing
    /\ ClientEnds(client, "CommunicationError")

-----------------------------------------------------------------------------
(* The server *)

(* The dispatcher receives with a buffer for packets of the default size. *)
RequestPacket == Decode(Cut(wire.cells, HeaderSize + DefaultDataSize))

(* invalidPacket() of the dispatcher: nothing is answered. *)
IgnoredRequest ==
    /\ wire.to = "dispatcher" /\ RequestPacket.type = "INVALID"
    /\ wire' = Nothing
    /\ UNCHANGED <<setup, round, client, server>>

(* Additional negotiated options: the user of the library may answer what ServerImpl leaves *)
(* of the request, or anything.                                                              *)
AdditionalOptions ==
    CASE server.extra = "none"      -> NoOptions
      [] server.extra = "remaining" -> Remaining(RequestPacket.options)
      [] server.extra = "unasked"   -> [name \in OtherOptions |-> 1]

ClientOptions == TftpOptions(RequestPacket.options)

(* Mutant: the block size of the client is used, whatever the server answers. *)
AnsweringRequested ==
    LET blockSize == ClientOptions.blockSize
        timeout   == GrantedTimeout(server.config, ClientOptions)
    IN  [server EXCEPT !.phase = "transfer", !.file = Started(@), !.decoded = RequestPacket,
                       !.dataSize = IF blockSize = None THEN @ ELSE blockSize,
                       !.timeout  = IF timeout = None THEN @ ELSE timeout]

(* start(): what is decoded of the request, and what is used of it *)
Answering ==
    LET blockSize == GrantedBlockSize(server.config, ClientOptions)
        timeout   == GrantedTimeout(server.config, ClientOptions)
    IN  [server EXCEPT !.phase = "transfer", !.file = Started(@), !.decoded = RequestPacket,
                       !.dataSize = IF blockSize = None THEN @ ELSE blockSize,
                       !.timeout  = IF timeout = None THEN @ ELSE timeout]

(* The transfer size of a read must be 0; that of a write is for the data handler to accept. *)
SizeIsHandled == server.config.transferSize /\ ClientOptions.transferSize # None

StartRead ==
    /\ wire.to = "dispatcher" /\ RequestPacket.type = "RRQ"
    /\ LET options == ServerOptions(server.config, ClientOptions, AdditionalOptions,
                                    RequestedTransferSize(server.file))
       IN  IF SizeIsHandled /\ ClientOptions.transferSize # 0
           THEN ServerSends(Refused(Answering, "TftpOptionRefused", "TransferError"))
           ELSE IF DOMAIN options = {} THEN ServerSends(SendData(Answering))
           ELSE ServerSends([Answering EXCEPT !.lastReceived = MaxBlock,
                                              !.packet = EncodeOack(options)])

StartWrite ==
    /\ wire.to = "dispatcher" /\ RequestPacket.type = "WRQ"
    /\ LET size    == ClientOptions.transferSize
           options == ServerOptions(server.config, ClientOptions, AdditionalOptions, size)
       IN  IF SizeIsHandled /\ ~ReceivedTransferSize(server.file, size)
           THEN ServerSends(Refused(Answering, "DiskFullOrAllocationExceeds", "TransferError"))
           ELSE LET o == [Answering EXCEPT !.announced = IF SizeIsHandled THEN size ELSE @]
                IN  IF DOMAIN options = {} THEN ServerSends([o EXCEPT !.packet = EncodeAck(0)])
                    ELSE ServerSends([o EXCEPT !.packet = EncodeOack(options)])

ServerPacket == Decode(Cut(wire.cells, server.buffer))

ServerReceives(type) ==
    wire.to = "server" /\ server.phase = "transfer" /\ ServerPacket.type = type

ServerStores ==
    /\ ServerReceives("DATA") /\ ServerPacket.block = NextBlock(server.lastReceived)
    /\ ServerSends(Store(server, ServerPacket))

ServerSupplies ==
    /\ ServerReceives("ACK") /\ ServerPacket.block = server.lastTransmitted /\ ~server.last
    /\ ServerSends(SendData(Acknowledged(server, ServerPacket)))

ServerSucceeds ==
    /\ ServerReceives("ACK") /\ ServerPacket.block = server.lastTransmitted /\ server.last
    /\ ServerEnds(Acknowledged(server, ServerPacket), "Successful")

(* errorPacket() *)
ServerError ==
    /\ ServerReceives("ERROR")
    /\ ServerEnds(server, IF PacketType(server.packet) = "OACK" /\ ServerPacket.code = "TftpOptionRefused"
                          THEN "OptionNegotiationError" ELSE "TransferError")

(* invalidPacket() *)
ServerInvalid ==
    /\ ServerReceives("INVALID")
    /\ ServerSends(Refused(server, "IllegalTftpOperation", "TransferError"))

(* Steps of the client, of the dispatcher and of the operation of the server *)
Next ==
    \/ Request \/ RefuseOack \/ AcceptOack \/ RefusePlain
    \/ ClientStores \/ ClientSupplies \/ ClientSucceeds
    \/ ClientError \/ ClientInvalid \/ ClientTimesOut
    \/ IgnoredRequest \/ StartRead \/ StartWrite
    \/ ServerStores \/ ServerSupplies \/ ServerSucceeds \/ ServerError \/ ServerInvalid

Spec == Init /\ [][Next]_vars

-----------------------------------------------------------------------------
Source == IF Reading THEN server ELSE client
Sink   == IF Reading THEN client ELSE server

Settled == round > 0 /\ wire = Nothing /\ client.phase = "done"

(* optionsAcknowledgementPacket(), start(): as long as data is transferred both sides use the *)
(* same block size and the same timeout, unless the timeout is left from an earlier request.   *)
BothSidesAgree ==
    client.phase = "transfer" /\ server.phase = "transfer" =>
        /\ client.dataSize = server.dataSize
        /\ client.timeout = server.timeout \/ round > 1

(* receivedData(), sendData(): whoever reports that it has received a file has the file that   *)
(* the other side has sent, whatever the sizes, also if the operation has been used before.    *)
Delivered ==
    Sink.status = "Successful" /\ Sink.file.type # "null" => Sink.file.content = Source.file.content

(* sendData(): a file takes a block more than it fills, so that one of full blocks, or without *)
(* content, ends with an empty block.                                                           *)
EndsWithShortBlock ==
    Source.status = "Successful" =>
        Source.lastTransmitted = BlockOf(Len(Source.file.content) \div Source.dataSize + 1)

(* A configuration, of either side, that stays within the ranges of the RFCs *)
InRange(config) ==
    /\ config.blockSize \in BlockSizeMin .. BlockSizeMax \cup {None}
    /\ config.timeout \in TimeoutMin .. TimeoutMax \cup {None}

Fits(size) == Sink.file.type = "memory" \/ Sink.file.size = Unknown \/ size <= Sink.file.size

(* Client and server of this library come to terms: if the options are in range, the client    *)
(* has set no option twice and handles the additional ones it is sent, the request fits the     *)
(* buffer of the dispatcher, and the file is accepted, then both report success.                *)
LegalTransferSucceeds ==
    Settled /\ InRange(client.config) /\ InRange(server.config)
    /\ DOMAIN setup.client.additional \cap KnownOptions = {}
    /\ setup.client.handler # "refuses"
    /\ (server.extra = "none" \/ setup.client.handler = "handles")
    /\ Len(EncodeRequest("RRQ", setup.client.name, setup.client.mode, client.requested))
         <= HeaderSize + DefaultDataSize
    /\ Fits(Len(Source.file.content))
    => client.status = "Successful" /\ server.status = "Successful"

(* finished(): whichever side gives up tells the other one, so that both have ended when no    *)
(* datagram is on its way, without waiting for a timeout.                                       *)
NobodyIsLeftWaiting == Settled => server.phase # "transfer"

(* ReadWriteRequestPacket::decodeBody(): a request that is cut is not answered, or has lost its *)
(* last options; no option is answered that has not been asked for, or with another value.      *)
RequestUnderstood ==
    server.decoded.type # "INVALID" =>
        /\ server.decoded.name = setup.client.name /\ server.decoded.mode = setup.client.mode
        /\ DOMAIN server.decoded.options \subseteq DOMAIN client.requested
        /\ \A name \in DOMAIN server.decoded.options :
               server.decoded.options[name] = client.requested[name]

(* optionNegotiationHandler(): it is asked before any data is stored or sent, except by a read *)
(* whose earlier request has been answered by an OACK.                                          *)
HandlerIsConsulted ==
    /\ HasHandler /\ ~(Reading /\ round > 1 /\ client.oackReceived)
    /\ (IF Reading THEN client.lastReceived ELSE client.lastTransmitted) > 0 /\ client.phase # "idle"
    => client.asked

(* receivedTransferSize(): the size that the receiving side is told is the one it receives. *)
AnnouncedIsReceived ==
    Sink.status = "Successful" /\ Sink.announced # None /\ Sink.file.type # "null" =>
        Len(Sink.file.content) = Sink.announced

(* maxReceivePacketSize(): a packet that does not fit the buffer of an operation ends it; its   *)
(* data is never taken for a short, and therefore last, block.  It is for OACKs that fit        *)
(* (OackFits): options a server adds may make one longer than the buffer a client has for it,    *)
(* and what is left of it may look like a shorter one.                                           *)
CutPacketIsRejected ==
    [][LET CutFor(o) == Len(wire.cells) > o.buffer
       IN  /\ wire.to = "client" /\ CutFor(client) => client'.status = "TransferError"
           /\ wire.to = "server" /\ CutFor(server) => server'.status = "TransferError"]_vars

=============================================================================
