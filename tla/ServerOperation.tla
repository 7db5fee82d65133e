-------------------------- MODULE ServerOperation --------------------------
(***************************************************************************)
(* Servers::OperationImpl: what the server side of a read and of a write   *)
(* have in common.  The socket is connected to the client from the start.  *)
(***************************************************************************)
EXTENDS Operation

InitialServer == NewBase("client")

(* initialise(): on an error the socket is closed before finished(). *)
Initialise(b, opened) ==
    IF opened THEN [b EXCEPT !.socket = "connected"]
    ELSE Finished(b, "CommunicationError")

(* Mutant: a refusal of options is taken for one during the transfer, too. *)
ErrorStatusOfAnyPacket(b, code) ==
    IF code = "TftpOptionRefused" THEN "OptionNegotiationError" ELSE "TransferError"

(* errorPacket(): refused options if the OACK was the last packet sent. *)
ErrorStatus(b, code) ==
    IF b.transmitPacket.type = "OACK" /\ code = "TftpOptionRefused"
    THEN "OptionNegotiationError" ELSE "TransferError"

-----------------------------------------------------------------------------
(* Handlers that only touch the members of the base class *)

(* receiveHandler() passes a packet of one of the types on: the completion *)
(* is no error and socket.remote_endpoint() returns.                       *)
PacketReceived(types) ==
    /\ Runs("receive")
    /\ ~Current.failed
    /\ base.socket = "connected"
    /\ Current.packet.type \in types

(* receiveHandler(): receive error. *)
ReceiveError ==
    /\ Runs("receive")
    /\ Current.failed
    /\ Perform(Finished(Popped, "CommunicationError"))

(* receiveHandler() of a packet that was queued before the socket was closed: *)
(* remote_endpoint() throws out of the handler and of io_context::run().      *)
ReceiveOnClosedSocket ==
    /\ Runs("receive")
    /\ ~Current.failed
    /\ base.socket = "closed"
    /\ Perform([Popped EXCEPT !.fate = "escaped"])

(* errorPacket() *)
ErrorReceived ==
    /\ PacketReceived({"ERROR"})
    /\ Perform(Finished(Popped, ErrorStatus(Popped, Current.packet.arg)))

(* readRequestPacket(), writeRequestPacket(), optionsAcknowledgementPacket(), *)
(* invalidPacket(): never expected by an operation of the server.             *)
UnexpectedReceived ==
    /\ PacketReceived({"RRQ", "WRQ", "OACK", "INVALID"})
    /\ \E ok \in Outcome("send") :
          Perform(Reject(Popped, "IllegalTftpOperation", "TransferError", ok))

(* timeoutHandler() *)
Timeout ==
    /\ Runs("timeout")
    /\ \E ok \in Outcome("send") :
          Perform(Retransmit(Popped, ok /\ Connected(base), base.remote, "timeout"))

(* timeoutDallyHandler() *)
TimeoutDally ==
    /\ Runs("timeoutDally")
    /\ Perform(Finished(Popped, "Successful"))

(* abort(), called by the user while the operation runs. *)
Abort ==
    /\ Self \in Aborters
    /\ MayQueue /\ base.socket # "closed" /\ base.status = "none"
    /\ Perform(Finished(base, "Aborted"))

(* gracefulAbort() *)
GracefulAbort ==
    /\ Self \in Aborters
    /\ MayQueue /\ base.socket # "closed" /\ base.status = "none"
    /\ \E ok \in Outcome("send") :
          Perform(Reject(base, "NotDefined", "Aborted", ok))

BaseStep ==
    \/ ReceiveError \/ ReceiveOnClosedSocket \/ ErrorReceived \/ UnexpectedReceived
    \/ Timeout \/ Abort \/ GracefulAbort
    \/ ReceiveFails
    \/ \E d \in net : Arrive(d)

-----------------------------------------------------------------------------
(* What a step of the server needs of a type: errors may be sent, each failure may *)
(* be reported, a refusal if an error tells of it, and the server is an endpoint.  *)
ServerAdmits(k) ==
    /\ Self \in Endpoints
    /\ Admits(k)
    /\ \A code \in ErrorCodes : Error(code) \in k.packets
    /\ {"CommunicationError", "TransferError", "Aborted"} \subseteq k.statuses
    /\ PacketReceived({"ERROR"}) => ErrorStatus(Popped, Current.packet.arg) \in k.statuses
    /\ "timeout" \in k.timeouts

(* The handlers of the base class keep the types, whatever members the operation has. *)
LEMMA ServerStepType ==
    ASSUME NEW k, ServerAdmits(k),
           base \in BaseOf(k), net \subseteq DatagramOf(k.packets), BaseStep
    PROVE  base' \in BaseOf(k) /\ net' \subseteq DatagramOf(k.packets)
<1> DEFINE Typed == base' \in BaseOf(k) /\ net' \subseteq DatagramOf(k.packets)
<1>1. /\ Self \in Endpoints /\ Admits(k) /\ "timeout" \in k.timeouts
      /\ {"CommunicationError", "TransferError", "Aborted"} \subseteq k.statuses
      /\ PacketReceived({"ERROR"}) => ErrorStatus(Popped, Current.packet.arg) \in k.statuses
      /\ Error("IllegalTftpOperation") \in k.packets /\ Error("NotDefined") \in k.packets
  BY DEF ServerAdmits, ErrorCodes
<1>2. \A b \in BaseOf(k) : [b EXCEPT !.out = {}] \in BaseOf(k)
                            /\ b.out \subseteq DatagramOf(k.packets)
  BY PerformType
<1> USE DEF Perform, Typed
<1>3. CASE ReceiveError
  BY <1>1, <1>2, <1>3, RunsType, FinishedType DEF ReceiveError
<1>4. CASE ReceiveOnClosedSocket
  <2>1. Popped \in BaseOf(k)
    BY <1>4, RunsType DEF ReceiveOnClosedSocket
  <2>2. [Popped EXCEPT !.fate = "escaped"] \in BaseOf(k)
    BY <2>1 DEF BaseOf
  <2> QED BY <1>2, <1>4, <2>2 DEF ReceiveOnClosedSocket
<1>5. CASE ErrorReceived
  <2>1. Popped \in BaseOf(k)
    BY <1>5, RunsType DEF ErrorReceived, PacketReceived
  <2>2. ErrorStatus(Popped, Current.packet.arg) \in k.statuses
    BY <1>1, <1>5 DEF ErrorReceived
  <2> QED BY <1>1, <1>2, <1>5, <2>1, <2>2, FinishedType DEF ErrorReceived
<1>6. CASE UnexpectedReceived
  <2>1. Popped \in BaseOf(k)
    BY <1>6, RunsType DEF UnexpectedReceived, PacketReceived
  <2> QED BY <1>1, <1>2, <1>6, <2>1, RejectType DEF UnexpectedReceived
<1>7. CASE Timeout
  <2>1. Popped \in BaseOf(k) /\ base.remote \in Endpoints
    BY <1>7, RunsType DEF Timeout, BaseOf
  <2> QED BY <1>1, <1>2, <1>7, <2>1, RetransmitType DEF Timeout
<1>8. CASE Abort
  BY <1>1, <1>2, <1>8, FinishedType DEF Abort
<1>9. CASE GracefulAbort
  BY <1>1, <1>2, <1>9, RejectType DEF GracefulAbort
<1>10. CASE ReceiveFails \/ \E d \in net : Arrive(d)
  BY <1>1, <1>10, QueueType DEF Typed
<1> QED
  BY <1>3, <1>4, <1>5, <1>6, <1>7, <1>8, <1>9, <1>10 DEF BaseStep, Typed

(* timeoutDallyHandler() keeps the types, if success may be reported after a dally. *)
LEMMA ServerDallyType ==
    ASSUME NEW k, ServerAdmits(k), "timeoutDally" \in k.timeouts => "Successful" \in k.statuses,
           base \in BaseOf(k), net \subseteq DatagramOf(k.packets), TimeoutDally
    PROVE  base' \in BaseOf(k) /\ net' \subseteq DatagramOf(k.packets)
<1>1. Popped \in BaseOf(k) /\ Current \in CompletionOf(k) /\ Current.handler = "timeoutDally"
  BY RunsType DEF TimeoutDally
<1>2. "timeoutDally" \in k.timeouts
  BY <1>1 DEF CompletionOf
<1> QED
  BY <1>1, <1>2, FinishedType, PerformType DEF TimeoutDally, Perform, ServerAdmits

(* The constructor. *)
LEMMA InitialType ==
    ASSUME NEW k, ServerAdmits(k), "idle" \in k.progress
    PROVE  InitialServer \in BaseOf(k)
BY DEF InitialServer, NewBase, BaseOf, ServerAdmits, Admits, Endpoints

(* initialise(). *)
LEMMA InitialiseType ==
    ASSUME NEW k, ServerAdmits(k), "idle" \in k.progress, NEW opened
    PROVE  Initialise(InitialServer, opened) \in BaseOf(k)
<1>1. InitialServer \in BaseOf(k)
  BY InitialType
<1>2. [InitialServer EXCEPT !.socket = "connected"] \in BaseOf(k)
  BY <1>1 DEF BaseOf
<1>3. Finished(InitialServer, "CommunicationError") \in BaseOf(k)
  BY <1>1, FinishedType DEF ServerAdmits, TransferStatus
<1> QED BY <1>2, <1>3 DEF Initialise

(* From then on the data handler is not idle any more. *)
LEMMA StartType ==
    ASSUME NEW k, ServerAdmits(k), "started" \in k.progress, NEW opened
    PROVE  StartDataHandler(Initialise(InitialServer, opened)) \in BaseOf(k)
<1> DEFINE After(socket, progress, fate) ==
             [socket |-> socket, rx |-> "none", timer |-> "none", ready |-> <<>>,
              remote |-> "client", transmitPacket |-> NoPacket, transmitCounter |-> 0,
              out |-> {}, dataHandler |-> progress, status |-> "none", fate |-> fate]
<1>1. /\ After("connected", "started", "running") \in BaseOf(k)
      /\ After("closed", "finished", "terminated") \in BaseOf(k)
  BY DEF BaseOf, ServerAdmits, Admits, Endpoints
<1>2. StartDataHandler(Initialise(InitialServer, TRUE)) = After("connected", "started", "running")
  BY DEF StartDataHandler, Initialise, Running, InitialServer, NewBase
<1>3. StartDataHandler(Initialise(InitialServer, FALSE)) = After("closed", "finished", "terminated")
  BY DEF StartDataHandler, Initialise, Finished, Running, InitialServer, NewBase
<1>4. Initialise(InitialServer, opened) \in {Initialise(InitialServer, TRUE), Initialise(InitialServer, FALSE)}
  BY DEF Initialise
<1> QED BY <1>1, <1>2, <1>3, <1>4

(* A start that ends the operation: it has not opened its socket, or the exception of *)
(* its data handler has finished it.                                                  *)
LEMMA FailedStartType ==
    ASSUME NEW k, ServerAdmits(k), NEW opened
    PROVE  /\ Initialise(InitialServer, FALSE) \in BaseOf(k)
           /\ Finished(Initialise(InitialServer, opened), "CommunicationError") \in BaseOf(k)
<1> DEFINE After(status, fate) ==
             [socket |-> "closed", rx |-> "none", timer |-> "none", ready |-> <<>>,
              remote |-> "client", transmitPacket |-> NoPacket, transmitCounter |-> 0,
              out |-> {}, dataHandler |-> "finished", status |-> status, fate |-> fate]
<1>1. /\ After("none", "terminated") \in BaseOf(k)
      /\ After("CommunicationError", "running") \in BaseOf(k)
  BY DEF BaseOf, ServerAdmits, Admits, Endpoints, TransferStatus
<1>2. Initialise(InitialServer, FALSE) = After("none", "terminated")
  BY DEF Initialise, Finished, Running, InitialServer, NewBase
<1>3. Finished(Initialise(InitialServer, FALSE), "CommunicationError") = After("none", "terminated")
  <2> DEFINE b == Initialise(InitialServer, FALSE)
  <2>1. b = After("none", "terminated") /\ After("none", "terminated").fate = "terminated"
    BY DEF Initialise, Finished, Running, InitialServer, NewBase
  <2> HIDE DEF b, After
  <2>2. Finished(b, "CommunicationError") = b
    BY <2>1 DEF Finished, Running
  <2> QED BY <2>1, <2>2 DEF b
<1>4. Finished(Initialise(InitialServer, TRUE), "CommunicationError")
        = After("CommunicationError", "running")
  BY DEF Initialise, Finished, Running, InitialServer, NewBase
<1>5. Initialise(InitialServer, opened) \in {Initialise(InitialServer, TRUE), Initialise(InitialServer, FALSE)}
  BY DEF Initialise
<1> QED BY <1>1, <1>2, <1>3, <1>4, <1>5

Idle == Initialise(InitialServer, TRUE)

(* What initialise() leaves, which no completion, packet or timer wakes up. *)
LEMMA IdleServer ==
    /\ [Idle EXCEPT !.out = {}] = Idle
    /\ Idle.socket = "connected" /\ Idle.rx = "none" /\ Idle.timer = "none" /\ Idle.ready = <<>>
    /\ Idle.out = {} /\ Idle.dataHandler = "idle" /\ Idle.status = "none" /\ Idle.fate = "running"
<1> DEFINE idle == [socket |-> "connected", rx |-> "none", timer |-> "none", ready |-> <<>>,
                    remote |-> "client", transmitPacket |-> NoPacket, transmitCounter |-> 0,
                    out |-> {}, dataHandler |-> "idle", status |-> "none", fate |-> "running"]
<1>1. Idle = idle
  BY DEF Idle, Initialise, InitialServer, NewBase
<1>2. [idle EXCEPT !.out = {}] = idle
  <2> DEFINE k == [packets |-> {NoPacket}, timeouts |-> {}, statuses |-> {}, progress |-> {"idle"}]
  <2>1. ASSUME NEW b \in BaseOf(k), b.out = {}
        PROVE  [b EXCEPT !.out = {}] = b
    BY <2>1 DEF BaseOf
  <2>2. idle \in BaseOf(k)
    BY DEF BaseOf, Endpoints
  <2>3. idle.out = {}
    OBVIOUS
  <2> HIDE DEF idle
  <2> QED BY <2>1, <2>2, <2>3
<1>3. /\ idle.socket = "connected" /\ idle.rx = "none" /\ idle.timer = "none" /\ idle.ready = <<>>
      /\ idle.out = {} /\ idle.dataHandler = "idle" /\ idle.status = "none" /\ idle.fate = "running"
  OBVIOUS
<1> HIDE DEF idle
<1> QED BY <1>1, <1>2, <1>3

(* An operation that has not been started, or whose start was given up after *)
(* initialise(), runs no handler; its user may still abort the latter.       *)
LEMMA UnstartedServer ==
    ASSUME base \in {InitialServer, Idle}
    PROVE  /\ \A handler : ~Runs(handler)
           /\ ~Expire
           /\ base = Idle => base # InitialServer
           /\ BaseStep => base = Idle /\ (Abort \/ GracefulAbort)
<1>1. /\ base.rx = "none" /\ base.timer = "none" /\ base.ready = <<>>
      /\ base = InitialServer => base.socket = "closed"
      /\ base = Idle => base.socket = "connected"
  BY IdleServer DEF InitialServer, NewBase
<1>2. \A handler : ~Runs(handler)
  BY <1>1 DEF Runs
<1> QED
  BY <1>1, <1>2
  DEF Expire, BaseStep, ReceiveError, ReceiveOnClosedSocket, ErrorReceived, UnexpectedReceived,
      PacketReceived, Timeout, ReceiveFails, Arrive, Abort, GracefulAbort

(* ... which finishes it, within the types of k. *)
LEMMA IdleStepType ==
    ASSUME NEW k, ServerAdmits(k), base = Idle, net \subseteq DatagramOf(k.packets), BaseStep
    PROVE  base' \in BaseOf(k) /\ net' \subseteq DatagramOf(k.packets)
<1> DEFINE fields == [packets |-> k.packets, timeouts |-> k.timeouts, statuses |-> k.statuses,
                      progress |-> k.progress \cup {"idle"}]
<1>1. PICK j : j = fields
  OBVIOUS
<1>2. /\ j.packets = k.packets /\ j.timeouts = k.timeouts /\ j.statuses = k.statuses
      /\ j.progress = k.progress \cup {"idle"}
  BY <1>1
<1> HIDE DEF fields
<1>3. ServerAdmits(j)
  BY <1>2 DEF ServerAdmits, Admits
<1>4. base \in BaseOf(j) /\ Running(base)
  BY <1>2, <1>3, InitialiseType, IdleServer DEF Idle, Running
<1>5. base' \in BaseOf(j) /\ net' \subseteq DatagramOf(j.packets)
  BY <1>2, <1>3, <1>4, ServerStepType
<1>6. PICK b \in BaseOf(j) : Perform(b) /\ b.dataHandler = "finished"
  <2>1. /\ Self \in Endpoints /\ Admits(j) /\ Error("NotDefined") \in j.packets
        /\ "CommunicationError" \in j.statuses /\ "Aborted" \in j.statuses
    BY <1>3 DEF ServerAdmits, ErrorCodes, TransferStatus
  <2>2. /\ Finished(base, "Aborted") \in BaseOf(j)
        /\ \A ok : Reject(base, "NotDefined", "Aborted", ok) \in BaseOf(j)
    BY <1>4, <2>1, FinishedType, RejectType
  <2>3. /\ Finished(base, "Aborted").dataHandler = "finished"
        /\ \A ok : Reject(base, "NotDefined", "Aborted", ok).dataHandler = "finished"
    BY <1>4, <2>1, FinishedHandler
  <2>4. Abort \/ GracefulAbort
    BY UnstartedServer
  <2> QED BY <2>2, <2>3, <2>4 DEF Abort, GracefulAbort
<1>7. base'.dataHandler = "finished"
  BY <1>6 DEF Perform, BaseOf
<1>8. "finished" \in k.progress
  BY DEF ServerAdmits, Admits
<1>9. base' \in BaseOf(k)
  BY <1>2, <1>5, <1>7, <1>8 DEF BaseOf, CompletionOf
<1> QED BY <1>2, <1>5, <1>9

-----------------------------------------------------------------------------
(* The handlers of the base class send nothing new but errors. *)
LEMMA ServerMoves ==
    ASSUME BaseStep \/ TimeoutDally
    PROVE  Passes \/ Objects
<1>1. \A code : Error(code).type = "ERROR"
  BY DEF Error
<1>2. \A handler : Runs(handler) => Starts(Popped)
  BY DEF Starts
<1>3. CASE ReceiveError \/ TimeoutDally
  BY <1>2, <1>3, Zenon DEF ReceiveError, TimeoutDally, Finishes, Passes
<1>4. CASE ErrorReceived
  BY <1>2, <1>4, Zenon DEF ErrorReceived, PacketReceived, Finishes, Passes
<1>5. CASE UnexpectedReceived
  BY <1>1, <1>5, Zenon DEF UnexpectedReceived, PacketReceived, OfPacket, Reject, RepliesWith, Objects
<1>6. CASE Timeout
  BY <1>6, Zenon DEF Timeout, Repeats, Passes
<1>7. CASE ReceiveOnClosedSocket
  BY <1>7, Zenon DEF ReceiveOnClosedSocket, Escaped, Passes
<1>8. CASE Abort \/ GracefulAbort
  <2>1. OfUser(base) /\ Starts(base)
    BY <1>8 DEF Abort, GracefulAbort, OfUser, Starts
  <2>2. CASE Perform(Finished(base, "Aborted"))
    BY <2>1, <2>2, Zenon DEF Finishes, Passes
  <2>3. CASE \E ok \in Outcome("send") : Perform(Reject(base, "NotDefined", "Aborted", ok))
    BY <1>1, <2>1, <2>3, Zenon DEF Reject, RepliesWith, Objects
  <2> QED BY <1>8, <2>2, <2>3 DEF Abort, GracefulAbort
<1> QED BY <1>3, <1>4, <1>5, <1>6, <1>7, <1>8 DEF BaseStep, Passes, Queues

(* start() opens the socket and answers the request, or fails; only an exception of the *)
(* data handler leaves a socket open that nothing waits for.                            *)
LEMMA StartMoves ==
    ASSUME base = InitialServer, NEW opened \in Outcome("open"), NEW ok \in Outcome("send"),
           \/ "dataHandler" \in Faults /\ Perform(Initialise(base, opened))
           \/ Perform(Finished(Initialise(base, opened), "CommunicationError"))
           \/ \E packet :
                 Perform(Receive(Send(StartDataHandler(Initialise(base, opened)), packet, ok)))
           \/ \E code, status :
                 Perform(Reject(StartDataHandler(Initialise(base, opened)), code, status, ok))
    PROVE  /\ Once(base')
           /\ "dataHandler" \notin Faults => Alive(base')
           /\ Faults = {} => Sound(base')
           /\ base'.socket # "open"
<1> DEFINE i == Initialise(base, opened)
           d == StartDataHandler(i)
<1>1. /\ DOMAIN base = Fields /\ Quiet(base) /\ base.socket = "closed" /\ base.timer = "none"
      /\ Running(base) /\ base.rx = "none" /\ base.status = "none"
  BY DEF InitialServer, NewBase, Fields, Quiet, Running
<1>2. /\ DOMAIN i = Fields /\ Quiet(i) /\ i.socket # "open"
      /\ opened => Running(i) /\ i.socket = "connected"
  <2>1. opened \in BOOLEAN
    BY DEF Outcome
  <2> DEFINE o == [base EXCEPT !.socket = "connected"]
             n == Finished(base, "CommunicationError")
  <2>2. DOMAIN o = Fields /\ Quiet(o) /\ o.socket = "connected" /\ Running(o)
    BY <1>1 DEF Fields, Quiet, Running
  <2>3. DOMAIN n = Fields /\ Quiet(n) /\ n.socket # "open"
    <3>1. n.socket # "open"
      BY <1>1 DEF Finished, Fields
    <3> QED BY <1>1, <3>1, FinishedOnce
  <2>4. (opened => i = o) /\ (~opened => i = n)
    BY <2>1 DEF Initialise
  <2> HIDE DEF o, n, i
  <2> QED BY <2>1, <2>2, <2>3, <2>4
<1>3. Faults = {} => opened /\ ok = TRUE
  BY DEF Outcome
<1> HIDE DEF i
<1>4. /\ DOMAIN d = Fields /\ Quiet(d) /\ d.socket # "open"
      /\ opened => Running(d) /\ d.socket = "connected"
  BY <1>2 DEF StartDataHandler, Fields, Quiet, Running
<1> HIDE DEF d
<1>5. ASSUME NEW s, NEW c, DOMAIN s = Fields, Quiet(s), Ends(s, c), Perform(c)
      PROVE  Once(base') /\ Alive(base')
  <2>1. DOMAIN c = Fields /\ Once(c) /\ (Running(c) /\ c.socket # "closed" => c.timer # "none")
    BY <1>5, EndsOnce, EndsAlive
  <2> QED BY <1>5, <2>1, PerformOnce DEF Perform, Alive, Running, Fields
<1>6. ASSUME NEW s
      PROVE  (\A status : Ends(s, Finished(s, status))) /\ Ends(s, Receive(s))
  BY DEF Ends, Receive, Timeouts
<1>7. ASSUME NEW b, DOMAIN b = Fields, b.socket # "open"
      PROVE  /\ Receive(b).socket # "open" /\ DOMAIN Receive(b) = Fields
             /\ \A status : Finished(b, status).socket # "open" /\ DOMAIN Finished(b, status) = Fields
             /\ \A packet : Send(b, packet, ok).socket # "open" /\ DOMAIN Send(b, packet, ok) = Fields
  BY <1>7 DEF Finished, Send, Transmit, Receive, Await, Fields
<1>8. ASSUME NEW b, DOMAIN b = Fields, b.socket # "open", Perform(b)
      PROVE  base'.socket # "open"
  BY <1>8 DEF Perform, Fields
<1>9. base'.socket # "open"
  <2>1. CASE Perform(i)
    BY <1>2, <1>8, <2>1
  <2>2. CASE Perform(Finished(i, "CommunicationError"))
    BY <1>2, <1>7, <1>8, <2>2
  <2>3. CASE \E packet : Perform(Receive(Send(d, packet, ok)))
    BY <1>4, <1>7, <1>8, <2>3
  <2>4. CASE \E code, status : Perform(Reject(d, code, status, ok))
    BY <1>4, <1>7, <1>8, <2>4 DEF Reject
  <2> QED BY <2>1, <2>2, <2>3, <2>4 DEF i, d
<1>10. CASE "dataHandler" \in Faults /\ Perform(i)
  <2>1. Once(i)
    BY <1>2 DEF Quiet, Once
  <2> QED BY <1>2, <1>9, <1>10, <2>1, PerformOnce
<1>11. CASE Perform(Finished(i, "CommunicationError"))
  <2>1. Once(base') /\ Alive(base')
    BY <1>2, <1>5, <1>6, <1>11
  <2>2. ASSUME Faults = {}
        PROVE  Sound(base')
    BY <1>2, <1>3, <1>11, <2>2, ComposeSound, PerformSound DEF Quiet
  <2> QED BY <1>9, <2>1, <2>2
<1>12. ASSUME NEW packet, NEW s, s = Send(d, packet, ok),
             Perform(Receive(s)) \/ \E status : Perform(Finished(s, status))
      PROVE  Once(base') /\ Alive(base') /\ (Faults = {} => Sound(base'))
  <2>1. DOMAIN s = Fields /\ Quiet(s)
    BY <1>4, <1>12, SendOnce
  <2>2. Once(base') /\ Alive(base')
    BY <1>5, <1>6, <1>12, <2>1, Zenon
  <2>3. ASSUME Faults = {}
        PROVE  Sound(base')
    <3>1. DOMAIN s = Fields /\ Running(s) /\ s.ready = <<>> /\ s.socket = "connected"
      BY <1>3, <1>4, <1>12, <2>3, ComposeSound DEF Quiet
    <3>2. /\ DOMAIN Receive(s) = Fields /\ Sound(Receive(s))
          /\ \A status : DOMAIN Finished(s, status) = Fields /\ Sound(Finished(s, status))
      BY <3>1, ComposeSound DEF Receive
    <3> QED BY <1>12, <3>2, PerformSound
  <2> QED BY <2>2, <2>3
<1>13. CASE \E packet : Perform(Receive(Send(d, packet, ok)))
  BY <1>9, <1>12, <1>13, Zenon
<1>14. CASE \E code, status : Perform(Reject(d, code, status, ok))
  BY <1>9, <1>12, <1>14, Zenon DEF Reject
<1> QED BY <1>10, <1>11, <1>13, <1>14 DEF i, d

(* What start() sends is the packet it keeps, and no packet is queued yet. *)
LEMMA StartTells ==
    ASSUME base = InitialServer, NEW opened, NEW packet, NEW ok,
           LET i == Initialise(base, opened)
               d == StartDataHandler(i)
           IN  \/ Perform(i)
               \/ Perform(Finished(i, "CommunicationError"))
               \/ Perform(Receive(Send(d, packet, ok)))
               \/ \E status : Perform(Finished(Send(d, packet, ok), status))
    PROVE  /\ base'.out = {} /\ base'.transmitPacket \in {NoPacket, packet}
           /\ Queued(base') = NoPacket
           /\ \A d \in net' : Said(d)
<1> DEFINE i == Initialise(base, opened)
           d == StartDataHandler(i)
           o == [base EXCEPT !.socket = "connected"]
           Kept(c) == /\ DOMAIN c = Fields /\ Tells(c) /\ c.remote = base.remote
                      /\ c.transmitPacket \in {NoPacket, packet} /\ Queued(c) = NoPacket
<1>1. Fresh(base, packet) /\ Fresh(o, packet) /\ base.out = {} /\ o.out = {}
  BY DEF InitialServer, NewBase, Fields, Fresh, Tells
<1>2. i \in {o, Finished(base, "CommunicationError")}
  BY DEF Initialise
<1>3. Finished(base, "CommunicationError").out = {}
  BY <1>1 DEF Finished, Fields, Fresh
<1> HIDE DEF i, o
<1>4. Fresh(i, packet) /\ i.out = {}
  BY <1>1, <1>2, <1>3, FreshFunctions
<1>5. Fresh(d, packet) /\ d.out = {}
  BY <1>4 DEF StartDataHandler, Fresh, Fields, Tells
<1> HIDE DEF d
<1>6. \A c : Fresh(c, packet) => Kept(c)
  BY DEF Fresh, Queued
<1>7. PICK s : s = Send(d, packet, ok)
  OBVIOUS
<1>8. Fresh(s, packet)
  BY <1>5, <1>7, FreshFunctions
<1>9. /\ Kept(i) /\ Kept(Finished(i, "CommunicationError")) /\ Kept(Receive(s))
      /\ \A status : Kept(Finished(s, status))
  BY <1>4, <1>6, <1>8, FreshFunctions DEF Receive
<1>10. PICK c : Kept(c) /\ Perform(c)
  <2>1. \/ Perform(i) \/ Perform(Finished(i, "CommunicationError")) \/ Perform(Receive(s))
        \/ \E status : Perform(Finished(s, status))
    BY <1>7, Zenon DEF i, d
  <2> HIDE DEF Kept
  <2> QED BY <1>9, <2>1, Zenon
<1>11. Queued(base') = NoPacket
  BY <1>10 DEF Perform, Fields, Queued
<1>12. /\ base'.out = {} /\ base'.transmitPacket = c.transmitPacket
       /\ \A m \in net' : Said(m)
  BY <1>10, PerformTells
<1> QED BY <1>10, <1>11, <1>12

(* The handlers of the base class meet nothing unexpected if the peer keeps its manners. *)
LEMMA ServerConverses ==
    ASSUME base \in Base, Sound(base), Faults = {}, Self \notin Aborters,
           NEW t, Mannerly(t), \A p \in t.hears : p.type # "OACK", t.asks = {},
           Polite(base, t), BaseStep \/ TimeoutDally
    PROVE  /\ Converses(t)
           /\ Dallying(base) => Queues \/ Concludes
           /\ Passes
<1>1. Runs("receive") => /\ Current.packet.type \in {"DATA", "ACK"} /\ ~Current.failed
                         /\ base.socket = "connected"
  BY DEF Runs, Current, Sound, Polite, Mannerly
<1>2. ~ReceiveError /\ ~ReceiveOnClosedSocket /\ ~ErrorReceived
  BY <1>1 DEF ReceiveError, ReceiveOnClosedSocket, ErrorReceived, PacketReceived
<1>3. ~Abort /\ ~GracefulAbort
  BY DEF Abort, GracefulAbort
<1>4. ~UnexpectedReceived
  BY <1>1 DEF UnexpectedReceived, PacketReceived
<1>5. CASE TimeoutDally
  <2>1. Starts(Popped)
    BY <1>5, Zenon DEF TimeoutDally, Starts
  <2>2. Perform(Finished(Popped, "Successful"))
    BY <1>5 DEF TimeoutDally
  <2>3. Converses(t)
    <3>1. "Successful" # "TransferError"
      OBVIOUS
    <3> QED BY <2>1, <2>2, <3>1, Zenon DEF Converses
  <2> QED BY <2>1, <2>2, <2>3, Zenon DEF Concludes, Finishes, Passes
<1>6. CASE Timeout
  <2>1. Repeats
    BY <1>6, Zenon DEF Timeout, Repeats
  <2>2. ~Dallying(base)
    BY <1>6 DEF Timeout, Runs, Dallying
  <2> QED BY <2>1, <2>2, Zenon DEF Converses, Passes
<1>7. CASE ReceiveFails \/ \E d \in net : Arrive(d)
  <2>1. Queues
    BY <1>7, Zenon DEF Queues
  <2> QED BY <2>1, Zenon DEF Converses, Passes
<1> QED BY <1>2, <1>3, <1>4, <1>5, <1>6, <1>7 DEF BaseStep

(* The first packet of the server, where nothing fails. *)
LEMMA StartPolite ==
    ASSUME base = InitialServer, Faults = {}, NEW opened \in Outcome("open"),
           NEW ok \in Outcome("send"), NEW t, t.peer = "client", NEW packet \in t.says,
           Perform(Receive(Send(StartDataHandler(Initialise(base, opened)), packet, ok)))
    PROVE  /\ Polite(base', t) /\ base'.transmitPacket = packet
           /\ Queued(base') = NoPacket
           /\ \A d \in net' : d \in net \/ Proper(d, t)
<1> DEFINE i == [base EXCEPT !.socket = "connected"]
           d == [i EXCEPT !.dataHandler = "started"]
           s == Send(d, packet, TRUE)
           r == Receive(s)
<1>1. opened /\ ok
  BY DEF Outcome
<1>2. /\ i = Initialise(base, opened) /\ Running(i) /\ i.socket = "connected" /\ DOMAIN i = Fields
      /\ i.ready = <<>> /\ i.status = "none" /\ i.remote = t.peer
  BY <1>1 DEF Initialise, InitialServer, NewBase, Running, Fields
<1> HIDE DEF i
<1>3. /\ d = StartDataHandler(i) /\ Running(d) /\ d.socket = "connected" /\ DOMAIN d = Fields
      /\ d.ready = <<>> /\ d.status = "none" /\ d.remote = t.peer
  BY <1>2 DEF StartDataHandler, Running, Fields
<1> HIDE DEF d
<1>4. Speaks(s, d, packet)
  BY <1>3, SendPolite
<1>5. Perform(r)
  <2>1. ok = TRUE
    BY <1>1 DEF Outcome
  <2> QED BY <1>2, <1>3, <2>1
<1> HIDE DEF s
<1>6. /\ DOMAIN r = Fields /\ Polite(r, t) /\ r.out = s.out
      /\ r.transmitPacket = packet /\ r.ready = <<>>
  <2>1. DOMAIN r = Fields /\ Polite(r, t) /\ r.out = s.out
    BY <1>3, <1>4, ReceivePolite DEF Speaks
  <2>2. r.transmitPacket = packet /\ r.ready = <<>>
    BY <1>4 DEF Speaks, Receive, Await, Fields
  <2> QED BY <2>1, <2>2
<1> HIDE DEF r
<1>7. /\ Polite(base', t) /\ net' = net \cup s.out
      /\ base'.transmitPacket = packet /\ base'.ready = <<>>
  BY <1>5, <1>6, PerformPolite DEF Perform, Fields
<1>8. \A x \in s.out : Proper(x, t)
  BY <1>3, <1>4 DEF Speaks, Proper
<1> QED BY <1>7, <1>8 DEF Queued

=============================================================================
