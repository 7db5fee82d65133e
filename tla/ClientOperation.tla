-------------------------- MODULE ClientOperation --------------------------
(***************************************************************************)
(* Clients::OperationImpl: what the client side of a read and of a write   *)
(* have in common.  The request goes to the well-known port of the server; *)
(* the first answer tells the port of the operation, which the socket is   *)
(* then connected to.  "remote" is the member receiveEndpointV.            *)
(***************************************************************************)
EXTENDS Operation

InitialClient == NewBase("none")

(* initialise() *)
Initialise(b, opened) ==
    IF opened THEN [b EXCEPT !.socket = "open", !.remote = "none"]
    ELSE Finished([b EXCEPT !.remote = "none"], "CommunicationError")

(* sendFirst(): socket.send_to() the well-known port. *)
SendFirst(b, packet, ok) ==
    IF ~Running(b) THEN b
    ELSE LET c == [b EXCEPT !.transmitPacket = packet, !.transmitCounter = 1]
         IN  IF ok /\ b.socket # "closed" THEN Transmit(c, "wellKnown")
             ELSE Finished(c, "CommunicationError")

(* receiveFirst() *)
ReceiveFirst(b) == Await(b, "receiveFirst", "timeoutFirst")

(* errorPacket(): an error that answers the request has a status of its own. *)
ErrorStatus(b, code) ==
    IF b.transmitPacket.type \notin {"RRQ", "WRQ"} THEN "TransferError"
    ELSE IF code = "TftpOptionRefused" THEN "OptionNegotiationError"
    ELSE "RequestError"

-----------------------------------------------------------------------------
(* Dispatching of a received packet *)

(* receiveFirstHandler(): a packet of another host is not for this operation. *)
FromServer == base.remote # "stranger"

(* The packet that receiveFirstHandler() or receiveHandler() passes on to the *)
(* packet handlers, and the base they start from: receiveFirstHandler() has   *)
(* connected the socket; connect() opens a socket that has been closed.       *)
PacketReceived(types) ==
    /\ \/ Runs("receiveFirst") /\ FromServer
       \/ Runs("receive")
    /\ ~Current.failed
    /\ Current.packet.type \in types

Dispatched == IF Current.handler = "receiveFirst"
              THEN [Popped EXCEPT !.socket = IF @ = "closed" THEN "reopened" ELSE "connected"]
              ELSE Popped

-----------------------------------------------------------------------------
(* Handlers that only touch the members of the base class *)

(* receiveFirstHandler(), receiveHandler(): receive error. *)
ReceiveError ==
    /\ Runs("receiveFirst") \/ Runs("receive")
    /\ Current.failed
    /\ Perform(Finished(Popped, "CommunicationError"))

(* receiveFirstHandler(): answer a third party with an error and receive   *)
(* again.  The timer, the retry counter and transmitPacket stay untouched. *)
WrongSource ==
    /\ Runs("receiveFirst")
    /\ ~Current.failed
    /\ ~FromServer
    /\ \E ok \in Outcome("send") :
         Perform([Await(Popped, "receiveFirst", base.timer) EXCEPT
                    !.out = IF ok /\ base.socket # "closed"
                            THEN {[from |-> Self, to |-> base.remote, packet |-> Error("UnknownTransferId")]}
                            ELSE {}])

(* receiveFirstHandler(): connect() fails. *)
ConnectFails ==
    /\ Runs("receiveFirst")
    /\ ~Current.failed
    /\ FromServer
    /\ "open" \in Faults
    /\ Perform(Finished(Popped, "CommunicationError"))

(* errorPacket() *)
ErrorReceived ==
    /\ PacketReceived({"ERROR"})
    /\ Perform(Finished(Dispatched, ErrorStatus(Popped, Current.packet.arg)))

(* readRequestPacket(), writeRequestPacket(), invalidPacket() *)
UnexpectedReceived ==
    /\ PacketReceived({"RRQ", "WRQ", "INVALID"})
    /\ \E ok \in Outcome("send") :
          Perform(Reject(Dispatched, "IllegalTftpOperation", "TransferError", ok))

(* timeoutFirstHandler(): repeats to the well-known port, whatever the last *)
(* packet was.                                                              *)
TimeoutFirst ==
    /\ Runs("timeoutFirst")
    /\ \E ok \in Outcome("send") :
          Perform(Retransmit(Popped, ok /\ base.socket # "closed", "wellKnown", "timeoutFirst"))

(* timeoutHandler() *)
Timeout ==
    /\ Runs("timeout")
    /\ \E ok \in Outcome("send") :
          Perform(Retransmit(Popped, ok /\ Connected(base), base.remote, "timeout"))

(* timeoutDallyHandler() *)
TimeoutDally ==
    /\ Runs("timeoutDally")
    /\ Perform(Finished(Popped, "Successful"))

(* abort(), called by the user while the operation runs. *)
Abort ==
    /\ Self \in Aborters
    /\ MayQueue /\ base.socket # "closed" /\ base.status = "none"
    /\ Perform(Finished(base, "Aborted"))

(* gracefulAbort(): the error is only sent once a packet has been received; *)
(* send() on a socket that is not connected yet fails.                      *)
GracefulAbort ==
    /\ Self \in Aborters
    /\ MayQueue /\ base.socket # "closed" /\ base.status = "none"
    /\ \/ /\ base.remote = "none"
          /\ Perform(Finished(base, "Aborted"))
       \/ /\ base.remote # "none"
          /\ \E ok \in Outcome("send") :
                Perform(Reject(base, "NotDefined", "Aborted", ok))

BaseStep ==
    \/ ReceiveError \/ WrongSource \/ ConnectFails \/ ErrorReceived \/ UnexpectedReceived
    \/ TimeoutFirst \/ Timeout \/ Abort \/ GracefulAbort
    \/ ReceiveFails
    \/ \E d \in net : Arrive(d)

-----------------------------------------------------------------------------
(* What a step of the client needs of a type: errors may be sent, each failure may *)
(* be reported, a refusal if an error tells of it, and the client is an endpoint.  *)
ClientAdmits(k) ==
    /\ Self \in Endpoints
    /\ Admits(k)
    /\ \A code \in ErrorCodes : Error(code) \in k.packets
    /\ {"CommunicationError", "TransferError", "Aborted"} \subseteq k.statuses
    /\ PacketReceived({"ERROR"}) => ErrorStatus(Popped, Current.packet.arg) \in k.statuses
    /\ {"timeoutFirst", "timeout"} \subseteq k.timeouts

(* sendFirst() keeps the type. *)
LEMMA SendFirstType ==
    ASSUME NEW k, ClientAdmits(k), NEW b \in BaseOf(k), NEW packet \in k.packets, NEW ok
    PROVE  SendFirst(b, packet, ok) \in BaseOf(k)
<1> DEFINE c == [b EXCEPT !.transmitPacket = packet, !.transmitCounter = 1]
<1>1. c \in BaseOf(k)
  BY DEF BaseOf
<1> HIDE DEF c
<1>2. Transmit(c, "wellKnown") \in BaseOf(k) /\ Finished(c, "CommunicationError") \in BaseOf(k)
  BY <1>1, TransmitType, FinishedType DEF ClientAdmits, Endpoints, TransferStatus
<1> QED BY <1>2 DEF SendFirst, c

(* A packet is dispatched from, and with, the type of the queue. *)
LEMMA DispatchedType ==
    ASSUME NEW k, base \in BaseOf(k), NEW types, PacketReceived(types)
    PROVE  /\ Popped \in BaseOf(k) /\ Dispatched \in BaseOf(k)
           /\ Current \in CompletionOf(k)
<1>1. Popped \in BaseOf(k) /\ Current \in CompletionOf(k)
  BY RunsType DEF PacketReceived
<1>2. [Popped EXCEPT !.socket = IF @ = "closed" THEN "reopened" ELSE "connected"] \in BaseOf(k)
  BY <1>1 DEF BaseOf
<1> QED BY <1>1, <1>2 DEF Dispatched

(* The handlers of the base class keep the types, whatever members the operation has. *)
LEMMA ClientStepType ==
    ASSUME NEW k, ClientAdmits(k),
           base \in BaseOf(k), net \subseteq DatagramOf(k.packets), BaseStep
    PROVE  base' \in BaseOf(k) /\ net' \subseteq DatagramOf(k.packets)
<1> DEFINE Typed == base' \in BaseOf(k) /\ net' \subseteq DatagramOf(k.packets)
<1>1. /\ Self \in Endpoints /\ "wellKnown" \in Endpoints
      /\ Admits(k) /\ "timeout" \in k.timeouts /\ "timeoutFirst" \in k.timeouts
      /\ {"CommunicationError", "TransferError", "Aborted"} \subseteq k.statuses
      /\ PacketReceived({"ERROR"}) => ErrorStatus(Popped, Current.packet.arg) \in k.statuses
      /\ Error("IllegalTftpOperation") \in k.packets /\ Error("NotDefined") \in k.packets
      /\ Error("UnknownTransferId") \in k.packets
  BY DEF ClientAdmits, ErrorCodes, Endpoints
<1>2. \A b \in BaseOf(k) : [b EXCEPT !.out = {}] \in BaseOf(k)
                            /\ b.out \subseteq DatagramOf(k.packets)
  BY PerformType
<1> USE DEF Perform, Typed
<1>3. CASE ReceiveError
  <2>1. Popped \in BaseOf(k)
    BY <1>3, RunsType DEF ReceiveError
  <2> QED BY <1>1, <1>2, <1>3, <2>1, FinishedType DEF ReceiveError
<1>4. CASE WrongSource
  <2> DEFINE b == Await(Popped, "receiveFirst", base.timer)
             answer == [from |-> Self, to |-> base.remote, packet |-> Error("UnknownTransferId")]
  <2>1. Popped \in BaseOf(k) /\ base.timer \in {"none"} \cup k.timeouts
    BY <1>4, RunsType DEF WrongSource, BaseOf
  <2>2. b \in BaseOf(k)
    BY <1>1, <2>1, AwaitType
  <2>3. answer \in DatagramOf(k.packets)
    BY <1>1 DEF BaseOf, DatagramOf
  <2> HIDE DEF b, answer
  <2>4. [b EXCEPT !.out = {answer}] \in BaseOf(k) /\ [b EXCEPT !.out = {}] \in BaseOf(k)
    BY <2>2, <2>3 DEF BaseOf
  <2>5. \E c \in BaseOf(k) : Perform(c)
    BY <1>4, <2>4 DEF WrongSource, b, answer
  <2> QED BY <1>2, <2>5
<1>5. CASE ConnectFails
  <2>1. Popped \in BaseOf(k)
    BY <1>5, RunsType DEF ConnectFails
  <2> QED BY <1>1, <1>2, <1>5, <2>1, FinishedType DEF ConnectFails
<1>6. CASE ErrorReceived
  <2>1. Dispatched \in BaseOf(k)
    BY <1>6, DispatchedType DEF ErrorReceived
  <2>2. ErrorStatus(Popped, Current.packet.arg) \in k.statuses
    BY <1>1, <1>6 DEF ErrorReceived
  <2> QED BY <1>1, <1>2, <1>6, <2>1, <2>2, FinishedType DEF ErrorReceived
<1>7. CASE UnexpectedReceived
  <2>1. Dispatched \in BaseOf(k)
    BY <1>7, DispatchedType DEF UnexpectedReceived
  <2> QED BY <1>1, <1>2, <1>7, <2>1, RejectType DEF UnexpectedReceived
<1>8. CASE TimeoutFirst
  <2>1. Popped \in BaseOf(k)
    BY <1>8, RunsType DEF TimeoutFirst
  <2> QED BY <1>1, <1>2, <1>8, <2>1, RetransmitType DEF TimeoutFirst
<1>9. CASE Timeout
  <2>1. Popped \in BaseOf(k) /\ base.remote \in Endpoints
    BY <1>9, RunsType DEF Timeout, BaseOf
  <2> QED BY <1>1, <1>2, <1>9, <2>1, RetransmitType DEF Timeout
<1>10. CASE Abort
  BY <1>1, <1>2, <1>10, FinishedType DEF Abort
<1>11. CASE GracefulAbort
  BY <1>1, <1>2, <1>11, FinishedType, RejectType DEF GracefulAbort
<1>12. CASE ReceiveFails \/ \E d \in net : Arrive(d)
  BY <1>1, <1>12, QueueType
<1> QED
  BY <1>3, <1>4, <1>5, <1>6, <1>7, <1>8, <1>9, <1>10, <1>11, <1>12 DEF BaseStep

(* timeoutDallyHandler() keeps the types, if success may be reported after a dally. *)
LEMMA ClientDallyType ==
    ASSUME NEW k, ClientAdmits(k), "timeoutDally" \in k.timeouts => "Successful" \in k.statuses,
           base \in BaseOf(k), net \subseteq DatagramOf(k.packets), TimeoutDally
    PROVE  base' \in BaseOf(k) /\ net' \subseteq DatagramOf(k.packets)
<1>1. Popped \in BaseOf(k) /\ Current \in CompletionOf(k) /\ Current.handler = "timeoutDally"
  BY RunsType DEF TimeoutDally
<1>2. "timeoutDally" \in k.timeouts
  BY <1>1 DEF CompletionOf
<1> QED
  BY <1>1, <1>2, FinishedType, PerformType DEF TimeoutDally, Perform, ClientAdmits

(* The constructor. *)
LEMMA InitialType ==
    ASSUME NEW k, ClientAdmits(k), "idle" \in k.progress
    PROVE  InitialClient \in BaseOf(k)
BY DEF InitialClient, NewBase, BaseOf, ClientAdmits, Admits, Endpoints

(* initialise(). *)
LEMMA InitialiseType ==
    ASSUME NEW k, ClientAdmits(k), "idle" \in k.progress, NEW opened
    PROVE  Initialise(InitialClient, opened) \in BaseOf(k)
<1>1. InitialClient \in BaseOf(k)
  BY InitialType
<1>2. /\ [InitialClient EXCEPT !.remote = "none"] \in BaseOf(k)
      /\ [InitialClient EXCEPT !.socket = "open", !.remote = "none"] \in BaseOf(k)
  BY <1>1 DEF BaseOf, Endpoints
<1>3. Finished([InitialClient EXCEPT !.remote = "none"], "CommunicationError") \in BaseOf(k)
  BY <1>2, FinishedType DEF ClientAdmits, TransferStatus
<1> QED BY <1>2, <1>3 DEF Initialise

(* From then on the data handler is not idle any more. *)
LEMMA StartType ==
    ASSUME NEW k, ClientAdmits(k), "started" \in k.progress, NEW opened
    PROVE  StartDataHandler(Initialise(InitialClient, opened)) \in BaseOf(k)
<1> DEFINE After(socket, progress, fate) ==
             [socket |-> socket, rx |-> "none", timer |-> "none", ready |-> <<>>,
              remote |-> "none", transmitPacket |-> NoPacket, transmitCounter |-> 0,
              out |-> {}, dataHandler |-> progress, status |-> "none", fate |-> fate]
<1>1. /\ After("open", "started", "running") \in BaseOf(k)
      /\ After("closed", "finished", "terminated") \in BaseOf(k)
  BY DEF BaseOf, ClientAdmits, Admits, Endpoints
<1>2. StartDataHandler(Initialise(InitialClient, TRUE)) = After("open", "started", "running")
  BY DEF StartDataHandler, Initialise, Running, InitialClient, NewBase
<1>3. StartDataHandler(Initialise(InitialClient, FALSE)) = After("closed", "finished", "terminated")
  BY DEF StartDataHandler, Initialise, Finished, Running, InitialClient, NewBase
<1>4. Initialise(InitialClient, opened) \in {Initialise(InitialClient, TRUE), Initialise(InitialClient, FALSE)}
  BY DEF Initialise
<1> QED BY <1>1, <1>2, <1>3, <1>4

(* A start that ends the operation: it has not opened its socket, or the exception of *)
(* its data handler has finished it.                                                  *)
LEMMA FailedStartType ==
    ASSUME NEW k, ClientAdmits(k), NEW opened
    PROVE  /\ Initialise(InitialClient, FALSE) \in BaseOf(k)
           /\ Finished(Initialise(InitialClient, opened), "CommunicationError") \in BaseOf(k)
<1> DEFINE After(status, fate) ==
             [socket |-> "closed", rx |-> "none", timer |-> "none", ready |-> <<>>,
              remote |-> "none", transmitPacket |-> NoPacket, transmitCounter |-> 0,
              out |-> {}, dataHandler |-> "finished", status |-> status, fate |-> fate]
<1>1. /\ After("none", "terminated") \in BaseOf(k)
      /\ After("CommunicationError", "running") \in BaseOf(k)
  BY DEF BaseOf, ClientAdmits, Admits, Endpoints, TransferStatus
<1>2. Initialise(InitialClient, FALSE) = After("none", "terminated")
  BY DEF Initialise, Finished, Running, InitialClient, NewBase
<1>3. Finished(Initialise(InitialClient, FALSE), "CommunicationError") = After("none", "terminated")
  <2> DEFINE b == Initialise(InitialClient, FALSE)
  <2>1. b = After("none", "terminated") /\ After("none", "terminated").fate = "terminated"
    BY DEF Initialise, Finished, Running, InitialClient, NewBase
  <2> HIDE DEF b, After
  <2>2. Finished(b, "CommunicationError") = b
    BY <2>1 DEF Finished, Running
  <2> QED BY <2>1, <2>2 DEF b
<1>4. Finished(Initialise(InitialClient, TRUE), "CommunicationError")
        = After("CommunicationError", "running")
  BY DEF Initialise, Finished, Running, InitialClient, NewBase
<1>5. Initialise(InitialClient, opened) \in {Initialise(InitialClient, TRUE), Initialise(InitialClient, FALSE)}
  BY DEF Initialise
<1> QED BY <1>1, <1>2, <1>3, <1>4, <1>5

(* An operation that has not been started runs no handler, and cannot be aborted. *)
LEMMA UnstartedClient ==
    ASSUME base = InitialClient
    PROVE  (\A handler : ~Runs(handler)) /\ ~Expire /\ ~BaseStep
<1>1. base.rx = "none" /\ base.timer = "none" /\ base.ready = <<>> /\ base.socket = "closed"
  BY DEF InitialClient, NewBase
<1>2. \A handler : ~Runs(handler)
  BY <1>1 DEF Runs
<1> QED
  BY <1>1, <1>2
  DEF Expire, BaseStep, ReceiveError, WrongSource, ConnectFails, ErrorReceived, UnexpectedReceived,
      PacketReceived, TimeoutFirst, Timeout, ReceiveFails, Arrive, Abort, GracefulAbort

-----------------------------------------------------------------------------
(* A packet is dispatched by a handler that has received it. *)
LEMMA DispatchedOfPacket ==
    ASSUME NEW types, PacketReceived(types)
    PROVE  OfPacket(Dispatched) /\ Starts(Dispatched)
<1>1. OfPacket(Dispatched)
  BY DEF PacketReceived, OfPacket, Dispatched, Runs, Current
<1> QED BY <1>1 DEF Starts

(* The handlers of the base class send nothing new but errors. *)
LEMMA ClientMoves ==
    ASSUME BaseStep \/ TimeoutDally
    PROVE  Passes \/ Objects
<1>1. \A code : Error(code).type = "ERROR"
  BY DEF Error
<1>2. \A handler : Runs(handler) => Starts(Popped)
  BY DEF Starts
<1>3. CASE ReceiveError \/ ConnectFails \/ TimeoutDally
  BY <1>2, <1>3, Zenon DEF ReceiveError, ConnectFails, TimeoutDally, Finishes, Passes
<1>4. CASE ErrorReceived
  BY <1>4, DispatchedOfPacket, Zenon DEF ErrorReceived, Finishes, Passes
<1>5. CASE UnexpectedReceived
  BY <1>1, <1>5, DispatchedOfPacket, Zenon DEF UnexpectedReceived, Reject, RepliesWith, Objects
<1>6. CASE TimeoutFirst \/ Timeout
  BY <1>6, Zenon DEF TimeoutFirst, Timeout, Repeats, Passes
<1>7. CASE WrongSource
  BY <1>7, Zenon DEF WrongSource, Redirected, Passes
<1>8. CASE Abort \/ GracefulAbort
  <2>1. OfUser(base) /\ Starts(base)
    BY <1>8 DEF Abort, GracefulAbort, OfUser, Starts
  <2>2. CASE Perform(Finished(base, "Aborted"))
    BY <2>1, <2>2, Zenon DEF Finishes, Passes
  <2>3. CASE \E ok \in Outcome("send") : Perform(Reject(base, "NotDefined", "Aborted", ok))
    BY <1>1, <2>1, <2>3, Zenon DEF Reject, RepliesWith, Objects
  <2> QED BY <1>8, <2>2, <2>3 DEF Abort, GracefulAbort
<1> QED BY <1>3, <1>4, <1>5, <1>6, <1>7, <1>8 DEF BaseStep, Passes, Queues

(* request() opens the socket, sends the request and waits for the first answer, or fails. *)
LEMMA RequestMoves ==
    ASSUME base = InitialClient, NEW opened \in Outcome("open"), NEW packet, NEW ok \in Outcome("send"),
           \/ Perform(Finished(Initialise(base, opened), "CommunicationError"))
           \/ Perform(ReceiveFirst(SendFirst(StartDataHandler(Initialise(base, opened)), packet, ok)))
    PROVE  Once(base') /\ Alive(base') /\ (Faults = {} => Sound(base'))
<1> DEFINE i == Initialise(base, opened)
           d == StartDataHandler(i)
           c == [d EXCEPT !.transmitPacket = packet, !.transmitCounter = 1]
           t == Transmit(c, "wellKnown")
           f == Finished(c, "CommunicationError")
           s == SendFirst(d, packet, ok)
           r == ReceiveFirst(s)
           g == Finished(i, "CommunicationError")
<1>1. /\ DOMAIN base = Fields /\ Quiet(base) /\ base.socket = "closed" /\ base.timer = "none"
      /\ Running(base) /\ base.rx = "none" /\ base.status = "none"
  BY DEF InitialClient, NewBase, Fields, Quiet, Running
<1>2. /\ DOMAIN i = Fields /\ Quiet(i) /\ i.rx = "none" /\ i.timer = "none"
      /\ Running(i) => i.socket = "open"
      /\ opened => Running(i)
  <2>1. opened \in BOOLEAN
    BY DEF Outcome
  <2> DEFINE e == [base EXCEPT !.remote = "none"]
             o == [base EXCEPT !.socket = "open", !.remote = "none"]
             n == Finished(e, "CommunicationError")
  <2>2. /\ DOMAIN o = Fields /\ Quiet(o) /\ o.rx = "none" /\ o.timer = "none"
        /\ o.socket = "open" /\ Running(o)
    BY <1>1 DEF Fields, Quiet, Running
  <2>3. /\ DOMAIN e = Fields /\ Quiet(e) /\ e.rx = "none" /\ e.timer = "none"
        /\ e.socket = "closed" /\ Running(e)
    BY <1>1 DEF Fields, Quiet, Running
  <2>4. opened => i = o
    BY DEF Initialise
  <2>5. ~opened => i = n
    BY <2>1 DEF Initialise
  <2> HIDE DEF e, o, i
  <2>6. DOMAIN n = Fields /\ Quiet(n) /\ n.rx = "none" /\ n.timer = "none" /\ ~Running(n)
    BY <2>3 DEF Finished, Fields, Quiet, Running
  <2> HIDE DEF n
  <2> QED BY <2>1, <2>2, <2>4, <2>5, <2>6
<1>3. Faults = {} => opened /\ ok
  BY DEF Outcome
<1>4. CASE Perform(g)
  <2>1. DOMAIN g = Fields /\ Quiet(g) /\ (Running(g) => g.socket = "closed")
    BY <1>2, FinishedOnce DEF Finished, Fields, Running
  <2>2. Faults = {} => Sound(g)
    BY <1>2, <1>3, ComposeSound DEF Quiet
  <2> HIDE DEF g
  <2>3. Once(base')
    BY <1>4, <2>1, PerformOnce DEF Quiet, Once
  <2>4. Alive(base')
    BY <1>4, <2>1 DEF Perform, Alive, Running, Fields
  <2> QED BY <1>4, <2>1, <2>2, <2>3, <2>4, PerformSound
<1>5. CASE Perform(r)
  <2> HIDE DEF i
  <2>1. /\ DOMAIN d = Fields /\ Quiet(d) /\ d.rx = "none" /\ d.timer = "none"
        /\ Running(d) => d.socket = "open"
        /\ opened => Running(d)
    BY <1>2 DEF StartDataHandler, Fields, Quiet, Running
  <2> HIDE DEF d
  <2>2. /\ DOMAIN c = Fields /\ Quiet(c) /\ c.rx = "none" /\ c.timer = "none"
        /\ c.socket = d.socket /\ c.fate = d.fate
    BY <2>1 DEF Fields, Quiet
  <2>3. s \in {d, t, f} /\ (Faults = {} => s = t)
    BY <1>3, <2>1 DEF SendFirst
  <2> HIDE DEF c
  <2>4. DOMAIN f = Fields /\ Quiet(f)
    BY <2>2, FinishedOnce
  <2>5. /\ DOMAIN t = Fields /\ Quiet(t) /\ t.rx = "none" /\ t.timer = "none"
        /\ t.socket = d.socket /\ t.fate = d.fate
    BY <2>2 DEF Transmit, Fields, Quiet
  <2>6. DOMAIN s = Fields /\ Quiet(s)
    BY <2>1, <2>3, <2>4, <2>5
  <2>7. Faults = {} => s.rx = "none" /\ s.timer = "none" /\ s.socket = "open" /\ Running(s)
    BY <1>3, <2>1, <2>3, <2>5 DEF Running
  <2> HIDE DEF s, t, f
  <2>8. DOMAIN r = Fields /\ Once(r)
    BY <2>6, AwaitOnce DEF ReceiveFirst
  <2>9. Running(r) => r.timer # "none"
    BY <2>6 DEF ReceiveFirst, Await, Running, Fields
  <2>10. Faults = {} => Sound(r)
    BY <2>6, <2>7 DEF ReceiveFirst, Await, Sound, Running, Fields, Quiet
  <2> HIDE DEF r
  <2>11. Once(base')
    BY <1>5, <2>8, PerformOnce
  <2>12. Alive(base')
    BY <1>5, <2>8, <2>9 DEF Perform, Alive, Running, Fields
  <2> QED BY <1>5, <2>8, <2>10, <2>11, <2>12, PerformSound
<1> QED BY <1>4, <1>5

(* ... and its data handler is not idle any more. *)
LEMMA RequestStarts ==
    ASSUME base = InitialClient, NEW opened, NEW packet, NEW ok,
           \/ Perform(Finished(Initialise(base, opened), "CommunicationError"))
           \/ Perform(ReceiveFirst(SendFirst(StartDataHandler(Initialise(base, opened)), packet, ok)))
    PROVE  base'.dataHandler # "idle"
<1> DEFINE Begun(b) == DOMAIN b = Fields /\ b.dataHandler # "idle"
           i == Initialise(base, opened)
           e == [base EXCEPT !.remote = "none"]
           o == [base EXCEPT !.socket = "open", !.remote = "none"]
<1>1. DOMAIN base = Fields /\ Running(base)
  BY DEF InitialClient, NewBase, Fields, Running
<1>2. DOMAIN o = Fields /\ DOMAIN e = Fields /\ Running(o) /\ Running(e)
  BY <1>1 DEF Fields, Running
<1>3. i \in {o, Finished(e, "CommunicationError")}
  BY DEF Initialise
<1> HIDE DEF o, e, i
<1>4. \A b, status : DOMAIN b = Fields => /\ DOMAIN Finished(b, status) = Fields
                                          /\ Running(b) \/ Begun(b) => Begun(Finished(b, status))
  BY DEF Finished, Fields, Running
<1>5. DOMAIN i = Fields /\ (Running(i) \/ Begun(i))
  BY <1>2, <1>3, <1>4
<1>6. Begun(StartDataHandler(i)) /\ Begun(Finished(i, "CommunicationError"))
  BY <1>4, <1>5 DEF StartDataHandler, Fields
<1>7. ASSUME NEW b, Begun(b)
      PROVE  Begun(ReceiveFirst(SendFirst(b, packet, ok)))
  BY <1>7 DEF ReceiveFirst, SendFirst, Await, Transmit, Finished, Fields
<1> QED BY <1>6, <1>7 DEF Perform, Fields, i

(* What request() sends is the packet it keeps, and no packet is queued yet. *)
LEMMA RequestTells ==
    ASSUME base = InitialClient, NEW opened, NEW packet, NEW ok,
           \/ Perform(Finished(Initialise(base, opened), "CommunicationError"))
           \/ Perform(ReceiveFirst(SendFirst(StartDataHandler(Initialise(base, opened)), packet, ok)))
    PROVE  /\ base'.out = {} /\ base'.transmitPacket \in {NoPacket, packet}
           /\ Queued(base') = NoPacket
           /\ \A d \in net' : Said(d)
<1> DEFINE i == Initialise(base, opened)
           d == StartDataHandler(i)
           n == [base EXCEPT !.remote = "none"]
           o == [base EXCEPT !.socket = "open", !.remote = "none"]
           c == [d EXCEPT !.transmitPacket = packet, !.transmitCounter = 1]
           s == SendFirst(d, packet, ok)
           Kept(e) == /\ DOMAIN e = Fields /\ Tells(e) /\ e.remote = base.remote
                      /\ e.transmitPacket \in {NoPacket, packet} /\ Queued(e) = NoPacket
<1>1. Fresh(n, packet) /\ Fresh(o, packet) /\ n.out = {} /\ o.out = {}
  BY DEF InitialClient, NewBase, Fields, Fresh, Tells
<1>2. i \in {o, Finished(n, "CommunicationError")}
  BY DEF Initialise
<1> HIDE DEF i, o, n
<1>3. Finished(n, "CommunicationError").out = {}
  BY <1>1 DEF Finished, Fields, Fresh
<1>4. Fresh(i, packet) /\ i.out = {}
  BY <1>1, <1>2, <1>3, FreshFunctions
<1>5. Fresh(d, packet) /\ d.out = {}
  BY <1>4 DEF StartDataHandler, Fresh, Fields, Tells
<1> HIDE DEF d
<1>6. Fresh(c, packet)
  BY <1>5 DEF Fresh, Fields, Tells
<1>7. s \in {d, Transmit(c, "wellKnown"), Finished(c, "CommunicationError")}
  BY DEF SendFirst
<1> HIDE DEF c, s
<1>8. Fresh(Transmit(c, "wellKnown"), packet)
  BY <1>6 DEF Transmit, Fresh, Fields, Tells
<1>9. Fresh(s, packet)
  BY <1>5, <1>6, <1>7, <1>8, FreshFunctions
<1>10. Kept(Finished(i, "CommunicationError")) /\ Kept(ReceiveFirst(s))
  <2>1. Fresh(Finished(i, "CommunicationError"), packet)
    BY <1>4, FreshFunctions
  <2>2. Kept(Finished(i, "CommunicationError"))
    BY <2>1 DEF Fresh, Queued
  <2> QED BY <1>9, <2>2, FreshFunctions DEF ReceiveFirst
<1>11. PICK e : Kept(e) /\ Perform(e)
  <2> HIDE DEF Kept
  <2> QED BY <1>10, Zenon DEF i, d, s
<1>12. Queued(base') = NoPacket
  BY <1>11 DEF Perform, Fields, Queued
<1>13. /\ base'.out = {} /\ base'.transmitPacket = e.transmitPacket
       /\ \A m \in net' : Said(m)
  BY <1>11, PerformTells
<1> QED BY <1>11, <1>12, <1>13

(* The handlers of the base class meet nothing unexpected if the peer keeps its manners: *)
(* an error that is queued is the answer to the request.                                 *)
LEMMA ClientConverses ==
    ASSUME base \in Base, Sound(base), Faults = {}, Self \notin Aborters,
           NEW t, Mannerly(t), Polite(base, t), BaseStep \/ TimeoutDally
    PROVE  /\ Converses(t)
           /\ Dallying(base) => Queues \/ Concludes
           /\ Passes
<1>1. /\ Runs("receive") => Current.packet.type \in {"DATA", "ACK", "OACK"}
      /\ Runs("receiveFirst") => /\ base.socket = "open" /\ FromServer
                                 /\ Current.packet.type \in {"DATA", "ACK", "OACK", "ERROR"}
      /\ Runs("receive") \/ Runs("receiveFirst") => ~Current.failed
  BY DEF Runs, Current, Sound, Polite, Mannerly, FromServer
<1>2. ~ReceiveError /\ ~WrongSource /\ ~UnexpectedReceived
  BY <1>1 DEF ReceiveError, WrongSource, UnexpectedReceived, PacketReceived
<1>3. ~ConnectFails /\ ~Abort /\ ~GracefulAbort
  BY DEF ConnectFails, Abort, GracefulAbort
<1>4. CASE ErrorReceived
  <2>1. Runs("receiveFirst") /\ base.socket = "open"
    BY <1>1, <1>4 DEF ErrorReceived, PacketReceived
  <2>2. Popped.transmitPacket.type \in {"RRQ", "WRQ"}
    <3>1. Popped.transmitPacket = base.transmitPacket
      BY DEF Popped, Base, BaseOf
    <3> QED BY <2>1, <3>1 DEF Polite, Mannerly
  <2>3. ErrorStatus(Popped, Current.packet.arg) # "TransferError"
    BY <2>2 DEF ErrorStatus
  <2>4. Starts(Dispatched)
    BY <1>4, DispatchedOfPacket DEF ErrorReceived
  <2>5. Converses(t)
    BY <1>4, <2>3, <2>4, Zenon DEF ErrorReceived, Converses
  <2>6. Passes
    BY <1>4, <2>4, Zenon DEF ErrorReceived, Finishes, Passes
  <2> QED BY <2>1, <2>5, <2>6 DEF Dallying
<1>5. CASE TimeoutDally
  <2>1. Starts(Popped)
    BY <1>5, Zenon DEF TimeoutDally, Starts
  <2>2. Perform(Finished(Popped, "Successful"))
    BY <1>5 DEF TimeoutDally
  <2>3. Converses(t)
    <3>1. "Successful" # "TransferError"
      OBVIOUS
    <3> QED BY <2>1, <2>2, <3>1, Zenon DEF Converses
  <2> QED BY <2>1, <2>2, <2>3, Zenon DEF Concludes, Finishes, Passes
<1>6. CASE TimeoutFirst \/ Timeout
  <2>1. Repeats
    BY <1>6, Zenon DEF TimeoutFirst, Timeout, Repeats
  <2>2. ~Dallying(base)
    BY <1>6 DEF TimeoutFirst, Timeout, Runs, Dallying
  <2> QED BY <2>1, <2>2, Zenon DEF Converses, Passes
<1>7. CASE ReceiveFails \/ \E d \in net : Arrive(d)
  <2>1. Queues
    BY <1>7, Zenon DEF Queues
  <2> QED BY <2>1, Zenon DEF Converses, Passes
<1> QED BY <1>2, <1>3, <1>4, <1>5, <1>6, <1>7 DEF BaseStep

(* The request, where nothing fails. *)
LEMMA RequestPolite ==
    ASSUME base = InitialClient, Faults = {}, NEW opened \in Outcome("open"),
           NEW ok \in Outcome("send"), NEW t, NEW packet \in t.asks,
           Perform(ReceiveFirst(SendFirst(StartDataHandler(Initialise(base, opened)), packet, ok)))
    PROVE  /\ Polite(base', t) /\ base'.transmitPacket = packet /\ base'.socket = "open"
           /\ Queued(base') = NoPacket
           /\ \A d \in net' : d \in net \/ Proper(d, t)
<1> DEFINE i == [base EXCEPT !.socket = "open", !.remote = "none"]
           d == [i EXCEPT !.dataHandler = "started"]
           c == [d EXCEPT !.transmitPacket = packet, !.transmitCounter = 1]
           o == [from |-> Self, to |-> "wellKnown", packet |-> packet]
           s == [c EXCEPT !.out = {o}]
           r == [s EXCEPT !.timer = "timeoutFirst", !.rx = "receiveFirst"]
<1>1. opened /\ ok
  BY DEF Outcome
<1>2. i = Initialise(base, opened) /\ Running(i) /\ i.socket = "open" /\ DOMAIN i = Fields
      /\ i.ready = <<>> /\ i.status = "none"
  BY <1>1 DEF Initialise, InitialClient, NewBase, Running, Fields
<1> HIDE DEF i
<1>3. d = StartDataHandler(i) /\ Running(d) /\ d.socket = "open" /\ DOMAIN d = Fields
      /\ d.ready = <<>> /\ d.status = "none"
  BY <1>2 DEF StartDataHandler, Running, Fields
<1> HIDE DEF d
<1>4. /\ Running(c) /\ c.socket = "open" /\ DOMAIN c = Fields /\ c.transmitPacket = packet
      /\ c.ready = <<>> /\ c.status = "none"
  BY <1>3 DEF Running, Fields
<1>5. s = SendFirst(d, packet, ok)
  BY <1>1, <1>3, <1>4 DEF SendFirst, Transmit
<1> HIDE DEF c
<1>6. /\ Running(s) /\ s.socket = "open" /\ DOMAIN s = Fields /\ s.transmitPacket = packet
      /\ s.ready = <<>> /\ s.status = "none" /\ s.out = {o}
  BY <1>4 DEF Running, Fields
<1> HIDE DEF s, o
<1>7. r = ReceiveFirst(s)
  BY <1>6 DEF ReceiveFirst, Await
<1>8. /\ DOMAIN r = Fields /\ Polite(r, t) /\ r.transmitPacket = packet /\ r.socket = "open"
      /\ r.ready = <<>> /\ r.out = {o}
  BY <1>6 DEF Fields, Polite
<1> HIDE DEF r
<1>9. Perform(r)
  BY <1>2, <1>3, <1>5, <1>7
<1>10. /\ Polite(base', t) /\ net' = net \cup {o}
       /\ base'.transmitPacket = packet /\ base'.socket = "open" /\ base'.ready = <<>>
  BY <1>8, <1>9, PerformPolite DEF Perform, Fields
<1>11. Proper(o, t)
  BY DEF Proper, o
<1> QED BY <1>10, <1>11 DEF Queued

=============================================================================
