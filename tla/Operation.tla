----------------------------- MODULE Operation -----------------------------
(***************************************************************************)
(* What the four TFTP operations have in common: the members of the base   *)
(* classes Clients::OperationImpl and Servers::OperationImpl, the asio     *)
(* socket and timer they own, and the member functions whose bodies are    *)
(* the same in both classes.                                               *)
(*                                                                         *)
(* A member function is an operator from the state of the base class to    *)
(* its next state, so that a handler composes them in the order of its     *)
(* statements: Receive(Send(base, packet, ok)).  An exception that leaves  *)
(* a noexcept function, or the handler itself, sets "fate" and turns the   *)
(* statements that follow into no-ops.                                     *)
(*                                                                         *)
(* Asio (external) is modelled by what the code relies on.  A completion   *)
(* is first put in the queue "ready" of the io_context and runs later, in  *)
(* FIFO order.  Cancelling drops the pending receive and the armed timer,  *)
(* whose handlers would run with operation_aborted and return at once; a   *)
(* completion that is already in the queue cannot be cancelled any more.   *)
(* cancel() on a closed socket throws, and so do send() on a closed or     *)
(* unconnected socket; async_receive() on a closed socket completes with   *)
(* an error.                                                               *)
(***************************************************************************)
EXTENDS Parameters, Sequences, TLAPS

CONSTANT Self    \* the endpoint of this operation: "client" or "server"

VARIABLES
    base,        \* members of OperationImpl, its socket, timer and queued completions
    net          \* datagrams in flight

(* Tftp::TransferStatus *)
TransferStatus == {"Successful", "CommunicationError", "RequestError",
                   "OptionNegotiationError", "TransferError", "Aborted"}

Timeouts == {"timeoutFirst", "timeout", "timeoutDally"}
Progress == {"idle", "started", "finished"}

(* Of what the base class holds, what varies from one use of the type to another: *)
(* the packets it has seen, the timeouts it may run into, the statuses it may     *)
(* report, and how far its data handler may be.                                   *)
Any == [packets |-> Packet, timeouts |-> Timeouts, statuses |-> TransferStatus,
        progress |-> Progress]

CompletionOf(k) == [handler : {"receiveFirst", "receive"} \cup k.timeouts,
                    failed  : BOOLEAN,
                    packet  : k.packets]

BaseOf(k) ==
    [socket          : {"closed", "open", "connected", "reopened"},
     rx              : {"none", "receiveFirst", "receive"},
     timer           : {"none"} \cup k.timeouts,
     ready           : Seq(CompletionOf(k)),
     remote          : Endpoints,
     transmitPacket  : k.packets,
     transmitCounter : Nat,
     out             : SUBSET DatagramOf(k.packets),
     dataHandler     : k.progress,
     status          : {"none"} \cup k.statuses,
     fate            : {"running", "terminated", "escaped"}]

Base == BaseOf(Any)

(* A freshly constructed operation; "remote" is set before start()/request(). *)
NewBase(remote) ==
    [socket |-> "closed", rx |-> "none", timer |-> "none", ready |-> <<>>,
     remote |-> remote, transmitPacket |-> NoPacket, transmitCounter |-> 0,
     out |-> {}, dataHandler |-> "idle", status |-> "none", fate |-> "running"]

Running(b) == b.fate = "running"

(* A "reopened" socket is one that connect() has opened again: it is connected, *)
(* but bound to another port than the one the peer knows.                       *)
Connected(b) == b.socket \in {"connected", "reopened"}

(* What an operation that may fail reports: TRUE is success. *)
Outcome(fault) == IF fault \in Faults THEN BOOLEAN ELSE {TRUE}

-----------------------------------------------------------------------------
(* Member functions of OperationImpl *)

(* Mutants of Finished: the socket is not closed; the timer is not cancelled. *)
FinishedStillOpen(b, status) ==
    IF ~Running(b) THEN b
    ELSE IF b.socket = "closed"
    THEN [b EXCEPT !.dataHandler = "finished", !.timer = "none", !.fate = "terminated"]
    ELSE [b EXCEPT !.dataHandler = "finished", !.timer = "none", !.status = status]

FinishedKeepsTimer(b, status) ==
    IF ~Running(b) THEN b
    ELSE IF b.socket = "closed"
    THEN [b EXCEPT !.dataHandler = "finished", !.fate = "terminated"]
    ELSE [b EXCEPT !.dataHandler = "finished", !.rx = "none", !.socket = "closed", !.status = status]

(* The override finished(), noexcept: dataHandler->finished(), then the base *)
(* class cancels timer and socket, closes the socket and reports the status. *)
(* Cancelling a closed socket throws, and the noexcept ends the process.     *)
Finished(b, status) ==
    IF ~Running(b) THEN b
    ELSE IF b.socket = "closed"
    THEN [b EXCEPT !.dataHandler = "finished", !.timer = "none", !.fate = "terminated"]
    ELSE [b EXCEPT !.dataHandler = "finished", !.timer = "none", !.rx = "none",
                   !.socket = "closed", !.status = status]

(* dataHandler->start(), unless the exception of finished() has gone before it. *)
StartDataHandler(b) == IF Running(b) THEN [b EXCEPT !.dataHandler = "started"] ELSE b

Transmit(b, to) ==
    IF b.socket = "reopened" THEN b
    ELSE [b EXCEPT !.out = {[from |-> Self, to |-> to, packet |-> b.transmitPacket]}]

(* send(): remember the packet, restart the retry counter, socket.send(). *)
Send(b, packet, ok) ==
    IF ~Running(b) THEN b
    ELSE LET c == [b EXCEPT !.transmitPacket = packet, !.transmitCounter = 1]
         IN  IF ok /\ Connected(b) THEN Transmit(c, c.remote)
             ELSE Finished(c, "CommunicationError")

(* socket.async_receive() and the wait of the timer, for receive() and *)
(* receiveDally(), which differ in the timeout handler they arm.       *)
Await(b, handler, timeout) ==
    IF ~Running(b) THEN b
    ELSE IF b.socket = "closed"
    THEN [b EXCEPT !.timer = timeout,
                   !.ready = Append(@, [handler |-> handler, failed |-> TRUE, packet |-> NoPacket])]
    ELSE [b EXCEPT !.timer = timeout, !.rx = handler]

Receive(b)      == Await(b, "receive", "timeout")
ReceiveDally(b) == Await(b, "receive", "timeoutDally")

(* The handlers of packets an operation does not expect (readRequestPacket, *)
(* writeRequestPacket, invalidPacket, ...) and of protocol violations.      *)
Reject(b, code, status, ok) == Finished(Send(b, Error(code), ok), status)

(* Mutants of Retransmit: the timer is not armed again; repetitions are not *)
(* counted; the last of them is not sent.                                   *)
RetransmitOnce(b, sendable, to, timeout) ==
    IF b.transmitCounter > Retries THEN Finished(b, "CommunicationError")
    ELSE IF sendable
    THEN [Transmit(b, to) EXCEPT !.transmitCounter = @ + 1]
    ELSE Finished(b, "CommunicationError")

RetransmitForever(b, sendable, to, timeout) ==
    IF b.transmitCounter > Retries THEN Finished(b, "CommunicationError")
    ELSE IF sendable
    THEN [Transmit(b, to) EXCEPT !.timer = timeout]
    ELSE Finished(b, "CommunicationError")

RetransmitTooFew(b, sendable, to, timeout) ==
    IF b.transmitCounter >= Retries THEN Finished(b, "CommunicationError")
    ELSE IF sendable
    THEN [Transmit(b, to) EXCEPT !.transmitCounter = @ + 1, !.timer = timeout]
    ELSE Finished(b, "CommunicationError")

(* timeoutHandler() and timeoutFirstHandler() differ in the destination of *)
(* the repetition and in the handler they arm again.                       *)
Retransmit(b, sendable, to, timeout) ==
    IF b.transmitCounter > Retries THEN Finished(b, "CommunicationError")
    ELSE IF sendable
    THEN [Transmit(b, to) EXCEPT !.transmitCounter = @ + 1, !.timer = timeout]
    ELSE Finished(b, "CommunicationError")

-----------------------------------------------------------------------------
(* The network (external): UDP loses, repeats and reorders datagrams.  A    *)
(* datagram that is never delivered is lost; with Redelivery it stays in    *)
(* the network and may be delivered again.                                  *)
(* Without Overtaking, delivering a datagram loses the older ones of its    *)
(* direction; the two directions never carry chunks of decreasing index.    *)

Rank(packet) == IF packet.type = "ERROR" THEN LastChunk + 1 ELSE packet.chunk

Older(d, e) == d.from = e.from /\ d.to = e.to /\ Rank(d.packet) < Rank(e.packet)

NetAfter(d) ==
    {e \in net : /\ e = d => Redelivery
                 /\ Overtaking \/ ~Older(e, d)}

(* A connected socket only accepts datagrams of its peer. *)
Accepts(d) == /\ d.to = Self
              /\ base.socket # "reopened"
              /\ base.socket = "connected" => d.from = base.remote

-----------------------------------------------------------------------------
(* The event loop (external) *)

(* The next completion of the queue runs "handler". *)
Runs(handler) ==
    /\ Running(base)
    /\ base.ready # <<>>
    /\ Head(base.ready).handler = handler

Current == Head(base.ready)
Popped  == [base EXCEPT !.ready = Tail(@)]

(* The end of every handler: its new state, and what it sent. *)
Perform(b) ==
    /\ base' = [b EXCEPT !.out = {}]
    /\ net'  = net \cup b.out

MayQueue == Running(base) /\ (Coincide \/ base.ready = <<>>)

(* A datagram completes the pending receive operation.  async_receive_from *)
(* also stores its source.                                                 *)
Arrive(d) ==
    /\ MayQueue
    /\ base.rx # "none"
    /\ d \in net
    /\ Accepts(d)
    /\ base' = [base EXCEPT
                  !.rx     = "none",
                  !.remote = IF base.rx = "receiveFirst" THEN d.from ELSE @,
                  !.ready  = Append(@, [handler |-> base.rx, failed |-> FALSE,
                                        packet |-> d.packet])]
    /\ net' = NetAfter(d)

(* The socket reports an error, an ICMP "port unreachable" for instance. *)
ReceiveFails ==
    /\ MayQueue
    /\ base.rx # "none"
    /\ "receive" \in Faults
    /\ base' = [base EXCEPT
                  !.rx    = "none",
                  !.ready = Append(@, [handler |-> base.rx, failed |-> TRUE,
                                       packet |-> NoPacket])]
    /\ UNCHANGED net

(* The armed timer expires. *)
Expire ==
    /\ MayQueue
    /\ base.timer # "none"
    /\ base' = [base EXCEPT
                  !.timer = "none",
                  !.ready = Append(@, [handler |-> base.timer, failed |-> FALSE,
                                       packet |-> NoPacket])]
    /\ UNCHANGED net

-----------------------------------------------------------------------------
(* Properties of every operation *)

(* As long as the socket of an operation is open, an armed timer or a queued  *)
(* completion will make it go on, so that the completion handler is called    *)
(* in the end: receive(), receiveDally() and the timeout handlers always arm. *)
NeverStuck ==
    Running(base) /\ base.socket # "closed" => base.timer # "none" \/ base.ready # <<>>

(* No packet, and no order of events, ends the process: finished() is noexcept *)
(* and throws if it is called twice, and the receive handler must not throw.   *)
NoCrash == Running(base)

(* The completion handler is called once: a reported status is never revised. *)
ReportedOnce == [][base.status # "none" => base'.status = base.status]_base

(* Completion is the last thing that happens: finished() has cancelled all that  *)
(* could still run a handler, which would send, store or report once more.       *)
CompletionIsFinal == [][base.status = "none"]_<<base, net>>

-----------------------------------------------------------------------------
(***************************************************************************)
(* Lemmas: each member function keeps the base class within BaseOf(k), if  *)
(* the packet, the timeout or the status it brings is one of k.            *)
(***************************************************************************)

(* A type that admits more has more values. *)
LEMMA GrowingType ==
    ASSUME NEW j, NEW k,
           j.packets \subseteq k.packets, j.timeouts \subseteq k.timeouts,
           j.statuses \subseteq k.statuses, j.progress \subseteq k.progress
    PROVE  BaseOf(j) \subseteq BaseOf(k) /\ DatagramOf(j.packets) \subseteq DatagramOf(k.packets)
<1>1. CompletionOf(j) \subseteq CompletionOf(k)
  BY DEF CompletionOf
<1>2. Seq(CompletionOf(j)) \subseteq Seq(CompletionOf(k))
  BY <1>1
<1>3. DatagramOf(j.packets) \subseteq DatagramOf(k.packets)
  BY DEF DatagramOf
<1>4. SUBSET DatagramOf(j.packets) \subseteq SUBSET DatagramOf(k.packets)
  BY <1>3
<1> QED BY <1>2, <1>3, <1>4 DEF BaseOf

(* What BaseOf(k) has to admit so that finished(), and a handler of an empty buffer, *)
(* stay within it.                                                                   *)
Admits(k) == "finished" \in k.progress /\ NoPacket \in k.packets

(* finished() keeps the type. *)
LEMMA FinishedType ==
    ASSUME NEW k, Admits(k), NEW b \in BaseOf(k), NEW status \in k.statuses
    PROVE  Finished(b, status) \in BaseOf(k)
BY DEF Finished, BaseOf, Admits, Running

(* socket.send() keeps the type. *)
LEMMA TransmitType ==
    ASSUME NEW k, Self \in Endpoints, NEW b \in BaseOf(k), NEW to \in Endpoints
    PROVE  Transmit(b, to) \in BaseOf(k)
<1> DEFINE d == [from |-> Self, to |-> to, packet |-> b.transmitPacket]
<1>1. d \in DatagramOf(k.packets)
  BY DEF BaseOf, DatagramOf
<1> QED BY <1>1 DEF Transmit, BaseOf

(* send() keeps the type. *)
LEMMA SendType ==
    ASSUME NEW k, Admits(k), Self \in Endpoints, NEW b \in BaseOf(k), NEW packet \in k.packets,
           "CommunicationError" \in k.statuses, NEW ok
    PROVE  Send(b, packet, ok) \in BaseOf(k)
<1> DEFINE c == [b EXCEPT !.transmitPacket = packet, !.transmitCounter = 1]
<1>1. c \in BaseOf(k) /\ c.remote \in Endpoints
  BY DEF BaseOf
<1> HIDE DEF c
<1>2. Transmit(c, c.remote) \in BaseOf(k) /\ Finished(c, "CommunicationError") \in BaseOf(k)
  BY <1>1, TransmitType, FinishedType
<1> QED BY <1>2 DEF Send, c

(* receive(), receiveFirst() and receiveDally() keep the type. *)
LEMMA AwaitType ==
    ASSUME NEW k, Admits(k), NEW b \in BaseOf(k), NEW handler \in {"receiveFirst", "receive"},
           NEW timeout \in {"none"} \cup k.timeouts
    PROVE  Await(b, handler, timeout) \in BaseOf(k)
<1> DEFINE c == [handler |-> handler, failed |-> TRUE, packet |-> NoPacket]
<1>1. c \in CompletionOf(k)
  BY DEF CompletionOf, Admits
<1> HIDE DEF c
<1>2. Append(b.ready, c) \in Seq(CompletionOf(k))
  BY <1>1 DEF BaseOf
<1> QED BY <1>2 DEF Await, BaseOf, c

(* send() followed by receive() keeps the type. *)
LEMMA SendReceiveType ==
    ASSUME NEW k, Admits(k), Self \in Endpoints, NEW b \in BaseOf(k), NEW packet \in k.packets,
           "CommunicationError" \in k.statuses, "timeout" \in k.timeouts, NEW ok
    PROVE  Receive(Send(b, packet, ok)) \in BaseOf(k)
<1>1. Send(b, packet, ok) \in BaseOf(k)
  BY SendType
<1> QED BY <1>1, AwaitType DEF Receive

(* The handlers of unexpected packets keep the type. *)
LEMMA RejectType ==
    ASSUME NEW k, Admits(k), Self \in Endpoints, NEW b \in BaseOf(k), NEW ok,
           NEW code, Error(code) \in k.packets,
           "CommunicationError" \in k.statuses, NEW status \in k.statuses
    PROVE  Reject(b, code, status, ok) \in BaseOf(k)
BY SendType, FinishedType DEF Reject

(* finished() has told the data handler, and so have the handlers that end with it. *)
LEMMA FinishedHandler ==
    ASSUME NEW k, Admits(k), Self \in Endpoints, NEW b \in BaseOf(k), Running(b),
           NEW code, Error(code) \in k.packets, "CommunicationError" \in k.statuses,
           NEW status, NEW ok
    PROVE  /\ Finished(b, status).dataHandler = "finished"
           /\ Reject(b, code, status, ok).dataHandler = "finished"
<1>1. ASSUME NEW c \in BaseOf(k), Running(c), NEW s
      PROVE  Finished(c, s).dataHandler = "finished"
  BY <1>1 DEF Finished, BaseOf
<1> DEFINE c == [b EXCEPT !.transmitPacket = Error(code), !.transmitCounter = 1]
           sent == Send(b, Error(code), ok)
<1>2. c \in BaseOf(k) /\ c.remote \in Endpoints /\ Running(c)
  BY DEF BaseOf, Running
<1>3. sent = Transmit(c, c.remote) \/ sent = Finished(c, "CommunicationError")
  BY DEF Send
<1> HIDE DEF c, sent
<1>4. sent \in BaseOf(k)
  BY SendType DEF sent
<1>5. Transmit(c, c.remote).fate = c.fate
  BY <1>2 DEF Transmit, BaseOf
<1>6. Running(sent) \/ sent.dataHandler = "finished"
  BY <1>1, <1>2, <1>3, <1>5 DEF Running
<1>7. ~Running(sent) => Finished(sent, status) = sent
  BY DEF Finished
<1> QED BY <1>1, <1>4, <1>6, <1>7 DEF Reject, sent

(* timeoutHandler() and timeoutFirstHandler() keep the type. *)
LEMMA RetransmitType ==
    ASSUME NEW k, Admits(k), Self \in Endpoints, NEW b \in BaseOf(k), NEW sendable,
           NEW to \in Endpoints, NEW timeout \in {"none"} \cup k.timeouts,
           "CommunicationError" \in k.statuses
    PROVE  Retransmit(b, sendable, to, timeout) \in BaseOf(k)
<1> DEFINE c == Transmit(b, to)
<1>1. c \in BaseOf(k)
  BY TransmitType
<1>2. Finished(b, "CommunicationError") \in BaseOf(k)
  BY FinishedType
<1> HIDE DEF c
<1> DEFINE n == c.transmitCounter + 1
<1>3. n \in Nat
  BY <1>1 DEF BaseOf
<1> HIDE DEF n
<1>4. [c EXCEPT !.transmitCounter = n, !.timer = timeout] \in BaseOf(k)
  BY <1>1, <1>3 DEF BaseOf
<1> QED BY <1>2, <1>4 DEF Retransmit, c, n

(* The end of a handler: what it has sent has the type of the packets. *)
LEMMA PerformType ==
    ASSUME NEW k, NEW b \in BaseOf(k)
    PROVE  [b EXCEPT !.out = {}] \in BaseOf(k) /\ b.out \subseteq DatagramOf(k.packets)
BY DEF BaseOf

(* A completion that runs was queued with the type of the queue. *)
LEMMA RunsType ==
    ASSUME NEW k, base \in BaseOf(k), NEW handler, Runs(handler)
    PROVE  /\ Popped \in BaseOf(k)
           /\ Current \in CompletionOf(k)
           /\ Current.handler = handler
<1>1. base.ready \in Seq(CompletionOf(k)) /\ base.ready # <<>>
  BY DEF BaseOf, Runs
<1>2. Tail(base.ready) \in Seq(CompletionOf(k)) /\ Head(base.ready) \in CompletionOf(k)
  BY <1>1
<1> QED BY <1>2 DEF Popped, Current, Runs, BaseOf

(* Completions that are queued keep the types. *)
LEMMA QueueType ==
    ASSUME NEW k, Admits(k), base \in BaseOf(k), net \subseteq DatagramOf(k.packets),
           (\E d \in net : Arrive(d)) \/ ReceiveFails \/ Expire
    PROVE  base' \in BaseOf(k) /\ net' \subseteq DatagramOf(k.packets)
<1> USE DEF Admits
<1>1. ASSUME NEW c \in CompletionOf(k)
      PROVE  Append(base.ready, c) \in Seq(CompletionOf(k))
  BY DEF BaseOf
<1>2. ASSUME NEW d \in net, Arrive(d)
      PROVE  base' \in BaseOf(k) /\ net' \subseteq DatagramOf(k.packets)
  <2> DEFINE c == [handler |-> base.rx, failed |-> FALSE, packet |-> d.packet]
  <2>1. d.packet \in k.packets /\ d.from \in Endpoints
    BY DEF DatagramOf
  <2>2. c \in CompletionOf(k)
    BY <1>2, <2>1 DEF Arrive, CompletionOf, BaseOf
  <2>3. Append(base.ready, c) \in Seq(CompletionOf(k))
    BY <1>1, <2>2
  <2>4. base' \in BaseOf(k)
    BY <1>2, <2>1, <2>3 DEF Arrive, BaseOf
  <2> QED BY <1>2, <2>4 DEF Arrive, NetAfter
<1>3. CASE ReceiveFails
  <2> DEFINE c == [handler |-> base.rx, failed |-> TRUE, packet |-> NoPacket]
  <2>1. c \in CompletionOf(k)
    BY <1>3 DEF ReceiveFails, CompletionOf, BaseOf
  <2>2. Append(base.ready, c) \in Seq(CompletionOf(k))
    BY <1>1, <2>1
  <2> QED BY <1>3, <2>2 DEF ReceiveFails, BaseOf
<1>4. CASE Expire
  <2> DEFINE c == [handler |-> base.timer, failed |-> FALSE, packet |-> NoPacket]
  <2>1. c \in CompletionOf(k)
    BY <1>4 DEF Expire, CompletionOf, BaseOf
  <2>2. Append(base.ready, c) \in Seq(CompletionOf(k))
    BY <1>1, <2>1
  <2> QED BY <1>4, <2>2 DEF Expire, BaseOf
<1> QED BY <1>2, <1>3, <1>4

-----------------------------------------------------------------------------
(***************************************************************************)
(* Lemmas: the handlers of the four operations combine the member          *)
(* functions in the same few ways, whatever the packets and statuses.      *)
(* Two things follow for all of them: an operation goes on until it has    *)
(* finished, and it reports one status.                                    *)
(***************************************************************************)

(* The base a handler starts from: of a user who aborts, of a packet, from which      *)
(* receiveFirstHandler() learns where to connect the socket, or of another completion. *)
OfUser(b) == Self \in Aborters /\ MayQueue /\ base.socket # "closed" /\ b = base

OfPacket(b) ==
    \/ Runs("receive") /\ b = Popped
    \/ /\ Runs("receiveFirst")
       /\ ~Current.failed
       /\ b = [Popped EXCEPT !.socket = IF @ = "closed" THEN "reopened" ELSE "connected"]

Starts(b) ==
    \/ OfUser(b) \/ OfPacket(b)
    \/ (\E handler : Runs(handler)) /\ b = Popped

(* A handler finishes the operation, goes on to receive, answers first, or repeats *)
(* the last packet.                                                                *)
Finishes == \E b, status : Starts(b) /\ Perform(Finished(b, status))

Ignores == \E b : OfPacket(b) /\ Perform(Receive(b))

RepliesWith(packet) ==
    \E b : \E ok \in Outcome("send") :
        /\ OfUser(b) \/ OfPacket(b)
        /\ \/ Perform(Receive(Send(b, packet, ok)))
           \/ Perform(ReceiveDally(Send(b, packet, ok)))
           \/ \E status : Perform(Finished(Send(b, packet, ok), status))

Replies == \E packet : RepliesWith(packet)

Repeats ==
    \E ok \in Outcome("send") :
        \/ /\ Runs("timeout")
           /\ Perform(Retransmit(Popped, ok /\ Connected(base), base.remote, "timeout"))
        \/ /\ Runs("timeoutFirst")
           /\ Perform(Retransmit(Popped, ok /\ base.socket # "closed", "wellKnown", "timeoutFirst"))

Handled == Finishes \/ Ignores \/ Replies \/ Repeats

(* The exceptions: the handler of a third party's packet leaves the timer alone; an *)
(* exception leaves the handler of a packet that finds its socket closed.           *)
Redirected ==
    /\ Runs("receiveFirst")
    /\ ~Current.failed
    /\ \E out : /\ out \subseteq {[from |-> Self, to |-> base.remote, packet |-> Error("UnknownTransferId")]}
                /\ Perform([Await(Popped, "receiveFirst", base.timer) EXCEPT !.out = out])

Escaped ==
    /\ Runs("receive")
    /\ base.socket = "closed"
    /\ Perform([Popped EXCEPT !.fate = "escaped"])

Queues == ReceiveFails \/ Expire \/ \E d \in net : Arrive(d)

Moves == Handled \/ Redirected \/ Escaped \/ Queues

(* The moves that keep transmitPacket, and those that answer with an error. *)
Passes  == Finishes \/ Ignores \/ Repeats \/ Redirected \/ Escaped \/ Queues
Objects == \E packet : packet.type = "ERROR" /\ RepliesWith(packet)

(* All that the first two results need to know of how a handler ends. *)
Ends(b, c) ==
    \/ \E status : c = Finished(b, status)
    \/ \E handler : \E timeout \in Timeouts : c = Await(b, handler, timeout)
    \/ \E sendable, to : \E timeout \in Timeouts : c = Retransmit(b, sendable, to, timeout)

(* What a handler that sees no other completion in the queue starts from. *)
Quiet(b) ==
    /\ b.ready = <<>>
    /\ b.socket = "closed" => b.rx = "none"
    /\ b.status # "none" => b.socket = "closed"

(* What it leaves: one completion at most, which is of a timer or an error if the *)
(* socket is closed, as it is once a status has been reported.                    *)
Once(b) ==
    /\ b.ready # <<>> => Tail(b.ready) = <<>>
    /\ b.socket = "closed" =>
          /\ b.rx = "none"
          /\ b.ready # <<>> => Head(b.ready).failed \/ Head(b.ready).handler \in Timeouts
    /\ b.status # "none" => b.socket = "closed"

(* A reported status is not revised. *)
KeepsStatus(b, c) == b.status # "none" => c.status = b.status

(* A timer is armed, or has expired and its handler waits in the queue. *)
TimeoutIn(ready) == \E i \in 1 .. Len(ready) : ready[i].handler \in Timeouts

Alive(b) == Running(b) /\ b.socket # "closed" => b.timer # "none" \/ TimeoutIn(b.ready)

(* The fields of the base class, all that these lemmas need of its type. *)
Fields == {"socket", "rx", "timer", "ready", "remote", "transmitPacket", "transmitCounter",
           "out", "dataHandler", "status", "fate"}

(* finished() closes the socket and reports, once. *)
LEMMA FinishedOnce ==
    ASSUME NEW b, DOMAIN b = Fields, Quiet(b), NEW status
    PROVE  /\ DOMAIN Finished(b, status) = Fields
           /\ Quiet(Finished(b, status))
           /\ KeepsStatus(b, Finished(b, status))
BY DEF Finished, Fields, Quiet, KeepsStatus

(* send() reports if it fails, and so does sendFirst(). *)
LEMMA SendOnce ==
    ASSUME NEW b, DOMAIN b = Fields, Quiet(b), NEW packet, NEW ok
    PROVE  /\ DOMAIN Send(b, packet, ok) = Fields
           /\ Quiet(Send(b, packet, ok))
           /\ KeepsStatus(b, Send(b, packet, ok))
<1> DEFINE c == [b EXCEPT !.transmitPacket = packet, !.transmitCounter = 1]
           f == Finished(c, "CommunicationError")
           t == Transmit(c, c.remote)
<1>1. DOMAIN c = Fields /\ Quiet(c) /\ KeepsStatus(b, c) /\ c.status = b.status
  BY DEF Fields, Quiet, KeepsStatus
<1> HIDE DEF c
<1>2. DOMAIN f = Fields /\ Quiet(f) /\ KeepsStatus(c, f)
  BY <1>1, FinishedOnce
<1>3. DOMAIN t = Fields /\ Quiet(t) /\ t.status = c.status
  BY <1>1 DEF Transmit, Fields, Quiet
<1>4. Send(b, packet, ok) \in {b, f, t}
  BY DEF Send, c
<1> HIDE DEF f, t
<1> QED BY <1>1, <1>2, <1>3, <1>4 DEF KeepsStatus

(* receive() of a closed socket queues its own failure. *)
LEMMA AwaitOnce ==
    ASSUME NEW b, DOMAIN b = Fields, Quiet(b), NEW handler, NEW timeout
    PROVE  /\ DOMAIN Await(b, handler, timeout) = Fields
           /\ Once(Await(b, handler, timeout))
           /\ Await(b, handler, timeout).status = b.status
<1> DEFINE failure == [handler |-> handler, failed |-> TRUE, packet |-> NoPacket]
<1>1. failure.failed
  OBVIOUS
<1> HIDE DEF failure
<1>2. /\ Append(<<>>, failure) # <<>> /\ Tail(Append(<<>>, failure)) = <<>>
      /\ Head(Append(<<>>, failure)) = failure
  OBVIOUS
<1> QED BY <1>1, <1>2 DEF Await, Fields, Quiet, Once, failure

(* A repetition waits for the timer only. *)
LEMMA RetransmitIsOnce ==
    ASSUME NEW b, DOMAIN b = Fields, Quiet(b), NEW sendable, NEW to, NEW timeout
    PROVE  /\ DOMAIN Retransmit(b, sendable, to, timeout) = Fields
           /\ Once(Retransmit(b, sendable, to, timeout))
           /\ KeepsStatus(b, Retransmit(b, sendable, to, timeout))
<1> DEFINE f == Finished(b, "CommunicationError")
           c == Transmit(b, to)
           n == c.transmitCounter + 1
           t == [c EXCEPT !.transmitCounter = n, !.timer = timeout]
<1>1. DOMAIN f = Fields /\ Quiet(f) /\ KeepsStatus(b, f)
  BY FinishedOnce
<1>2. DOMAIN c = Fields /\ Quiet(c) /\ c.status = b.status
  BY DEF Transmit, Fields, Quiet
<1>3. Retransmit(b, sendable, to, timeout) \in {f, t}
  BY DEF Retransmit
<1> HIDE DEF f, c, n
<1>4. DOMAIN t = Fields /\ Quiet(t) /\ t.status = c.status
  BY <1>2 DEF Fields, Quiet
<1> HIDE DEF t
<1> QED BY <1>1, <1>2, <1>3, <1>4 DEF KeepsStatus, Quiet, Once

(* The end of a handler. *)
LEMMA EndsOnce ==
    ASSUME NEW b, DOMAIN b = Fields, Quiet(b), NEW c, Ends(b, c)
    PROVE  DOMAIN c = Fields /\ Once(c) /\ KeepsStatus(b, c)
<1>1. \A d : Quiet(d) => Once(d)
  BY DEF Quiet, Once
<1>2. ASSUME NEW status, c = Finished(b, status)
      PROVE  DOMAIN c = Fields /\ Once(c) /\ KeepsStatus(b, c)
  BY <1>1, <1>2, FinishedOnce
<1>3. ASSUME NEW handler, NEW timeout, c = Await(b, handler, timeout)
      PROVE  DOMAIN c = Fields /\ Once(c) /\ KeepsStatus(b, c)
  BY <1>3, AwaitOnce DEF KeepsStatus
<1>4. ASSUME NEW sendable, NEW to, NEW timeout, c = Retransmit(b, sendable, to, timeout)
      PROVE  DOMAIN c = Fields /\ Once(c) /\ KeepsStatus(b, c)
  BY <1>4, RetransmitIsOnce
<1> QED BY <1>2, <1>3, <1>4 DEF Ends

(* A handler may send a packet before its end. *)
LEMMA HandledEnds ==
    ASSUME Handled
    PROVE  \E b, s, c : /\ Starts(b)
                        /\ s = b \/ \E packet, ok : s = Send(b, packet, ok)
                        /\ Ends(s, c)
                        /\ Perform(c)
<1>1. {"timeout", "timeoutFirst", "timeoutDally"} \subseteq Timeouts
  BY DEF Timeouts
<1>2. ASSUME NEW s
      PROVE  /\ \A status : Ends(s, Finished(s, status))
             /\ Ends(s, Receive(s)) /\ Ends(s, ReceiveDally(s))
             /\ \A sendable, to : Ends(s, Retransmit(s, sendable, to, "timeout"))
             /\ \A sendable, to : Ends(s, Retransmit(s, sendable, to, "timeoutFirst"))
  BY <1>1, Zenon DEF Ends, Receive, ReceiveDally
<1>3. CASE Finishes
  BY <1>2, <1>3, Zenon DEF Finishes
<1>4. CASE Ignores
  BY <1>2, <1>4, Zenon DEF Ignores, Starts
<1>5. CASE Replies
  <2>1. PICK b, packet, ok :
          /\ OfUser(b) \/ OfPacket(b)
          /\ \/ Perform(Receive(Send(b, packet, ok)))
             \/ Perform(ReceiveDally(Send(b, packet, ok)))
             \/ \E status : Perform(Finished(Send(b, packet, ok), status))
    BY <1>5, Zenon DEF Replies, RepliesWith
  <2>2. Starts(b)
    BY <2>1 DEF Starts
  <2> QED BY <1>2, <2>1, <2>2, Zenon
<1>6. CASE Repeats
  BY <1>2, <1>6, Zenon DEF Repeats, Starts
<1> QED BY <1>3, <1>4, <1>5, <1>6 DEF Handled

(* The moves, told by what they send. *)
LEMMA MovesAre == Moves <=> Passes \/ \E packet : RepliesWith(packet)
BY Zenon DEF Moves, Handled, Replies, Passes

(* A completion leaves an empty queue, and a packet finds an open socket. *)
LEMMA StartsQuiet ==
    ASSUME base \in Base, Once(base), ~Coincide, NEW b, Starts(b)
    PROVE  DOMAIN b = Fields /\ Quiet(b) /\ b.status = base.status
<1>1. DOMAIN base = Fields
  BY DEF Base, BaseOf, Fields
<1>2. CASE OfUser(b)
  BY <1>1, <1>2 DEF OfUser, MayQueue, Once, Quiet
<1>3. ASSUME NEW handler, Runs(handler)
      PROVE  DOMAIN Popped = Fields /\ Quiet(Popped) /\ Popped.status = base.status
             /\ Popped.socket = base.socket
  BY <1>1, <1>3 DEF Runs, Popped, Once, Quiet, Fields
<1>4. CASE /\ Runs("receiveFirst")
           /\ ~Current.failed
           /\ b = [Popped EXCEPT !.socket = IF @ = "closed" THEN "reopened" ELSE "connected"]
  <2>1. base.socket # "closed"
    BY <1>4 DEF Once, Runs, Current, Timeouts
  <2>2. DOMAIN Popped = Fields /\ Quiet(Popped) /\ Popped.status = base.status
        /\ Popped.socket # "closed"
    BY <1>3, <1>4, <2>1
  <2> QED BY <1>4, <2>2 DEF Quiet, Fields
<1> QED BY <1>2, <1>3, <1>4 DEF Starts, OfPacket

(* A packet that is handled finds an operation that has not reported. *)
LEMMA PacketUnreported ==
    ASSUME Once(base), Runs("receive") \/ Runs("receiveFirst"), ~Current.failed
    PROVE  base.status = "none"
BY DEF Once, Runs, Current, Timeouts

(* The end of a handler leaves what the handler has come to. *)
LEMMA PerformOnce ==
    ASSUME NEW b, DOMAIN b = Fields, Once(b), Perform(b)
    PROVE  Once(base') /\ base'.status = b.status
BY DEF Perform, Once, Fields

(* It has sent all that it had to send. *)
LEMMA PerformSends ==
    ASSUME base' \in Base, NEW b, Perform(b)
    PROVE  base'.out = {}
BY DEF Perform, Base, BaseOf

(* A completion of the socket, or of the timer, joins an empty queue. *)
LEMMA QueueOnce ==
    ASSUME base \in Base, Once(base), ~Coincide,
           ReceiveFails \/ Expire \/ \E d \in net : Arrive(d)
    PROVE  Once(base') /\ base'.status = base.status
<1>1. /\ DOMAIN base = Fields /\ base.ready = <<>>
      /\ base.timer \in {"none"} \cup Timeouts
  BY DEF Base, BaseOf, Fields, ReceiveFails, Expire, Arrive, MayQueue, Any
<1>2. \A x : /\ Append(<<>>, x) # <<>> /\ Tail(Append(<<>>, x)) = <<>>
             /\ Head(Append(<<>>, x)) = x
  OBVIOUS
<1>3. ASSUME NEW d \in net, Arrive(d)
      PROVE  Once(base') /\ base'.status = base.status
  <2>1. base.socket # "closed"
    BY <1>3 DEF Arrive, Once
  <2> QED BY <1>1, <1>2, <1>3, <2>1 DEF Arrive, Once, Fields
<1>4. CASE ReceiveFails
  BY <1>1, <1>2, <1>4 DEF ReceiveFails, Once, Fields
<1>5. CASE Expire
  BY <1>1, <1>2, <1>5 DEF Expire, Once, Fields
<1> QED BY <1>3, <1>4, <1>5

(* An operation, whose completions never coincide, reports once. *)
LEMMA MovesOnce ==
    ASSUME base \in Base, Once(base), ~Coincide, Moves
    PROVE  Once(base') /\ KeepsStatus(base, base')
<1>1. CASE Handled
  <2>1. PICK b, s, c : /\ Starts(b)
                       /\ s = b \/ \E packet, ok : s = Send(b, packet, ok)
                       /\ Ends(s, c)
                       /\ Perform(c)
    BY <1>1, HandledEnds
  <2>2. DOMAIN b = Fields /\ Quiet(b) /\ b.status = base.status
    BY <2>1, StartsQuiet
  <2>3. DOMAIN s = Fields /\ Quiet(s) /\ KeepsStatus(b, s)
    BY <2>1, <2>2, SendOnce DEF KeepsStatus
  <2>4. DOMAIN c = Fields /\ Once(c) /\ KeepsStatus(s, c)
    BY <2>1, <2>3, EndsOnce
  <2>5. Once(base') /\ base'.status = c.status
    BY <2>1, <2>4, PerformOnce
  <2> QED BY <2>2, <2>3, <2>4, <2>5 DEF KeepsStatus
<1>2. CASE Redirected \/ Escaped
  <2>1. DOMAIN Popped = Fields /\ Quiet(Popped) /\ Popped.status = base.status
    <3>1. Starts(Popped)
      BY <1>2 DEF Starts, Redirected, Escaped
    <3> QED BY <3>1, StartsQuiet
  <2>2. CASE Redirected
    <3> DEFINE a == Await(Popped, "receiveFirst", base.timer)
    <3>1. DOMAIN a = Fields /\ Once(a) /\ a.status = base.status
      BY <2>1, AwaitOnce
    <3>2. PICK out : Perform([a EXCEPT !.out = out])
      BY <2>2 DEF Redirected
    <3> HIDE DEF a
    <3>3. DOMAIN [a EXCEPT !.out = out] = Fields /\ Once([a EXCEPT !.out = out])
          /\ [a EXCEPT !.out = out].status = base.status
      BY <3>1 DEF Once, Fields
    <3> QED BY <3>2, <3>3, PerformOnce DEF KeepsStatus
  <2>3. CASE Escaped
    <3> DEFINE c == [Popped EXCEPT !.fate = "escaped"]
    <3>1. DOMAIN c = Fields /\ Once(c) /\ c.status = base.status
      BY <2>1 DEF Quiet, Once, Fields
    <3> QED BY <2>3, <3>1, PerformOnce DEF Escaped, KeepsStatus
  <2> QED BY <1>2, <2>2, <2>3
<1>3. CASE ReceiveFails \/ Expire \/ \E d \in net : Arrive(d)
  BY <1>3, QueueOnce DEF KeepsStatus
<1> QED BY <1>1, <1>2, <1>3 DEF Moves, Queues

(* A handler ends with an armed timer, or with a closed socket. *)
LEMMA EndsAlive ==
    ASSUME NEW b, DOMAIN b = Fields, NEW c, Ends(b, c)
    PROVE  /\ DOMAIN c = Fields
           /\ Running(c) /\ c.socket # "closed" => c.timer # "none"
<1> DEFINE Armed(d) == DOMAIN d = Fields /\ (Running(d) /\ d.socket # "closed" => d.timer # "none")
<1>1. ASSUME NEW status
      PROVE  Armed(Finished(b, status))
  BY DEF Finished, Fields, Running
<1>2. ASSUME NEW handler, NEW timeout \in Timeouts
      PROVE  Armed(Await(b, handler, timeout))
  BY DEF Await, Fields, Running, Timeouts
<1>3. ASSUME NEW sendable, NEW to, NEW timeout \in Timeouts
      PROVE  Armed(Retransmit(b, sendable, to, timeout))
  <2> DEFINE d == Transmit(b, to)
             n == d.transmitCounter + 1
             e == [d EXCEPT !.transmitCounter = n, !.timer = timeout]
  <2>1. DOMAIN d = Fields
    BY DEF Transmit, Fields
  <2>2. Retransmit(b, sendable, to, timeout) \in {Finished(b, "CommunicationError"), e}
    BY DEF Retransmit
  <2> HIDE DEF d, n
  <2>3. Armed(e)
    BY <2>1 DEF Fields, Timeouts
  <2> HIDE DEF e, Armed
  <2> QED BY <1>1, <2>2, <2>3
<1> QED BY <1>1, <1>2, <1>3 DEF Ends

(* send() of any base has the fields of one. *)
LEMMA SendFields ==
    ASSUME NEW b, DOMAIN b = Fields, NEW packet, NEW ok
    PROVE  DOMAIN Send(b, packet, ok) = Fields
BY DEF Send, Transmit, Finished, Fields

(* Append() of any value. *)
LEMMA AppendedAnything ==
    ASSUME NEW S, NEW s \in Seq(S), NEW x
    PROVE  /\ Len(Append(s, x)) = Len(s) + 1 /\ Append(s, x)[Len(s) + 1] = x
           /\ \A i \in 1 .. Len(s) : Append(s, x)[i] = s[i]
<1>1. s \in Seq(S \cup {x}) /\ x \in S \cup {x}
  <2>1. Seq(S) \subseteq Seq(S \cup {x})
    OBVIOUS
  <2> QED BY <2>1
<1> QED BY <1>1

(* A queued completion of a timer stays in the queue if another one is taken from it, *)
(* or joins it.                                                                       *)
LEMMA QueuedTimeout ==
    ASSUME NEW ready \in Seq(CompletionOf(Any))
    PROVE  /\ TimeoutIn(ready) /\ Head(ready).handler \notin Timeouts => TimeoutIn(Tail(ready))
           /\ \A x : TimeoutIn(ready) \/ x.handler \in Timeouts => TimeoutIn(Append(ready, x))
<1>1. ASSUME NEW i \in 1 .. Len(ready), ready[i].handler \in Timeouts, Head(ready).handler \notin Timeouts
      PROVE  i - 1 \in 1 .. Len(Tail(ready)) /\ Tail(ready)[i - 1] = ready[i]
  <2>1. ready # <<>> /\ Head(ready) = ready[1] /\ Len(ready) \in Nat
    BY <1>1
  <2>2. Len(Tail(ready)) = Len(ready) - 1 /\ i # 1
    BY <1>1, <2>1
  <2>3. i - 1 \in 1 .. Len(ready) - 1
    BY <2>1, <2>2
  <2> QED BY <2>1, <2>2, <2>3
<1>2. ASSUME NEW x
      PROVE  /\ Len(Append(ready, x)) = Len(ready) + 1 /\ Append(ready, x)[Len(ready) + 1] = x
             /\ \A i \in 1 .. Len(ready) : Append(ready, x)[i] = ready[i]
  BY AppendedAnything
<1>3. ASSUME NEW i \in 1 .. Len(ready), ready[i].handler \in Timeouts
      PROVE  /\ Head(ready).handler \notin Timeouts => TimeoutIn(Tail(ready))
             /\ \A x : TimeoutIn(Append(ready, x))
  <2>1. ASSUME NEW x
        PROVE  i \in 1 .. Len(Append(ready, x)) /\ Append(ready, x)[i] = ready[i]
    BY <1>2
  <2> QED BY <1>1, <1>3, <2>1, Zenon DEF TimeoutIn
<1>4. ASSUME NEW x, x.handler \in Timeouts
      PROVE  TimeoutIn(Append(ready, x))
  <2>1. Len(ready) + 1 \in 1 .. Len(Append(ready, x)) /\ Append(ready, x)[Len(ready) + 1] = x
    BY <1>2
  <2> QED BY <1>4, <2>1, Zenon DEF TimeoutIn
<1> QED BY <1>3, <1>4, Zenon DEF TimeoutIn

(* An operation goes on until its socket is closed or its process has ended. *)
LEMMA MovesAlive ==
    ASSUME base \in Base, Alive(base), Moves
    PROVE  Alive(base')
<1>1. DOMAIN base = Fields /\ base.ready \in Seq(CompletionOf(Any))
  BY DEF Base, BaseOf, Fields, Any
<1>2. DOMAIN Popped = Fields /\ Popped.ready = Tail(base.ready) /\ Popped.timer = base.timer
      /\ Popped.socket = base.socket /\ Popped.fate = base.fate
  BY <1>1 DEF Popped, Fields
<1>3. CASE Handled
  <2>1. PICK b, s, c : /\ Starts(b)
                       /\ s = b \/ \E packet, ok : s = Send(b, packet, ok)
                       /\ Ends(s, c)
                       /\ Perform(c)
    BY <1>3, HandledEnds
  <2>2. DOMAIN b = Fields
    BY <1>1, <1>2, <2>1 DEF Starts, OfUser, OfPacket, Fields
  <2>3. DOMAIN s = Fields
    BY <2>1, <2>2, SendFields
  <2>4. DOMAIN c = Fields /\ (Running(c) /\ c.socket # "closed" => c.timer # "none")
    BY <2>1, <2>3, EndsAlive
  <2> QED BY <2>1, <2>4 DEF Perform, Alive, Running, Fields
<1>4. CASE Redirected
  <2> DEFINE a == Await(Popped, "receiveFirst", base.timer)
  <2>1. PICK out : Perform([a EXCEPT !.out = out])
    BY <1>4 DEF Redirected
  <2>2. Running(base) /\ base.ready # <<>> /\ Head(base.ready).handler \notin Timeouts
    BY <1>4 DEF Redirected, Runs, Timeouts
  <2>3. /\ DOMAIN a = Fields /\ a.fate = base.fate /\ a.timer = base.timer
        /\ a.socket = base.socket
        /\ a.socket # "closed" => a.ready = Tail(base.ready)
    BY <1>2, <2>2 DEF Await, Running, Fields
  <2> HIDE DEF a
  <2>4. base'.fate = a.fate /\ base'.timer = a.timer /\ base'.socket = a.socket
        /\ base'.ready = a.ready
    BY <2>1, <2>3 DEF Perform, Fields
  <2>5. TimeoutIn(base.ready) => TimeoutIn(Tail(base.ready))
    BY <1>1, <2>2, QueuedTimeout
  <2>6. Alive(a)
    BY <2>2, <2>3, <2>5 DEF Alive, Running
  <2> QED BY <2>4, <2>6 DEF Alive, Running
<1>5. CASE Escaped
  <2>1. base'.fate = "escaped"
    BY <1>2, <1>5 DEF Escaped, Perform, Fields
  <2> QED BY <2>1 DEF Alive, Running
<1>6. CASE ReceiveFails \/ Expire \/ \E d \in net : Arrive(d)
  <2>1. /\ base'.fate = base.fate /\ base'.socket = base.socket
        /\ \/ /\ base'.timer = base.timer
              /\ \E x : base'.ready = Append(base.ready, x)
           \/ \E x : base'.ready = Append(base.ready, x) /\ x.handler \in Timeouts
    <3>1. base.timer \in {"none"} \cup Timeouts
      BY DEF Base, BaseOf, Any
    <3>2. ASSUME NEW d \in net, Arrive(d)
          PROVE  /\ base'.fate = base.fate /\ base'.socket = base.socket /\ base'.timer = base.timer
                 /\ \E x : base'.ready = Append(base.ready, x)
      <4> DEFINE x == [handler |-> base.rx, failed |-> FALSE, packet |-> d.packet]
      <4> HIDE DEF x
      <4> QED BY <1>1, <3>2 DEF Arrive, Fields, x
    <3>3. ASSUME ReceiveFails
          PROVE  /\ base'.fate = base.fate /\ base'.socket = base.socket /\ base'.timer = base.timer
                 /\ \E x : base'.ready = Append(base.ready, x)
      <4> DEFINE x == [handler |-> base.rx, failed |-> TRUE, packet |-> NoPacket]
      <4> HIDE DEF x
      <4> QED BY <1>1, <3>3 DEF ReceiveFails, Fields, x
    <3>4. ASSUME Expire
          PROVE  /\ base'.fate = base.fate /\ base'.socket = base.socket
                 /\ \E x : base'.ready = Append(base.ready, x) /\ x.handler \in Timeouts
      <4> DEFINE x == [handler |-> base.timer, failed |-> FALSE, packet |-> NoPacket]
      <4>1. x.handler \in Timeouts
        BY <3>1, <3>4 DEF Expire
      <4> HIDE DEF x
      <4> QED BY <1>1, <3>4, <4>1 DEF Expire, Fields, x
    <3> QED BY <1>6, <3>2, <3>3, <3>4
  <2> QED BY <1>1, <2>1, QueuedTimeout DEF Alive, Running
<1> QED BY <1>3, <1>4, <1>5, <1>6 DEF Moves, Queues

(* The data handler of an operation that has been started is never idle again. *)
LEMMA MovesStarted ==
    ASSUME base \in Base, base.dataHandler # "idle", Moves
    PROVE  base'.dataHandler # "idle"
<1>1. DOMAIN base = Fields
  BY DEF Base, BaseOf, Fields
<1>2. DOMAIN Popped = Fields /\ Popped.dataHandler = base.dataHandler
  BY <1>1 DEF Popped, Fields
<1> DEFINE Begun(b) == DOMAIN b = Fields /\ b.dataHandler # "idle"
<1>3. ASSUME NEW b, Begun(b)
      PROVE  /\ \A status : Begun(Finished(b, status))
             /\ \A packet, ok : Begun(Send(b, packet, ok))
             /\ \A handler, timeout : Begun(Await(b, handler, timeout))
             /\ \A sendable, to, timeout : Begun(Retransmit(b, sendable, to, timeout))
  BY <1>3 DEF Finished, Send, Transmit, Await, Retransmit, Fields
<1>4. CASE Handled
  <2>1. PICK b, s, c : /\ Starts(b)
                       /\ s = b \/ \E packet, ok : s = Send(b, packet, ok)
                       /\ Ends(s, c)
                       /\ Perform(c)
    BY <1>4, HandledEnds
  <2>2. Begun(b)
    BY <1>1, <1>2, <2>1 DEF Starts, OfUser, OfPacket, Fields
  <2> HIDE DEF Begun
  <2>3. Begun(c)
    BY <1>3, <2>1, <2>2, Zenon DEF Ends
  <2> QED BY <2>1, <2>3 DEF Perform, Fields, Begun
<1>5. CASE Redirected \/ Escaped
  <2>1. Begun(Await(Popped, "receiveFirst", base.timer))
    BY <1>2, <1>3
  <2> QED BY <1>2, <1>5, <2>1 DEF Redirected, Escaped, Perform, Fields
<1>6. CASE ReceiveFails \/ Expire \/ \E d \in net : Arrive(d)
  BY <1>1, <1>6 DEF ReceiveFails, Expire, Arrive, Fields
<1> QED BY <1>4, <1>5, <1>6 DEF Moves, Queues

(* Only initialise() of a client leaves a socket that is open, but not connected. *)
LEMMA MovesConnected ==
    ASSUME base \in Base, base.socket # "open", Moves
    PROVE  base'.socket # "open"
<1>1. DOMAIN base = Fields
  BY DEF Base, BaseOf, Fields
<1>2. DOMAIN Popped = Fields /\ Popped.socket = base.socket
  BY <1>1 DEF Popped, Fields
<1> DEFINE Shut(b) == DOMAIN b = Fields /\ b.socket # "open"
<1>3. ASSUME NEW b, Shut(b)
      PROVE  /\ \A status : Shut(Finished(b, status))
             /\ \A packet, ok : Shut(Send(b, packet, ok))
             /\ \A handler, timeout : Shut(Await(b, handler, timeout))
             /\ \A sendable, to, timeout : Shut(Retransmit(b, sendable, to, timeout))
  BY <1>3 DEF Finished, Send, Transmit, Await, Retransmit, Fields
<1>4. CASE Handled
  <2>1. PICK b, s, c : /\ Starts(b)
                       /\ s = b \/ \E packet, ok : s = Send(b, packet, ok)
                       /\ Ends(s, c)
                       /\ Perform(c)
    BY <1>4, HandledEnds
  <2>2. Shut(b)
    BY <1>1, <1>2, <2>1 DEF Starts, OfUser, OfPacket, Fields
  <2> HIDE DEF Shut
  <2>3. Shut(c)
    BY <1>3, <2>1, <2>2, Zenon DEF Ends
  <2> QED BY <2>1, <2>3 DEF Perform, Fields, Shut
<1>5. CASE Redirected \/ Escaped
  <2>1. Shut(Await(Popped, "receiveFirst", base.timer))
    BY <1>2, <1>3
  <2> QED BY <1>2, <1>5, <2>1 DEF Redirected, Escaped, Perform, Fields
<1>6. CASE Queues
  BY <1>1, <1>6 DEF Queues, ReceiveFails, Expire, Arrive, Fields
<1> QED BY <1>4, <1>5, <1>6 DEF Moves

-----------------------------------------------------------------------------
(* What a handler has sent is the packet it keeps for a repetition. *)
Tells(b) == b.out \subseteq {[from |-> Self, to |-> to, packet |-> b.transmitPacket] : to \in {b.remote, "wellKnown"}}

(* The member functions send one packet at most, and only send() changes the packet. *)
LEMMA FunctionsTell ==
    ASSUME NEW b, DOMAIN b = Fields, b.out = {}
    PROVE  /\ \A packet, ok : LET c == Send(b, packet, ok)
                              IN  /\ DOMAIN c = Fields /\ Tells(c) /\ c.remote = b.remote
                                  /\ Running(b) => c.transmitPacket = packet
           /\ \A sendable, timeout : \A to \in {b.remote, "wellKnown"} :
                LET c == Retransmit(b, sendable, to, timeout)
                IN  /\ DOMAIN c = Fields /\ Tells(c) /\ c.remote = b.remote
                    /\ c.transmitPacket = b.transmitPacket
<1>1. ASSUME NEW c, DOMAIN c = Fields, c.out = {}, NEW to \in {c.remote, "wellKnown"}
      PROVE  LET t == Transmit(c, to)
             IN  /\ DOMAIN t = Fields /\ Tells(t) /\ t.remote = c.remote
                 /\ t.transmitPacket = c.transmitPacket
  BY <1>1 DEF Transmit, Fields, Tells
<1>2. ASSUME NEW c, DOMAIN c = Fields, c.out = {}, NEW status
      PROVE  LET f == Finished(c, status)
             IN  /\ DOMAIN f = Fields /\ Tells(f) /\ f.remote = c.remote
                 /\ f.transmitPacket = c.transmitPacket
  BY <1>2 DEF Finished, Fields, Tells
<1>3. ASSUME NEW packet, NEW ok
      PROVE  LET c == Send(b, packet, ok)
             IN  /\ DOMAIN c = Fields /\ Tells(c) /\ c.remote = b.remote
                 /\ Running(b) => c.transmitPacket = packet
  <2> DEFINE c == [b EXCEPT !.transmitPacket = packet, !.transmitCounter = 1]
             t == Transmit(c, c.remote)
             f == Finished(c, "CommunicationError")
  <2>1. DOMAIN c = Fields /\ c.out = {} /\ c.remote = b.remote /\ c.transmitPacket = packet
    BY DEF Fields
  <2>2. Send(b, packet, ok) \in {b, t, f} /\ (Running(b) => Send(b, packet, ok) \in {t, f})
    BY DEF Send
  <2> HIDE DEF c
  <2>3. /\ DOMAIN t = Fields /\ Tells(t) /\ t.remote = c.remote /\ t.transmitPacket = c.transmitPacket
        /\ DOMAIN f = Fields /\ Tells(f) /\ f.remote = c.remote /\ f.transmitPacket = c.transmitPacket
    BY <1>1, <1>2, <2>1
  <2> HIDE DEF t, f
  <2> QED BY <2>1, <2>2, <2>3 DEF Tells
<1>4. ASSUME NEW sendable, NEW timeout, NEW to \in {b.remote, "wellKnown"}
      PROVE  LET c == Retransmit(b, sendable, to, timeout)
             IN  /\ DOMAIN c = Fields /\ Tells(c) /\ c.remote = b.remote
                 /\ c.transmitPacket = b.transmitPacket
  <2> DEFINE t == Transmit(b, to)
             n == t.transmitCounter + 1
             e == [t EXCEPT !.transmitCounter = n, !.timer = timeout]
             f == Finished(b, "CommunicationError")
  <2>1. Retransmit(b, sendable, to, timeout) \in {e, f}
    BY DEF Retransmit
  <2>2. DOMAIN t = Fields /\ Tells(t) /\ t.remote = b.remote /\ t.transmitPacket = b.transmitPacket
    BY <1>1
  <2> HIDE DEF t, n
  <2>3. DOMAIN e = Fields /\ Tells(e) /\ e.remote = b.remote /\ e.transmitPacket = b.transmitPacket
    BY <2>2 DEF Tells, Fields
  <2>4. DOMAIN f = Fields /\ Tells(f) /\ f.remote = b.remote /\ f.transmitPacket = b.transmitPacket
    BY <1>2
  <2> HIDE DEF e, f
  <2> QED BY <2>1, <2>3, <2>4
<1> QED BY <1>3, <1>4

(* finished() and receive() send nothing. *)
LEMMA EndsTell ==
    ASSUME NEW b, DOMAIN b = Fields, Tells(b)
    PROVE  /\ \A status : LET c == Finished(b, status)
                          IN  /\ DOMAIN c = Fields /\ Tells(c) /\ c.remote = b.remote
                              /\ c.transmitPacket = b.transmitPacket
           /\ \A handler, timeout : LET c == Await(b, handler, timeout)
                                    IN  /\ DOMAIN c = Fields /\ Tells(c) /\ c.remote = b.remote
                                        /\ c.transmitPacket = b.transmitPacket
BY DEF Finished, Await, Fields, Tells

(* What a step adds to the network: the packet the operation keeps, or the answer to a *)
(* third party.                                                                        *)
Said(d) ==
    \/ d \in net
    \/ d.from = Self /\ d.packet = base'.transmitPacket /\ d.to \in {base.remote, "wellKnown"}
    \/ d = [from |-> Self, to |-> base.remote, packet |-> Error("UnknownTransferId")]

(* The end of a handler. *)
LEMMA PerformTells ==
    ASSUME NEW b, DOMAIN b = Fields, Tells(b), b.remote = base.remote, Perform(b)
    PROVE  /\ base'.out = {} /\ base'.transmitPacket = b.transmitPacket
           /\ base'.remote = base.remote
           /\ \A d \in net' : Said(d)
<1>1. base'.out = {} /\ base'.transmitPacket = b.transmitPacket /\ base'.remote = base.remote
  BY DEF Perform, Fields
<1>2. \A d \in net' : d \in net \/ d \in b.out
  BY DEF Perform
<1> QED BY <1>1, <1>2 DEF Tells, Said

(* An operation that does not reply keeps its packet, and repeats it at most. *)
LEMMA PassesTell ==
    ASSUME base \in Base, base.out = {}, Passes
    PROVE  /\ base'.out = {} /\ base'.transmitPacket = base.transmitPacket
           /\ \A d \in net' : Said(d)
<1> DEFINE From(b) == /\ DOMAIN b = Fields /\ b.out = {} /\ b.remote = base.remote
                      /\ b.transmitPacket = base.transmitPacket
           Ended(b) == /\ DOMAIN b = Fields /\ Tells(b) /\ b.remote = base.remote
                       /\ b.transmitPacket = base.transmitPacket
<1>1. From(base)
  BY DEF Base, BaseOf, Fields
<1>2. From(Popped)
  BY <1>1 DEF Popped, Fields
<1>3. \A b : Starts(b) => From(b)
  BY <1>1, <1>2 DEF Starts, OfUser, OfPacket, Fields
<1>4. \A b : From(b) => Tells(b)
  BY DEF Tells
<1>5. ASSUME NEW b, From(b)
      PROVE  /\ \A status : Ended(Finished(b, status))
             /\ \A handler, timeout : Ended(Await(b, handler, timeout))
             /\ \A sendable, timeout : \A to \in {base.remote, "wellKnown"} :
                  Ended(Retransmit(b, sendable, to, timeout))
  BY <1>4, <1>5, EndsTell, FunctionsTell
<1>6. ASSUME NEW c, Ended(c), Perform(c)
      PROVE  /\ base'.out = {} /\ base'.transmitPacket = base.transmitPacket
             /\ \A d \in net' : Said(d)
  BY <1>6, PerformTells
<1> HIDE DEF From, Ended
<1>7. CASE Finishes \/ Ignores \/ Repeats
  <2>1. PICK c : Ended(c) /\ Perform(c)
    <3>1. CASE Finishes
      BY <1>3, <1>5, <3>1, Zenon DEF Finishes
    <3>2. CASE Ignores
      BY <1>3, <1>5, <3>2, Zenon DEF Ignores, Starts, Receive
    <3>3. CASE Repeats
      BY <1>2, <1>5, <3>3 DEF Repeats
    <3> QED BY <1>7, <3>1, <3>2, <3>3
  <2> QED BY <1>6, <2>1
<1>8. CASE Redirected
  <2> DEFINE a == Await(Popped, "receiveFirst", base.timer)
  <2>1. PICK out : /\ out \subseteq {[from |-> Self, to |-> base.remote, packet |-> Error("UnknownTransferId")]}
                   /\ Perform([a EXCEPT !.out = out])
    BY <1>8 DEF Redirected
  <2>2. Ended(a)
    BY <1>2, <1>5
  <2> HIDE DEF a
  <2> QED BY <2>1, <2>2 DEF Ended, Perform, Fields, Said
<1>9. CASE Escaped
  BY <1>2, <1>9 DEF Escaped, Perform, From, Fields, Said
<1>10. CASE Queues
  BY <1>1, <1>10 DEF Queues, ReceiveFails, Expire, Arrive, NetAfter, From, Fields, Said
<1> QED BY <1>7, <1>8, <1>9, <1>10 DEF Passes

(* An operation that replies keeps the packet it has replied with. *)
LEMMA RepliesTell ==
    ASSUME base \in Base, base.out = {}, NEW packet, RepliesWith(packet)
    PROVE  /\ base'.out = {} /\ base'.transmitPacket = packet
           /\ \A d \in net' : Said(d)
<1> DEFINE From(b) == /\ DOMAIN b = Fields /\ b.out = {} /\ b.remote = base.remote /\ Running(b)
<1>1. PICK b, ok : /\ OfUser(b) \/ OfPacket(b)
                   /\ \/ Perform(Receive(Send(b, packet, ok)))
                      \/ Perform(ReceiveDally(Send(b, packet, ok)))
                      \/ \E status : Perform(Finished(Send(b, packet, ok), status))
  BY DEF RepliesWith
<1>2. DOMAIN base = Fields
  BY DEF Base, BaseOf, Fields
<1>3. From(b)
  BY <1>1, <1>2 DEF OfUser, OfPacket, MayQueue, Runs, Popped, Running, Fields
<1>4. PICK s : s = Send(b, packet, ok)
  OBVIOUS
<1>5. DOMAIN s = Fields /\ Tells(s) /\ s.remote = base.remote /\ s.transmitPacket = packet
  BY <1>3, <1>4, FunctionsTell
<1>6. PICK c : /\ DOMAIN c = Fields /\ Tells(c) /\ c.remote = base.remote /\ c.transmitPacket = packet
               /\ Perform(c)
  BY <1>1, <1>4, <1>5, EndsTell DEF Receive, ReceiveDally
<1> QED BY <1>6, PerformTells

(* Either way, all is sent. *)
LEMMA MovesTell ==
    ASSUME base \in Base, base.out = {}, Moves
    PROVE  base'.out = {}
<1>1. Passes \/ \E packet : RepliesWith(packet)
  BY MovesAre
<1> QED BY <1>1, PassesTell, RepliesTell

(* Whether a packet waits in the queue to be handled. *)
Queued(b) == IF b.ready = <<>> THEN NoPacket ELSE Head(b.ready).packet

(* Where completions do not coincide, a handler leaves none of a packet behind. *)
LEMMA MovesQueue ==
    ASSUME base \in Base, Once(base), ~Coincide, Moves
    PROVE  Queued(base') = NoPacket \/ \E d \in net : Arrive(d) /\ Queued(base') = d.packet
<1>1. /\ \A x : /\ Append(<<>>, x) # <<>> /\ Head(Append(<<>>, x)) = x
      /\ \A handler : [handler |-> handler, failed |-> TRUE, packet |-> NoPacket].packet = NoPacket
  OBVIOUS
<1>2. CASE Handled
  <2>1. PICK b, s, c : /\ Starts(b)
                       /\ s = b \/ \E packet, ok : s = Send(b, packet, ok)
                       /\ Ends(s, c)
                       /\ Perform(c)
    BY <1>2, HandledEnds
  <2>2. DOMAIN b = Fields /\ Quiet(b)
    BY <2>1, StartsQuiet
  <2>3. DOMAIN s = Fields /\ s.ready = <<>>
    BY <2>1, <2>2, SendOnce DEF Quiet
  <2>4. DOMAIN c = Fields /\ Queued(c) = NoPacket
    <3>1. ASSUME NEW status
          PROVE  LET f == Finished(s, status) IN DOMAIN f = Fields /\ Queued(f) = NoPacket
      BY <2>3 DEF Finished, Fields, Queued
    <3>2. ASSUME NEW handler, NEW timeout
          PROVE  LET f == Await(s, handler, timeout) IN DOMAIN f = Fields /\ Queued(f) = NoPacket
      <4> DEFINE x == [handler |-> handler, failed |-> TRUE, packet |-> NoPacket]
      <4>1. x.packet = NoPacket
        OBVIOUS
      <4> HIDE DEF x
      <4> QED BY <1>1, <2>3, <4>1 DEF Await, Fields, Queued, x
    <3>3. ASSUME NEW sendable, NEW to, NEW timeout
          PROVE  LET f == Retransmit(s, sendable, to, timeout)
                 IN  DOMAIN f = Fields /\ Queued(f) = NoPacket
      <4> DEFINE t == Transmit(s, to)
                 n == t.transmitCounter + 1
                 e == [t EXCEPT !.transmitCounter = n, !.timer = timeout]
                 f == Finished(s, "CommunicationError")
      <4>1. DOMAIN t = Fields /\ t.ready = <<>>
        BY <2>3 DEF Transmit, Fields
      <4>2. Retransmit(s, sendable, to, timeout) \in {e, f}
        BY DEF Retransmit
      <4> HIDE DEF t, n
      <4>3. DOMAIN e = Fields /\ Queued(e) = NoPacket
        BY <4>1 DEF Fields, Queued
      <4> HIDE DEF e
      <4> QED BY <3>1, <4>2, <4>3
    <3> QED BY <2>1, <3>1, <3>2, <3>3 DEF Ends
  <2> QED BY <2>1, <2>4 DEF Perform, Fields, Queued
<1>3. CASE Redirected \/ Escaped
  <2>1. DOMAIN Popped = Fields /\ Popped.ready = <<>>
    <3>1. Starts(Popped)
      BY <1>3 DEF Starts, Redirected, Escaped
    <3> QED BY <3>1, StartsQuiet DEF Quiet
  <2>2. CASE Redirected
    <3> DEFINE a == Await(Popped, "receiveFirst", base.timer)
               x == [handler |-> "receiveFirst", failed |-> TRUE, packet |-> NoPacket]
    <3>1. x.packet = NoPacket
      OBVIOUS
    <3> HIDE DEF x
    <3>2. DOMAIN a = Fields /\ Queued(a) = NoPacket
      BY <1>1, <2>1, <3>1 DEF Await, Fields, Queued, x
    <3>3. PICK out : Perform([a EXCEPT !.out = out])
      BY <2>2 DEF Redirected
    <3> HIDE DEF a
    <3> QED BY <3>2, <3>3 DEF Perform, Fields, Queued
  <2>3. CASE Escaped
    BY <2>1, <2>3 DEF Escaped, Perform, Fields, Queued
  <2> QED BY <1>3, <2>2, <2>3
<1>4. CASE Queues
  <2>1. DOMAIN base = Fields /\ base.ready = <<>>
    BY <1>4 DEF Base, BaseOf, Fields, Queues, ReceiveFails, Expire, Arrive, MayQueue
  <2>2. ASSUME NEW d \in net, Arrive(d)
        PROVE  Queued(base') = d.packet
    <3> DEFINE x == [handler |-> base.rx, failed |-> FALSE, packet |-> d.packet]
    <3>1. x.packet = d.packet
      OBVIOUS
    <3> HIDE DEF x
    <3> QED BY <1>1, <2>1, <2>2, <3>1 DEF Arrive, Fields, Queued, x
  <2>3. CASE ReceiveFails
    <3> DEFINE x == [handler |-> base.rx, failed |-> TRUE, packet |-> NoPacket]
    <3>1. x.packet = NoPacket
      OBVIOUS
    <3> HIDE DEF x
    <3> QED BY <1>1, <2>1, <2>3, <3>1 DEF ReceiveFails, Fields, Queued, x
  <2>4. CASE Expire
    <3> DEFINE x == [handler |-> base.timer, failed |-> FALSE, packet |-> NoPacket]
    <3>1. x.packet = NoPacket
      OBVIOUS
    <3> HIDE DEF x
    <3> QED BY <1>1, <2>1, <2>4, <3>1 DEF Expire, Fields, Queued, x
  <2> QED BY <1>4, <2>2, <2>3, <2>4 DEF Queues
<1> QED BY <1>2, <1>3, <1>4 DEF Moves

(* What a step has sent, and which packet it leaves in the queue: where datagrams do not *)
(* overtake each other, one of which none is older in the network.                       *)
Spoken ==
    /\ base'.out = {}
    /\ \A d \in net' : \/ d \in net \/ d.packet.type = "ERROR"
                       \/ d.from = Self /\ d.packet = base'.transmitPacket

Heard ==
    \/ Queued(base') = NoPacket
    \/ \E d \in net : /\ base.ready = <<>>
                       /\ Queued(base') = d.packet /\ d.to = Self
                       /\ \A e \in net' : e \in net /\ ~Older(e, d)

(* The handlers send the packet they keep, and errors; only the network fills the queue. *)
LEMMA MovesSpeak ==
    ASSUME base \in Base, base.out = {}, Once(base), ~Coincide, ~Overtaking, NEW packet,
           Passes \/ Objects \/ RepliesWith(packet)
    PROVE  /\ Spoken /\ Heard
           /\ \/ base'.transmitPacket \in {base.transmitPacket, packet}
              \/ base'.transmitPacket.type = "ERROR"
           /\ RepliesWith(packet) => base'.transmitPacket = packet
           /\ Passes \/ Objects => \/ base'.transmitPacket = base.transmitPacket
                                   \/ base'.transmitPacket.type = "ERROR"
<1>1. Error("UnknownTransferId").type = "ERROR"
  BY DEF Error
<1>2. ASSUME NEW p, RepliesWith(p)
      PROVE  Spoken /\ base'.transmitPacket = p
  BY <1>1, <1>2, RepliesTell DEF Spoken, Said
<1>3. ASSUME Passes
      PROVE  Spoken /\ base'.transmitPacket = base.transmitPacket
  BY <1>1, <1>3, PassesTell DEF Spoken, Said
<1>4. Moves
  BY MovesAre DEF Objects
<1>5. Heard
  <2>1. ASSUME NEW d \in net, Arrive(d), Queued(base') = d.packet
        PROVE  Heard
    BY <2>1 DEF Arrive, MayQueue, Accepts, NetAfter, Heard
  <2> QED BY <1>4, <2>1, MovesQueue DEF Heard
<1> QED BY <1>2, <1>3, <1>5 DEF Objects

(* What the functions that a first step is made of leave: the packet is the first one, *)
(* and nothing is queued.                                                              *)
Fresh(b, packet) ==
    /\ DOMAIN b = Fields /\ Tells(b) /\ b.remote = base.remote /\ b.ready = <<>>
    /\ b.transmitPacket \in {NoPacket, packet}

(* ... one after the other *)
LEMMA FreshFunctions ==
    ASSUME NEW packet, NEW b, Fresh(b, packet)
    PROVE  /\ \A status : Fresh(Finished(b, status), packet)
           /\ b.out = {} => \A ok : Fresh(Send(b, packet, ok), packet)
           /\ \A handler, timeout :
                LET c == Await(b, handler, timeout)
                IN  /\ DOMAIN c = Fields /\ Tells(c) /\ c.remote = base.remote
                    /\ c.transmitPacket \in {NoPacket, packet} /\ Queued(c) = NoPacket
<1>1. ASSUME NEW status
      PROVE  Fresh(Finished(b, status), packet)
  BY DEF Fresh, Finished, Fields, Tells
<1>2. ASSUME b.out = {}, NEW ok
      PROVE  Fresh(Send(b, packet, ok), packet)
  <2>1. PICK c : c = Send(b, packet, ok)
    OBVIOUS
  <2>2. /\ DOMAIN c = Fields /\ Tells(c) /\ c.remote = base.remote
        /\ Running(b) => c.transmitPacket = packet
    BY <1>2, <2>1, FunctionsTell DEF Fresh
  <2>3. ~Running(b) => c = b
    BY <2>1 DEF Send
  <2>4. c.ready = <<>>
    BY <2>1 DEF Fresh, Send, Transmit, Finished, Fields
  <2> QED BY <2>1, <2>2, <2>3, <2>4 DEF Fresh
<1>3. ASSUME NEW handler, NEW timeout
      PROVE  LET c == Await(b, handler, timeout)
             IN  /\ DOMAIN c = Fields /\ Tells(c) /\ c.remote = base.remote
                 /\ c.transmitPacket \in {NoPacket, packet} /\ Queued(c) = NoPacket
  <2> DEFINE x == [handler |-> handler, failed |-> TRUE, packet |-> NoPacket]
  <2>1. x.packet = NoPacket
    OBVIOUS
  <2>2. Append(<<>>, x) # <<>> /\ Head(Append(<<>>, x)) = x
    OBVIOUS
  <2> HIDE DEF x
  <2> QED BY <2>1, <2>2 DEF Fresh, Await, Fields, Tells, Queued, x
<1> QED BY <1>1, <1>2, <1>3

(* Where nothing fails, nobody aborts and no completion is stale, a socket that is   *)
(* closed has nothing left to run, and one that packets are sent to is connected.    *)
Sound(b) ==
    /\ Running(b)
    /\ b.ready # <<>> => Tail(b.ready) = <<>> /\ ~Head(b.ready).failed
    /\ b.socket # "reopened"
    /\ b.socket = "closed" => b.rx = "none" /\ b.timer = "none" /\ b.ready = <<>>
    /\ \/ b.rx = "receive"
       \/ b.timer \in {"timeout", "timeoutDally"}
       \/ b.ready # <<>> /\ Head(b.ready).handler \in {"receive", "timeout", "timeoutDally"}
       => b.socket = "connected"

(* The operators that make up a handler, of a base that is sound and has no completion *)
(* in its queue; only finished() needs no connected socket.                            *)
LEMMA ComposeSound ==
    ASSUME NEW b, DOMAIN b = Fields, Running(b), b.ready = <<>>, b.socket \in {"open", "connected"}
    PROVE  /\ \A status : LET c == Finished(b, status)
                          IN  DOMAIN c = Fields /\ Sound(c)
           /\ b.socket = "connected"
                => \A packet : LET c == Send(b, packet, TRUE)
                               IN  /\ DOMAIN c = Fields /\ Running(c) /\ c.ready = <<>>
                                   /\ c.socket = "connected"
           /\ b.socket = "connected"
                => \A timeout \in {"timeout", "timeoutDally"} :
                     LET c == Await(b, "receive", timeout)
                     IN  DOMAIN c = Fields /\ Sound(c)
<1>1. ASSUME NEW status
      PROVE  LET c == Finished(b, status) IN DOMAIN c = Fields /\ Sound(c)
  BY DEF Finished, Fields, Running, Sound
<1>2. ASSUME b.socket = "connected", NEW packet
      PROVE  LET c == Send(b, packet, TRUE)
             IN  /\ DOMAIN c = Fields /\ Running(c) /\ c.ready = <<>>
                 /\ c.socket = "connected"
  BY <1>2 DEF Send, Connected, Transmit, Fields, Running
<1>3. ASSUME b.socket = "connected", NEW timeout \in {"timeout", "timeoutDally"}
      PROVE  LET c == Await(b, "receive", timeout) IN DOMAIN c = Fields /\ Sound(c)
  BY <1>3 DEF Await, Fields, Running, Sound
<1> QED BY <1>1, <1>2, <1>3

(* ... and of the handler of a timer. *)
LEMMA RepeatSound ==
    ASSUME NEW b, DOMAIN b = Fields, Running(b), b.ready = <<>>, b.socket \in {"open", "connected"},
           b.rx = "receive" \/ b.timer \in {"timeout", "timeoutDally"} => b.socket = "connected",
           NEW to, NEW timeout \in {"timeoutFirst", "timeout"},
           timeout = "timeout" => b.socket = "connected"
    PROVE  LET c == Retransmit(b, TRUE, to, timeout)
           IN  DOMAIN c = Fields /\ Sound(c)
<1> DEFINE d == Transmit(b, to)
           n == d.transmitCounter + 1
           e == [d EXCEPT !.transmitCounter = n, !.timer = timeout]
<1>1. DOMAIN d = Fields /\ Running(d) /\ d.ready = <<>> /\ d.socket = b.socket /\ d.rx = b.rx
  BY DEF Transmit, Fields, Running
<1>2. Retransmit(b, TRUE, to, timeout) \in {Finished(b, "CommunicationError"), e}
  BY DEF Retransmit
<1>3. LET c == Finished(b, "CommunicationError") IN DOMAIN c = Fields /\ Sound(c)
  BY ComposeSound
<1> HIDE DEF d, n
<1>4. DOMAIN e = Fields /\ Sound(e)
  BY <1>1 DEF Fields, Running, Sound
<1> HIDE DEF e
<1> QED BY <1>2, <1>3, <1>4

(* The end of a handler. *)
LEMMA PerformSound ==
    ASSUME NEW b, DOMAIN b = Fields, Sound(b), Perform(b)
    PROVE  Sound(base')
BY DEF Perform, Sound, Running, Fields

(* No handler throws out of finished() or of itself, whatever the packets. *)
LEMMA MovesSound ==
    ASSUME base \in Base, Sound(base), Moves,
           Faults = {}, ~Coincide, Self \in Aborters => base.socket # "open"
    PROVE  Sound(base')
<1>1. DOMAIN base = Fields
  BY DEF Base, BaseOf, Fields
<1>2. Outcome("send") = {TRUE} /\ ~ReceiveFails
  BY DEF Outcome, ReceiveFails
<1>3. ASSUME NEW handler, Runs(handler)
      PROVE  /\ DOMAIN Popped = Fields /\ Running(Popped) /\ Popped.ready = <<>>
             /\ Popped.socket = base.socket /\ Popped.rx = base.rx /\ Popped.timer = base.timer
             /\ base.socket \in {"open", "connected"}
             /\ handler \in {"receive", "timeout", "timeoutDally"} => base.socket = "connected"
             /\ base.rx = "receive" \/ base.timer \in {"timeout", "timeoutDally"}
                  => base.socket = "connected"
  <2>1. base.socket \in {"closed", "open", "connected", "reopened"}
    BY DEF Base, BaseOf
  <2> QED BY <1>1, <1>3, <2>1 DEF Runs, Popped, Sound, Running, Fields
<1>4. ASSUME NEW b, OfPacket(b)
      PROVE  DOMAIN b = Fields /\ Running(b) /\ b.ready = <<>> /\ b.socket = "connected"
  <2>1. CASE Runs("receive") /\ b = Popped
    BY <1>3, <2>1
  <2>2. CASE /\ Runs("receiveFirst")
             /\ b = [Popped EXCEPT !.socket = IF @ = "closed" THEN "reopened" ELSE "connected"]
    <3>1. /\ DOMAIN Popped = Fields /\ Running(Popped) /\ Popped.ready = <<>>
          /\ Popped.socket # "closed"
      BY <1>3, <2>2
    <3> QED BY <2>2, <3>1 DEF Fields, Running
  <2> QED BY <1>4, <2>1, <2>2 DEF OfPacket
<1>5. ASSUME NEW b, OfUser(b)
      PROVE  DOMAIN b = Fields /\ Running(b) /\ b.ready = <<>> /\ b.socket = "connected"
  <2>1. base.socket \in {"closed", "open", "connected", "reopened"}
    BY DEF Base, BaseOf
  <2> QED BY <1>1, <1>5, <2>1 DEF OfUser, MayQueue, Sound
<1>6. CASE Finishes
  <2>1. PICK b, status : Starts(b) /\ Perform(Finished(b, status))
    BY <1>6 DEF Finishes
  <2>2. DOMAIN b = Fields /\ Running(b) /\ b.ready = <<>> /\ b.socket \in {"open", "connected"}
    BY <1>3, <1>4, <1>5, <2>1 DEF Starts
  <2> QED BY <2>1, <2>2, ComposeSound, PerformSound
<1>7. CASE Ignores
  <2>1. PICK b : OfPacket(b) /\ Perform(Receive(b))
    BY <1>7 DEF Ignores
  <2> QED BY <1>4, <2>1, ComposeSound, PerformSound DEF Receive
<1>8. CASE Replies
  <2>1. PICK b, packet :
          /\ OfUser(b) \/ OfPacket(b)
          /\ \/ Perform(Receive(Send(b, packet, TRUE)))
             \/ Perform(ReceiveDally(Send(b, packet, TRUE)))
             \/ \E status : Perform(Finished(Send(b, packet, TRUE), status))
    BY <1>2, <1>8 DEF Replies, RepliesWith
  <2>2. PICK s : s = Send(b, packet, TRUE)
    OBVIOUS
  <2>3. DOMAIN s = Fields /\ Running(s) /\ s.ready = <<>> /\ s.socket = "connected"
    BY <1>4, <1>5, <2>1, <2>2, ComposeSound
  <2>4. /\ \A status : DOMAIN Finished(s, status) = Fields /\ Sound(Finished(s, status))
        /\ DOMAIN Receive(s) = Fields /\ Sound(Receive(s))
        /\ DOMAIN ReceiveDally(s) = Fields /\ Sound(ReceiveDally(s))
    BY <2>3, ComposeSound DEF Receive, ReceiveDally
  <2> QED BY <2>1, <2>2, <2>4, PerformSound
<1>9. CASE Repeats
  <2>1. \/ /\ Runs("timeout")
           /\ Perform(Retransmit(Popped, TRUE, base.remote, "timeout"))
        \/ /\ Runs("timeoutFirst")
           /\ Perform(Retransmit(Popped, TRUE, "wellKnown", "timeoutFirst"))
    <3>1. /\ Runs("timeout") => Connected(base)
          /\ Runs("timeoutFirst") => base.socket # "closed"
      BY <1>3 DEF Connected
    <3> QED BY <1>2, <1>9, <3>1 DEF Repeats
  <2> QED BY <1>3, <2>1, RepeatSound, PerformSound
<1>10. CASE Redirected
  <2> DEFINE a == Await(Popped, "receiveFirst", base.timer)
  <2>1. PICK out : Perform([a EXCEPT !.out = out])
    BY <1>10 DEF Redirected
  <2>2. /\ DOMAIN Popped = Fields /\ Running(Popped) /\ Popped.ready = <<>>
        /\ Popped.socket = base.socket /\ Popped.rx = base.rx /\ Popped.timer = base.timer
        /\ base.socket \in {"open", "connected"}
        /\ base.timer \in {"timeout", "timeoutDally"} => base.socket = "connected"
    BY <1>3, <1>10 DEF Redirected
  <2>3. DOMAIN a = Fields /\ Sound(a)
    BY <2>2 DEF Await, Running, Fields, Sound
  <2> HIDE DEF a
  <2>4. DOMAIN [a EXCEPT !.out = out] = Fields /\ Sound([a EXCEPT !.out = out])
    BY <2>3 DEF Fields, Sound, Running
  <2> QED BY <2>1, <2>4, PerformSound
<1>11. ~Escaped
  BY <1>3 DEF Escaped
<1>12. CASE Expire \/ \E d \in net : Arrive(d)
  <2>1. \A x : /\ Append(<<>>, x) # <<>> /\ Tail(Append(<<>>, x)) = <<>>
               /\ Head(Append(<<>>, x)) = x
    OBVIOUS
  <2>2. base.ready = <<>>
    BY <1>12 DEF Expire, Arrive, MayQueue
  <2>3. CASE Expire
    <3> DEFINE x == [handler |-> base.timer, failed |-> FALSE, packet |-> NoPacket]
    <3>1. ~x.failed /\ x.handler = base.timer
      OBVIOUS
    <3>2. base' = [base EXCEPT !.timer = "none", !.ready = Append(@, x)]
      BY <2>3 DEF Expire
    <3> HIDE DEF x
    <3>3. /\ base'.ready # <<>> /\ Tail(base'.ready) = <<>> /\ Head(base'.ready) = x
          /\ base'.timer = "none" /\ base'.rx = base.rx /\ base'.socket = base.socket
          /\ base'.fate = base.fate
      BY <1>1, <2>1, <2>2, <3>2 DEF Fields
    <3>4. base.timer \in {"timeoutFirst", "timeout", "timeoutDally"}
      BY <2>3 DEF Expire, Base, BaseOf, Any, Timeouts
    <3> QED BY <2>2, <3>1, <3>3, <3>4 DEF Sound, Running
  <2>4. ASSUME NEW d \in net, Arrive(d)
        PROVE  Sound(base')
    <3> DEFINE x == [handler |-> base.rx, failed |-> FALSE, packet |-> d.packet]
               remote == IF base.rx = "receiveFirst" THEN d.from ELSE base.remote
    <3>1. ~x.failed /\ x.handler = base.rx
      OBVIOUS
    <3>2. base' = [base EXCEPT !.rx = "none", !.remote = remote, !.ready = Append(@, x)]
      BY <2>4 DEF Arrive
    <3> HIDE DEF x, remote
    <3>3. /\ base'.ready # <<>> /\ Tail(base'.ready) = <<>> /\ Head(base'.ready) = x
          /\ base'.timer = base.timer /\ base'.rx = "none" /\ base'.socket = base.socket
          /\ base'.fate = base.fate
      BY <1>1, <2>1, <2>2, <3>2 DEF Fields
    <3>4. base.rx \in {"receiveFirst", "receive"}
      BY <2>4 DEF Arrive, Base, BaseOf
    <3> QED BY <2>2, <3>1, <3>3, <3>4 DEF Sound, Running
  <2> QED BY <1>12, <2>3, <2>4
<1> QED
  BY <1>2, <1>6, <1>7, <1>8, <1>9, <1>10, <1>11, <1>12 DEF Moves, Handled, Queues

(* Then nothing runs any more once the socket is closed. *)
LEMMA FinalMoves ==
    ASSUME base \in Base, Sound(base), base.socket = "closed"
    PROVE  ~Moves
<1>1. base.rx = "none" /\ base.timer = "none" /\ base.ready = <<>>
  BY DEF Sound
<1>2. \A handler : ~Runs(handler)
  BY <1>1 DEF Runs
<1>3. \A b : ~OfUser(b) /\ ~OfPacket(b) /\ ~Starts(b)
  BY <1>2 DEF OfUser, OfPacket, Starts
<1> QED
  BY <1>1, <1>2, <1>3
  DEF Moves, Handled, Finishes, Ignores, Replies, RepliesWith, Repeats, Redirected, Escaped,
      Queues, ReceiveFails, Expire, Arrive

-----------------------------------------------------------------------------
(***************************************************************************)
(* Lemmas: two operations that only say what the other one expects.  What  *)
(* an operation may say is told by its manners t: its peer, the packets it *)
(* asks the well-known port with, those it says to the peer, and those it  *)
(* expects to hear from it.                                                *)
(***************************************************************************)

(* An operation that has kept its manners, and will, as a packet that waits for it *)
(* is one that it expects, or refuses its request.                                 *)
Polite(b, t) ==
    /\ b.status # "TransferError"
    /\ b.socket = "open" => b.transmitPacket \in t.asks
    /\ b.socket = "connected" => b.remote = t.peer /\ b.transmitPacket \in t.says
    /\ b.rx = "receiveFirst" \/ b.timer = "timeoutFirst" => b.socket = "open"
    /\ b.ready # <<>> =>
         LET c == Head(b.ready)
         IN  /\ c.handler \in {"receiveFirst", "timeoutFirst"} => b.socket = "open"
             /\ c.handler = "receive" => c.packet \in t.hears
             /\ c.handler = "receiveFirst" =>
                  \/ b.remote = t.peer /\ c.packet \in t.hears
                  \/ b.remote = "errorSocket" /\ c.packet.type = "ERROR"

(* A datagram the operation may send, and one it may be sent. *)
Proper(d, t) ==
    /\ d.from = Self
    /\ \/ d.to = t.peer /\ d.packet \in t.says
       \/ d.to = "wellKnown" /\ d.packet \in t.asks

Welcome(d, t) ==
    \/ d.from = t.peer /\ d.packet \in t.hears
    \/ d.from = "errorSocket" /\ d.packet.type = "ERROR"

(* Both sides expect data and acknowledgements, and may ask with requests. *)
Mannerly(t) ==
    /\ t.peer \notin {"errorSocket", "stranger"}
    /\ \A p \in t.hears : p.type \in {"DATA", "ACK", "OACK"}
    /\ \A p \in t.asks : p.type \in {"RRQ", "WRQ"}

(* The moves of an operation that meets nothing unexpected. *)
Converses(t) ==
    \/ \E b, status : Starts(b) /\ status # "TransferError" /\ Perform(Finished(b, status))
    \/ base.socket = "connected" /\ Ignores
    \/ \E b, packet :
         /\ packet \in t.says /\ OfPacket(b) /\ Current.packet \in t.hears
         /\ \/ Perform(Receive(Send(b, packet, TRUE)))
            \/ Perform(ReceiveDally(Send(b, packet, TRUE)))
            \/ Perform(Finished(Send(b, packet, TRUE), "Successful"))
    \/ Repeats \/ Queues

(* A receiver that has the whole file: it succeeds, or waits for repetitions only. *)
Dallying(b) ==
    /\ b.socket # "open" /\ b.status \in {"none", "Successful"}
    /\ b.timer \in {"none", "timeoutDally"}
    /\ b.ready # <<>> => Head(b.ready).handler \in {"receive", "timeoutDally"}

Concludes ==
    \/ \E b : Starts(b) /\ Perform(Finished(b, "Successful"))
    \/ \E b, packet : /\ OfPacket(b)
                      /\ \/ Perform(ReceiveDally(Send(b, packet, TRUE)))
                         \/ Perform(Finished(Send(b, packet, TRUE), "Successful"))

(* What send() of a connected operation leaves. *)
Speaks(c, b, packet) ==
    /\ DOMAIN c = Fields /\ Running(c) /\ c.ready = <<>> /\ c.socket = "connected"
    /\ c.status = "none" /\ c.remote = b.remote /\ c.transmitPacket = packet
    /\ \A d \in c.out : d.from = Self /\ d.to = b.remote /\ d.packet = packet

(* send() of a connected operation. *)
LEMMA SendPolite ==
    ASSUME NEW b, DOMAIN b = Fields, Running(b), b.ready = <<>>, b.socket = "connected",
           b.status = "none", NEW packet
    PROVE  Speaks(Send(b, packet, TRUE), b, packet)
BY DEF Speaks, Send, Connected, Transmit, Fields, Running

(* receive() and receiveDally() that follow. *)
LEMMA ReceivePolite ==
    ASSUME NEW b, DOMAIN b = Fields, Running(b), b.ready = <<>>, b.socket = "connected",
           b.status = "none", NEW t, b.remote = t.peer, b.transmitPacket \in t.says
    PROVE  /\ DOMAIN Receive(b) = Fields /\ Polite(Receive(b), t) /\ Receive(b).out = b.out
           /\ DOMAIN ReceiveDally(b) = Fields /\ Polite(ReceiveDally(b), t)
           /\ ReceiveDally(b).out = b.out
BY DEF Receive, ReceiveDally, Await, Fields, Running, Polite

(* receiveDally() leaves an operation that dallies. *)
LEMMA DallyDallies ==
    ASSUME NEW b, DOMAIN b = Fields, Running(b), b.ready = <<>>, b.socket = "connected",
           b.status = "none"
    PROVE  DOMAIN ReceiveDally(b) = Fields /\ Dallying(ReceiveDally(b))
BY DEF ReceiveDally, Await, Fields, Running, Dallying

(* finished() with any other status. *)
LEMMA FinishedPolite ==
    ASSUME NEW t, NEW b, DOMAIN b = Fields, Running(b), b.ready = <<>>,
           b.socket \in {"open", "connected"}, NEW status
    PROVE  LET c == Finished(b, status)
           IN  /\ DOMAIN c = Fields /\ c.out = b.out
               /\ status # "TransferError" => Polite(c, t)
               /\ status = "Successful" => Dallying(c)
BY DEF Finished, Fields, Running, Polite, Dallying

(* ... and of the handler of a timer. *)
LEMMA RepeatPolite ==
    ASSUME NEW t, NEW b, DOMAIN b = Fields, Running(b), b.ready = <<>>, b.out = {},
           b.status = "none", b.socket \in {"open", "connected"},
           b.socket = "open" => b.transmitPacket \in t.asks,
           b.socket = "connected" => b.remote = t.peer /\ b.transmitPacket \in t.says,
           b.rx = "receiveFirst" => b.socket = "open",
           NEW to, NEW timeout \in {"timeoutFirst", "timeout"},
           \/ timeout = "timeout" /\ b.socket = "connected" /\ to = t.peer
           \/ timeout = "timeoutFirst" /\ b.socket = "open" /\ to = "wellKnown"
    PROVE  LET c == Retransmit(b, TRUE, to, timeout)
           IN  /\ DOMAIN c = Fields /\ Polite(c, t)
               /\ \A d \in c.out : Proper(d, t)
<1> DEFINE d == Transmit(b, to)
           n == d.transmitCounter + 1
           e == [d EXCEPT !.transmitCounter = n, !.timer = timeout]
<1>1. /\ DOMAIN d = Fields /\ Running(d) /\ d.ready = <<>> /\ d.socket = b.socket /\ d.rx = b.rx
      /\ d.status = "none" /\ d.remote = b.remote /\ d.transmitPacket = b.transmitPacket
      /\ d.out = {[from |-> Self, to |-> to, packet |-> b.transmitPacket]}
  BY DEF Transmit, Fields, Running
<1>2. Retransmit(b, TRUE, to, timeout) \in {Finished(b, "CommunicationError"), e}
  BY DEF Retransmit
<1>3. LET c == Finished(b, "CommunicationError")
      IN  DOMAIN c = Fields /\ Polite(c, t) /\ c.out = {}
  BY FinishedPolite
<1> HIDE DEF d, n
<1>4. DOMAIN e = Fields /\ Polite(e, t) /\ e.out = d.out
  BY <1>1 DEF Fields, Polite
<1>5. \A x \in d.out : Proper(x, t)
  BY <1>1 DEF Proper
<1> HIDE DEF e
<1> QED BY <1>2, <1>3, <1>4, <1>5

(* What a handler of a sound and polite operation starts from. *)
LEMMA StartsPolite ==
    ASSUME base \in Base, base.out = {}, Once(base), Sound(base), Self \notin Aborters,
           NEW t, Mannerly(t), Polite(base, t), NEW b
    PROVE  /\ Starts(b) => /\ DOMAIN b = Fields /\ Running(b) /\ b.ready = <<>> /\ b.out = {}
                           /\ b.status = "none" /\ b.socket \in {"open", "connected"}
           /\ OfPacket(b) => /\ Starts(b) /\ b.socket = "connected"
                             /\ b.transmitPacket = base.transmitPacket
                             /\ Current.packet \in t.hears \/ base.socket = "connected"
                                  => b.remote = t.peer
           /\ (\E handler : Runs(handler)) /\ b = Popped =>
                /\ b.socket = base.socket /\ b.rx = base.rx /\ b.remote = base.remote
                /\ b.transmitPacket = base.transmitPacket
<1>1. DOMAIN base = Fields /\ Running(base)
  BY DEF Base, BaseOf, Fields, Sound
<1>2. base.socket \in {"closed", "open", "connected", "reopened"}
  BY DEF Base, BaseOf
<1>3. ASSUME NEW handler, Runs(handler)
      PROVE  /\ DOMAIN Popped = Fields /\ Running(Popped) /\ Popped.ready = <<>> /\ Popped.out = {}
             /\ Popped.status = "none" /\ base.socket \in {"open", "connected"}
             /\ Popped.socket = base.socket /\ Popped.rx = base.rx /\ Popped.remote = base.remote
             /\ Popped.transmitPacket = base.transmitPacket
  <2>1. base.ready # <<>> /\ Tail(base.ready) = <<>>
    BY <1>3 DEF Runs, Sound
  <2>2. base.socket \in {"open", "connected"} /\ base.status = "none"
    BY <1>2, <2>1 DEF Sound, Once
  <2> QED BY <1>1, <2>1, <2>2 DEF Popped, Fields, Running
<1>4. ~OfUser(b)
  BY DEF OfUser
<1>5. ASSUME OfPacket(b)
      PROVE  /\ DOMAIN b = Fields /\ Running(b) /\ b.ready = <<>> /\ b.out = {}
             /\ b.status = "none" /\ b.socket = "connected"
             /\ b.transmitPacket = base.transmitPacket
             /\ Current.packet \in t.hears \/ base.socket = "connected" => b.remote = t.peer
  <2>1. CASE Runs("receive") /\ b = Popped
    <3>1. base.socket = "connected"
      BY <2>1 DEF Runs, Sound
    <3> QED BY <1>3, <2>1, <3>1 DEF Polite
  <2>2. CASE /\ Runs("receiveFirst")
             /\ b = [Popped EXCEPT !.socket = IF @ = "closed" THEN "reopened" ELSE "connected"]
    <3>1. /\ DOMAIN b = Fields /\ Running(b) /\ b.ready = <<>> /\ b.out = {}
          /\ b.status = "none" /\ b.socket = "connected" /\ b.remote = base.remote
          /\ b.transmitPacket = base.transmitPacket
      BY <1>3, <2>2 DEF Fields, Running
    <3>2. Current.packet \in t.hears => base.remote = t.peer
      BY <2>2 DEF Runs, Current, Polite, Mannerly
    <3> QED BY <3>1, <3>2 DEF Polite
  <2> QED BY <1>5, <2>1, <2>2 DEF OfPacket
<1> QED BY <1>3, <1>4, <1>5 DEF Starts

(* A datagram, or a timer, that waits to be handled. *)
LEMMA QueuesPolite ==
    ASSUME base \in Base, base.out = {}, Sound(base), Faults = {}, ~Coincide,
           NEW t, Mannerly(t), Polite(base, t),
           \A d \in net : d.to = Self => Welcome(d, t), Queues
    PROVE  /\ Polite(base', t) /\ net' \subseteq net
           /\ Dallying(base) => Dallying(base')
<1>1. DOMAIN base = Fields
  BY DEF Base, BaseOf, Fields
<1>2. \A x : Append(<<>>, x) # <<>> /\ Head(Append(<<>>, x)) = x
  OBVIOUS
<1>3. base.ready = <<>> /\ ~ReceiveFails
  BY DEF Queues, Expire, Arrive, ReceiveFails, MayQueue
<1>4. CASE Expire
  <2> DEFINE x == [handler |-> base.timer, failed |-> FALSE, packet |-> NoPacket]
  <2>1. x.handler = base.timer
    OBVIOUS
  <2>2. base' = [base EXCEPT !.timer = "none", !.ready = Append(@, x)]
    BY <1>4 DEF Expire
  <2> HIDE DEF x
  <2>3. /\ base'.ready # <<>> /\ Head(base'.ready) = x /\ base'.timer = "none"
        /\ base'.rx = base.rx /\ base'.socket = base.socket /\ base'.status = base.status
        /\ base'.remote = base.remote /\ base'.transmitPacket = base.transmitPacket
    BY <1>1, <1>2, <1>3, <2>2 DEF Fields
  <2>4. base.timer \in {"timeoutFirst", "timeout", "timeoutDally"}
    BY <1>4 DEF Expire, Base, BaseOf, Any, Timeouts
  <2>5. net' = net
    BY <1>4 DEF Expire
  <2> QED BY <2>1, <2>3, <2>4, <2>5 DEF Polite, Dallying
<1>5. ASSUME NEW d \in net, Arrive(d)
      PROVE  /\ Polite(base', t) /\ net' \subseteq net
             /\ Dallying(base) => Dallying(base')
  <2> DEFINE x == [handler |-> base.rx, failed |-> FALSE, packet |-> d.packet]
             remote == IF base.rx = "receiveFirst" THEN d.from ELSE base.remote
  <2>1. x.handler = base.rx /\ x.packet = d.packet
    OBVIOUS
  <2>2. base' = [base EXCEPT !.rx = "none", !.remote = remote, !.ready = Append(@, x)]
    BY <1>5 DEF Arrive
  <2>3. base.rx \in {"receiveFirst", "receive"}
    BY <1>5 DEF Arrive, Base, BaseOf
  <2>4. Welcome(d, t) /\ (base.socket = "connected" => d.from = base.remote)
    BY <1>5 DEF Arrive, Accepts
  <2>5. base.rx = "receive" => base.socket = "connected" /\ d.packet \in t.hears
    BY <2>4 DEF Sound, Polite, Welcome, Mannerly
  <2>6. base.rx = "receiveFirst" => base.socket = "open" /\ remote = d.from
    BY DEF Polite
  <2>7. base.rx = "receive" => remote = base.remote
    OBVIOUS
  <2> HIDE DEF x, remote
  <2>8. /\ base'.ready # <<>> /\ Head(base'.ready) = x /\ base'.timer = base.timer
        /\ base'.rx = "none" /\ base'.socket = base.socket /\ base'.status = base.status
        /\ base'.remote = remote /\ base'.transmitPacket = base.transmitPacket
    BY <1>1, <1>2, <1>3, <2>2 DEF Fields
  <2>9. net' \subseteq net
    BY <1>5 DEF Arrive, NetAfter
  <2>10. Polite(base', t)
    BY <2>1, <2>3, <2>4, <2>5, <2>6, <2>7, <2>8 DEF Polite, Welcome, Mannerly
  <2>11. Dallying(base) => Dallying(base')
    BY <2>1, <2>3, <2>6, <2>8 DEF Dallying
  <2> QED BY <2>9, <2>10, <2>11
<1> QED BY <1>3, <1>4, <1>5 DEF Queues

(* The end of a handler. *)
LEMMA PerformPolite ==
    ASSUME NEW t, NEW b, DOMAIN b = Fields, Perform(b)
    PROVE  /\ Polite(b, t) => Polite(base', t)
           /\ Dallying(b) => Dallying(base')
           /\ net' = net \cup b.out
BY DEF Perform, Polite, Dallying, Fields

(* finished() closes the socket, whatever it reports. *)
LEMMA FinishedCloses ==
    ASSUME NEW b, DOMAIN b = Fields, Running(b), NEW status, Perform(Finished(b, status))
    PROVE  base'.socket = "closed"
BY DEF Finished, Perform, Fields

(* An operation that meets nothing unexpected keeps its manners. *)
LEMMA ConversesPolite ==
    ASSUME base \in Base, base.out = {}, Once(base), Sound(base), Faults = {}, ~Coincide,
           Self \notin Aborters, NEW t, Mannerly(t), Polite(base, t),
           \A d \in net : d.to = Self => Welcome(d, t), Converses(t)
    PROVE  Polite(base', t) /\ \A d \in net' : d \in net \/ Proper(d, t)
<1>1. CASE \E b, status : Starts(b) /\ status # "TransferError" /\ Perform(Finished(b, status))
  <2>1. PICK b, status : Starts(b) /\ status # "TransferError" /\ Perform(Finished(b, status))
    BY <1>1
  <2>2. /\ DOMAIN b = Fields /\ Running(b) /\ b.ready = <<>> /\ b.out = {}
        /\ b.socket \in {"open", "connected"}
    BY <2>1, StartsPolite
  <2>3. PICK c : c = Finished(b, status)
    OBVIOUS
  <2>4. DOMAIN c = Fields /\ Polite(c, t) /\ c.out = {}
    BY <2>1, <2>2, <2>3, FinishedPolite
  <2>5. Polite(base', t) /\ net' = net \cup c.out
    BY <2>1, <2>3, <2>4, PerformPolite
  <2> QED BY <2>4, <2>5
<1>2. CASE base.socket = "connected" /\ Ignores
  <2>1. PICK b : OfPacket(b) /\ Perform(Receive(b))
    BY <1>2 DEF Ignores
  <2>2. /\ DOMAIN b = Fields /\ Running(b) /\ b.ready = <<>> /\ b.out = {}
        /\ b.status = "none" /\ b.socket = "connected" /\ b.remote = t.peer
        /\ b.transmitPacket = base.transmitPacket
    BY <1>2, <2>1, StartsPolite
  <2>3. b.transmitPacket \in t.says
    BY <1>2, <2>2 DEF Polite
  <2>4. DOMAIN Receive(b) = Fields /\ Polite(Receive(b), t) /\ Receive(b).out = {}
    BY <2>2, <2>3, ReceivePolite
  <2> QED BY <2>1, <2>4, PerformPolite
<1>3. CASE \E b, packet :
             /\ packet \in t.says /\ OfPacket(b) /\ Current.packet \in t.hears
             /\ \/ Perform(Receive(Send(b, packet, TRUE)))
                \/ Perform(ReceiveDally(Send(b, packet, TRUE)))
                \/ Perform(Finished(Send(b, packet, TRUE), "Successful"))
  <2>1. PICK b, packet :
             /\ packet \in t.says /\ OfPacket(b) /\ Current.packet \in t.hears
             /\ \/ Perform(Receive(Send(b, packet, TRUE)))
                \/ Perform(ReceiveDally(Send(b, packet, TRUE)))
                \/ Perform(Finished(Send(b, packet, TRUE), "Successful"))
    BY <1>3
  <2>2. /\ DOMAIN b = Fields /\ Running(b) /\ b.ready = <<>> /\ b.out = {}
        /\ b.status = "none" /\ b.socket = "connected" /\ b.remote = t.peer
    BY <2>1, StartsPolite
  <2>3. PICK s : s = Send(b, packet, TRUE)
    OBVIOUS
  <2>4. Speaks(s, b, packet)
    BY <2>2, <2>3, SendPolite
  <2>5. /\ DOMAIN s = Fields /\ Running(s) /\ s.ready = <<>> /\ s.socket = "connected"
        /\ s.status = "none" /\ s.remote = t.peer /\ s.transmitPacket = packet
        /\ \A d \in s.out : d.from = Self /\ d.to = t.peer /\ d.packet = packet
    BY <2>2, <2>4 DEF Speaks
  <2>6. \A d \in s.out : Proper(d, t)
    BY <2>1, <2>2, <2>5 DEF Proper
  <2>7. /\ DOMAIN Receive(s) = Fields /\ Polite(Receive(s), t) /\ Receive(s).out = s.out
        /\ DOMAIN ReceiveDally(s) = Fields /\ Polite(ReceiveDally(s), t)
        /\ ReceiveDally(s).out = s.out
    BY <2>1, <2>5, ReceivePolite
  <2>8. LET c == Finished(s, "Successful")
        IN  DOMAIN c = Fields /\ Polite(c, t) /\ c.out = s.out
    BY <2>5, FinishedPolite
  <2>9. PICK c : /\ DOMAIN c = Fields /\ Polite(c, t) /\ c.out = s.out
                 /\ Perform(c)
    BY <2>1, <2>3, <2>7, <2>8
  <2> QED BY <2>6, <2>9, PerformPolite
<1>4. CASE Repeats
  <2>1. \A handler : Runs(handler) =>
          /\ DOMAIN Popped = Fields /\ Running(Popped) /\ Popped.ready = <<>> /\ Popped.out = {}
          /\ Popped.status = "none" /\ Popped.socket \in {"open", "connected"}
          /\ Popped.socket = base.socket /\ Popped.rx = base.rx /\ Popped.remote = base.remote
          /\ Popped.transmitPacket = base.transmitPacket
    BY StartsPolite DEF Starts
  <2>2. Runs("timeout") => base.socket = "connected" /\ base.remote = t.peer
    BY DEF Runs, Sound, Polite
  <2>3. Runs("timeoutFirst") => base.socket = "open"
    BY DEF Runs, Polite
  <2>4. \/ /\ Runs("timeout")
           /\ Perform(Retransmit(Popped, TRUE, t.peer, "timeout"))
        \/ /\ Runs("timeoutFirst")
           /\ Perform(Retransmit(Popped, TRUE, "wellKnown", "timeoutFirst"))
    BY <1>4, <2>2, <2>3 DEF Repeats, Outcome, Connected
  <2>5. /\ Popped.socket = "open" => Popped.transmitPacket \in t.asks
        /\ Popped.socket = "connected" => Popped.remote = t.peer /\ Popped.transmitPacket \in t.says
        /\ Popped.rx = "receiveFirst" => Popped.socket = "open"
    BY <2>1, <2>4 DEF Polite
  <2>6. PICK c : /\ DOMAIN c = Fields /\ Polite(c, t) /\ \A d \in c.out : Proper(d, t)
                 /\ Perform(c)
    <3>1. CASE /\ Runs("timeout")
               /\ Perform(Retransmit(Popped, TRUE, t.peer, "timeout"))
      BY <2>1, <2>2, <2>5, <3>1, RepeatPolite
    <3>2. CASE /\ Runs("timeoutFirst")
               /\ Perform(Retransmit(Popped, TRUE, "wellKnown", "timeoutFirst"))
      BY <2>1, <2>3, <2>5, <3>2, RepeatPolite
    <3> QED BY <2>4, <3>1, <3>2
  <2> QED BY <2>6, PerformPolite
<1>5. CASE Queues
  BY <1>5, QueuesPolite
<1> QED BY <1>1, <1>2, <1>3, <1>4, <1>5 DEF Converses

(* A receiver that has acknowledged the last packet succeeds, or waits. *)
LEMMA ConcludesDally ==
    ASSUME base \in Base, base.out = {}, Once(base), Sound(base), Self \notin Aborters,
           NEW t, Mannerly(t), Polite(base, t), Concludes
    PROVE  Dallying(base')
<1>1. CASE \E b : Starts(b) /\ Perform(Finished(b, "Successful"))
  <2>1. PICK b : Starts(b) /\ Perform(Finished(b, "Successful"))
    BY <1>1
  <2>2. DOMAIN b = Fields /\ Running(b) /\ b.ready = <<>> /\ b.socket \in {"open", "connected"}
    BY <2>1, StartsPolite
  <2> QED BY <2>1, <2>2, FinishedPolite, PerformPolite
<1>2. CASE \E b, packet : /\ OfPacket(b)
                          /\ \/ Perform(ReceiveDally(Send(b, packet, TRUE)))
                             \/ Perform(Finished(Send(b, packet, TRUE), "Successful"))
  <2>1. PICK b, packet : /\ OfPacket(b)
                         /\ \/ Perform(ReceiveDally(Send(b, packet, TRUE)))
                            \/ Perform(Finished(Send(b, packet, TRUE), "Successful"))
    BY <1>2
  <2>2. /\ DOMAIN b = Fields /\ Running(b) /\ b.ready = <<>> /\ b.out = {}
        /\ b.status = "none" /\ b.socket = "connected"
    BY <2>1, StartsPolite
  <2>3. PICK s : s = Send(b, packet, TRUE)
    OBVIOUS
  <2>4. Speaks(s, b, packet)
    BY <2>2, <2>3, SendPolite
  <2>5. /\ DOMAIN ReceiveDally(s) = Fields /\ Dallying(ReceiveDally(s))
        /\ DOMAIN Finished(s, "Successful") = Fields /\ Dallying(Finished(s, "Successful"))
    BY <2>4, DallyDallies, FinishedPolite DEF Speaks
  <2> QED BY <2>1, <2>3, <2>5, PerformPolite
<1> QED BY <1>1, <1>2 DEF Concludes

=============================================================================
