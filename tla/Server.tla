------------------------------- MODULE Server -------------------------------
(***************************************************************************)
(* The server process: the dispatcher ServerImpl on the well-known port,   *)
(* the application tftp_server with its one pointer to an operation, the   *)
(* event loop that runs the handlers of both, the files on disk and the    *)
(* statistic of received packets.                                          *)
(*                                                                         *)
(* Transfer has the steps of one operation in detail.  Here an operation   *)
(* is what its process can tell of it: what it waits for, what it has      *)
(* given to or taken from its StreamFile, and when it is destroyed.  Asio  *)
(* binds a handler to a plain pointer: one that was queued before its      *)
(* operation was destroyed runs on freed memory, and so does the rest of a *)
(* handler whose operation has been destroyed by its own completion.       *)
(***************************************************************************)
EXTENDS Integers, Sequences, FiniteSets

CONSTANTS
    Files,         \* names of regular files
    Worlds,        \* what a process may run into, see World
    InitialDisks,  \* contents of the files when the process starts
    Retries,       \* tftpRetries
    MaxPackets,    \* bound: datagrams that arrive during a behaviour
    MaxOperations, \* bound: operations that are started
    MaxChunks      \* bound: chunks of a file that is written

(* handler: the user of the library has set a request handler, as the application does; *)
(* dally: the configuration; coincide: completions may be queued while another one      *)
(* waits to run; directory: clients may ask for a directory; faults: what may fail.     *)
World == [handler : BOOLEAN, dally : BOOLEAN, coincide : BOOLEAN, directory : BOOLEAN,
          faults : SUBSET {"bind", "receive", "open", "send", "file", "disk"}]

(* Which operation has written a chunk (0: none of this process), and its index. *)
Chunks == Nat \X Nat
Hole   == <<0, 0>>     \* what lies before a write beyond the end of a file

Disks == UNION {[present -> Seq(Chunks)] : present \in SUBSET Files}

ASSUME ServerAssumption ==
    /\ Worlds \subseteq World
    /\ \A d \in InitialDisks : DOMAIN d \subseteq Files /\ \A f \in DOMAIN d :
          d[f] \in Seq(Chunks) /\ d[f] = [i \in 1 .. Len(d[f]) |-> <<0, i>>]
    /\ Retries \in Nat /\ MaxPackets \in Nat /\ MaxOperations \in Nat /\ MaxChunks \in Nat \ {0}
    /\ {"directory", "none"} \cap Files = {}

VARIABLES
    world,
    process,     \* main(): not yet listening, in io_context::run(), or how it has ended
    socket,      \* ServerImpl::socketV
    receiving,   \* its async_receive_from() is pending
    signal,      \* the wait for SIGINT and SIGTERM
    queue,       \* completions that wait to run
    operation,   \* serverOperation
    completed,   \* the operation that has last reported, until another one is started
    disk,        \* the files that exist, and what they contain
    statistic    \* packets that have arrived, that are counted, that were counted when last
                 \*   printed, that were answered by an error; operations started

vars == <<world, process, socket, receiving, signal, queue, operation, completed, disk, statistic>>

(* The part of the state that belongs to the dispatcher, and to the operation. *)
serverVars    == <<socket, receiving, signal>>
operationVars == <<operation, completed, disk>>

Running == process = "running"
Faulty(fault) == fault \in world.faults

NoOperation == [id |-> 0, kind |-> "none", file |-> "none", waits |-> {}, ending |-> FALSE,
                transmitCounter |-> 0, data |-> <<>>, flushed |-> 0, good |-> TRUE,
                announced |-> 0, replaced |-> "none", status |-> "none"]

(* What is left of an operation that has reported. *)
Outcome(o, status) == [o EXCEPT !.waits = {}, !.transmitCounter = 0, !.flushed = 0, !.status = status]

Init ==
    /\ world \in Worlds
    /\ process = "starting" /\ socket = "closed" /\ receiving = FALSE /\ signal = "waiting"
    /\ queue = <<>>
    /\ operation = NoOperation /\ completed = NoOperation
    /\ disk \in InitialDisks
    /\ statistic = [arrived |-> 0, counted |-> 0, printed |-> 0, errors |-> 0, started |-> 0]

-----------------------------------------------------------------------------
(* Completions: what reaches the queue of the event loop *)

Completion(to, id, event) == [to |-> to, id |-> id, event |-> event]
Event(type)               == [type |-> type, file |-> "none", flaw |-> "none"]

(* A request names a file, or is refused for its transfer mode or its name. *)
Requests == [type : {"RRQ", "WRQ"}, file : Files \cup {"directory"}, flaw : {"none"}]
            \cup [type : {"RRQ", "WRQ"}, file : {"none"}, flaw : {"mode", "path"}]

ServerEvents    == Requests \cup {Event("unexpected"), Event("invalid"), Event("failed")}
OperationEvents == {Event(t) : t \in {"next", "last", "repeated", "wrong", "failed"}}

IsPacket(event) == event.type \notin {"failed", "timeout", "timeoutDally", "signal"}

(* What a client sends in this world, and what arrives while the bounds permit. *)
MayArrive(event) ==
    IF IsPacket(event)
    THEN /\ statistic.arrived < MaxPackets
         /\ event.file = "directory" => world.directory
         /\ event.type \in {"RRQ", "WRQ"} => statistic.started < MaxOperations
         /\ event.type = "last" => operation.kind = "write"
         /\ event.type \in {"next", "last"} => Len(operation.data) < MaxChunks
    ELSE Faulty("receive")

MayQueue == Running /\ (world.coincide \/ queue = <<>>)

Arrive(completion) ==
    /\ MayQueue /\ MayArrive(completion.event)
    /\ queue' = Append(queue, completion)
    /\ statistic' = IF IsPacket(completion.event) THEN [statistic EXCEPT !.arrived = @ + 1]
                                                  ELSE statistic

ServerReceives ==
    /\ receiving
    /\ \E event \in ServerEvents : Arrive(Completion("server", 0, event))
    /\ receiving' = FALSE
    /\ UNCHANGED <<world, process, socket, signal, operationVars>>

OperationReceives ==
    /\ "receive" \in operation.waits
    /\ \E event \in OperationEvents : Arrive(Completion("operation", operation.id, event))
    /\ operation' = [operation EXCEPT !.waits = @ \ {"receive"}]
    /\ UNCHANGED <<world, process, serverVars, completed, disk>>

TimerExpires ==
    /\ MayQueue
    /\ \E timer \in operation.waits \ {"receive"} :
         /\ queue' = Append(queue, Completion("operation", operation.id, Event(timer)))
         /\ operation' = [operation EXCEPT !.waits = @ \ {timer}]
    /\ UNCHANGED <<world, process, serverVars, completed, disk, statistic>>

UserSignals ==
    /\ MayQueue /\ signal = "waiting"
    /\ queue' = Append(queue, Completion("signal", 0, Event("signal")))
    /\ signal' = "queued"
    /\ UNCHANGED <<world, process, socket, receiving, operationVars, statistic>>

-----------------------------------------------------------------------------
(* StreamFile and the disk *)

(* A stream writes at its own position, wherever the file ends by then. *)
WriteAt(content, position, chunks) ==
    LET end  == position + Len(chunks)
        size == IF Len(content) > end THEN Len(content) ELSE end
    IN  [i \in 1 .. size |-> IF i > position /\ i <= end THEN chunks[i - position]
                             ELSE IF i <= Len(content) THEN content[i] ELSE Hole]

(* StreamFile::start() and receiveFile() open a file that is written with "trunc". *)
Truncated(d, file) == [f \in DOMAIN d \cup {file} |-> IF f = file THEN <<>> ELSE d[f]]

Unflushed(o) == o.kind = "write" /\ o.good /\ o.flushed < Len(o.data)

(* What the buffer of the stream leaves on disk when it is flushed. *)
Flush(d, o) ==
    IF Unflushed(o)
    THEN [d EXCEPT ![o.file] = WriteAt(@, o.flushed, SubSeq(o.data, o.flushed + 1, Len(o.data)))]
    ELSE d

(* Mutant: what is in the buffer is dropped. *)
ClosedUnflushed(d, o) == {d}

(* The stream is closed by finished(), or destroyed with its operation.  Errors of *)
(* the disk are not noticed.                                                       *)
Closed(d, o) == {Flush(d, o)} \cup (IF Faulty("disk") THEN {d} ELSE {})

(* receivedData(): the chunk waits in the buffer, or the buffer is flushed; after an *)
(* error the stream stays bad and drops what follows.                                *)
ReceivedData(d, o, chunk) ==
    LET written == [o EXCEPT !.data = Append(@, chunk)]
    IN  {<<d, written>>}
        \cup (IF o.good THEN {<<Flush(d, written), [written EXCEPT !.flushed = Len(written.data)]>>} ELSE {})
        \cup (IF Faulty("disk") THEN {<<d, [written EXCEPT !.good = FALSE]>>} ELSE {})

-----------------------------------------------------------------------------
(* The handlers of the operation, as its process sees them *)

Runs(to) == Running /\ queue # <<>> /\ Head(queue).to = to

Current == Head(queue).event

(* Mutant: a timeout is counted, too. *)
CountedAlways == [statistic EXCEPT !.counted = @ + 1]

(* PacketHandler::packet() counts a packet when its handler has returned. *)
Counted == [statistic EXCEPT !.counted = @ + (IF IsPacket(Current) THEN 1 ELSE 0)]

(* The event of a handler of the operation that serverOperation points to. *)
Handles(types) ==
    /\ Runs("operation") /\ Head(queue).id = operation.id
    /\ Current.type \in types
    /\ queue' = Tail(queue)
    /\ UNCHANGED <<world, serverVars>>

(* The handler ends with receive(), or with receiveDally(). *)
Waits(o, timer) ==
    /\ operation' = [o EXCEPT !.waits = {"receive", timer}]
    /\ statistic' = Counted
    /\ UNCHANGED <<process, completed>>

(* Mutant: the application keeps its pointer to the operation. *)
FinishedKept(o, d, status) ==
    /\ disk' \in Closed(d, o)
    /\ operation' = Outcome(o, status)
    /\ completed' = Outcome(o, status)
    /\ statistic' = [Counted EXCEPT !.printed = statistic.counted]
    /\ UNCHANGED process

(* finished(), down to operationCompleted(): the stream is closed, timer and socket    *)
(* are cancelled, the statistic is printed without the packet that is being handled,   *)
(* and the operation is destroyed.                                                     *)
Finished(o, d, status) ==
    /\ disk' \in Closed(d, o)
    /\ operation' = NoOperation
    /\ completed' = Outcome(o, status)
    /\ statistic' = [Counted EXCEPT !.printed = statistic.counted]
    /\ UNCHANGED process

(* A handler whose send() fails has destroyed its operation, and goes on. *)
SendFails ==
    /\ \/ operation.kind = "write" /\ Handles({"next", "last", "repeated", "wrong"})
       \/ operation.kind = "read" /\ Handles({"next", "wrong"})
    /\ Faulty("send")
    /\ process' = "undefined"
    /\ UNCHANGED <<operationVars, statistic>>

(* WriteOperationImpl::dataPacket(), a new packet *)
DataStored ==
    /\ operation.kind = "write" /\ Handles({"next", "last"})
    /\ \E r \in ReceivedData(disk, operation, <<operation.id, Len(operation.data) + 1>>) :
         IF Current.type = "next"
         THEN disk' = r[1] /\ Waits([r[2] EXCEPT !.transmitCounter = 1], "timeout")
         ELSE IF world.dally
         THEN /\ disk' = r[1]
              /\ Waits([r[2] EXCEPT !.transmitCounter = 1, !.ending = TRUE], "timeoutDally")
         ELSE Finished(r[2], r[1], "Successful")

(* Mutant: the last chunk is left out. *)
SuppliedButLast(d, o) ==
    LET position == Len(o.data) + 1
        content  == d[o.file]
    IN  [o EXCEPT !.transmitCounter = 1,
                  !.data   = IF position < Len(content) THEN Append(@, content[position]) ELSE @,
                  !.ending = position >= Len(content)]

(* ReadOperationImpl::sendData(): the next chunk of what the file contains by now. *)
SuppliedFrom(d, o) ==
    LET position == Len(o.data) + 1
        content  == d[o.file]
    IN  [o EXCEPT !.transmitCounter = 1,
                  !.data   = IF position <= Len(content) THEN Append(@, content[position]) ELSE @,
                  !.ending = position >= Len(content)]

(* ReadOperationImpl::acknowledgementPacket(), the expected packet *)
DataAcknowledged ==
    /\ operation.kind = "read" /\ Handles({"next"})
    /\ IF operation.ending THEN Finished(operation, disk, "Successful")
                           ELSE Waits(SuppliedFrom(disk, operation), "timeout") /\ UNCHANGED disk

(* dataPacket(), acknowledgementPacket(): the packet has been handled before *)
PacketRepeated ==
    /\ Handles({"repeated"})
    /\ IF operation.kind = "read" THEN Waits(operation, "timeout")
       ELSE Waits([operation EXCEPT !.transmitCounter = 1],
                  IF operation.ending THEN "timeoutDally" ELSE "timeout")
    /\ UNCHANGED disk

(* Packets that end the operation, and receiveHandler() with an error *)
OperationFails ==
    /\ Handles({"wrong", "failed"})
    /\ Finished(operation, disk, "TransferError")

(* Mutant: the counter runs down, and is compared as if it ran up. *)
TimeoutCountingDown ==
    /\ Handles({"timeout"})
    /\ \/ /\ operation.transmitCounter > Retries \/ Faulty("send")
          /\ Finished(operation, disk, "CommunicationError")
       \/ /\ operation.transmitCounter <= Retries
          /\ operation' = [operation EXCEPT !.transmitCounter = @ - 1,
                                            !.waits = (@ \cap {"receive"}) \cup {"timeout"}]
          /\ UNCHANGED <<process, completed, disk, statistic>>

(* timeoutHandler(): a send() that fails ends the operation, too. *)
Timeout ==
    /\ Handles({"timeout"})
    /\ \/ /\ operation.transmitCounter > Retries \/ Faulty("send")
          /\ Finished(operation, disk, "CommunicationError")
       \/ /\ operation.transmitCounter <= Retries
          /\ operation' = [operation EXCEPT !.transmitCounter = @ + 1,
                                            !.waits = (@ \cap {"receive"}) \cup {"timeout"}]
          /\ UNCHANGED <<process, completed, disk, statistic>>

(* timeoutDallyHandler() *)
TimeoutDally ==
    /\ Handles({"timeoutDally"})
    /\ Finished(operation, disk, "Successful")

(* The operation the handler is bound to has been destroyed. *)
DanglingHandler ==
    /\ Runs("operation") /\ Head(queue).id # operation.id
    /\ queue' = Tail(queue)
    /\ process' = "undefined"
    /\ UNCHANGED <<world, serverVars, operationVars, statistic>>

-----------------------------------------------------------------------------
(* The dispatcher and the application *)

(* main(): configure and start the server.  A port that is in use makes start() throw. *)
Start ==
    /\ process = "starting"
    /\ \/ /\ process' = "running" /\ socket' = "open" /\ receiving' = TRUE
       \/ /\ Faulty("bind")
          /\ process' = "failure"
          /\ UNCHANGED <<socket, receiving>>
    /\ UNCHANGED <<world, signal, queue, operationVars, statistic>>

(* Mutant: the socket is closed, but what it waits for goes on. *)
StopClosesLater ==
    /\ socket' = "closed"
    /\ UNCHANGED receiving

(* stop() *)
Stop ==
    /\ socket' = "closed"
    /\ receiving' = FALSE

(* The handler of SIGINT and SIGTERM is called once. *)
SignalHandler ==
    /\ Runs("signal")
    /\ queue' = Tail(queue)
    /\ signal' = "handled"
    /\ Stop
    /\ UNCHANGED <<world, process, operationVars, statistic>>

ServerHandles(types) == Runs("server") /\ Current.type \in types

(* receive(), at the end of receiveHandler(): on a closed socket it completes with an *)
(* error, behind what is in the queue "q".                                            *)
Receive(q) ==
    /\ receiving' = (socket = "open")
    /\ queue' = IF socket = "open" THEN q ELSE Append(q, Completion("server", 0, Event("failed")))
    /\ UNCHANGED <<world, socket, signal>>

(* An exception leaves io_context::run(): main() reports it and returns EXIT_FAILURE. *)
EscapesWith(errors) ==
    /\ process' = "failure"
    /\ queue' = Tail(queue)
    /\ statistic' = [statistic EXCEPT !.errors = @ + errors]
    /\ UNCHANGED <<world, serverVars, operationVars>>

(* receiveHandler() with an error *)
ReceiveFails == ServerHandles({"failed"}) /\ EscapesWith(0)

(* Mutant: the error is sent, and the next packet is not waited for. *)
ErrorOperationAndReturn ==
    /\ statistic' = [Counted EXCEPT !.errors = @ + 1]
    /\ queue' = Tail(queue)
    /\ UNCHANGED <<world, process, serverVars, operationVars>>

(* errorOperation(), on a socket of its own; its errors are only logged. *)
ErrorOperation ==
    /\ statistic' = [Counted EXCEPT !.errors = @ + 1]
    /\ Receive(Tail(queue))
    /\ UNCHANGED <<process, operationVars>>

(* dataPacket(), acknowledgementPacket(), errorPacket(), optionsAcknowledgementPacket() *)
UnexpectedPacket == ServerHandles({"unexpected"}) /\ ErrorOperation

(* invalidPacket() *)
InvalidPacket ==
    /\ ServerHandles({"invalid"})
    /\ statistic' = Counted
    /\ Receive(Tail(queue))
    /\ UNCHANGED <<process, operationVars>>

(* readRequestPacket(), writeRequestPacket(): without a handler the request is rejected, *)
(* and the empty handler is called all the same.                                         *)
NoRequestHandler ==
    /\ ServerHandles({"RRQ", "WRQ"}) /\ ~world.handler
    /\ EscapesWith(1)

(* The application handles the request. *)
ReceivedRequest(type) == ServerHandles({type}) /\ world.handler

(* checkFilename(): within the base directory, and to be read also in existence, where a *)
(* directory passes.                                                                     *)
CheckFilename ==
    /\ Current.flaw # "path"
    /\ Current.type = "RRQ" => Current.file \in DOMAIN disk \cup {"directory"}

(* ServerImpl::readOperation(), writeOperation(), configured by the application *)
NewOperation(kind, announced) ==
    [NoOperation EXCEPT !.id = statistic.started + 1, !.kind = kind, !.file = Current.file,
                        !.announced = announced,
                        !.replaced = IF operation.kind = "write" THEN operation.file ELSE "none"]

Starts(o) ==
    /\ operation' = o
    /\ completed' = NoOperation
    /\ statistic' = [Counted EXCEPT !.started = @ + 1]
    /\ Receive(Tail(queue))
    /\ UNCHANGED process

(* Mutant: receiveFile() does not return after the error for a file it cannot open. *)
RefusedAndServed ==
    /\ ReceivedRequest("WRQ") /\ Current.file \in Files /\ Faulty("file")
    /\ operation' = [NewOperation("write", 0) EXCEPT !.waits = {"receive", "timeout"},
                                                     !.transmitCounter = 1]
    /\ completed' = NoOperation
    /\ disk' \in Closed(Truncated(disk, Current.file), operation)
    /\ statistic' = [Counted EXCEPT !.errors = @ + 1, !.started = @ + 1]
    /\ Receive(Tail(queue))
    /\ UNCHANGED process

(* receivedRequest(): the transfer mode, the name, and whether the file can be opened *)
RefusedRequest ==
    /\ ReceivedRequest("RRQ") \/ ReceivedRequest("WRQ")
    /\ \/ Current.flaw = "mode"
       \/ ~CheckFilename
       \/ Current.type = "WRQ" /\ Current.file = "directory"
       \/ Faulty("file")
    /\ ErrorOperation

(* transmitFile(): the size of a directory throws. *)
DirectoryRequest ==
    /\ ReceivedRequest("RRQ")
    /\ Current.flaw = "none" /\ Current.file = "directory"
    /\ EscapesWith(0)

(* The operation reports before it has been waiting. *)
Reports(o, status, q) ==
    /\ operation' = NoOperation
    /\ completed' = Outcome(o, status)
    /\ statistic' = [Counted EXCEPT !.started = @ + 1, !.printed = statistic.counted]
    /\ Receive(q)
    /\ UNCHANGED process

(* receive() on the closed socket of an operation that is destroyed when the application *)
(* returns from start().                                                                 *)
WithDanglingError(o) == Append(Tail(queue), Completion("operation", o.id, Event("failed")))

(* Mutant: after it has refused an option start() does not return but receives. *)
RefusesAndReceives(o) == Reports(o, "TransferError", WithDanglingError(o))

(* start() refuses an option and returns. *)
Refuses(o) == Reports(o, "TransferError", Tail(queue))

(* start() cannot send, and goes on to receive(). *)
FailsToSend(o) == Reports(o, "CommunicationError", WithDanglingError(o))

(* finished() is called for a socket that is closed, and throws although it is noexcept: *)
(* the socket cannot be opened, or the error packet of a refused option not be sent.     *)
Terminates(o) ==
    /\ process' = "terminated"
    /\ operation' = o /\ completed' = NoOperation
    /\ queue' = Tail(queue)
    /\ UNCHANGED <<world, serverVars, statistic>>

(* Mutant: the file is not truncated once more. *)
StreamKept(d, o) == d

(* StreamFile::start() *)
StreamStarted(d, o) == IF o.kind = "write" THEN Truncated(d, o.file) ELSE d

(* start() of an operation that has just been assigned to serverOperation; "first" are   *)
(* the states after its first packet, an OACK or the answer to a request without options. *)
(* The StreamFile may throw: then nothing waits, and nothing reports.                     *)
Begin(o, first, assigned) ==
    \/ /\ disk' = StreamStarted(assigned, o)
       /\ \/ \E f \in first :
                Starts([f EXCEPT !.waits = {"receive", "timeout"}, !.transmitCounter = 1])
          \/ Refuses(o)
          \/ Faulty("send") /\ (FailsToSend(o) \/ Terminates(o))
    \/ /\ disk' = assigned
       /\ \/ Faulty("file") /\ Starts(o)
          \/ Faulty("open") /\ Terminates(o)

(* transmitFile(): the size of the file is taken before the assignment destroys the *)
(* operation that may still be writing it.                                          *)
TransmitFile ==
    /\ ReceivedRequest("RRQ") /\ Current.flaw = "none" /\ Current.file \in DOMAIN disk
    /\ LET o == NewOperation("read", Len(disk[Current.file]))
       IN  \E assigned \in Closed(disk, operation) :
              Begin(o, {o, SuppliedFrom(assigned, o)}, assigned)

(* receiveFile(): the file is truncated, then the assignment destroys the operation that *)
(* may still be writing it, then start() truncates it again.                             *)
ReceiveFile ==
    /\ ReceivedRequest("WRQ") /\ Current.flaw = "none" /\ Current.file \in Files
    /\ LET o == NewOperation("write", 0)
       IN  \E assigned \in Closed(Truncated(disk, Current.file), operation) :
              Begin(o, {o}, assigned)

(* run() returns when nothing is pending any more; main() prints the statistic. *)
Exit ==
    /\ Running
    /\ queue = <<>> /\ ~receiving /\ signal = "handled" /\ operation.waits = {}
    /\ process' = "success"
    /\ statistic' = [statistic EXCEPT !.printed = statistic.counted]
    /\ UNCHANGED <<world, serverVars, queue, operationVars>>

OperationHandler ==
    \/ DataStored \/ DataAcknowledged \/ PacketRepeated
    \/ OperationFails \/ Timeout \/ TimeoutDally
    \/ SendFails \/ DanglingHandler

ServerHandler ==
    \/ UnexpectedPacket \/ InvalidPacket \/ ReceiveFails \/ NoRequestHandler
    \/ RefusedRequest \/ DirectoryRequest \/ TransmitFile \/ ReceiveFile

(* io_context::run() *)
Dispatch == OperationHandler \/ ServerHandler \/ SignalHandler

Next == \/ Start \/ ServerReceives \/ OperationReceives \/ TimerExpires \/ UserSignals
        \/ Dispatch \/ Exit

Spec == Init /\ [][Next]_vars

-----------------------------------------------------------------------------
Operation ==
    [id : Nat, kind : {"none", "read", "write"}, file : Files \cup {"none"},
     waits : SUBSET {"receive", "timeout", "timeoutDally"}, ending : BOOLEAN,
     transmitCounter : Nat, data : Seq(Chunks), flushed : Nat, good : BOOLEAN,
     announced : Nat, replaced : Files \cup {"none"},
     status : {"none", "Successful", "TransferError", "CommunicationError"}]

Completions ==
    [to : {"server", "operation", "signal"}, id : Nat,
     event : ServerEvents \cup OperationEvents
             \cup {Event(t) : t \in {"timeout", "timeoutDally", "signal"}}]

TypeOK ==
    /\ world \in World
    /\ process \in {"starting", "running", "success", "failure", "terminated", "undefined"}
    /\ socket \in {"closed", "open"} /\ receiving \in BOOLEAN
    /\ signal \in {"waiting", "queued", "handled"}
    /\ queue \in Seq(Completions)
    /\ operation \in Operation /\ completed \in Operation
    /\ DOMAIN disk \subseteq Files /\ \A f \in DOMAIN disk : disk[f] \in Seq(Chunks)
    /\ statistic \in [{"arrived", "counted", "printed", "errors", "started"} -> Nat]

(* receiveHandler(): until it is stopped the server waits for a packet, or has one in the *)
(* queue, whatever it has received: every way through its handlers ends with receive().    *)
ListensUntilStopped ==
    Running /\ signal # "handled" =>
        receiving \/ \E i \in 1 .. Len(queue) : queue[i].to = "server"

(* operationCompleted(), transmitFile(), receiveFile(): no handler runs on an operation that *)
(* has been destroyed, unless completions coincide, or send() fails and the handler goes on.  *)
NoDanglingHandler == process = "undefined" => world.coincide \/ Faulty("send")

(* receivedRequest(), stop(): no packet, no transfer and no order of events ends the process *)
(* with an error, if nothing fails, completions do not coincide, and no directory is read.   *)
KeepsRunning ==
    world.handler /\ ~world.directory /\ ~world.coincide /\ world.faults = {} =>
        process \in {"starting", "running", "success"}

(* When main() returns EXIT_SUCCESS no operation is left whose socket would be destroyed *)
(* after the io_context, as serverOperation is a static object.                          *)
NothingOutlivesMain == process = "success" /\ ~Faulty("file") => operation = NoOperation

(* receiveFile(): a file holds the chunks of one operation, from its first one on and without *)
(* a hole, also after a request has replaced an operation whose stream was not yet flushed,    *)
(* unless start() fails before it truncates the file that receiveFile() has opened.           *)
OneWriter ==
    ~Faulty("file") /\ ~Faulty("open") => \A f \in DOMAIN disk : \E id \in 0 .. statistic.started :
        disk[f] = [i \in 1 .. Len(disk[f]) |-> <<id, i>>]

(* finished(): the stream is closed before the completion handler is called, so that a write *)
(* that reports success has its file on disk.                                                 *)
SuccessIsOnDisk ==
    completed.kind = "write" /\ completed.status = "Successful" /\ ~Faulty("disk") =>
        disk[completed.file] = completed.data

(* transmitFile(): a read that reports success has sent what the file contains, and as much *)
(* as was announced, unless its request has replaced an operation that wrote the same file.  *)
SentAsAnnounced ==
    completed.kind = "read" /\ completed.status = "Successful" =>
        /\ completed.data = disk[completed.file]
        /\ completed.announced = Len(completed.data) \/ completed.replaced = completed.file

QueuedPackets(q) == {i \in 1 .. Len(q) : IsPacket(q[i].event)}

(* receiveHandler() and packet(): every packet that has been received is counted, once, when *)
(* its handler returns, and at the end of the process the statistic that is printed has all.  *)
PacketsCounted ==
    /\ Running => statistic.arrived = statistic.counted + Cardinality(QueuedPackets(queue))
    /\ process = "success" => statistic.printed = statistic.arrived

(* receivedRequest(), errorOperation(): a packet at the well-known port that can be decoded is *)
(* answered by one error or by one operation, never by both; it remains without an answer only  *)
(* if its handler ends the process.                                                             *)
AnsweredOnce ==
    [][Runs("server") /\ Current.type \in {"unexpected", "RRQ", "WRQ"} /\ Dispatch =>
         LET before == statistic.errors + statistic.started
             after  == statistic'.errors + statistic'.started
         IN  after = before + 1 \/ (after = before /\ ~Running')]_vars

(* The steps of the process, as long as packets are limited. *)
Fairness == WF_vars(Dispatch) /\ WF_vars(TimerExpires) /\ WF_vars(Exit)

FairSpec == Spec /\ Fairness

(* stop(): the process ends after it has been told to, when the operation it runs has ended. *)
StopEndsServer == signal = "handled" ~> ~Running

=============================================================================
