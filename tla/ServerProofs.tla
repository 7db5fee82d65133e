---------------------------- MODULE ServerProofs ----------------------------
(***************************************************************************)
(* Proofs about the server process: for every number of packets, files,    *)
(* operations and chunks, and whatever may fail.                           *)
(***************************************************************************)
EXTENDS Server, SequenceTheorems, FiniteSetTheorems, TLAPS

DiskType(d) == DOMAIN d \subseteq Files /\ \A f \in DOMAIN d : d[f] \in Seq(Chunks)

Statistics == [{"arrived", "counted", "printed", "errors", "started"} -> Nat]

(* The operation that sends a file has one. *)
ReadsFile == operation.kind = "read" => operation.file \in DOMAIN disk

TypeInv == TypeOK /\ ReadsFile

-----------------------------------------------------------------------------
(* What reaches the queue is a completion. *)
LEMMA CompletionTypes ==
    /\ \A event \in ServerEvents : Completion("server", 0, event) \in Completions
    /\ \A id \in Nat, event \in OperationEvents : Completion("operation", id, event) \in Completions
    /\ \A id \in Nat, t \in {"timeout", "timeoutDally"} :
          Completion("operation", id, Event(t)) \in Completions
    /\ Completion("signal", 0, Event("signal")) \in Completions
    /\ Completion("server", 0, Event("failed")) \in Completions
    /\ \A id \in Nat : Completion("operation", id, Event("failed")) \in Completions
<1>1. Event("failed") \in ServerEvents /\ Event("failed") \in OperationEvents
    BY DEF ServerEvents, OperationEvents
<1>2. \A id \in Nat, event \in ServerEvents \cup OperationEvents
                              \cup {Event(t) : t \in {"timeout", "timeoutDally", "signal"}} :
         \A to \in {"server", "operation", "signal"} : Completion(to, id, event) \in Completions
    BY DEF Completion, Completions
<1> QED BY <1>1, <1>2

(* The queue keeps its type when a completion is added, removed, or both. *)
LEMMA QueueTypes ==
    ASSUME queue \in Seq(Completions), NEW c \in Completions
    PROVE  /\ Append(queue, c) \in Seq(Completions)
           /\ queue # <<>> => /\ Tail(queue) \in Seq(Completions)
                              /\ Append(Tail(queue), c) \in Seq(Completions)
                              /\ Head(queue) \in Completions
OBVIOUS

(* A stream that writes leaves a sequence of chunks. *)
LEMMA WriteAtType ==
    ASSUME NEW content \in Seq(Chunks), NEW position \in Nat, NEW chunks \in Seq(Chunks)
    PROVE  WriteAt(content, position, chunks) \in Seq(Chunks)
<1> DEFINE end  == position + Len(chunks)
           size == IF Len(content) > end THEN Len(content) ELSE end
           Cell(i) == IF i > position /\ i <= end THEN chunks[i - position]
                      ELSE IF i <= Len(content) THEN content[i] ELSE Hole
<1>1. end \in Nat /\ size \in Nat
    OBVIOUS
<1>2. ASSUME NEW i \in 1 .. size PROVE Cell(i) \in Chunks
    <2>1. CASE i > position /\ i <= end
        BY <2>1, <1>1, ElementOfSeq
    <2>2. CASE ~(i > position /\ i <= end) /\ i <= Len(content)
        BY <2>2, <1>1, ElementOfSeq
    <2>3. CASE ~(i > position /\ i <= end) /\ ~(i <= Len(content))
        BY <2>3 DEF Hole, Chunks
    <2> QED BY <2>1, <2>2, <2>3
<1> HIDE DEF size, Cell
<1>3. [i \in 1 .. size |-> Cell(i)] \in Seq(Chunks)
    BY <1>1, <1>2, IsASeq
<1> QED BY <1>3 DEF WriteAt, size, Cell

(* Flushing a stream leaves a disk, with the same files. *)
LEMMA FlushType ==
    ASSUME NEW d, DiskType(d), NEW o \in Operation
    PROVE  DiskType(Flush(d, o)) /\ DOMAIN Flush(d, o) = DOMAIN d
<1>1. CASE ~Unflushed(o)
    BY <1>1 DEF Flush
<1>2. CASE Unflushed(o)
    <2> DEFINE rest == SubSeq(o.data, o.flushed + 1, Len(o.data))
    <2>1. o.data \in Seq(Chunks) /\ o.flushed \in Nat
        BY DEF Operation
    <2>2. rest \in Seq(Chunks)
        BY <2>1
    <2>3. Flush(d, o) = [d EXCEPT ![o.file] = WriteAt(@, o.flushed, rest)]
        BY <1>2 DEF Flush
    <2> HIDE DEF rest
    <2>4. \A f \in DOMAIN d : WriteAt(d[f], o.flushed, rest) \in Seq(Chunks)
        BY <2>1, <2>2, WriteAtType DEF DiskType
    <2> QED BY <2>3, <2>4 DEF DiskType
<1> QED BY <1>1, <1>2

(* So does closing it. *)
LEMMA ClosedType ==
    ASSUME NEW d, DiskType(d), NEW o \in Operation, NEW e \in Closed(d, o)
    PROVE  DiskType(e) /\ DOMAIN e = DOMAIN d
BY FlushType DEF Closed

(* Opening a file to be written adds it to the disk if it is missing. *)
LEMMA TruncatedType ==
    ASSUME NEW d, DiskType(d), NEW f \in Files
    PROVE  DiskType(Truncated(d, f)) /\ DOMAIN Truncated(d, f) = DOMAIN d \cup {f}
BY DEF DiskType, Truncated

(* receivedData() changes only what the operation has written. *)
LEMMA ReceivedDataType ==
    ASSUME NEW d, DiskType(d), NEW o \in Operation, NEW chunk \in Chunks,
           NEW r \in ReceivedData(d, o, chunk)
    PROVE  /\ DiskType(r[1]) /\ DOMAIN r[1] = DOMAIN d
           /\ r[2] \in Operation
           /\ r[2].kind = o.kind /\ r[2].file = o.file /\ r[2].id = o.id
<1> DEFINE written == [o EXCEPT !.data = Append(@, chunk)]
<1>1. o.data \in Seq(Chunks)
    BY DEF Operation
<1>2. Append(o.data, chunk) \in Seq(Chunks)
    BY <1>1
<1>3. /\ written \in Operation /\ written.kind = o.kind /\ written.file = o.file
      /\ written.id = o.id /\ written.data = Append(o.data, chunk)
    BY <1>2 DEF Operation
<1> HIDE DEF written
<1>4. Len(written.data) \in Nat
    BY <1>2, <1>3
<1>5. DiskType(Flush(d, written)) /\ DOMAIN Flush(d, written) = DOMAIN d
    BY <1>3, FlushType
<1>6. \/ r = <<d, written>>
      \/ r = <<Flush(d, written), [written EXCEPT !.flushed = Len(written.data)]>>
      \/ r = <<d, [written EXCEPT !.good = FALSE]>>
    BY DEF ReceivedData, written
<1>7. CASE r = <<d, written>>
    BY <1>3, <1>7
<1>8. CASE r = <<Flush(d, written), [written EXCEPT !.flushed = Len(written.data)]>>
    BY <1>3, <1>4, <1>5, <1>8 DEF Operation
<1>9. CASE r = <<d, [written EXCEPT !.good = FALSE]>>
    BY <1>3, <1>9 DEF Operation
<1> QED BY <1>6, <1>7, <1>8, <1>9

(* sendData() changes only what the operation has sent. *)
LEMMA SuppliedFromType ==
    ASSUME NEW d, DiskType(d), NEW o \in Operation, o.file \in DOMAIN d
    PROVE  /\ SuppliedFrom(d, o) \in Operation
           /\ SuppliedFrom(d, o).kind = o.kind /\ SuppliedFrom(d, o).file = o.file
           /\ SuppliedFrom(d, o).id = o.id
<1> DEFINE position == Len(o.data) + 1
           content  == d[o.file]
           supplied == IF position <= Len(content) THEN Append(o.data, content[position]) ELSE o.data
           ends     == position >= Len(content)
<1>1. o.data \in Seq(Chunks) /\ content \in Seq(Chunks)
    BY DEF Operation, DiskType
<1>2. supplied \in Seq(Chunks)
    BY <1>1, ElementOfSeq
<1>3. ends \in BOOLEAN
    OBVIOUS
<1>4. SuppliedFrom(d, o) = [o EXCEPT !.transmitCounter = 1, !.data = supplied,
                                     !.ending = ends]
    BY DEF SuppliedFrom, Operation
<1> HIDE DEF supplied, ends, position, content
<1>5. [o EXCEPT !.transmitCounter = 1] \in Operation
    BY DEF Operation
<1>6. [[o EXCEPT !.transmitCounter = 1] EXCEPT !.data = supplied] \in Operation
    BY <1>2, <1>5 DEF Operation
<1>7. [[[o EXCEPT !.transmitCounter = 1] EXCEPT !.data = supplied] EXCEPT !.ending = ends] \in Operation
    BY <1>3, <1>6 DEF Operation
<1>8. SuppliedFrom(d, o) = [[[o EXCEPT !.transmitCounter = 1] EXCEPT !.data = supplied] EXCEPT !.ending = ends]
    BY <1>4 DEF Operation
<1>9. SuppliedFrom(d, o).kind = o.kind /\ SuppliedFrom(d, o).file = o.file /\ SuppliedFrom(d, o).id = o.id
    BY <1>4 DEF Operation
<1> QED BY <1>7, <1>8, <1>9

(* What is remembered of an operation is one. *)
LEMMA OutcomeType ==
    ASSUME NEW o \in Operation,
           NEW status \in {"Successful", "TransferError", "CommunicationError"}
    PROVE  Outcome(o, status) \in Operation
BY DEF Operation, Outcome

(* The empty pointer is one, too. *)
LEMMA NoOperationType == NoOperation \in Operation
BY DEF Operation, NoOperation

-----------------------------------------------------------------------------
(* The two halves of the type invariant *)
ControlType ==
    /\ world \in World
    /\ process \in {"starting", "running", "success", "failure", "terminated", "undefined"}
    /\ socket \in {"closed", "open"} /\ receiving \in BOOLEAN
    /\ signal \in {"waiting", "queued", "handled"}
    /\ queue \in Seq(Completions)
    /\ statistic \in Statistics

FilesType ==
    /\ operation \in Operation /\ completed \in Operation
    /\ DiskType(disk)
    /\ ReadsFile

(* The invariant is the conjunction of the two. *)
LEMMA TypeHalves == TypeInv <=> ControlType /\ FilesType
BY DEF TypeInv, TypeOK, ControlType, FilesType, DiskType, Statistics

(* The process starts with them. *)
LEMMA TypeInit == Init => TypeInv
<1> SUFFICES ASSUME Init PROVE TypeInv
    OBVIOUS
<1>0. <<>> \in Seq(Completions)
    OBVIOUS
<1>1. ControlType
    <2>1. statistic \in Statistics
        BY DEF Init, Statistics
    <2>2. world \in World
        BY ServerAssumption DEF Init
    <2> QED BY <1>0, <2>1, <2>2 DEF Init, ControlType
<1>2. FilesType
    BY NoOperationType, ServerAssumption DEF Init, FilesType, DiskType, ReadsFile, NoOperation
<1> QED BY <1>1, <1>2, TypeHalves

(* The updates of the statistic that the handlers make. *)
LEMMA StatisticTypes ==
    ASSUME NEW s \in Statistics, NEW n \in Nat
    PROVE  /\ [s EXCEPT !.arrived = @ + 1] \in Statistics
           /\ [s EXCEPT !.errors = @ + n] \in Statistics
           /\ [s EXCEPT !.started = @ + 1] \in Statistics
           /\ [s EXCEPT !.printed = n] \in Statistics
           /\ s.counted \in Nat /\ s.started \in Nat
BY DEF Statistics

(* packet() counts a packet or leaves the statistic alone. *)
LEMMA CountedType ==
    ASSUME statistic \in Statistics
    PROVE  Counted \in Statistics
BY DEF Counted, Statistics

(* receive() changes the queue and the pending flag only. *)
LEMMA ReceiveType ==
    ASSUME ControlType, NEW q \in Seq(Completions), Receive(q)
    PROVE  /\ queue' \in Seq(Completions) /\ receiving' \in BOOLEAN
           /\ world' = world /\ socket' = socket /\ signal' = signal
<1>1. Append(q, Completion("server", 0, Event("failed"))) \in Seq(Completions)
    BY CompletionTypes
<1> QED BY <1>1 DEF Receive

(* A handler of the operation starts with Handles(). *)
LEMMA HandlesType ==
    ASSUME ControlType, NEW types, Handles(types)
    PROVE  /\ queue' \in Seq(Completions)
           /\ world' = world /\ socket' = socket /\ receiving' = receiving /\ signal' = signal
BY QueueTypes DEF Handles, Runs, serverVars, ControlType

(* A handler that goes on waiting keeps the kind and the file of its operation. *)
LEMMA WaitsType ==
    ASSUME TypeInv, NEW o \in Operation, NEW timer \in {"timeout", "timeoutDally"}, Waits(o, timer)
    PROVE  /\ operation' \in Operation /\ operation'.kind = o.kind /\ operation'.file = o.file
           /\ completed' \in Operation /\ statistic' \in Statistics /\ process' = process
<1>1. /\ [o EXCEPT !.waits = {"receive", timer}] \in Operation
      /\ [o EXCEPT !.waits = {"receive", timer}].kind = o.kind
      /\ [o EXCEPT !.waits = {"receive", timer}].file = o.file
    BY DEF Operation
<1>2. Counted \in Statistics /\ completed \in Operation
    BY CountedType, TypeHalves DEF FilesType, ControlType
<1> QED BY <1>1, <1>2 DEF Waits

(* A handler that reports leaves no operation behind. *)
LEMMA FinishedType ==
    ASSUME TypeInv, NEW o \in Operation, NEW d, DiskType(d),
           NEW status \in {"Successful", "TransferError", "CommunicationError"}, Finished(o, d, status)
    PROVE  FilesType' /\ statistic' \in Statistics /\ process' = process
<1>1. DiskType(disk')
    BY ClosedType DEF Finished
<1>2. operation' = NoOperation /\ completed' \in Operation
    BY OutcomeType DEF Finished
<1>3. statistic' \in Statistics
    <2>1. statistic \in Statistics
        BY TypeHalves DEF ControlType
    <2>2. Counted \in Statistics /\ statistic.counted \in Nat
        BY <2>1, CountedType, StatisticTypes
    <2> QED BY <2>2, StatisticTypes DEF Finished
<1> QED BY <1>1, <1>2, <1>3, NoOperationType DEF FilesType, ReadsFile, NoOperation, DiskType, Finished

(* Steps that leave the operation and the files alone *)
LEMMA FilesUnchanged ==
    ASSUME FilesType, UNCHANGED operationVars
    PROVE  FilesType'
BY DEF FilesType, operationVars, ReadsFile, DiskType

-----------------------------------------------------------------------------
(* Steps of the environment, and of the operation *)
LEMMA ArriveTypes ==
    ASSUME ControlType, NEW c \in Completions, Arrive(c)
    PROVE  queue' \in Seq(Completions) /\ statistic' \in Statistics
<1>1. queue \in Seq(Completions) /\ statistic \in Statistics
    BY DEF ControlType
<1>2. Append(queue, c) \in Seq(Completions)
    BY <1>1, QueueTypes
<1>3. [statistic EXCEPT !.arrived = @ + 1] \in Statistics
    BY <1>1, StatisticTypes
<1> QED BY <1>1, <1>2, <1>3 DEF Arrive

(* Packets, timers and the signal keep the types. *)
LEMMA TypeArrivals ==
    ASSUME TypeInv, ServerReceives \/ OperationReceives \/ TimerExpires \/ UserSignals
    PROVE  TypeInv'
<1>0. ControlType /\ FilesType
    BY TypeHalves
<1>1. CASE ServerReceives
    <2>1. PICK event \in ServerEvents : Arrive(Completion("server", 0, event))
        BY <1>1 DEF ServerReceives
    <2>2. queue' \in Seq(Completions) /\ statistic' \in Statistics
        BY <1>0, <2>1, ArriveTypes, CompletionTypes
    <2>3. ControlType'
        BY <1>0, <1>1, <2>2 DEF ServerReceives, ControlType
    <2>4. FilesType'
        BY <1>0, <1>1, FilesUnchanged DEF ServerReceives
    <2> QED BY <2>3, <2>4, TypeHalves DEF TypeInv, TypeOK, ControlType, FilesType, DiskType, Statistics
<1>2. CASE OperationReceives
    <2>0. operation.id \in Nat
        BY <1>0 DEF FilesType, Operation
    <2>1. PICK event \in OperationEvents : Arrive(Completion("operation", operation.id, event))
        BY <1>2 DEF OperationReceives
    <2>2. queue' \in Seq(Completions) /\ statistic' \in Statistics
        BY <1>0, <2>0, <2>1, ArriveTypes, CompletionTypes
    <2>3. ControlType'
        BY <1>0, <1>2, <2>2 DEF OperationReceives, ControlType, serverVars
    <2>4. /\ operation' \in Operation /\ operation'.kind = operation.kind
          /\ operation'.file = operation.file
        BY <1>0, <1>2 DEF OperationReceives, FilesType, Operation
    <2>5. FilesType'
        BY <1>0, <1>2, <2>4 DEF OperationReceives, FilesType, ReadsFile, DiskType
    <2> QED BY <2>3, <2>5 DEF TypeInv, TypeOK, ControlType, FilesType, DiskType, Statistics
<1>3. CASE TimerExpires
    <2>0. operation.id \in Nat /\ operation.waits \subseteq {"receive", "timeout", "timeoutDally"}
        BY <1>0 DEF FilesType, Operation
    <2>1. PICK timer \in operation.waits \ {"receive"} :
             /\ queue' = Append(queue, Completion("operation", operation.id, Event(timer)))
             /\ operation' = [operation EXCEPT !.waits = @ \ {timer}]
        BY <1>3 DEF TimerExpires
    <2>2. Completion("operation", operation.id, Event(timer)) \in Completions
        BY <2>0, CompletionTypes
    <2>3. queue' \in Seq(Completions)
        BY <1>0, <2>1, <2>2, QueueTypes DEF ControlType
    <2>4. ControlType'
        BY <1>0, <1>3, <2>3 DEF TimerExpires, ControlType, serverVars
    <2>5. /\ operation' \in Operation /\ operation'.kind = operation.kind
          /\ operation'.file = operation.file
        BY <1>0, <2>1 DEF FilesType, Operation
    <2>6. FilesType'
        BY <1>0, <1>3, <2>5 DEF TimerExpires, FilesType, ReadsFile, DiskType
    <2> QED BY <2>4, <2>6 DEF TypeInv, TypeOK, ControlType, FilesType, DiskType, Statistics
<1>4. CASE UserSignals
    <2>1. queue' \in Seq(Completions)
        BY <1>0, <1>4, CompletionTypes, QueueTypes DEF UserSignals, ControlType
    <2>2. ControlType'
        BY <1>0, <1>4, <2>1 DEF UserSignals, ControlType
    <2>3. FilesType'
        BY <1>0, <1>4, FilesUnchanged DEF UserSignals
    <2> QED BY <2>2, <2>3 DEF TypeInv, TypeOK, ControlType, FilesType, DiskType, Statistics
<1> QED BY <1>1, <1>2, <1>3, <1>4

(* After a handler of the operation the types follow from the parts it changes. *)
LEMMA AfterHandler ==
    ASSUME ControlType, NEW types, Handles(types), statistic' \in Statistics,
           process' \in {"running", "undefined"}, FilesType'
    PROVE  TypeInv'
<1>1. ControlType'
    BY HandlesType DEF ControlType
<1> QED BY <1>1 DEF TypeInv, TypeOK, ControlType, FilesType, DiskType, Statistics

(* The same, for a handler that goes on waiting. *)
LEMMA AfterWaits ==
    ASSUME TypeInv, NEW types, Handles(types), NEW o \in Operation,
           NEW timer \in {"timeout", "timeoutDally"}, Waits(o, timer),
           DiskType(disk'), o.kind = "read" => o.file \in DOMAIN disk'
    PROVE  TypeInv'
<1>1. /\ operation' \in Operation /\ operation'.kind = o.kind /\ operation'.file = o.file
      /\ completed' \in Operation /\ statistic' \in Statistics /\ process' = "running"
    BY WaitsType DEF Handles, Runs, Running
<1>2. FilesType'
    BY <1>1 DEF FilesType, ReadsFile, DiskType
<1> QED BY <1>1, <1>2, AfterHandler, TypeHalves

(* The same, for a handler that reports. *)
LEMMA AfterFinished ==
    ASSUME TypeInv, NEW types, Handles(types), NEW o \in Operation, NEW d, DiskType(d),
           NEW status \in {"Successful", "TransferError", "CommunicationError"}, Finished(o, d, status)
    PROVE  TypeInv'
<1>1. FilesType' /\ statistic' \in Statistics /\ process' = "running"
    BY FinishedType DEF Handles, Runs, Running
<1> QED BY <1>1, AfterHandler, TypeHalves

(* dataPacket(), a new packet *)
LEMMA TypeDataStored == ASSUME TypeInv, DataStored PROVE TypeInv'
<1>0. ControlType /\ FilesType /\ DiskType(disk) /\ operation \in Operation
    BY TypeHalves DEF FilesType
<1>1. Handles({"next", "last"}) /\ operation.kind = "write"
    BY DEF DataStored
<1> DEFINE chunk == <<operation.id, Len(operation.data) + 1>>
<1>2. chunk \in Chunks
    <2>1. operation.id \in Nat /\ operation.data \in Seq(Chunks)
        BY <1>0 DEF Operation
    <2>2. Len(operation.data) + 1 \in Nat
        BY <2>1
    <2> QED BY <2>1, <2>2 DEF Chunks
<1>3. PICK r \in ReceivedData(disk, operation, chunk) :
         IF Current.type = "next"
         THEN disk' = r[1] /\ Waits([r[2] EXCEPT !.transmitCounter = 1], "timeout")
         ELSE IF world.dally
         THEN disk' = r[1] /\ Waits([r[2] EXCEPT !.transmitCounter = 1, !.ending = TRUE], "timeoutDally")
         ELSE Finished(r[2], r[1], "Successful")
    BY DEF DataStored
<1> HIDE DEF chunk
<1>4. /\ DiskType(r[1]) /\ DOMAIN r[1] = DOMAIN disk
      /\ r[2] \in Operation /\ r[2].kind = "write" /\ r[2].file = operation.file
    BY <1>0, <1>1, <1>2, ReceivedDataType
<1>5. CASE disk' = r[1] /\ Waits([r[2] EXCEPT !.transmitCounter = 1], "timeout")
    <2>1. [r[2] EXCEPT !.transmitCounter = 1] \in Operation
          /\ [r[2] EXCEPT !.transmitCounter = 1].kind = "write"
        BY <1>4 DEF Operation
    <2> QED BY <1>1, <1>4, <1>5, <2>1, AfterWaits
<1>6. CASE disk' = r[1] /\ Waits([r[2] EXCEPT !.transmitCounter = 1, !.ending = TRUE], "timeoutDally")
    <2>1. [r[2] EXCEPT !.transmitCounter = 1, !.ending = TRUE] \in Operation
          /\ [r[2] EXCEPT !.transmitCounter = 1, !.ending = TRUE].kind = "write"
        BY <1>4 DEF Operation
    <2> QED BY <1>1, <1>4, <1>6, <2>1, AfterWaits
<1>7. CASE Finished(r[2], r[1], "Successful")
    BY <1>1, <1>4, <1>7, AfterFinished
<1> QED BY <1>3, <1>5, <1>6, <1>7

(* acknowledgementPacket(), the expected packet *)
LEMMA TypeDataAcknowledged == ASSUME TypeInv, DataAcknowledged PROVE TypeInv'
<1>0. ControlType /\ FilesType /\ DiskType(disk) /\ operation \in Operation
    BY TypeHalves DEF FilesType
<1>1. Handles({"next"}) /\ operation.kind = "read" /\ operation.file \in DOMAIN disk
    BY <1>0 DEF DataAcknowledged, FilesType, ReadsFile
<1>2. CASE Finished(operation, disk, "Successful")
    BY <1>0, <1>1, <1>2, AfterFinished
<1>3. CASE Waits(SuppliedFrom(disk, operation), "timeout") /\ UNCHANGED disk
    <2>1. /\ SuppliedFrom(disk, operation) \in Operation
          /\ SuppliedFrom(disk, operation).file = operation.file
        BY <1>0, <1>1, SuppliedFromType
    <2> QED BY <1>0, <1>1, <1>3, <2>1, AfterWaits
<1> QED BY <1>2, <1>3 DEF DataAcknowledged

(* A packet that has been handled before *)
LEMMA TypePacketRepeated == ASSUME TypeInv, PacketRepeated PROVE TypeInv'
<1>0. ControlType /\ FilesType /\ DiskType(disk) /\ operation \in Operation /\ UNCHANGED disk
    BY TypeHalves DEF FilesType, PacketRepeated
<1>1. Handles({"repeated"}) /\ (operation.kind = "read" => operation.file \in DOMAIN disk)
    BY <1>0 DEF PacketRepeated, FilesType, ReadsFile
<1>2. CASE operation.kind = "read" /\ Waits(operation, "timeout")
    BY <1>0, <1>1, <1>2, AfterWaits
<1>3. CASE operation.kind # "read" /\ Waits([operation EXCEPT !.transmitCounter = 1],
                                            IF operation.ending THEN "timeoutDally" ELSE "timeout")
    <2>1. /\ [operation EXCEPT !.transmitCounter = 1] \in Operation
          /\ [operation EXCEPT !.transmitCounter = 1].kind # "read"
        BY <1>0, <1>3 DEF Operation
    <2>2. (IF operation.ending THEN "timeoutDally" ELSE "timeout") \in {"timeout", "timeoutDally"}
        OBVIOUS
    <2> QED BY <1>0, <1>1, <1>3, <2>1, <2>2, AfterWaits
<1> QED BY <1>2, <1>3 DEF PacketRepeated

(* timeoutHandler() *)
LEMMA TypeTimeout == ASSUME TypeInv, Timeout PROVE TypeInv'
<1>0. ControlType /\ FilesType /\ DiskType(disk) /\ operation \in Operation
    BY TypeHalves DEF FilesType
<1>1. Handles({"timeout"})
    BY DEF Timeout
<1>2. CASE Finished(operation, disk, "CommunicationError")
    BY <1>0, <1>1, <1>2, AfterFinished
<1>3. CASE /\ operation' = [operation EXCEPT !.transmitCounter = @ + 1,
                                             !.waits = (@ \cap {"receive"}) \cup {"timeout"}]
           /\ UNCHANGED <<process, completed, disk, statistic>>
    <2> DEFINE counted == operation.transmitCounter + 1
               waits   == (operation.waits \cap {"receive"}) \cup {"timeout"}
    <2>1. counted \in Nat /\ waits \in SUBSET {"receive", "timeout", "timeoutDally"}
        BY <1>0 DEF Operation
    <2>2. operation' = [operation EXCEPT !.transmitCounter = counted, !.waits = waits]
        BY <1>0, <1>3 DEF Operation
    <2> HIDE DEF counted, waits
    <2>3. /\ operation' \in Operation /\ operation'.kind = operation.kind
          /\ operation'.file = operation.file
        BY <1>0, <2>1, <2>2 DEF Operation
    <2>4. FilesType'
        BY <1>0, <1>3, <2>3 DEF FilesType, ReadsFile, DiskType
    <2>5. statistic' \in Statistics /\ process' = "running"
        BY <1>0, <1>1, <1>3 DEF ControlType, Handles, Runs, Running
    <2> QED BY <1>0, <1>1, <2>4, <2>5, AfterHandler
<1> QED BY <1>2, <1>3 DEF Timeout

(* Every handler of the operation keeps the types. *)
LEMMA TypeOperationHandler == ASSUME TypeInv, OperationHandler PROVE TypeInv'
<1>0. ControlType /\ FilesType /\ DiskType(disk) /\ operation \in Operation
    BY TypeHalves DEF FilesType
<1>1. CASE OperationFails
    BY <1>0, <1>1, AfterFinished DEF OperationFails
<1>2. CASE TimeoutDally
    BY <1>0, <1>2, AfterFinished DEF TimeoutDally
<1>3. CASE SendFails
    <2>1. FilesType' /\ statistic' \in Statistics /\ process' = "undefined"
        BY <1>0, <1>3, FilesUnchanged DEF SendFails, ControlType
    <2>2. \/ Handles({"next", "last", "repeated", "wrong"})
          \/ Handles({"next", "wrong"})
        BY <1>3 DEF SendFails
    <2> QED BY <1>0, <2>1, <2>2, AfterHandler
<1>4. CASE DanglingHandler
    <2>1. FilesType' /\ statistic' \in Statistics /\ process' = "undefined"
        BY <1>0, <1>4, FilesUnchanged DEF DanglingHandler, ControlType
    <2>2. queue' \in Seq(Completions)
        BY <1>0, <1>4, QueueTypes DEF DanglingHandler, Runs, ControlType
    <2>3. ControlType'
        BY <1>0, <1>4, <2>1, <2>2 DEF DanglingHandler, ControlType, serverVars
    <2> QED BY <2>1, <2>3 DEF TypeInv, TypeOK, ControlType, FilesType, DiskType, Statistics
<1> QED BY <1>1, <1>2, <1>3, <1>4, TypeDataStored, TypeDataAcknowledged, TypePacketRepeated, TypeTimeout
        DEF OperationHandler

-----------------------------------------------------------------------------
(* Steps of the dispatcher and of the application *)
LEMMA AfterReceive ==
    ASSUME ControlType, NEW q \in Seq(Completions), Receive(q), process' = process,
           statistic' \in Statistics, FilesType'
    PROVE  TypeInv'
<1>1. ControlType'
    BY ReceiveType DEF ControlType
<1> QED BY <1>1 DEF TypeInv, TypeOK, ControlType, FilesType, DiskType, Statistics

(* An exception that leaves run() keeps the types. *)
LEMMA AfterEscape ==
    ASSUME TypeInv, NEW errors \in Nat, queue # <<>>, EscapesWith(errors)
    PROVE  TypeInv'
<1>0. ControlType /\ FilesType
    BY TypeHalves
<1>1. queue' \in Seq(Completions)
    BY <1>0, QueueTypes DEF EscapesWith, ControlType
<1>2. statistic' \in Statistics
    BY <1>0, StatisticTypes DEF EscapesWith, ControlType
<1>3. ControlType' /\ FilesType'
    BY <1>0, <1>1, <1>2, FilesUnchanged DEF EscapesWith, ControlType, serverVars
<1> QED BY <1>3 DEF TypeInv, TypeOK, ControlType, FilesType, DiskType, Statistics

(* An error that is sent keeps the types. *)
LEMMA AfterError ==
    ASSUME TypeInv, queue # <<>>, ErrorOperation
    PROVE  TypeInv'
<1>0. ControlType /\ FilesType
    BY TypeHalves
<1>1. Tail(queue) \in Seq(Completions)
    BY <1>0, QueueTypes DEF ControlType
<1>2. statistic' \in Statistics
    BY <1>0, CountedType, StatisticTypes DEF ErrorOperation, ControlType
<1>3. FilesType'
    BY <1>0, FilesUnchanged DEF ErrorOperation
<1> QED BY <1>0, <1>1, <1>2, <1>3, AfterReceive DEF ErrorOperation

(* An operation that has just been created. *)
LEMMA NewOperationType ==
    ASSUME TypeInv, Current.file \in Files, NEW kind \in {"read", "write"}, NEW announced \in Nat
    PROVE  /\ NewOperation(kind, announced) \in Operation
           /\ NewOperation(kind, announced).kind = kind
           /\ NewOperation(kind, announced).file = Current.file
           /\ NewOperation(kind, announced).id = statistic.started + 1
           /\ NewOperation(kind, announced).data = <<>>
<1> DEFINE replaced == IF operation.kind = "write" THEN operation.file ELSE "none"
           id       == statistic.started + 1
<1>1. id \in Nat
    <2>1. statistic \in Statistics
        BY TypeHalves DEF ControlType
    <2> QED BY <2>1 DEF Statistics
<1>2. replaced \in Files \cup {"none"}
    BY TypeHalves DEF FilesType, Operation
<1> DEFINE f == Current.file
<1>3. NewOperation(kind, announced) =
        [[[[[NoOperation EXCEPT !.id = id] EXCEPT !.kind = kind] EXCEPT !.file = f]
            EXCEPT !.announced = announced] EXCEPT !.replaced = replaced]
    BY DEF NewOperation
<1>4. f \in Files
    OBVIOUS
<1> HIDE DEF id, replaced, f
<1>5. [NoOperation EXCEPT !.id = id] \in Operation
    BY <1>1, NoOperationType DEF Operation
<1>6. [[NoOperation EXCEPT !.id = id] EXCEPT !.kind = kind] \in Operation
    BY <1>5 DEF Operation
<1>7. [[[NoOperation EXCEPT !.id = id] EXCEPT !.kind = kind] EXCEPT !.file = f] \in Operation
    BY <1>4, <1>6 DEF Operation
<1> DEFINE o == [[[[NoOperation EXCEPT !.id = id] EXCEPT !.kind = kind] EXCEPT !.file = f]
                    EXCEPT !.announced = announced]
<1>8. o \in Operation
    BY <1>7 DEF Operation
<1>9. NewOperation(kind, announced) \in Operation
    <2>1. NewOperation(kind, announced) = [o EXCEPT !.replaced = replaced]
        BY <1>3
    <2> HIDE DEF o
    <2>2. [o EXCEPT !.replaced = replaced] \in Operation
        BY <1>2, <1>8 DEF Operation
    <2> QED BY <2>1, <2>2
<1>10. /\ NewOperation(kind, announced).kind = kind
       /\ NewOperation(kind, announced).file = f
       /\ NewOperation(kind, announced).id = id
       /\ NewOperation(kind, announced).data = <<>>
    BY DEF NewOperation, NoOperation, f, id
<1> QED BY <1>9, <1>10 DEF id, f

(* An operation that starts keeps the types. *)
LEMMA StartsType ==
    ASSUME TypeInv, queue # <<>>, Running, NEW o \in Operation, Starts(o), DiskType(disk'),
           o.kind = "read" => o.file \in DOMAIN disk'
    PROVE  TypeInv'
<1>0. ControlType /\ FilesType
    BY TypeHalves
<1>1. Tail(queue) \in Seq(Completions)
    BY <1>0, QueueTypes DEF ControlType
<1>2. statistic' \in Statistics
    BY <1>0, CountedType, StatisticTypes DEF Starts, ControlType
<1>3. FilesType'
    BY NoOperationType DEF Starts, FilesType, ReadsFile, DiskType
<1> QED BY <1>0, <1>1, <1>2, <1>3, AfterReceive DEF Starts

(* An operation that reports in start() keeps the types. *)
LEMMA ReportsType ==
    ASSUME TypeInv, queue # <<>>, NEW o \in Operation, DiskType(disk'),
           NEW status \in {"TransferError", "CommunicationError"},
           NEW q \in Seq(Completions), Reports(o, status, q)
    PROVE  TypeInv'
<1>0. ControlType /\ FilesType
    BY TypeHalves
<1>1. statistic' \in Statistics
    <2>1. Counted \in Statistics /\ statistic.counted \in Nat
        BY <1>0, CountedType, StatisticTypes DEF ControlType
    <2>2. [Counted EXCEPT !.started = @ + 1] \in Statistics
        BY <2>1, StatisticTypes
    <2>3. [[Counted EXCEPT !.started = @ + 1] EXCEPT !.printed = statistic.counted] \in Statistics
        BY <2>1, <2>2, StatisticTypes
    <2>4. statistic' = [[Counted EXCEPT !.started = @ + 1] EXCEPT !.printed = statistic.counted]
        BY <2>1 DEF Reports, Statistics
    <2> QED BY <2>3, <2>4
<1>2. operation' = NoOperation /\ completed' \in Operation
    BY OutcomeType DEF Reports
<1>3. FilesType'
    BY <1>2, NoOperationType DEF FilesType, ReadsFile, DiskType, NoOperation
<1> QED BY <1>0, <1>1, <1>3, AfterReceive DEF Reports

(* The end of the process in start() keeps the types. *)
LEMMA TerminatesType ==
    ASSUME TypeInv, queue # <<>>, NEW o \in Operation, Terminates(o), DiskType(disk'),
           o.kind = "read" => o.file \in DOMAIN disk'
    PROVE  TypeInv'
<1>0. ControlType /\ FilesType
    BY TypeHalves
<1>1. queue' \in Seq(Completions)
    BY <1>0, QueueTypes DEF Terminates, ControlType
<1>2. ControlType'
    BY <1>0, <1>1 DEF Terminates, ControlType, serverVars
<1>3. FilesType'
    BY NoOperationType DEF Terminates, FilesType, ReadsFile, DiskType
<1> QED BY <1>2, <1>3 DEF TypeInv, TypeOK, ControlType, FilesType, DiskType, Statistics

(* Whatever start() does keeps the types. *)
LEMMA BeginType ==
    ASSUME TypeInv, queue # <<>>, Running, NEW o \in Operation, o.file \in Files,
           NEW first \in SUBSET Operation, \A f \in first : f.kind = o.kind /\ f.file = o.file,
           NEW assigned, DiskType(assigned), o.kind = "read" => o.file \in DOMAIN assigned,
           Begin(o, first, assigned)
    PROVE  TypeInv'
<1>0. ControlType /\ FilesType
    BY TypeHalves
<1>1. /\ DiskType(disk')
      /\ o.kind = "read" => o.file \in DOMAIN disk'
    BY TruncatedType DEF Begin, StreamStarted
<1>2. Tail(queue) \in Seq(Completions) /\ WithDanglingError(o) \in Seq(Completions)
    <2>1. o.id \in Nat
        BY DEF Operation
    <2> QED BY <1>0, <2>1, QueueTypes, CompletionTypes DEF WithDanglingError, ControlType
<1>3. ASSUME NEW f \in first, Starts([f EXCEPT !.waits = {"receive", "timeout"}, !.transmitCounter = 1])
      PROVE  TypeInv'
    <2> DEFINE g == [f EXCEPT !.waits = {"receive", "timeout"}, !.transmitCounter = 1]
    <2>1. g \in Operation /\ g.kind = o.kind /\ g.file = o.file
        BY DEF Operation
    <2> HIDE DEF g
    <2>2. Starts(g)
        BY <1>3 DEF g
    <2> QED BY <1>1, <2>1, <2>2, StartsType
<1>4. CASE Refuses(o)
    BY <1>1, <1>2, <1>4, ReportsType DEF Refuses
<1>5. CASE FailsToSend(o)
    BY <1>1, <1>2, <1>5, ReportsType DEF FailsToSend
<1>6. CASE Terminates(o)
    BY <1>1, <1>6, TerminatesType
<1>7. CASE Starts(o)
    BY <1>1, <1>7, StartsType
<1> QED BY <1>3, <1>4, <1>5, <1>6, <1>7 DEF Begin

(* transmitFile() *)
LEMMA TypeTransmitFile == ASSUME TypeInv, TransmitFile PROVE TypeInv'
<1>0. ControlType /\ FilesType /\ DiskType(disk) /\ operation \in Operation
    BY TypeHalves DEF FilesType
<1>1. queue # <<>> /\ Running /\ Current.file \in DOMAIN disk /\ Current.file \in Files
    BY <1>0 DEF TransmitFile, ReceivedRequest, ServerHandles, Runs, DiskType
<1> DEFINE o == NewOperation("read", Len(disk[Current.file]))
<1>2. Len(disk[Current.file]) \in Nat
    BY <1>0, <1>1 DEF DiskType
<1>3. o \in Operation /\ o.kind = "read" /\ o.file = Current.file
    BY <1>1, <1>2, NewOperationType
<1>4. PICK assigned \in Closed(disk, operation) : Begin(o, {o, SuppliedFrom(assigned, o)}, assigned)
    BY DEF TransmitFile
<1> HIDE DEF o
<1>5. DiskType(assigned) /\ o.file \in DOMAIN assigned
    BY <1>0, <1>1, <1>3, ClosedType
<1>6. /\ SuppliedFrom(assigned, o) \in Operation
      /\ SuppliedFrom(assigned, o).kind = o.kind /\ SuppliedFrom(assigned, o).file = o.file
    BY <1>3, <1>5, SuppliedFromType
<1> QED BY <1>1, <1>3, <1>4, <1>5, <1>6, BeginType

(* receiveFile() *)
LEMMA TypeReceiveFile == ASSUME TypeInv, ReceiveFile PROVE TypeInv'
<1>0. ControlType /\ FilesType /\ DiskType(disk) /\ operation \in Operation
    BY TypeHalves DEF FilesType
<1>1. queue # <<>> /\ Running /\ Current.file \in Files
    BY DEF ReceiveFile, ReceivedRequest, ServerHandles, Runs
<1> DEFINE o == NewOperation("write", 0)
<1>2. o \in Operation /\ o.kind = "write" /\ o.file = Current.file
    BY <1>1, NewOperationType
<1>3. PICK assigned \in Closed(Truncated(disk, Current.file), operation) : Begin(o, {o}, assigned)
    BY DEF ReceiveFile
<1> HIDE DEF o
<1>4. DiskType(assigned)
    BY <1>0, <1>1, TruncatedType, ClosedType
<1> QED BY <1>1, <1>2, <1>3, <1>4, BeginType

(* Every handler of the dispatcher keeps the types. *)
LEMMA TypeServerHandler == ASSUME TypeInv, ServerHandler PROVE TypeInv'
<1>0. ControlType /\ FilesType
    BY TypeHalves
<1>1. CASE UnexpectedPacket
    BY <1>1, AfterError DEF UnexpectedPacket, ServerHandles, Runs
<1>2. CASE InvalidPacket
    <2>1. Tail(queue) \in Seq(Completions) /\ statistic' \in Statistics
        BY <1>0, <1>2, QueueTypes, CountedType DEF InvalidPacket, ServerHandles, Runs, ControlType
    <2>2. FilesType'
        BY <1>0, <1>2, FilesUnchanged DEF InvalidPacket
    <2> QED BY <1>0, <1>2, <2>1, <2>2, AfterReceive DEF InvalidPacket
<1>3. CASE ReceiveFails
    BY <1>3, AfterEscape DEF ReceiveFails, ServerHandles, Runs
<1>4. CASE NoRequestHandler
    BY <1>4, AfterEscape DEF NoRequestHandler, ServerHandles, Runs
<1>5. CASE RefusedRequest
    BY <1>5, AfterError DEF RefusedRequest, ReceivedRequest, ServerHandles, Runs
<1>6. CASE DirectoryRequest
    BY <1>6, AfterEscape DEF DirectoryRequest, ReceivedRequest, ServerHandles, Runs
<1> QED BY <1>1, <1>2, <1>3, <1>4, <1>5, <1>6, TypeTransmitFile, TypeReceiveFile DEF ServerHandler

(* Every step keeps the types. *)
LEMMA TypeStep == TypeInv /\ [Next]_vars => TypeInv'
<1> SUFFICES ASSUME TypeInv, [Next]_vars PROVE TypeInv'
    OBVIOUS
<1>0. ControlType /\ FilesType
    BY TypeHalves
<1>1. CASE Start
    <2>1. ControlType' /\ FilesType'
        BY <1>0, <1>1, FilesUnchanged DEF Start, ControlType
    <2> QED BY <2>1 DEF TypeInv, TypeOK, ControlType, FilesType, DiskType, Statistics
<1>2. CASE SignalHandler
    <2>1. queue' \in Seq(Completions)
        BY <1>0, <1>2, QueueTypes DEF SignalHandler, Runs, ControlType
    <2>2. ControlType' /\ FilesType'
        BY <1>0, <1>2, <2>1, FilesUnchanged DEF SignalHandler, Stop, ControlType
    <2> QED BY <2>2 DEF TypeInv, TypeOK, ControlType, FilesType, DiskType, Statistics
<1>3. CASE Exit
    <2>1. statistic' \in Statistics
        BY <1>0, <1>3, StatisticTypes DEF Exit, ControlType
    <2>2. ControlType' /\ FilesType'
        BY <1>0, <1>3, <2>1, FilesUnchanged DEF Exit, ControlType, serverVars
    <2> QED BY <2>2 DEF TypeInv, TypeOK, ControlType, FilesType, DiskType, Statistics
<1>4. CASE UNCHANGED vars
    <2>1. ControlType' /\ FilesType'
        BY <1>0, <1>4, FilesUnchanged DEF vars, ControlType, operationVars
    <2> QED BY <2>1 DEF TypeInv, TypeOK, ControlType, FilesType, DiskType, Statistics
<1> QED BY <1>1, <1>2, <1>3, <1>4, TypeArrivals, TypeOperationHandler, TypeServerHandler DEF Next, Dispatch

(* main(): every variable of the server process keeps its type, whatever arrives or fails: *)
(* a file is only ever read when it is there, and what streams leave on disk are chunks.    *)
THEOREM TypeCorrect == Spec => []TypeOK
<1>1. TypeInv => TypeOK
    BY DEF TypeInv
<1> QED BY <1>1, TypeInit, TypeStep, PTL DEF Spec

(* The types, and the file of an operation that reads, hold in every state of the process. *)
THEOREM TypeInvariant == Spec => []TypeInv
BY TypeInit, TypeStep, PTL DEF Spec

-----------------------------------------------------------------------------
(* What the steps do to the queue and to the dispatcher *)
LEMMA QueueElements ==
    ASSUME queue \in Seq(Completions), NEW c \in Completions
    PROVE  /\ Len(Append(queue, c)) = Len(queue) + 1
           /\ \A i \in 1 .. Len(queue) : Append(queue, c)[i] = queue[i]
           /\ Append(queue, c)[Len(queue) + 1] = c
           /\ queue # <<>> =>
                /\ Len(queue) > 0 /\ Len(Tail(queue)) = Len(queue) - 1
                /\ Head(queue) = queue[1]
                /\ \A i \in 1 .. Len(Tail(queue)) : Tail(queue)[i] = queue[i + 1]
OBVIOUS

(* A handler of the dispatcher that ends with receive(); its operation may have left a *)
(* completion behind when it could not send.                                            *)
GoesOn ==
    /\ process' = process
    /\ \/ Receive(Tail(queue))
       \/ /\ Faulty("send")
          /\ \E id \in Nat : Receive(Append(Tail(queue), Completion("operation", id, Event("failed"))))

EndsProcess ==
    /\ process' \notin {"starting", "running", "success"}
    /\ queue' = Tail(queue)
    /\ UNCHANGED <<world, serverVars>>

(* Without faults the process only ends in these handlers. *)
Fatal == ReceiveFails \/ NoRequestHandler \/ DirectoryRequest

(* start() comes back to receive(), or ends the process because something fails. *)
LEMMA BeginStep ==
    ASSUME TypeInv, Running, NEW o \in Operation, NEW first, NEW assigned, Begin(o, first, assigned)
    PROVE  GoesOn \/ (EndsProcess /\ process' # "undefined" /\ (Faulty("send") \/ Faulty("open")))
<1>1. o.id \in Nat
    BY DEF Operation
<1>2. ASSUME NEW s, Starts(s) PROVE GoesOn
    BY <1>2 DEF Starts, GoesOn
<1>3. CASE Refuses(o)
    BY <1>3 DEF Refuses, Reports, GoesOn
<1>4. CASE Faulty("send") /\ FailsToSend(o)
    BY <1>1, <1>4 DEF FailsToSend, Reports, WithDanglingError, GoesOn
<1>5. Terminates(o) => EndsProcess /\ process' # "undefined"
    BY DEF Terminates, EndsProcess
<1>7. ASSUME NEW f \in first, Starts([f EXCEPT !.waits = {"receive", "timeout"}, !.transmitCounter = 1])
      PROVE  GoesOn
    BY <1>2, <1>7
<1>8. CASE Starts(o)
    BY <1>2, <1>8
<1>9. \/ \E f \in first : Starts([f EXCEPT !.waits = {"receive", "timeout"}, !.transmitCounter = 1])
      \/ Refuses(o)
      \/ Faulty("send") /\ (FailsToSend(o) \/ Terminates(o))
      \/ Starts(o)
      \/ Faulty("open") /\ Terminates(o)
    BY DEF Begin
<1> QED BY <1>3, <1>4, <1>5, <1>7, <1>8, <1>9

(* A handler of the dispatcher comes back to receive() or ends the process. *)
LEMMA ServerStep ==
    ASSUME TypeInv, ServerHandler
    PROVE  /\ Runs("server") /\ process' # "undefined"
           /\ \/ GoesOn
              \/ EndsProcess /\ (Fatal \/ Faulty("send") \/ Faulty("open"))
<1>1. ASSUME ErrorOperation PROVE GoesOn
    BY <1>1 DEF ErrorOperation, GoesOn
<1>2. ASSUME NEW errors, EscapesWith(errors) PROVE EndsProcess /\ process' # "undefined"
    BY <1>2 DEF EscapesWith, EndsProcess
<1>3. CASE UnexpectedPacket \/ RefusedRequest
    BY <1>1, <1>3 DEF UnexpectedPacket, RefusedRequest, ReceivedRequest, ServerHandles, GoesOn, Runs, Running
<1>4. CASE InvalidPacket
    BY <1>4 DEF InvalidPacket, ServerHandles, GoesOn, Runs, Running
<1>5. CASE Fatal
    BY <1>2, <1>5 DEF Fatal, ReceiveFails, NoRequestHandler, DirectoryRequest, ReceivedRequest, ServerHandles
<1>6. CASE TransmitFile
    <2>1. Runs("server") /\ Running /\ Current.file \in DOMAIN disk /\ DiskType(disk)
        BY <1>6, TypeHalves DEF TransmitFile, ReceivedRequest, ServerHandles, Runs, FilesType
    <2> DEFINE o == NewOperation("read", Len(disk[Current.file]))
    <2>2. o \in Operation
        BY <2>1, NewOperationType DEF DiskType
    <2>3. PICK assigned \in Closed(disk, operation) : Begin(o, {o, SuppliedFrom(assigned, o)}, assigned)
        BY <1>6 DEF TransmitFile
    <2> HIDE DEF o
    <2> QED BY <2>1, <2>2, <2>3, BeginStep DEF GoesOn, Running
<1>7. CASE ReceiveFile
    <2>1. Runs("server") /\ Running /\ Current.file \in Files
        BY <1>7 DEF ReceiveFile, ReceivedRequest, ServerHandles, Runs
    <2> DEFINE o == NewOperation("write", 0)
    <2>2. o \in Operation
        BY <2>1, NewOperationType
    <2>3. PICK assigned \in Closed(Truncated(disk, Current.file), operation) : Begin(o, {o}, assigned)
        BY <1>7 DEF ReceiveFile
    <2> HIDE DEF o
    <2> QED BY <2>1, <2>2, <2>3, BeginStep DEF GoesOn, Running
<1> QED BY <1>3, <1>4, <1>5, <1>6, <1>7 DEF ServerHandler, Fatal

(* A handler of the operation takes its completion and leaves the dispatcher alone. *)
LEMMA OperationStep ==
    ASSUME OperationHandler
    PROVE  /\ Runs("operation") /\ queue' = Tail(queue) /\ UNCHANGED <<world, serverVars>>
           /\ process' \in {"running", "undefined"}
           /\ process' = "undefined" => Faulty("send") \/ Head(queue).id # operation.id
<1>1. CASE DataStored
    BY <1>1 DEF DataStored, Handles, Runs, Running, Waits, Finished
<1>2. CASE DataAcknowledged \/ PacketRepeated
    BY <1>2 DEF DataAcknowledged, PacketRepeated, Handles, Runs, Running, Waits, Finished
<1>3. CASE OperationFails \/ Timeout \/ TimeoutDally
    BY <1>3 DEF OperationFails, Timeout, TimeoutDally, Handles, Runs, Running, Finished
<1>4. CASE SendFails \/ DanglingHandler
    BY <1>4 DEF SendFails, DanglingHandler, Handles, Runs
<1> QED BY <1>1, <1>2, <1>3, <1>4 DEF OperationHandler

Arrival == ServerReceives \/ OperationReceives \/ TimerExpires \/ UserSignals

(* What arrives is added at the end of the queue, and only where it was waited for. *)
LEMMA ArrivalStep ==
    ASSUME TypeInv, Arrival
    PROVE  /\ Running /\ UNCHANGED <<world, process, socket>> /\ operation'.id = operation.id
           /\ world.coincide \/ queue = <<>>
           /\ signal' = "handled" <=> signal = "handled"
           /\ \E c \in Completions :
                /\ queue' = Append(queue, c)
                /\ c.to = "operation" => c.id = operation.id
                /\ c.to = "operation" \/ operation' = operation
                /\ c.to = "server" => receiving /\ ~receiving' /\ MayArrive(c.event)
                /\ c.to # "server" => receiving' = receiving /\ c.event.file = "none"
<1>0. operation \in Operation /\ operation.id \in Nat
      /\ operation.waits \subseteq {"receive", "timeout", "timeoutDally"}
    BY TypeHalves DEF FilesType, Operation
<1>1. CASE ServerReceives
    <2>1. PICK event \in ServerEvents : Arrive(Completion("server", 0, event))
        BY <1>1 DEF ServerReceives
    <2>2. Completion("server", 0, event) \in Completions
        BY CompletionTypes
    <2>3. Completion("server", 0, event).to = "server" /\ Completion("server", 0, event).event = event
        BY DEF Completion
    <2> QED BY <1>1, <2>1, <2>2, <2>3 DEF ServerReceives, Arrive, MayQueue, operationVars
<1>2. CASE OperationReceives
    <2>1. PICK event \in OperationEvents : Arrive(Completion("operation", operation.id, event))
        BY <1>2 DEF OperationReceives
    <2> DEFINE c == Completion("operation", operation.id, event)
    <2>2. c \in Completions
        BY <1>0, CompletionTypes
    <2>3. c.to = "operation" /\ c.id = operation.id /\ c.event.file = "none"
        BY DEF Completion, OperationEvents, Event
    <2>4. operation'.id = operation.id
        BY <1>0, <1>2 DEF OperationReceives, Operation
    <2>5. Running /\ (world.coincide \/ queue = <<>>) /\ queue' = Append(queue, c)
        BY <2>1 DEF Arrive, MayQueue
    <2> HIDE DEF c
    <2> QED BY <1>2, <2>2, <2>3, <2>4, <2>5 DEF OperationReceives, serverVars
<1>3. CASE TimerExpires
    <2>1. PICK timer \in operation.waits \ {"receive"} :
             /\ queue' = Append(queue, Completion("operation", operation.id, Event(timer)))
             /\ operation' = [operation EXCEPT !.waits = @ \ {timer}]
        BY <1>3 DEF TimerExpires
    <2> DEFINE c == Completion("operation", operation.id, Event(timer))
    <2>2. c \in Completions
        BY <1>0, CompletionTypes
    <2>3. c.to = "operation" /\ c.id = operation.id /\ c.event.file = "none"
        BY DEF Completion, Event
    <2>4. operation'.id = operation.id
        BY <1>0, <2>1 DEF Operation
    <2>5. Running /\ (world.coincide \/ queue = <<>>) /\ queue' = Append(queue, c)
        BY <1>3, <2>1 DEF TimerExpires, MayQueue
    <2> HIDE DEF c
    <2> QED BY <1>3, <2>2, <2>3, <2>4, <2>5 DEF TimerExpires, serverVars
<1>4. CASE UserSignals
    <2> DEFINE c == Completion("signal", 0, Event("signal"))
    <2>1. c \in Completions
        BY CompletionTypes
    <2>2. c.to = "signal" /\ c.event.file = "none"
        BY DEF Completion, Event
    <2>3. queue' = Append(queue, c)
        BY <1>4 DEF UserSignals
    <2> HIDE DEF c
    <2> QED BY <1>4, <2>1, <2>2, <2>3 DEF UserSignals, MayQueue, operationVars
<1> QED BY <1>1, <1>2, <1>3, <1>4 DEF Arrival

-----------------------------------------------------------------------------
(* The server listens *)
HasServer(q) == \E i \in 1 .. Len(q) : q[i].to = "server"

(* The socket stays open until stop() closes it. *)
ListenInv == Running /\ signal # "handled" => socket = "open" /\ (receiving \/ HasServer(queue))

(* After receive() the dispatcher waits exactly if its socket is open. *)
LEMMA GoesOnQueue ==
    ASSUME TypeInv, Runs("server"), GoesOn
    PROVE  /\ UNCHANGED <<world, socket, signal>> /\ receiving' = (socket = "open")
           /\ \E q \in Seq(Completions) :
                /\ Receive(q)
                /\ q = Tail(queue) \/ Faulty("send")
<1>1. queue \in Seq(Completions) /\ queue # <<>> /\ Tail(queue) \in Seq(Completions)
    BY TypeHalves, QueueTypes DEF ControlType, Runs
<1>2. \A id \in Nat : Append(Tail(queue), Completion("operation", id, Event("failed"))) \in Seq(Completions)
    BY <1>1, CompletionTypes
<1>3. \E q \in Seq(Completions) : Receive(q) /\ (q = Tail(queue) \/ Faulty("send"))
    BY <1>1, <1>2 DEF GoesOn
<1> QED BY <1>3 DEF Receive

(* Every step keeps the server listening. *)
LEMMA ListenStep == TypeInv /\ ListenInv /\ [Next]_vars => ListenInv'
<1> SUFFICES ASSUME TypeInv, ListenInv, [Next]_vars, Running', signal' # "handled"
             PROVE  socket' = "open" /\ (receiving' \/ HasServer(queue)')
    BY DEF ListenInv
<1>0. queue \in Seq(Completions) /\ receiving \in BOOLEAN
    BY TypeHalves DEF ControlType
<1>1. CASE Arrival
    <2>1. PICK c \in Completions :
             /\ queue' = Append(queue, c)
             /\ c.to = "server" => receiving /\ ~receiving'
             /\ c.to # "server" => receiving' = receiving
        BY <1>1, ArrivalStep
    <2>2. Running /\ signal # "handled" /\ socket' = "open" /\ (receiving \/ HasServer(queue))
        BY <1>1, ArrivalStep DEF ListenInv
    <2>3. CASE c.to = "server"
        <3>1. queue'[Len(queue) + 1].to = "server" /\ Len(queue') = Len(queue) + 1
            BY <1>0, <2>1, <2>3, QueueElements
        <3> QED BY <1>0, <2>2, <3>1 DEF HasServer
    <2>4. CASE c.to # "server" /\ ~receiving
        <3>1. PICK i \in 1 .. Len(queue) : queue[i].to = "server"
            BY <2>2, <2>4 DEF HasServer
        <3>2. i \in 1 .. Len(queue') /\ queue'[i] = queue[i]
            BY <1>0, <2>1, QueueElements
        <3> QED BY <2>2, <3>1, <3>2 DEF HasServer
    <2> QED BY <2>1, <2>2, <2>3, <2>4
<1>2. CASE OperationHandler
    <2>1. /\ Running /\ signal # "handled" /\ queue # <<>> /\ Head(queue).to = "operation"
          /\ queue' = Tail(queue) /\ receiving' = receiving /\ socket' = socket
        BY <1>2, OperationStep DEF Runs, serverVars
    <2>2. socket = "open" /\ (receiving \/ HasServer(queue))
        BY <2>1 DEF ListenInv
    <2>3. ASSUME NEW i \in 1 .. Len(queue), queue[i].to = "server" PROVE HasServer(queue)'
        <3>1. i # 1
            BY <1>0, <2>1, <2>3, QueueElements
        <3>2. i - 1 \in 1 .. Len(queue') /\ queue'[i - 1] = queue[i]
            BY <1>0, <2>1, <3>1, QueueElements
        <3> QED BY <2>3, <3>2 DEF HasServer
    <2> QED BY <2>1, <2>2, <2>3 DEF HasServer
<1>3. CASE ServerHandler
    <2>1. Runs("server") /\ GoesOn
        BY <1>3, ServerStep DEF EndsProcess, Running
    <2>2. signal # "handled" /\ socket = "open"
        BY <2>1, GoesOnQueue DEF Runs, ListenInv
    <2> QED BY <2>1, <2>2, GoesOnQueue
<1>4. CASE Start
    BY <1>4 DEF Start, Running
<1>5. CASE SignalHandler
    BY <1>5 DEF SignalHandler
<1>6. CASE Exit
    BY <1>6 DEF Exit, Running
<1>7. CASE UNCHANGED vars
    BY <1>7 DEF vars, ListenInv, HasServer, Running
<1> QED BY <1>1, <1>2, <1>3, <1>4, <1>5, <1>6, <1>7 DEF Next, Dispatch, Arrival

(* receiveHandler(): until it is stopped the server waits for a packet or has one in the *)
(* queue, for every order of packets, timeouts, replacements and faults.                 *)
THEOREM AlwaysListens == Spec => []ListensUntilStopped
<1>1. Init => ListenInv
    BY DEF Init, ListenInv, Running
<1>2. ListenInv => ListensUntilStopped
    BY DEF ListenInv, ListensUntilStopped, HasServer
<1> QED BY <1>1, <1>2, ListenStep, TypeInvariant, PTL DEF Spec

-----------------------------------------------------------------------------
(* No handler runs on an operation that has been destroyed *)

(* One completion at a time, and only of the operation the application points to. *)
OneCompletion ==
    process \in {"starting", "running"} /\ ~world.coincide /\ ~Faulty("send") =>
        /\ Len(queue) <= 1
        /\ \A i \in 1 .. Len(queue) : queue[i].to = "operation" => queue[i].id = operation.id

DanglingInv == OneCompletion /\ NoDanglingHandler

(* The only completion in the queue *)
LEMMA OnlyOne ==
    ASSUME queue \in Seq(Completions), queue # <<>>, Len(queue) <= 1
    PROVE  Len(queue) = 1 /\ Head(queue) = queue[1] /\ Tail(queue) = <<>>
<1>1. Len(queue) = 1
    <2> DEFINE n == Len(queue)
    <2>1. n \in Nat /\ n # 0 /\ n <= 1
        BY EmptySeq
    <2> HIDE DEF n
    <2>2. n = 1
        BY <2>1
    <2> QED BY <2>2 DEF n
<1>2. Tail(queue) \in Seq(Completions) /\ Len(Tail(queue)) = 0
    BY <1>1, HeadTailProperties
<1> QED BY <1>1, <1>2, EmptySeq, QueueElements

(* What a handler of the dispatcher leaves in the queue when nothing else was in it. *)
LEMMA ServerLeaves ==
    ASSUME TypeInv, Runs("server"), GoesOn, ~Faulty("send"), Len(queue) <= 1
    PROVE  /\ Len(queue') <= 1
           /\ \A i \in 1 .. Len(queue') : queue'[i] = Completion("server", 0, Event("failed"))
           /\ socket = "open" => queue' = <<>>
<1>1. queue \in Seq(Completions) /\ queue # <<>> /\ Receive(Tail(queue))
    BY GoesOnQueue, TypeHalves DEF Runs, ControlType
<1>2. Tail(queue) = <<>>
    BY <1>1, OnlyOne
<1>3. queue' = <<>> \/ (socket # "open" /\ queue' = Append(<<>>, Completion("server", 0, Event("failed"))))
    BY <1>1, <1>2 DEF Receive
<1> DEFINE failed == Completion("server", 0, Event("failed"))
<1>4. Len(Append(<<>>, failed)) = 1 /\ Append(<<>>, failed)[1] = failed
    OBVIOUS
<1> HIDE DEF failed
<1>5. CASE queue' = <<>>
    BY <1>5
<1>6. CASE socket # "open" /\ queue' = Append(<<>>, failed)
    BY <1>4, <1>6 DEF failed
<1> QED BY <1>3, <1>5, <1>6 DEF failed

(* Every step keeps the only completion with the operation the application points to. *)
LEMMA DanglingStep == TypeInv /\ DanglingInv /\ [Next]_vars => DanglingInv'
<1> SUFFICES ASSUME TypeInv, DanglingInv, [Next]_vars PROVE DanglingInv'
    OBVIOUS
<1>0. queue \in Seq(Completions)
    BY TypeHalves DEF ControlType
<1>1. CASE Arrival
    <2>1. PICK c \in Completions :
             queue' = Append(queue, c) /\ (c.to = "operation" => c.id = operation.id)
        BY <1>1, ArrivalStep
    <2>2. /\ Running /\ UNCHANGED <<world, process>> /\ operation'.id = operation.id
          /\ world.coincide \/ queue = <<>>
        BY <1>1, ArrivalStep
    <2>3. NoDanglingHandler'
        BY <2>2 DEF DanglingInv, NoDanglingHandler, Faulty
    <2>4. ASSUME queue = <<>> PROVE Len(queue') = 1 /\ queue'[1] = c
        BY <2>1, <2>4
    <2>5. OneCompletion'
        BY <2>1, <2>2, <2>4 DEF OneCompletion, Faulty, Running
    <2> QED BY <2>3, <2>5 DEF DanglingInv
<1>2. CASE OperationHandler
    <2>1. /\ Runs("operation") /\ queue' = Tail(queue) /\ UNCHANGED world
          /\ process' = "undefined" => Faulty("send") \/ Head(queue).id # operation.id
        BY <1>2, OperationStep
    <2>2. ASSUME ~world.coincide, ~Faulty("send")
          PROVE  queue' = <<>> /\ Head(queue).id = operation.id
        BY <1>0, <2>1, <2>2 DEF Runs, Running, DanglingInv, OneCompletion
    <2> QED BY <2>1, <2>2 DEF DanglingInv, OneCompletion, NoDanglingHandler, Faulty, Running, Runs
<1>3. CASE ServerHandler
    <2>1. Runs("server") /\ process' # "undefined" /\ (GoesOn \/ EndsProcess)
        BY <1>3, ServerStep
    <2>2. world' = world
        BY <2>1, GoesOnQueue DEF EndsProcess
    <2>3. ASSUME Running', ~world.coincide, ~Faulty("send")
          PROVE  Len(queue') <= 1 /\ \A i \in 1 .. Len(queue') : queue'[i].to = "server"
        <3>1. GoesOn /\ Len(queue) <= 1
            BY <2>1, <2>3 DEF EndsProcess, Running, Runs, DanglingInv, OneCompletion
        <3> QED BY <2>1, <2>3, <3>1, ServerLeaves DEF Completion
    <2>4. process' # "starting"
        BY <2>1 DEF GoesOn, EndsProcess, Runs, Running
    <2> QED BY <2>1, <2>2, <2>3, <2>4 DEF DanglingInv, OneCompletion, NoDanglingHandler, Faulty, Running
<1>4. CASE SignalHandler
    <2>1. Runs("signal") /\ queue' = Tail(queue) /\ UNCHANGED <<world, process>>
        BY <1>4 DEF SignalHandler
    <2>2. Running /\ Len(queue) <= 1 => queue' = <<>>
        BY <1>0, <2>1 DEF Runs
    <2> QED BY <2>1, <2>2 DEF DanglingInv, OneCompletion, NoDanglingHandler, Faulty, Running, Runs
<1>5. CASE Start
    BY <1>5 DEF Start, DanglingInv, OneCompletion, NoDanglingHandler, Faulty, operationVars
<1>6. CASE Exit
    BY <1>6 DEF Exit, DanglingInv, OneCompletion, NoDanglingHandler, Running
<1>7. CASE UNCHANGED vars
    BY <1>7 DEF vars, DanglingInv, OneCompletion, NoDanglingHandler, Faulty, Running
<1> QED BY <1>1, <1>2, <1>3, <1>4, <1>5, <1>6, <1>7 DEF Next, Dispatch, Arrival

(* operationCompleted(), transmitFile(), receiveFile(): however many operations replace each *)
(* other, no handler runs on freed memory when completions do not coincide and sends succeed. *)
THEOREM NoHandlerDangles == Spec => []NoDanglingHandler
<1>1. Init => DanglingInv
    BY DEF Init, DanglingInv, OneCompletion, NoDanglingHandler, Running
<1>2. DanglingInv => NoDanglingHandler
    BY DEF DanglingInv
<1> QED BY <1>1, <1>2, DanglingStep, TypeInvariant, PTL DEF Spec

-----------------------------------------------------------------------------
(* Nothing ends the process but its signal *)
LEMMA WorldStays ==
    ASSUME TypeInv, [Next]_vars
    PROVE  world' = world
<1>1. CASE Arrival
    BY <1>1, ArrivalStep
<1>2. CASE OperationHandler
    BY <1>2, OperationStep
<1>3. CASE ServerHandler
    BY <1>3, ServerStep, GoesOnQueue DEF EndsProcess
<1>4. CASE Start \/ SignalHandler \/ Exit \/ UNCHANGED vars
    BY <1>4 DEF Start, SignalHandler, Exit, vars
<1> QED BY <1>1, <1>2, <1>3, <1>4 DEF Next, Dispatch, Arrival

Quiet == world.handler /\ ~world.directory /\ ~world.coincide /\ world.faults = {}

(* A packet that the dispatcher can handle. *)
Handleable(event) == event.type # "failed" /\ event.file # "directory"

(* What waits for the dispatcher has been received on an open socket. *)
QuietInv ==
    Quiet =>
        /\ process \in {"starting", "running", "success"}
        /\ receiving => socket = "open"
        /\ \A i \in 1 .. Len(queue) :
              queue[i].to = "server" => socket = "open" /\ Handleable(queue[i].event)

(* In a quiet world nothing fails and nothing coincides. *)
LEMMA QuietFaults == Quiet => ~world.coincide /\ \A fault : ~Faulty(fault)
BY DEF Quiet, Faulty

(* Every step of a quiet world leaves the process running. *)
LEMMA QuietStep == TypeInv /\ DanglingInv /\ QuietInv /\ [Next]_vars => QuietInv'
<1> SUFFICES ASSUME TypeInv, DanglingInv, QuietInv, [Next]_vars, Quiet
             PROVE  /\ process' \in {"starting", "running", "success"}
                    /\ receiving' => socket' = "open"
                    /\ \A i \in 1 .. Len(queue') :
                          queue'[i].to = "server" => socket' = "open" /\ Handleable(queue'[i].event)
    BY WorldStays DEF QuietInv, Quiet, Handleable
<1>0. /\ process \in {"starting", "running", "success"}
      /\ receiving => socket = "open"
      /\ \A i \in 1 .. Len(queue) :
              queue[i].to = "server" => socket = "open" /\ Handleable(queue[i].event)
      /\ queue \in Seq(Completions)
    BY TypeHalves DEF QuietInv, ControlType
<1>1. CASE Arrival
    <2>1. PICK c \in Completions :
             /\ queue' = Append(queue, c)
             /\ c.to = "server" => receiving /\ ~receiving' /\ MayArrive(c.event)
             /\ c.to # "server" => receiving' = receiving
        BY <1>1, ArrivalStep
    <2>2. UNCHANGED <<process, socket>> /\ queue = <<>>
        BY <1>1, ArrivalStep, QuietFaults
    <2>3. Len(queue') = 1 /\ queue'[1] = c
        BY <2>1, <2>2
    <2>4. c.to = "server" => Handleable(c.event)
        BY <2>1, QuietFaults DEF MayArrive, IsPacket, Handleable, Quiet
    <2> QED BY <1>0, <2>1, <2>2, <2>3, <2>4
<1>2. CASE OperationHandler
    <2>1. /\ Runs("operation") /\ queue' = Tail(queue) /\ UNCHANGED <<socket, receiving>>
          /\ process' \in {"running", "undefined"}
          /\ process' = "undefined" => Faulty("send") \/ Head(queue).id # operation.id
        BY <1>2, OperationStep DEF serverVars
    <2>2. Len(queue) <= 1 /\ (queue[1].to = "operation" /\ Len(queue) = 1 => queue[1].id = operation.id)
        BY <2>1, QuietFaults DEF DanglingInv, OneCompletion, Runs, Running
    <2>3. queue' = <<>> /\ Head(queue).id = operation.id
        BY <1>0, <2>1, <2>2, OnlyOne DEF Runs
    <2> QED BY <1>0, <2>1, <2>3, QuietFaults
<1>3. CASE ServerHandler
    <2>1. Runs("server") /\ (GoesOn \/ Fatal)
        BY <1>3, ServerStep, QuietFaults
    <2>2. queue # <<>> /\ Running /\ socket = "open" /\ Handleable(Current)
        BY <1>0, <2>1, QueueElements DEF Runs, Current
    <2>3. ~Fatal
        BY <2>2 DEF Fatal, ReceiveFails, NoRequestHandler, DirectoryRequest, ServerHandles, Handleable, Quiet
    <2>4. queue' = <<>> /\ socket' = socket /\ process' = "running"
        <3>1. Len(queue) <= 1
            BY <2>2, QuietFaults DEF DanglingInv, OneCompletion, Running
        <3> QED BY <2>1, <2>2, <2>3, <3>1, ServerLeaves, GoesOnQueue, QuietFaults DEF GoesOn, Running
    <2> QED BY <2>2, <2>4
<1>4. CASE SignalHandler
    <2>1. Runs("signal") /\ queue' = Tail(queue) /\ process' = process /\ ~receiving'
        BY <1>4 DEF SignalHandler, Stop
    <2>2. Len(queue) <= 1
        BY <2>1, QuietFaults DEF DanglingInv, OneCompletion, Runs, Running
    <2>3. queue' = <<>>
        BY <1>0, <2>1, <2>2, OnlyOne DEF Runs
    <2>4. process' \in {"starting", "running", "success"}
        BY <1>0, <2>1
    <2>5. 1 .. Len(queue') = {}
        BY <2>3
    <2> QED BY <2>1, <2>4, <2>5
<1>5. CASE Start
    <2>1. UNCHANGED queue /\ process' = "running" /\ socket' = "open"
        BY <1>5, QuietFaults DEF Start
    <2> QED BY <1>0, <2>1
<1>6. CASE Exit
    BY <1>0, <1>6 DEF Exit, serverVars
<1>7. CASE UNCHANGED vars
    BY <1>0, <1>7 DEF vars
<1> QED BY <1>1, <1>2, <1>3, <1>4, <1>5, <1>6, <1>7 DEF Next, Dispatch, Arrival

(* receivedRequest(), stop(): no packet, no number of transfers and no order of events ends *)
(* the process with an error when nothing fails and completions do not coincide.            *)
THEOREM ProcessKeepsRunning == Spec => []KeepsRunning
<1>1. Init => DanglingInv /\ QuietInv
    BY DEF Init, DanglingInv, OneCompletion, NoDanglingHandler, QuietInv
<1>2. QuietInv => KeepsRunning
    BY DEF QuietInv, Quiet, KeepsRunning
<1> QED BY <1>1, <1>2, DanglingStep, QuietStep, TypeInvariant, PTL DEF Spec

-----------------------------------------------------------------------------
(* No operation is left when main() returns *)

(* The operation is gone, or waits, or is about to be called. *)
Attended ==
    \/ operation = NoOperation
    \/ operation.waits # {}
    \/ \E i \in 1 .. Len(queue) : queue[i].to = "operation" /\ queue[i].id = operation.id

AttendedInv ==
    /\ process \in {"starting", "running"} /\ ~Faulty("file") => Attended
    /\ NothingOutlivesMain

(* An operation either waits after its handler or has reported. *)
LEMMA OperationLeaves ==
    ASSUME TypeInv, OperationHandler, Running'
    PROVE  operation' = NoOperation \/ operation'.waits # {}
<1>0. operation \in Operation /\ DiskType(disk)
    BY TypeHalves DEF FilesType
<1>1. ASSUME NEW o \in Operation, NEW timer, Waits(o, timer) PROVE operation'.waits # {}
    BY <1>1 DEF Waits, Operation
<1>2. ASSUME NEW o, NEW d, NEW status, Finished(o, d, status) PROVE operation' = NoOperation
    BY <1>2 DEF Finished
<1>3. CASE DataStored
    <2> DEFINE chunk == <<operation.id, Len(operation.data) + 1>>
    <2>1. PICK r \in ReceivedData(disk, operation, chunk) :
             \/ Waits([r[2] EXCEPT !.transmitCounter = 1], "timeout")
             \/ Waits([r[2] EXCEPT !.transmitCounter = 1, !.ending = TRUE], "timeoutDally")
             \/ Finished(r[2], r[1], "Successful")
        BY <1>3 DEF DataStored
    <2>2. r[2] \in Operation
        <3>1. chunk \in Chunks
            BY <1>0, LenProperties DEF Operation, Chunks
        <3> QED BY <1>0, <3>1, ReceivedDataType
    <2> HIDE DEF chunk
    <2>3. /\ [r[2] EXCEPT !.transmitCounter = 1] \in Operation
          /\ [r[2] EXCEPT !.transmitCounter = 1, !.ending = TRUE] \in Operation
        BY <2>2 DEF Operation
    <2> QED BY <1>1, <1>2, <2>1, <2>3
<1>4. CASE DataAcknowledged
    <2>1. SuppliedFrom(disk, operation) \in Operation
        BY <1>0, <1>4, SuppliedFromType DEF DataAcknowledged, TypeInv, ReadsFile
    <2> QED BY <1>1, <1>2, <1>4, <2>1 DEF DataAcknowledged
<1>5. CASE PacketRepeated
    <2>1. [operation EXCEPT !.transmitCounter = 1] \in Operation
        BY <1>0 DEF Operation
    <2> QED BY <1>0, <1>1, <1>5, <2>1 DEF PacketRepeated
<1>6. CASE Timeout
    <2>1. CASE Finished(operation, disk, "CommunicationError")
        BY <1>2, <2>1
    <2>2. CASE operation' = [operation EXCEPT !.transmitCounter = @ + 1,
                                              !.waits = (@ \cap {"receive"}) \cup {"timeout"}]
        BY <1>0, <2>2 DEF Operation
    <2> QED BY <1>6, <2>1, <2>2 DEF Timeout
<1>7. CASE OperationFails \/ TimeoutDally
    BY <1>2, <1>7 DEF OperationFails, TimeoutDally
<1>8. CASE SendFails \/ DanglingHandler
    BY <1>8 DEF SendFails, DanglingHandler, Running
<1> QED BY <1>3, <1>4, <1>5, <1>6, <1>7, <1>8 DEF OperationHandler

(* What a request leaves of the operation it has started. *)
LEMMA BeginLeaves ==
    ASSUME NEW o, NEW first \in SUBSET Operation, NEW assigned, Begin(o, first, assigned), Running'
    PROVE  operation' = NoOperation \/ operation'.waits # {} \/ (Starts(o) /\ Faulty("file"))
<1>1. ASSUME NEW f \in first, Starts([f EXCEPT !.waits = {"receive", "timeout"}, !.transmitCounter = 1])
      PROVE  operation'.waits # {}
    BY <1>1 DEF Starts, Operation
<1>2. Refuses(o) \/ FailsToSend(o) => operation' = NoOperation
    BY DEF Refuses, FailsToSend, Reports
<1>3. ~Terminates(o)
    BY DEF Terminates, Running
<1>4. \/ \E f \in first : Starts([f EXCEPT !.waits = {"receive", "timeout"}, !.transmitCounter = 1])
      \/ Refuses(o) \/ FailsToSend(o) \/ Terminates(o)
      \/ Starts(o) /\ Faulty("file")
    BY DEF Begin
<1>5. CASE \E f \in first : Starts([f EXCEPT !.waits = {"receive", "timeout"}, !.transmitCounter = 1])
    <2>1. PICK f \in first : Starts([f EXCEPT !.waits = {"receive", "timeout"}, !.transmitCounter = 1])
        BY <1>5
    <2> QED BY <1>1, <2>1
<1> QED BY <1>2, <1>3, <1>4, <1>5

(* A handler of the dispatcher leaves the operation alone, or one that waits, or none. *)
LEMMA ServerLeavesOperation ==
    ASSUME TypeInv, ServerHandler, Running'
    PROVE  \/ operation' = operation \/ operation' = NoOperation
           \/ operation'.waits # {} \/ Faulty("file")
<1>1. CASE UnexpectedPacket \/ RefusedRequest
    BY <1>1 DEF UnexpectedPacket, RefusedRequest, ErrorOperation, operationVars
<1>2. CASE InvalidPacket
    BY <1>2 DEF InvalidPacket, operationVars
<1>3. CASE ReceiveFails \/ NoRequestHandler \/ DirectoryRequest
    BY <1>3 DEF ReceiveFails, NoRequestHandler, DirectoryRequest, EscapesWith, Running
<1>4. CASE TransmitFile
    <2>1. Current.file \in DOMAIN disk /\ Current.file \in Files /\ DiskType(disk) /\ operation \in Operation
        BY <1>4, TypeHalves DEF TransmitFile, FilesType, DiskType
    <2> DEFINE o == NewOperation("read", Len(disk[Current.file]))
    <2>2. o \in Operation /\ o.file = Current.file
        BY <2>1, NewOperationType DEF DiskType
    <2>3. PICK assigned \in Closed(disk, operation) : Begin(o, {o, SuppliedFrom(assigned, o)}, assigned)
        BY <1>4 DEF TransmitFile
    <2> HIDE DEF o
    <2>4. SuppliedFrom(assigned, o) \in Operation
        BY <2>1, <2>2, ClosedType, SuppliedFromType
    <2> QED BY <2>2, <2>3, <2>4, BeginLeaves
<1>5. CASE ReceiveFile
    <2>1. Current.file \in Files
        BY <1>5 DEF ReceiveFile
    <2> DEFINE o == NewOperation("write", 0)
    <2>2. o \in Operation
        BY <2>1, NewOperationType
    <2>3. PICK assigned \in Closed(Truncated(disk, Current.file), operation) : Begin(o, {o}, assigned)
        BY <1>5 DEF ReceiveFile
    <2> HIDE DEF o
    <2> QED BY <2>2, <2>3, BeginLeaves
<1> QED BY <1>1, <1>2, <1>3, <1>4, <1>5 DEF ServerHandler

(* A handler of the dispatcher leaves the completions behind its own in the queue. *)
LEMMA ServerKeepsQueue ==
    ASSUME TypeInv, Runs("server"), GoesOn, NEW i \in 2 .. Len(queue)
    PROVE  i - 1 \in 1 .. Len(queue') /\ queue'[i - 1] = queue[i]
<1>0. queue \in Seq(Completions) /\ queue # <<>>
    BY TypeHalves DEF ControlType, Runs
<1>1. Tail(queue) \in Seq(Completions) /\ Len(Tail(queue)) = Len(queue) - 1
      /\ \A j \in 1 .. Len(Tail(queue)) : Tail(queue)[j] = queue[j + 1]
    BY <1>0, HeadTailProperties
<1>2. \A q \in Seq(Completions), c \in Completions :
         Len(Append(q, c)) = Len(q) + 1 /\ \A j \in 1 .. Len(q) : Append(q, c)[j] = q[j]
    OBVIOUS
<1>3. ASSUME NEW q \in Seq(Completions), Receive(q), NEW j \in 1 .. Len(q)
      PROVE  j \in 1 .. Len(queue') /\ queue'[j] = q[j]
    BY <1>2, <1>3, CompletionTypes DEF Receive
<1>4. i - 1 \in 1 .. Len(Tail(queue)) /\ Tail(queue)[i - 1] = queue[i]
    BY <1>0, <1>1
<1>5. CASE Receive(Tail(queue))
    BY <1>1, <1>3, <1>4, <1>5
<1>6. CASE \E id \in Nat : Receive(Append(Tail(queue), Completion("operation", id, Event("failed"))))
    <2>1. PICK id \in Nat : Receive(Append(Tail(queue), Completion("operation", id, Event("failed"))))
        BY <1>6
    <2> DEFINE q == Append(Tail(queue), Completion("operation", id, Event("failed")))
    <2>2. q \in Seq(Completions) /\ i - 1 \in 1 .. Len(q) /\ q[i - 1] = queue[i]
        BY <1>1, <1>2, <1>4, CompletionTypes
    <2> HIDE DEF q
    <2> QED BY <1>3, <2>1, <2>2 DEF q
<1> QED BY <1>5, <1>6 DEF GoesOn

(* Every step leaves the operation attended. *)
LEMMA AttendedStep == TypeInv /\ AttendedInv /\ [Next]_vars => AttendedInv'
<1> SUFFICES ASSUME TypeInv, AttendedInv, [Next]_vars PROVE AttendedInv'
    OBVIOUS
<1>0. queue \in Seq(Completions) /\ operation \in Operation /\ world' = world
    BY TypeHalves, WorldStays DEF ControlType, FilesType
<1>1. CASE Arrival
    <2>1. PICK c \in Completions :
             /\ queue' = Append(queue, c) /\ (c.to = "operation" => c.id = operation.id)
             /\ c.to = "operation" \/ operation' = operation
        BY <1>1, ArrivalStep
    <2>2. Running /\ UNCHANGED process /\ operation'.id = operation.id
        BY <1>1, ArrivalStep
    <2>4. /\ Len(queue') = Len(queue) + 1 /\ queue'[Len(queue) + 1] = c
          /\ \A i \in 1 .. Len(queue) : queue'[i] = queue[i]
          /\ Len(queue) \in Nat
        BY <1>0, <2>1, QueueElements
    <2>5. Attended => Attended'
        BY <2>1, <2>2, <2>4 DEF Attended
    <2> QED BY <1>0, <2>2, <2>5 DEF AttendedInv, NothingOutlivesMain, Running, Faulty
<1>2. CASE OperationHandler
    <2>1. process' \in {"running", "undefined"}
        BY <1>2, OperationStep
    <2>2. Running' => Attended'
        BY <1>2, OperationLeaves DEF Attended
    <2> QED BY <2>1, <2>2 DEF AttendedInv, NothingOutlivesMain, Running
<1>3. CASE ServerHandler
    <2>1. Runs("server") /\ process' # "success" /\ (Running' => GoesOn /\ Running)
        BY <1>3, ServerStep DEF EndsProcess, GoesOn, Running, Runs
    <2>2. ASSUME Running', ~Faulty("file"), operation' = operation PROVE Attended'
        <3>1. Attended /\ queue # <<>> /\ Head(queue).to = "server" /\ GoesOn
            BY <2>1, <2>2 DEF AttendedInv, Runs, Running
        <3>2. ASSUME NEW i \in 1 .. Len(queue), queue[i].to = "operation", queue[i].id = operation.id
              PROVE  Attended'
            <4>1. i \in 2 .. Len(queue)
                BY <1>0, <3>1, <3>2, QueueElements
            <4>2. i - 1 \in 1 .. Len(queue') /\ queue'[i - 1] = queue[i]
                BY <2>1, <3>1, <4>1, ServerKeepsQueue
            <4> QED BY <2>2, <3>2, <4>2 DEF Attended
        <3> QED BY <2>2, <3>1, <3>2 DEF Attended
    <2>3. ASSUME Running', ~Faulty("file") PROVE Attended'
        BY <1>3, <2>2, <2>3, ServerLeavesOperation DEF Attended
    <2>4. process' # "starting"
        BY <1>3, ServerStep DEF EndsProcess, GoesOn, Running, Runs
    <2> QED BY <1>0, <2>1, <2>3, <2>4 DEF AttendedInv, NothingOutlivesMain, Faulty, Running
<1>4. CASE SignalHandler
    <2>1. Running /\ queue # <<>> /\ Head(queue).to = "signal" /\ queue' = Tail(queue)
          /\ UNCHANGED <<process, operation>>
        BY <1>4 DEF SignalHandler, Runs, operationVars
    <2>2. ASSUME NEW i \in 1 .. Len(queue), queue[i].to = "operation"
          PROVE  i - 1 \in 1 .. Len(queue') /\ queue'[i - 1] = queue[i]
        <3>1. i # 1
            BY <1>0, <2>1, <2>2, QueueElements
        <3> QED BY <1>0, <2>1, <3>1, QueueElements
    <2>3. Attended => Attended'
        BY <2>1, <2>2 DEF Attended
    <2> QED BY <1>0, <2>1, <2>3 DEF AttendedInv, NothingOutlivesMain, Running, Faulty
<1>5. CASE Start
    <2>1. process = "starting" /\ process' \in {"running", "failure"} /\ UNCHANGED operation
        BY <1>5 DEF Start, operationVars
    <2> QED BY <1>0, <1>5, <2>1 DEF Start, AttendedInv, Attended, NothingOutlivesMain, Faulty
<1>6. CASE Exit
    <2>1. Running /\ queue = <<>> /\ operation.waits = {} /\ process' = "success" /\ UNCHANGED operation
        BY <1>6 DEF Exit, operationVars
    <2>2. Attended => operation = NoOperation
        BY <2>1 DEF Attended
    <2> QED BY <1>0, <2>1, <2>2 DEF AttendedInv, NothingOutlivesMain, Running, Faulty
<1>7. CASE UNCHANGED vars
    BY <1>7 DEF vars, AttendedInv, Attended, NothingOutlivesMain, Running, Faulty
<1> QED BY <1>1, <1>2, <1>3, <1>4, <1>5, <1>6, <1>7 DEF Next, Dispatch, Arrival

(* operationCompleted(): when main() returns after run() the pointer serverOperation is empty, *)
(* as every operation that has been started waits, is about to be called, or has reported.     *)
THEOREM NoOperationOutlivesMain == Spec => []NothingOutlivesMain
<1>1. Init => AttendedInv
    BY DEF Init, AttendedInv, Attended, NothingOutlivesMain
<1>2. AttendedInv => NothingOutlivesMain
    BY DEF AttendedInv
<1> QED BY <1>1, <1>2, AttendedStep, TypeInvariant, PTL DEF Spec

-----------------------------------------------------------------------------
(* Every packet at the well-known port is answered once *)

Answers == statistic.errors + statistic.started

(* Counting a packet does not change the number of answers. *)
LEMMA CountedAnswers ==
    ASSUME TypeInv, NEW n \in Nat
    PROVE  /\ Counted.errors = statistic.errors /\ Counted.started = statistic.started
           /\ Counted \in Statistics /\ statistic.errors \in Nat /\ statistic.started \in Nat
           /\ [Counted EXCEPT !.errors = @ + 1].errors = statistic.errors + 1
           /\ [Counted EXCEPT !.errors = @ + 1].started = statistic.started
           /\ [Counted EXCEPT !.started = @ + 1].errors = statistic.errors
           /\ [Counted EXCEPT !.started = @ + 1].started = statistic.started + 1
           /\ [Counted EXCEPT !.started = @ + 1, !.printed = n].errors = statistic.errors
           /\ [Counted EXCEPT !.started = @ + 1, !.printed = n].started = statistic.started + 1
<1>1. statistic \in Statistics /\ Counted \in Statistics
    BY TypeHalves, CountedType DEF ControlType
<1>2. Counted.errors = statistic.errors /\ Counted.started = statistic.started
    BY <1>1 DEF Counted, Statistics
<1> QED BY <1>1, <1>2 DEF Statistics

(* What a packet gets: one answer, or none from a process that ends. *)
OneAnswer == Answers' = Answers + 1 \/ (Answers' = Answers /\ ~Running')

(* start() is one answer, unless it ends the process. *)
LEMMA BeginAnswers ==
    ASSUME TypeInv, NEW o, NEW first, NEW assigned, Begin(o, first, assigned)
    PROVE  OneAnswer
<1>0. statistic.counted \in Nat /\ statistic.errors \in Nat /\ statistic.started \in Nat
    BY TypeHalves DEF ControlType, Statistics
<1>1. ASSUME NEW s, Starts(s) PROVE Answers' = Answers + 1
    BY <1>0, <1>1, CountedAnswers DEF Starts, Answers
<1>2. ASSUME NEW status, NEW q, Reports(o, status, q) PROVE Answers' = Answers + 1
    BY <1>0, <1>2, CountedAnswers DEF Reports, Answers
<1>3. Terminates(o) => Answers' = Answers /\ ~Running'
    BY DEF Terminates, Answers, Running
<1>4. \/ \E s : Starts(s)
      \/ \E status, q : Reports(o, status, q)
      \/ Terminates(o)
    BY DEF Begin, Refuses, FailsToSend
<1> QED BY <1>1, <1>2, <1>3, <1>4 DEF OneAnswer

(* Each way through a handler of the dispatcher is one answer, or ends the process, if the *)
(* packet is not an invalid one.                                                           *)
LEMMA ServerAnswers ==
    ASSUME TypeInv, ServerHandler, Current.type \in {"unexpected", "RRQ", "WRQ"}
    PROVE  OneAnswer
<1>1. ASSUME ErrorOperation PROVE Answers' = Answers + 1
    BY <1>1, CountedAnswers DEF ErrorOperation, Answers
<1>2. CASE UnexpectedPacket \/ RefusedRequest
    BY <1>1, <1>2 DEF UnexpectedPacket, RefusedRequest, OneAnswer
<1>3. CASE InvalidPacket \/ ReceiveFails
    BY <1>3 DEF InvalidPacket, ReceiveFails, ServerHandles
<1>4. CASE NoRequestHandler \/ DirectoryRequest
    <2>1. ASSUME NEW n \in {0, 1}, EscapesWith(n) PROVE Answers' = Answers + n /\ ~Running'
        <3>1. statistic \in Statistics
            BY TypeHalves DEF ControlType
        <3> QED BY <2>1, <3>1 DEF EscapesWith, Statistics, Answers, Running
    <2>2. EscapesWith(0) \/ EscapesWith(1)
        BY <1>4 DEF NoRequestHandler, DirectoryRequest
    <2>3. Answers \in Nat
        BY CountedAnswers DEF Answers
    <2> QED BY <2>1, <2>2, <2>3 DEF OneAnswer
<1>5. CASE TransmitFile \/ ReceiveFile
    <2>1. \E o, first, assigned : Begin(o, first, assigned)
        BY <1>5 DEF TransmitFile, ReceiveFile
    <2> QED BY <2>1, BeginAnswers
<1> QED BY <1>2, <1>3, <1>4, <1>5 DEF ServerHandler

(* receivedRequest(), errorOperation(): a packet at the well-known port that can be decoded   *)
(* is answered by one error or one operation, whatever fails after it has been received, or  *)
(* its handler has ended the process.                                                        *)
THEOREM PacketsAnsweredOnce == Spec => AnsweredOnce
<1>1. ASSUME TypeInv, Runs("server"), Current.type \in {"unexpected", "RRQ", "WRQ"}, Dispatch
      PROVE  OneAnswer
    <2>1. ~OperationHandler
        BY <1>1, OperationStep DEF Runs
    <2>2. ~SignalHandler
        BY <1>1 DEF SignalHandler, Runs
    <2> QED BY <1>1, <2>1, <2>2, ServerAnswers DEF Dispatch
<1>2. ASSUME TypeInv, [Next]_vars
      PROVE  [Runs("server") /\ Current.type \in {"unexpected", "RRQ", "WRQ"} /\ Dispatch =>
                LET before == statistic.errors + statistic.started
                    after  == statistic'.errors + statistic'.started
                IN  after = before + 1 \/ (after = before /\ ~Running')]_vars
    BY <1>1, <1>2 DEF OneAnswer, Answers
<1> QED BY <1>2, TypeInvariant, PTL DEF Spec, AnsweredOnce

-----------------------------------------------------------------------------
(***************************************************************************)
(* The files of the server process: what is on disk, and what an operation *)
(* that reports success has written or sent.                               *)
(***************************************************************************)

(* The first n chunks of an operation. *)
Chunked(id, n) == [i \in 1 .. n |-> <<id, i>>]

(* Every file holds the chunks of one operation. *)
Whole(d, last) == \A f \in DOMAIN d : \E id \in 0 .. last : d[f] = Chunked(id, Len(d[f]))

(* An operation that writes has its file to itself: there is what has been flushed. *)
Writes(o, d) ==
    o.kind = "write" =>
        /\ o.file \in DOMAIN d
        /\ o.data = Chunked(o.id, Len(o.data)) /\ o.flushed <= Len(o.data)
        /\ d[o.file] = Chunked(o.id, o.flushed)
        /\ ~Faulty("disk") => o.good

(* An operation that reads has sent what its file begins with. *)
Reads(o, d) ==
    o.kind = "read" =>
        /\ o.data = SubSeq(d[o.file], 1, Len(o.data)) /\ Len(o.data) <= Len(d[o.file])
        /\ o.ending => o.data = d[o.file]
        /\ o.announced = Len(d[o.file]) \/ o.replaced = o.file

OfOperation(i) == queue[i].to = "operation" /\ queue[i].id = operation.id

(* The StreamFile has thrown in start(): nothing waits, and nothing is called. *)
Idle == operation.waits = {} /\ \A i \in 1 .. Len(queue) : ~OfOperation(i)

(* What has reported is gone, and what is there has not reported. *)
ThereOrReported ==
    \/ operation = NoOperation
    \/ operation.id \in 1 .. statistic.started /\ operation.kind # "none" /\ completed.kind = "none"

KnownIds == \A i \in 1 .. Len(queue) : queue[i].to = "operation" => queue[i].id \in 1 .. statistic.started

(* Only an operation that writes dallies. *)
Dallies ==
    operation.kind = "read" =>
        /\ "timeoutDally" \notin operation.waits
        /\ \A i \in 1 .. Len(queue) : OfOperation(i) => queue[i].event.type # "timeoutDally"

Live == process \in {"starting", "running"}

RunInv ==
    /\ ThereOrReported /\ KnownIds /\ Dallies
    /\ Reads(operation, disk)
    /\ Writes(operation, disk) \/ (Idle /\ Faulty("file"))

FilesInv == OneWriter /\ SuccessIsOnDisk /\ SentAsAnnounced /\ (Live => RunInv)

-----------------------------------------------------------------------------
(* Chunks of one operation *)
LEMMA ChunkedType ==
    ASSUME NEW id \in Nat, NEW n \in Nat
    PROVE  /\ Chunked(id, n) \in Seq(Chunks) /\ Len(Chunked(id, n)) = n
           /\ \A i \in 1 .. n : Chunked(id, n)[i] = <<id, i>>
<1>1. \A i \in 1 .. n : <<id, i>> \in Chunks
    BY DEF Chunks
<1>2. [i \in 1 .. n |-> <<id, i>>] \in Seq(Chunks)
    BY <1>1, IsASeq
<1>3. Len([i \in 1 .. n |-> <<id, i>>]) = n
    BY <1>2
<1> QED BY <1>2, <1>3 DEF Chunked

(* A sequence is known by its elements. *)
LEMMA IsChunked ==
    ASSUME NEW id \in Nat, NEW s \in Seq(Chunks), \A i \in 1 .. Len(s) : s[i] = <<id, i>>
    PROVE  s = Chunked(id, Len(s))
<1>1. Len(s) \in Nat
    BY LenProperties
<1> DEFINE t == Chunked(id, Len(s))
<1>2. t \in Seq(Chunks) /\ Len(t) = Len(s) /\ \A i \in 1 .. Len(s) : t[i] = <<id, i>>
    BY <1>1, ChunkedType
<1> HIDE DEF t
<1>3. \A i \in 1 .. Len(s) : s[i] = t[i]
    BY <1>2
<1>4. s = t
    BY <1>2, <1>3, SeqEqual
<1> QED BY <1>4 DEF t

(* No chunks are the empty sequence. *)
LEMMA NoChunks == \A id \in Nat : Chunked(id, 0) = <<>>
<1> SUFFICES ASSUME NEW id \in Nat PROVE Chunked(id, 0) = <<>>
    OBVIOUS
<1>1. Chunked(id, 0) \in Seq(Chunks) /\ Len(Chunked(id, 0)) = 0
    BY ChunkedType
<1> QED BY <1>1, EmptySeq

(* The next chunk of an operation. *)
LEMMA AppendChunk ==
    ASSUME NEW id \in Nat, NEW n \in Nat
    PROVE  Append(Chunked(id, n), <<id, n + 1>>) = Chunked(id, n + 1)
<1> DEFINE s == Chunked(id, n)
           c == <<id, n + 1>>
           t == Append(s, c)
<1>1. s \in Seq(Chunks) /\ Len(s) = n /\ (\A i \in 1 .. n : s[i] = <<id, i>>)
    BY ChunkedType
<1>0. c \in Chunks
    BY DEF Chunks
<1> HIDE DEF s
<1>2. t \in Seq(Chunks) /\ Len(t) = n + 1 /\ (\A i \in 1 .. n : t[i] = s[i]) /\ t[n + 1] = c
    BY <1>0, <1>1, AppendProperties
<1>3. \A i \in 1 .. n + 1 : t[i] = <<id, i>>
    BY <1>1, <1>2
<1> HIDE DEF t
<1>4. t = Chunked(id, n + 1)
    BY <1>2, <1>3, IsChunked
<1> QED BY <1>4 DEF t, s

(* Flushing the rest of what has been written completes the file. *)
LEMMA WriteAtChunked ==
    ASSUME NEW id \in Nat, NEW n \in Nat, NEW m \in Nat, n <= m
    PROVE  WriteAt(Chunked(id, n), n, SubSeq(Chunked(id, m), n + 1, m)) = Chunked(id, m)
<1> DEFINE file == Chunked(id, n)
           data == Chunked(id, m)
           rest == SubSeq(data, n + 1, m)
<1>1. /\ Len(file) = n /\ \A i \in 1 .. n : file[i] = <<id, i>>
      /\ data \in Seq(Chunks) /\ Len(data) = m /\ \A i \in 1 .. m : data[i] = <<id, i>>
    BY ChunkedType
<1> HIDE DEF file, data
<1>2. Len(rest) = m - n /\ \A i \in 1 .. m - n : rest[i] = data[n + i]
    <2>1. \A i \in n + 1 .. m : data[i] \in Chunks
        BY <1>1
    <2>2. /\ Len(rest) = IF n + 1 <= m THEN m - (n + 1) + 1 ELSE 0
          /\ \A i \in 1 .. m - (n + 1) + 1 : rest[i] = data[n + 1 + i - 1]
        BY <2>1, SubSeqProperties
    <2> HIDE DEF rest
    <2>3. Len(rest) = m - n
        BY <2>2
    <2>4. ASSUME NEW i \in 1 .. m - n PROVE rest[i] = data[n + i]
        <3>1. i \in 1 .. m - (n + 1) + 1 /\ n + 1 + i - 1 = n + i
            BY <2>4
        <3> QED BY <2>2, <3>1
    <2> QED BY <2>3, <2>4
<1> HIDE DEF rest
<1> DEFINE size == IF Len(file) > n + Len(rest) THEN Len(file) ELSE n + Len(rest)
           Cell(i) == IF i > n /\ i <= n + Len(rest) THEN rest[i - n]
                      ELSE IF i <= Len(file) THEN file[i] ELSE Hole
<1>3. size = m
    BY <1>1, <1>2
<1>4. \A i \in 1 .. m : Cell(i) = <<id, i>>
    BY <1>1, <1>2
<1>5. WriteAt(file, n, rest) = [i \in 1 .. size |-> Cell(i)]
    BY DEF WriteAt
<1> HIDE DEF size, Cell
<1>6. WriteAt(file, n, rest) = [i \in 1 .. m |-> <<id, i>>]
    BY <1>3, <1>4, <1>5
<1> QED BY <1>6 DEF Chunked, rest, file, data

-----------------------------------------------------------------------------
(* Disks *)
(* Every file but one holds the chunks of one operation. *)
WholeBut(d, last, f) == \A g \in DOMAIN d \ {f} : \E id \in 0 .. last : d[g] = Chunked(id, Len(d[g]))

(* A disk is whole if the one file in question holds chunks of one operation. *)
LEMMA WholeWith ==
    ASSUME NEW d, NEW last \in Nat, NEW f, NEW id \in 0 .. last, NEW n \in Nat, d[f] = Chunked(id, n),
           WholeBut(d, last, f)
    PROVE  Whole(d, last)
<1>1. Len(Chunked(id, n)) = n
    BY ChunkedType
<1>2. ASSUME NEW g \in DOMAIN d PROVE \E i \in 0 .. last : d[g] = Chunked(i, Len(d[g]))
    <2>1. CASE g = f
        BY <1>1, <2>1
    <2>2. CASE g # f
        <3>1. g \in DOMAIN d \ {f}
            BY <1>2, <2>2
        <3> QED BY <3>1 DEF WholeBut
    <2> QED BY <2>1, <2>2
<1> QED BY <1>2 DEF Whole

(* It is whole when that file has been truncated. *)
LEMMA WholeTruncated ==
    ASSUME NEW d, NEW last \in Nat, NEW f, WholeBut(d, last, f)
    PROVE  Whole(Truncated(d, f), last)
<1> DEFINE e == Truncated(d, f)
<1>1. ASSUME NEW g \in DOMAIN e PROVE \E i \in 0 .. last : e[g] = Chunked(i, Len(e[g]))
    <2>1. CASE g = f
        <3>1. e[g] = Chunked(0, 0) /\ Len(Chunked(0, 0)) = 0
            BY <2>1, NoChunks, ChunkedType DEF Truncated
        <3> QED BY <3>1
    <2>2. CASE g # f
        <3>1. g \in DOMAIN d \ {f} /\ e[g] = d[g]
            BY <2>2 DEF Truncated
        <3> QED BY <3>1 DEF WholeBut
    <2> QED BY <2>1, <2>2
<1> QED BY <1>1 DEF Whole

(* What a stream leaves when it is flushed: all that has been written. *)
LEMMA FlushedAll ==
    ASSUME NEW d, NEW o \in Operation, o.kind = "write", Writes(o, d)
    PROVE  /\ DOMAIN Flush(d, o) = DOMAIN d
           /\ \A g \in DOMAIN d \ {o.file} : Flush(d, o)[g] = d[g]
           /\ Flush(d, o)[o.file] = Chunked(o.id, IF o.good THEN Len(o.data) ELSE o.flushed)
<1>1. o.id \in Nat /\ o.data \in Seq(Chunks) /\ Len(o.data) \in Nat /\ o.flushed \in Nat
    BY LenProperties DEF Operation
<1>2. /\ o.file \in DOMAIN d /\ o.data = Chunked(o.id, Len(o.data)) /\ o.flushed <= Len(o.data)
      /\ d[o.file] = Chunked(o.id, o.flushed)
    BY DEF Writes
<1>3. CASE o.good /\ o.flushed < Len(o.data)
    <2>1. Flush(d, o) = [d EXCEPT ![o.file] = WriteAt(d[o.file], o.flushed,
                                                     SubSeq(o.data, o.flushed + 1, Len(o.data)))]
        BY <1>2, <1>3 DEF Flush, Unflushed
    <2>2. WriteAt(d[o.file], o.flushed, SubSeq(o.data, o.flushed + 1, Len(o.data)))
          = Chunked(o.id, Len(o.data))
        BY <1>1, <1>2, WriteAtChunked
    <2> QED BY <1>2, <1>3, <2>1, <2>2
<1>4. CASE ~(o.good /\ o.flushed < Len(o.data))
    <2>1. Flush(d, o) = d
        BY <1>4 DEF Flush, Unflushed
    <2>2. o.good => o.flushed = Len(o.data)
        BY <1>1, <1>2, <1>4
    <2> QED BY <1>2, <2>1, <2>2
<1> QED BY <1>3, <1>4

(* What closing or destroying a stream does to the disk. *)
LEMMA ClosedDisk ==
    ASSUME NEW d, DiskType(d), NEW o \in Operation, NEW e \in Closed(d, o)
    PROVE  /\ DOMAIN e = DOMAIN d
           /\ \A g \in DOMAIN d : g # o.file \/ o.kind # "write" => e[g] = d[g]
           /\ o.kind # "write" => e = d
           /\ o.kind = "write" /\ Writes(o, d) =>
                /\ o.file \in DOMAIN d
                /\ \E n \in Nat : e[o.file] = Chunked(o.id, n)
                /\ ~Faulty("disk") => e[o.file] = o.data
<1>1. e = Flush(d, o) \/ (e = d /\ Faulty("disk"))
    BY DEF Closed
<1>2. DOMAIN e = DOMAIN d
    BY ClosedType
<1>3. \A g \in DOMAIN d : g # o.file \/ o.kind # "write" => e[g] = d[g]
    BY <1>1 DEF Flush, Unflushed
<1>4. o.kind # "write" => e = d
    BY <1>1 DEF Flush, Unflushed
<1>5. ASSUME o.kind = "write", Writes(o, d)
      PROVE  /\ o.file \in DOMAIN d
             /\ \E n \in Nat : e[o.file] = Chunked(o.id, n)
             /\ ~Faulty("disk") => e[o.file] = o.data
    <2>1. Len(o.data) \in Nat /\ o.flushed \in Nat /\ o.good \in BOOLEAN
        BY LenProperties DEF Operation
    <2>2. /\ o.file \in DOMAIN d /\ d[o.file] = Chunked(o.id, o.flushed)
          /\ o.data = Chunked(o.id, Len(o.data)) /\ (~Faulty("disk") => o.good)
        BY <1>5 DEF Writes
    <2>3. Flush(d, o)[o.file] = Chunked(o.id, IF o.good THEN Len(o.data) ELSE o.flushed)
        BY <1>5, FlushedAll
    <2>4. CASE e = Flush(d, o)
        BY <2>1, <2>2, <2>3, <2>4
    <2>5. CASE e = d /\ Faulty("disk")
        BY <2>1, <2>2, <2>5
    <2> QED BY <1>1, <2>2, <2>4, <2>5
<1> QED BY <1>2, <1>3, <1>4, <1>5

(* Closing a stream that writes another file keeps the files whole. *)
LEMMA ClosedWholeBut ==
    ASSUME NEW d, DiskType(d), NEW o \in Operation, NEW e \in Closed(d, o), NEW last \in Nat, NEW f,
           WholeBut(d, last, f),
           o.kind = "write" /\ o.file # f => Writes(o, d) /\ o.id \in 0 .. last
    PROVE  WholeBut(e, last, f)
<1> SUFFICES ASSUME NEW g \in DOMAIN e \ {f} PROVE \E id \in 0 .. last : e[g] = Chunked(id, Len(e[g]))
    BY DEF WholeBut
<1>1. g \in DOMAIN d \ {f}
    BY ClosedDisk
<1>2. CASE g # o.file \/ o.kind # "write"
    <2>1. e[g] = d[g]
        BY <1>1, <1>2, ClosedDisk
    <2> QED BY <1>1, <2>1 DEF WholeBut
<1>3. CASE g = o.file /\ o.kind = "write"
    <2>1. Writes(o, d) /\ o.id \in 0 .. last /\ o.id \in Nat
        BY <1>3
    <2>2. PICK n \in Nat : e[g] = Chunked(o.id, n)
        BY <1>3, <2>1, ClosedDisk
    <2>3. Len(e[g]) = n
        BY <2>1, <2>2, ChunkedType
    <2> QED BY <2>1, <2>2, <2>3
<1> QED BY <1>2, <1>3

(* Closing a stream that has its file to itself keeps the disk whole. *)
LEMMA ClosedWhole ==
    ASSUME NEW d, DiskType(d), NEW o \in Operation, NEW e \in Closed(d, o), NEW last \in Nat,
           Whole(d, last), o.kind = "write" => Writes(o, d) /\ o.id \in 0 .. last
    PROVE  Whole(e, last)
<1>1. "none" \notin DOMAIN d /\ DOMAIN e = DOMAIN d
    BY ServerAssumption, ClosedDisk DEF DiskType
<1>2. WholeBut(d, last, "none")
    BY DEF Whole, WholeBut
<1>3. WholeBut(e, last, "none")
    BY <1>2, ClosedWholeBut
<1> QED BY <1>1, <1>3 DEF Whole, WholeBut

(* receivedData() goes on with the chunks of its operation. *)
LEMMA ReceivedDataWrites ==
    ASSUME NEW d, DiskType(d), NEW o \in Operation, o.kind = "write", Writes(o, d),
           NEW r \in ReceivedData(d, o, <<o.id, Len(o.data) + 1>>)
    PROVE  /\ Writes(r[2], r[1])
           /\ DOMAIN r[1] = DOMAIN d /\ \A g \in DOMAIN d \ {o.file} : r[1][g] = d[g]
<1> DEFINE n == Len(o.data)
           written == [o EXCEPT !.data = Append(@, <<o.id, Len(o.data) + 1>>)]
<1>1. n \in Nat /\ o.id \in Nat /\ o.flushed \in Nat /\ o.good \in BOOLEAN
    BY LenProperties DEF Operation
<1>2. /\ o.file \in DOMAIN d /\ o.data = Chunked(o.id, n) /\ o.flushed <= n
      /\ d[o.file] = Chunked(o.id, o.flushed) /\ (~Faulty("disk") => o.good)
    BY DEF Writes
<1>3. Append(o.data, <<o.id, n + 1>>) = Chunked(o.id, n + 1)
    BY <1>1, <1>2, AppendChunk
<1>4. /\ Chunked(o.id, n + 1) \in Seq(Chunks) /\ Len(Chunked(o.id, n + 1)) = n + 1
    <2>1. n + 1 \in Nat
        BY <1>1
    <2> QED BY <1>1, <2>1, ChunkedType
<1>5. written = [o EXCEPT !.data = Chunked(o.id, n + 1)]
    BY <1>3 DEF Operation
<1> HIDE DEF n, written
<1>6. /\ written \in Operation /\ written.kind = "write" /\ written.file = o.file
      /\ written.id = o.id /\ written.data = Chunked(o.id, n + 1)
      /\ written.flushed = o.flushed /\ written.good = o.good
    BY <1>4, <1>5 DEF Operation
<1>7. Writes(written, d)
    BY <1>1, <1>2, <1>4, <1>6 DEF Writes
<1>8. \/ r = <<d, written>>
      \/ o.good /\ r = <<Flush(d, written), [written EXCEPT !.flushed = Len(written.data)]>>
      \/ Faulty("disk") /\ r = <<d, [written EXCEPT !.good = FALSE]>>
    BY DEF ReceivedData, written, n
<1>9. CASE r = <<d, written>>
    BY <1>7, <1>9
<1>10. CASE o.good /\ r = <<Flush(d, written), [written EXCEPT !.flushed = Len(written.data)]>>
    <2>1. /\ DOMAIN Flush(d, written) = DOMAIN d
          /\ \A g \in DOMAIN d \ {o.file} : Flush(d, written)[g] = d[g]
          /\ Flush(d, written)[written.file]
                = Chunked(written.id, IF written.good THEN Len(written.data) ELSE written.flushed)
        BY <1>6, <1>7, FlushedAll
    <2>0. Flush(d, written)[o.file] = Chunked(o.id, n + 1)
        BY <1>4, <1>6, <1>10, <2>1
    <2> DEFINE p == [written EXCEPT !.flushed = Len(written.data)]
    <2>2. /\ p.kind = "write" /\ p.file = o.file /\ p.id = o.id /\ p.good = o.good
          /\ p.data = Chunked(o.id, n + 1) /\ p.flushed = n + 1
        BY <1>4, <1>6 DEF Operation
    <2> HIDE DEF p
    <2>3. Writes(p, Flush(d, written))
        BY <1>1, <1>2, <1>4, <2>0, <2>1, <2>2 DEF Writes
    <2> QED BY <1>10, <2>1, <2>3 DEF p
<1>11. CASE Faulty("disk") /\ r = <<d, [written EXCEPT !.good = FALSE]>>
    <2> DEFINE p == [written EXCEPT !.good = FALSE]
    <2>1. /\ p.kind = "write" /\ p.file = o.file /\ p.id = o.id
          /\ p.data = Chunked(o.id, n + 1) /\ p.flushed = o.flushed
        BY <1>6 DEF Operation
    <2> HIDE DEF p
    <2>2. Writes(p, d)
        BY <1>1, <1>2, <1>4, <1>11, <2>1 DEF Writes
    <2> QED BY <1>11, <2>2 DEF p
<1> QED BY <1>8, <1>9, <1>10, <1>11

(* sendData() goes on with what the file contains. *)
LEMMA SuppliedReads ==
    ASSUME NEW d, DiskType(d), NEW o \in Operation, o.kind = "read", o.file \in DOMAIN d, Reads(o, d)
    PROVE  Reads(SuppliedFrom(d, o), d)
<1> DEFINE s == d[o.file]
           n == Len(o.data)
           p == SuppliedFrom(d, o)
<1>1. s \in Seq(Chunks) /\ Len(s) \in Nat /\ n \in Nat
    BY LenProperties DEF Operation, DiskType
<1>2. o.data = SubSeq(s, 1, n) /\ n <= Len(s) /\ (o.announced = Len(s) \/ o.replaced = o.file)
    BY DEF Reads
<1>3. /\ p.kind = "read" /\ p.file = o.file /\ p.announced = o.announced /\ p.replaced = o.replaced
      /\ p.data = IF n + 1 <= Len(s) THEN Append(o.data, s[n + 1]) ELSE o.data
      /\ p.ending <=> n + 1 >= Len(s)
    BY DEF SuppliedFrom, Operation
<1> HIDE DEF s, n, p
<1>4. CASE n + 1 <= Len(s)
    <2>1. Append(SubSeq(s, 1, n), s[n + 1]) = SubSeq(s, 1, n + 1)
        <3> DEFINE a == SubSeq(s, 1, n)
                   b == SubSeq(s, 1, n + 1)
                   c == Append(a, s[n + 1])
        <3>1. s[n + 1] \in Chunks /\ \A i \in 1 .. n + 1 : s[i] \in Chunks
            BY <1>1, <1>4, ElementOfSeq
        <3>2. a \in Seq(Chunks) /\ Len(a) = n /\ \A i \in 1 .. n : a[i] = s[i]
            BY <1>1, <3>1, SubSeqProperties
        <3>3. b \in Seq(Chunks) /\ Len(b) = n + 1 /\ \A i \in 1 .. n + 1 : b[i] = s[i]
            BY <1>1, <3>1, SubSeqProperties
        <3> HIDE DEF a, b
        <3>4. /\ c \in Seq(Chunks) /\ Len(c) = n + 1
              /\ (\A i \in 1 .. n : c[i] = a[i]) /\ c[n + 1] = s[n + 1]
            BY <3>1, <3>2, AppendProperties
        <3> HIDE DEF c
        <3>5. \A i \in 1 .. n + 1 : c[i] = b[i]
            BY <1>1, <3>2, <3>3, <3>4
        <3>6. c = b
            BY <3>3, <3>4, <3>5, SeqEqual
        <3> QED BY <3>6 DEF a, b, c
    <2>2. p.data = SubSeq(s, 1, n + 1)
        BY <1>2, <1>3, <1>4, <2>1
    <2>3. Len(p.data) = n + 1
        <3>1. \A i \in 1 .. n + 1 : s[i] \in Chunks
            BY <1>1, <1>4, ElementOfSeq
        <3> QED BY <1>1, <2>2, <3>1, SubSeqProperties
    <2>4. p.ending => p.data = s
        BY <1>1, <1>3, <1>4, <2>2, SubSeqFull
    <2> QED BY <1>2, <1>3, <1>4, <2>2, <2>3, <2>4 DEF Reads, s, p
<1>5. CASE ~(n + 1 <= Len(s))
    <2>1. n = Len(s) /\ p.data = o.data
        BY <1>1, <1>2, <1>3, <1>5
    <2>2. p.data = s
        BY <1>1, <1>2, <2>1, SubSeqFull
    <2> QED BY <1>1, <1>2, <1>3, <2>1, <2>2 DEF Reads, s, p, n
<1> QED BY <1>4, <1>5

(* Of an operation only these fields matter to its file. *)
Alike(o, p) ==
    /\ p.id = o.id /\ p.kind = o.kind /\ p.file = o.file /\ p.data = o.data /\ p.flushed = o.flushed
    /\ p.good = o.good /\ p.ending = o.ending /\ p.announced = o.announced /\ p.replaced = o.replaced

(* Operations that are alike stand alike to their files. *)
LEMMA AlikeFiles ==
    ASSUME NEW o, NEW p, NEW d, Alike(o, p)
    PROVE  (Writes(o, d) => Writes(p, d)) /\ (Reads(o, d) => Reads(p, d))
BY DEF Alike, Writes, Reads

-----------------------------------------------------------------------------
(* Steps of the operation *)

CalmFiles == ~Faulty("file") /\ ~Faulty("open")

(* The property in terms of whole disks. *)
LEMMA OneWriterWhole == OneWriter <=> (CalmFiles => Whole(disk, statistic.started))
BY DEF OneWriter, CalmFiles, Whole, Chunked

(* The invariant with primes only where they are needed. *)
LEMMA FilesPrimed ==
    ASSUME world' = world, CalmFiles => Whole(disk', statistic'.started),
           SuccessIsOnDisk', SentAsAnnounced',
           Live' => /\ ThereOrReported' /\ KnownIds' /\ Dallies'
                    /\ Reads(operation', disk')
                    /\ Writes(operation', disk') \/ (Idle' /\ Faulty("file"))
    PROVE  FilesInv'
<1>1. CalmFiles' <=> CalmFiles
    BY DEF CalmFiles, Faulty
<1>2. OneWriter'
    BY <1>1 DEF OneWriter, CalmFiles, Whole, Chunked
<1>3. Writes(operation', disk') => Writes(operation, disk)'
    BY DEF Writes, Faulty, Chunked
<1>4. Reads(operation', disk') => Reads(operation, disk)'
    BY DEF Reads
<1>5. Faulty("file")' <=> Faulty("file")
    BY DEF Faulty
<1> QED BY <1>2, <1>3, <1>4, <1>5 DEF FilesInv, RunInv

(* What the handlers of the operation can rely on. *)
LEMMA HandledFacts ==
    ASSUME TypeInv, FilesInv, NEW types, Handles(types)
    PROVE  /\ operation \in Operation /\ DiskType(disk) /\ queue \in Seq(Completions) /\ queue # <<>>
           /\ operation.kind # "none" /\ operation.id \in 1 .. statistic.started
           /\ completed.kind = "none"
           /\ statistic.started \in Nat /\ statistic \in Statistics /\ Counted \in Statistics
           /\ Counted.started = statistic.started
           /\ Writes(operation, disk) /\ Reads(operation, disk) /\ Dallies /\ KnownIds
           /\ CalmFiles => Whole(disk, statistic.started)
           /\ Current.type = "timeoutDally" => operation.kind # "read"
           /\ UNCHANGED <<world, serverVars>> /\ queue' = Tail(queue)
<1>1. /\ operation \in Operation /\ DiskType(disk) /\ queue \in Seq(Completions)
      /\ statistic \in Statistics
    BY TypeHalves DEF FilesType, ControlType
<1>2. RunInv /\ queue # <<>> /\ UNCHANGED <<world, serverVars>> /\ queue' = Tail(queue)
    BY DEF FilesInv, Handles, Runs, Running, Live
<1>3. 1 \in 1 .. Len(queue) /\ Head(queue) = queue[1]
    BY <1>1, <1>2, QueueElements
<1>4. OfOperation(1)
    BY <1>3 DEF Handles, Runs, OfOperation
<1>5. operation.id \in 1 .. statistic.started
    BY <1>2, <1>3, <1>4 DEF RunInv, KnownIds, OfOperation
<1>6. operation # NoOperation
    BY <1>5 DEF NoOperation
<1>7. ~Idle
    BY <1>3, <1>4 DEF Idle
<1>8. Current.type = "timeoutDally" => operation.kind # "read"
    BY <1>2, <1>3, <1>4 DEF RunInv, Dallies, Current
<1>9. statistic.started \in Nat /\ Counted \in Statistics /\ Counted.started = statistic.started
    BY CountedAnswers
<1> QED BY <1>1, <1>2, <1>5, <1>6, <1>7, <1>8, <1>9, OneWriterWhole
        DEF RunInv, ThereOrReported, FilesInv

(* What is left in the queue behind a completion that has been handled. *)
LEMMA QueueBehind ==
    ASSUME queue \in Seq(Completions), queue # <<>>, queue' = Tail(queue),
           NEW i \in 1 .. Len(queue')
    PROVE  i + 1 \in 1 .. Len(queue) /\ queue'[i] = queue[i + 1]
BY QueueElements

(* What is left in the queue still belongs to operations that have been started. *)
LEMMA KnownBehind ==
    ASSUME queue \in Seq(Completions), queue # <<>>, queue' = Tail(queue), KnownIds,
           statistic'.started = statistic.started
    PROVE  KnownIds'
BY QueueBehind DEF KnownIds

(* An operation that waits after its handler *)
LEMMA WaitsFiles ==
    ASSUME TypeInv, FilesInv, NEW types, Handles(types), NEW o \in Operation, NEW timer,
           Waits(o, timer), o.id = operation.id, o.kind = operation.kind,
           Writes(o, disk'), Reads(o, disk'), o.kind = "read" => timer = "timeout",
           CalmFiles => Whole(disk', statistic.started)
    PROVE  FilesInv'
<1> DEFINE p == [o EXCEPT !.waits = {"receive", timer}]
<1>1. operation' = p /\ completed' = completed /\ statistic'.started = statistic.started /\ world' = world
    BY HandledFacts DEF Waits
<1>2. Alike(o, p) /\ p.waits = {"receive", timer}
    BY DEF Alike, Operation
<1> HIDE DEF p
<1>3. Writes(p, disk') /\ Reads(p, disk')
    BY <1>2, AlikeFiles
<1>4. KnownIds'
    BY <1>1, HandledFacts, KnownBehind
<1>5. Dallies'
    <2> SUFFICES ASSUME p.kind = "read"
                 PROVE  /\ "timeoutDally" \notin p.waits
                        /\ \A i \in 1 .. Len(queue') :
                              OfOperation(i)' => queue'[i].event.type # "timeoutDally"
        BY <1>1 DEF Dallies
    <2>1. operation.kind = "read" /\ p.id = operation.id /\ "timeoutDally" \notin p.waits
        BY <1>2 DEF Alike
    <2>2. ASSUME NEW i \in 1 .. Len(queue'), OfOperation(i)'
          PROVE  queue'[i].event.type # "timeoutDally"
        <3>1. i + 1 \in 1 .. Len(queue) /\ queue'[i] = queue[i + 1]
            BY HandledFacts, QueueBehind
        <3>2. OfOperation(i + 1)
            BY <1>1, <2>1, <2>2, <3>1 DEF OfOperation
        <3> QED BY <2>1, <3>1, <3>2, HandledFacts DEF Dallies
    <2> QED BY <2>1, <2>2
<1>6. ThereOrReported'
    BY <1>1, <1>2, HandledFacts DEF ThereOrReported, Alike
<1>7. SuccessIsOnDisk' /\ SentAsAnnounced'
    BY <1>1, HandledFacts DEF SuccessIsOnDisk, SentAsAnnounced
<1> QED BY <1>1, <1>3, <1>4, <1>5, <1>6, <1>7, FilesPrimed

(* An operation that reports *)
LEMMA FinishedFiles ==
    ASSUME TypeInv, FilesInv, NEW types, Handles(types), NEW o \in Operation, NEW d, DiskType(d),
           NEW status, Finished(o, d, status), o.id = operation.id, o.kind = operation.kind,
           Writes(o, d), Reads(o, d), status = "Successful" /\ o.kind = "read" => o.ending,
           CalmFiles => Whole(d, statistic.started)
    PROVE  FilesInv'
<1>1. /\ operation' = NoOperation /\ disk' \in Closed(d, o) /\ completed' = Outcome(o, status)
      /\ statistic'.started = statistic.started /\ world' = world
    BY HandledFacts DEF Finished, Statistics
<1>2. /\ completed'.kind = o.kind /\ completed'.file = o.file /\ completed'.data = o.data
      /\ completed'.status = status /\ completed'.announced = o.announced
      /\ completed'.replaced = o.replaced
    BY <1>1 DEF Outcome, Operation
<1>3. CalmFiles => Whole(disk', statistic'.started)
    BY <1>1, ClosedWhole, HandledFacts
<1>4. SuccessIsOnDisk'
    <2> SUFFICES ASSUME o.kind = "write", ~Faulty("disk")
                 PROVE  disk'[o.file] = o.data
        BY <1>1, <1>2 DEF SuccessIsOnDisk, Faulty
    <2> QED BY <1>1, ClosedDisk
<1>5. SentAsAnnounced'
    <2> SUFFICES ASSUME o.kind = "read", status = "Successful"
                 PROVE  /\ o.data = disk'[o.file]
                        /\ o.announced = Len(o.data) \/ o.replaced = o.file
        BY <1>2 DEF SentAsAnnounced
    <2>1. disk' = d
        BY <1>1, ClosedDisk
    <2> QED BY <2>1 DEF Reads
<1>6. KnownIds'
    BY <1>1, HandledFacts, KnownBehind
<1>7. ThereOrReported' /\ Dallies' /\ Reads(operation', disk') /\ Writes(operation', disk')
    BY <1>1 DEF ThereOrReported, Dallies, Reads, Writes, NoOperation
<1> QED BY <1>1, <1>3, <1>4, <1>5, <1>6, <1>7, FilesPrimed

(* dataPacket(), a new packet *)
LEMMA FilesDataStored == ASSUME TypeInv, FilesInv, DataStored PROVE FilesInv'
<1>1. Handles({"next", "last"}) /\ operation.kind = "write"
    BY DEF DataStored
<1>2. /\ operation \in Operation /\ DiskType(disk) /\ Writes(operation, disk)
      /\ operation.id \in 0 .. statistic.started /\ operation.id \in Nat /\ statistic.started \in Nat
      /\ CalmFiles => Whole(disk, statistic.started)
    BY <1>1, HandledFacts
<1> DEFINE chunk == <<operation.id, Len(operation.data) + 1>>
<1>3. PICK r \in ReceivedData(disk, operation, chunk) :
         IF Current.type = "next"
         THEN disk' = r[1] /\ Waits([r[2] EXCEPT !.transmitCounter = 1], "timeout")
         ELSE IF world.dally
         THEN disk' = r[1] /\ Waits([r[2] EXCEPT !.transmitCounter = 1, !.ending = TRUE], "timeoutDally")
         ELSE Finished(r[2], r[1], "Successful")
    BY DEF DataStored
<1>4. chunk \in Chunks
    BY <1>2, LenProperties DEF Operation, Chunks
<1>5. /\ DiskType(r[1]) /\ r[2] \in Operation /\ r[2].kind = "write"
      /\ r[2].id = operation.id /\ r[2].file = operation.file
    BY <1>1, <1>2, <1>4, ReceivedDataType
<1>6. /\ Writes(r[2], r[1]) /\ DOMAIN r[1] = DOMAIN disk
      /\ \A g \in DOMAIN disk \ {operation.file} : r[1][g] = disk[g]
    BY <1>1, <1>2, ReceivedDataWrites
<1> HIDE DEF chunk
<1>7. ASSUME CalmFiles PROVE Whole(r[1], statistic.started)
    <2>1. WholeBut(r[1], statistic.started, operation.file)
        BY <1>2, <1>6, <1>7 DEF Whole, WholeBut
    <2>2. r[1][operation.file] = Chunked(operation.id, r[2].flushed) /\ r[2].flushed \in Nat
        BY <1>5, <1>6 DEF Writes, Operation
    <2> QED BY <1>2, <2>1, <2>2, WholeWith
<1>8. CASE disk' = r[1] /\ Waits([r[2] EXCEPT !.transmitCounter = 1], "timeout")
    <2> DEFINE p == [r[2] EXCEPT !.transmitCounter = 1]
    <2>1. p \in Operation /\ Alike(r[2], p)
        BY <1>5 DEF Operation, Alike
    <2> HIDE DEF p
    <2>2. Writes(p, disk') /\ Reads(p, disk') /\ p.id = operation.id /\ p.kind = "write"
        BY <1>5, <1>6, <1>8, <2>1, AlikeFiles DEF Alike, Reads
    <2> QED BY <1>1, <1>7, <1>8, <2>1, <2>2, WaitsFiles DEF p
<1>9. CASE disk' = r[1] /\ Waits([r[2] EXCEPT !.transmitCounter = 1, !.ending = TRUE], "timeoutDally")
    <2> DEFINE p == [r[2] EXCEPT !.transmitCounter = 1, !.ending = TRUE]
    <2>1. /\ p \in Operation /\ p.id = r[2].id /\ p.kind = r[2].kind /\ p.file = r[2].file
          /\ p.data = r[2].data /\ p.flushed = r[2].flushed /\ p.good = r[2].good
        BY <1>5 DEF Operation
    <2> HIDE DEF p
    <2>2. Writes(p, disk') /\ Reads(p, disk') /\ p.id = operation.id /\ p.kind = "write"
        BY <1>5, <1>6, <1>9, <2>1 DEF Writes, Reads
    <2> QED BY <1>1, <1>7, <1>9, <2>1, <2>2, WaitsFiles DEF p
<1>10. CASE Finished(r[2], r[1], "Successful")
    <2>1. Reads(r[2], r[1])
        BY <1>5 DEF Reads
    <2> QED BY <1>1, <1>5, <1>6, <1>7, <1>10, <2>1, FinishedFiles
<1> QED BY <1>3, <1>8, <1>9, <1>10

(* acknowledgementPacket(), the expected packet *)
LEMMA FilesDataAcknowledged == ASSUME TypeInv, FilesInv, DataAcknowledged PROVE FilesInv'
<1>1. Handles({"next"}) /\ operation.kind = "read"
    BY DEF DataAcknowledged
<1>2. /\ operation \in Operation /\ DiskType(disk) /\ Reads(operation, disk) /\ Writes(operation, disk)
      /\ operation.file \in DOMAIN disk /\ (CalmFiles => Whole(disk, statistic.started))
    BY <1>1, HandledFacts DEF TypeInv, ReadsFile
<1>3. CASE operation.ending /\ Finished(operation, disk, "Successful")
    BY <1>1, <1>2, <1>3, FinishedFiles
<1>4. CASE Waits(SuppliedFrom(disk, operation), "timeout") /\ UNCHANGED disk
    <2> DEFINE o == SuppliedFrom(disk, operation)
    <2>1. o \in Operation /\ o.kind = "read" /\ o.id = operation.id /\ Reads(o, disk)
        BY <1>1, <1>2, SuppliedFromType, SuppliedReads
    <2>2. Writes(o, disk)
        BY <2>1 DEF Writes
    <2> HIDE DEF o
    <2> QED BY <1>1, <1>2, <1>4, <2>1, <2>2, WaitsFiles DEF o
<1> QED BY <1>3, <1>4 DEF DataAcknowledged

(* A packet that has been handled before *)
LEMMA FilesPacketRepeated == ASSUME TypeInv, FilesInv, PacketRepeated PROVE FilesInv'
<1>1. Handles({"repeated"}) /\ UNCHANGED disk
    BY DEF PacketRepeated
<1>2. /\ operation \in Operation /\ Reads(operation, disk) /\ Writes(operation, disk)
      /\ CalmFiles => Whole(disk, statistic.started)
    BY <1>1, HandledFacts
<1>3. CASE operation.kind = "read" /\ Waits(operation, "timeout")
    BY <1>1, <1>2, <1>3, WaitsFiles
<1>4. CASE operation.kind # "read" /\ \E timer : Waits([operation EXCEPT !.transmitCounter = 1], timer)
    <2>1. PICK timer : Waits([operation EXCEPT !.transmitCounter = 1], timer)
        BY <1>4
    <2> DEFINE p == [operation EXCEPT !.transmitCounter = 1]
    <2>2. p \in Operation /\ Alike(operation, p) /\ p.id = operation.id /\ p.kind = operation.kind
        BY <1>2 DEF Operation, Alike
    <2>3. Writes(p, disk) /\ Reads(p, disk)
        BY <1>2, <2>2, AlikeFiles
    <2> HIDE DEF p
    <2> QED BY <1>1, <1>2, <1>4, <2>1, <2>2, <2>3, WaitsFiles DEF p
<1> QED BY <1>3, <1>4 DEF PacketRepeated

(* timeoutHandler() *)
LEMMA FilesTimeout == ASSUME TypeInv, FilesInv, Timeout PROVE FilesInv'
<1>1. Handles({"timeout"})
    BY DEF Timeout
<1>2. /\ operation \in Operation /\ DiskType(disk) /\ Reads(operation, disk) /\ Writes(operation, disk)
      /\ CalmFiles => Whole(disk, statistic.started)
    BY <1>1, HandledFacts
<1>3. CASE Finished(operation, disk, "CommunicationError")
    BY <1>1, <1>2, <1>3, FinishedFiles
<1>4. CASE /\ operation' = [operation EXCEPT !.transmitCounter = @ + 1,
                                             !.waits = (@ \cap {"receive"}) \cup {"timeout"}]
           /\ UNCHANGED <<process, completed, disk, statistic>>
    <2>1. Alike(operation, operation') /\ operation'.waits = (operation.waits \cap {"receive"}) \cup {"timeout"}
        BY <1>2, <1>4 DEF Alike, Operation
    <2>2. Writes(operation', disk') /\ Reads(operation', disk')
        BY <1>2, <1>4, <2>1, AlikeFiles
    <2>3. KnownIds' /\ world' = world
        BY <1>1, <1>4, HandledFacts, KnownBehind
    <2>4. Dallies'
        <3> SUFFICES ASSUME operation'.kind = "read"
                     PROVE  /\ "timeoutDally" \notin operation'.waits
                            /\ \A i \in 1 .. Len(queue') :
                                  OfOperation(i)' => queue'[i].event.type # "timeoutDally"
            BY DEF Dallies
        <3>1. operation.kind = "read" /\ operation'.id = operation.id
            BY <2>1 DEF Alike
        <3>2. ASSUME NEW i \in 1 .. Len(queue'), OfOperation(i)'
              PROVE  queue'[i].event.type # "timeoutDally"
            <4>1. i + 1 \in 1 .. Len(queue) /\ queue'[i] = queue[i + 1]
                BY <1>1, HandledFacts, QueueBehind
            <4>2. OfOperation(i + 1)
                BY <3>1, <3>2, <4>1 DEF OfOperation
            <4> QED BY <1>1, <3>1, <4>1, <4>2, HandledFacts DEF Dallies
        <3> QED BY <2>1, <3>2
    <2>5. ThereOrReported' /\ SuccessIsOnDisk' /\ SentAsAnnounced'
        BY <1>1, <1>4, <2>1, HandledFacts DEF ThereOrReported, SuccessIsOnDisk, SentAsAnnounced, Alike
    <2>6. CalmFiles => Whole(disk', statistic'.started)
        BY <1>2, <1>4
    <2> QED BY <2>2, <2>3, <2>4, <2>5, <2>6, FilesPrimed
<1> QED BY <1>3, <1>4 DEF Timeout

(* The process has ended, or gone on with freed memory, and left the files alone. *)
LEMMA FilesEnd ==
    ASSUME FilesInv, ~Live', UNCHANGED operationVars, world' = world, statistic'.started = statistic.started
    PROVE  FilesInv'
<1>1. CalmFiles => Whole(disk', statistic'.started)
    BY OneWriterWhole DEF FilesInv, operationVars
<1>2. SuccessIsOnDisk' /\ SentAsAnnounced'
    BY DEF FilesInv, operationVars, SuccessIsOnDisk, SentAsAnnounced, Faulty
<1> QED BY <1>1, <1>2, FilesPrimed

(* Every handler of the operation keeps the invariant. *)
LEMMA FilesOperationHandler == ASSUME TypeInv, FilesInv, OperationHandler PROVE FilesInv'
<1>1. CASE OperationFails
    <2>1. Handles({"wrong", "failed"}) /\ Finished(operation, disk, "TransferError")
        BY <1>1 DEF OperationFails
    <2> QED BY <2>1, HandledFacts, FinishedFiles
<1>2. CASE TimeoutDally
    <2>1. Handles({"timeoutDally"}) /\ Finished(operation, disk, "Successful")
        BY <1>2 DEF TimeoutDally
    <2>2. operation.kind # "read"
        BY <2>1, HandledFacts DEF Handles
    <2> QED BY <2>1, <2>2, HandledFacts, FinishedFiles
<1>3. CASE SendFails \/ DanglingHandler
    <2>1. process' = "undefined" /\ UNCHANGED <<world, operationVars, statistic>>
        BY <1>3 DEF SendFails, DanglingHandler, Handles
    <2> QED BY <2>1, FilesEnd DEF Live
<1> QED BY <1>1, <1>2, <1>3, FilesDataStored, FilesDataAcknowledged, FilesPacketRepeated, FilesTimeout
        DEF OperationHandler

-----------------------------------------------------------------------------
(* What arrives *)
LEMMA FilesArrival == ASSUME TypeInv, FilesInv, Arrival PROVE FilesInv'
<1>0. /\ operation \in Operation /\ queue \in Seq(Completions) /\ Running /\ Live /\ RunInv
      /\ statistic \in Statistics /\ operation.id \in Nat
      /\ operation.waits \subseteq {"receive", "timeout", "timeoutDally"}
    BY ArrivalStep, TypeHalves DEF FilesType, ControlType, Live, Running, FilesInv, Operation
<1>1. UNCHANGED <<world, completed, disk>> /\ statistic'.started = statistic.started
    <2>1. UNCHANGED <<world, completed, disk>>
        BY ArrivalStep DEF Arrival, ServerReceives, OperationReceives, TimerExpires, UserSignals, operationVars
    <2>2. statistic' = statistic \/ statistic' = [statistic EXCEPT !.arrived = @ + 1]
        BY DEF Arrival, ServerReceives, OperationReceives, TimerExpires, UserSignals, Arrive
    <2> QED BY <1>0, <2>1, <2>2 DEF Statistics
<1>2. PICK c \in Completions :
         /\ queue' = Append(queue, c)
         /\ \/ c.to # "operation" /\ operation' = operation
            \/ /\ c.to = "operation" /\ c.id = operation.id /\ operation.waits # {}
               /\ Alike(operation, operation') /\ operation'.waits \subseteq operation.waits
               /\ c.event.type = "timeoutDally" => "timeoutDally" \in operation.waits
    <2>1. CASE ServerReceives
        <3>1. PICK event \in ServerEvents : Arrive(Completion("server", 0, event))
            BY <2>1 DEF ServerReceives
        <3> QED BY <2>1, <3>1, CompletionTypes DEF ServerReceives, Arrive, Completion, operationVars
    <2>2. CASE UserSignals
        BY <2>2, CompletionTypes DEF UserSignals, Completion, operationVars
    <2>3. CASE OperationReceives
        <3>1. PICK event \in OperationEvents : Arrive(Completion("operation", operation.id, event))
            BY <2>3 DEF OperationReceives
        <3> DEFINE d == Completion("operation", operation.id, event)
        <3>2. d \in Completions /\ d.to = "operation" /\ d.id = operation.id
            BY <1>0, CompletionTypes DEF Completion
        <3>3. d.event.type # "timeoutDally"
            BY DEF Completion, OperationEvents, Event
        <3>4. /\ operation.waits # {} /\ Alike(operation, operation')
              /\ operation'.waits \subseteq operation.waits
            BY <1>0, <2>3 DEF OperationReceives, Alike, Operation
        <3>5. queue' = Append(queue, d)
            BY <3>1 DEF Arrive
        <3> HIDE DEF d
        <3> QED BY <3>2, <3>3, <3>4, <3>5
    <2>4. CASE TimerExpires
        <3>1. PICK timer \in operation.waits \ {"receive"} :
                 /\ queue' = Append(queue, Completion("operation", operation.id, Event(timer)))
                 /\ operation' = [operation EXCEPT !.waits = @ \ {timer}]
            BY <2>4 DEF TimerExpires
        <3> DEFINE d == Completion("operation", operation.id, Event(timer))
        <3>2. d \in Completions /\ d.to = "operation" /\ d.id = operation.id
            BY <1>0, CompletionTypes DEF Completion
        <3>3. d.event.type = timer
            BY DEF Completion, Event
        <3>4. /\ operation.waits # {} /\ Alike(operation, operation')
              /\ operation'.waits \subseteq operation.waits
            BY <1>0, <3>1 DEF Alike, Operation
        <3>5. queue' = Append(queue, d)
            BY <3>1
        <3> HIDE DEF d
        <3> QED BY <3>2, <3>3, <3>4, <3>5
    <2> QED BY <2>1, <2>2, <2>3, <2>4 DEF Arrival
<1>3. /\ Len(queue) \in Nat /\ Len(queue') = Len(queue) + 1
      /\ \A i \in 1 .. Len(queue) : queue'[i] = queue[i]
      /\ queue'[Len(queue) + 1] = c
    BY <1>0, <1>2, LenProperties, QueueElements
<1>4. operation'.id = operation.id /\ operation'.kind = operation.kind
      /\ operation'.waits \subseteq operation.waits
    BY <1>2 DEF Alike
<1>5. ThereOrReported'
    <2>1. operation = NoOperation => operation' = operation
        BY <1>2 DEF NoOperation
    <2> QED BY <1>0, <1>1, <1>4, <2>1 DEF RunInv, ThereOrReported
<1>6. KnownIds'
    <2>1. c.to = "operation" => c.id \in 1 .. statistic.started
        BY <1>0, <1>2 DEF RunInv, ThereOrReported, NoOperation
    <2> QED BY <1>0, <1>1, <1>3, <2>1 DEF RunInv, KnownIds
<1>7. Dallies'
    <2> SUFFICES ASSUME operation'.kind = "read"
                 PROVE  /\ "timeoutDally" \notin operation'.waits
                        /\ \A i \in 1 .. Len(queue') :
                              OfOperation(i)' => queue'[i].event.type # "timeoutDally"
        BY DEF Dallies
    <2>1. "timeoutDally" \notin operation.waits /\ Dallies
        BY <1>0, <1>4 DEF RunInv, Dallies
    <2>2. ASSUME NEW i \in 1 .. Len(queue'), OfOperation(i)'
          PROVE  queue'[i].event.type # "timeoutDally"
        <3>1. CASE i = Len(queue) + 1
            BY <1>2, <1>3, <2>1, <2>2, <3>1 DEF OfOperation
        <3>2. CASE i \in 1 .. Len(queue)
            <4>1. OfOperation(i) /\ queue'[i] = queue[i]
                BY <1>3, <1>4, <2>2, <3>2 DEF OfOperation
            <4> QED BY <1>4, <2>1, <3>2, <4>1 DEF Dallies
        <3> QED BY <1>3, <3>1, <3>2
    <2> QED BY <1>4, <2>1, <2>2
<1>8. Reads(operation', disk')
    BY <1>0, <1>1, <1>2, AlikeFiles DEF RunInv
<1>9. Writes(operation', disk') \/ (Idle' /\ Faulty("file"))
    <2>1. CASE Writes(operation, disk)
        BY <1>1, <1>2, <2>1, AlikeFiles
    <2>2. CASE Idle /\ Faulty("file")
        <3>1. c.to # "operation" /\ operation' = operation
            BY <1>2, <2>2 DEF Idle
        <3>2. Idle'
            BY <1>3, <2>2, <3>1 DEF Idle, OfOperation
        <3> QED BY <2>2, <3>2
    <2> QED BY <1>0, <2>1, <2>2 DEF RunInv
<1>10. CalmFiles => Whole(disk', statistic'.started)
    BY <1>1, OneWriterWhole DEF FilesInv
<1>11. SuccessIsOnDisk' /\ SentAsAnnounced'
    BY <1>1 DEF FilesInv, SuccessIsOnDisk, SentAsAnnounced, Faulty
<1> QED BY <1>1, <1>5, <1>6, <1>7, <1>8, <1>9, <1>10, <1>11, FilesPrimed

-----------------------------------------------------------------------------
(* Steps of the dispatcher *)

(* The completions of operations come from the queue that receive() is given. *)
LEMMA ReceivedQueue ==
    ASSUME NEW q \in Seq(Completions), Receive(q), NEW i \in 1 .. Len(queue'), queue'[i].to = "operation"
    PROVE  i \in 1 .. Len(q) /\ queue'[i] = q[i]
<1> DEFINE failed == Completion("server", 0, Event("failed"))
<1>1. failed \in Completions /\ failed.to = "server"
    BY CompletionTypes DEF Completion
<1> HIDE DEF failed
<1>2. CASE queue' = q
    BY <1>2
<1>3. CASE queue' = Append(q, failed)
    <2>1. /\ Len(q) \in Nat /\ Len(queue') = Len(q) + 1 /\ queue'[Len(q) + 1] = failed
          /\ \A j \in 1 .. Len(q) : queue'[j] = q[j]
        BY <1>1, <1>3, LenProperties, AppendProperties
    <2>2. i # Len(q) + 1
        BY <1>1, <2>1
    <2> QED BY <2>1, <2>2
<1> QED BY <1>2, <1>3 DEF Receive, failed

(* A packet that does not concern the operation *)
LEMMA FilesApart ==
    ASSUME TypeInv, FilesInv, Runs("server"), Receive(Tail(queue)), process' = process,
           UNCHANGED operationVars, statistic'.started = statistic.started
    PROVE  FilesInv'
<1>1. /\ queue \in Seq(Completions) /\ queue # <<>> /\ RunInv /\ world' = world
      /\ operation' = operation /\ completed' = completed /\ disk' = disk
    BY TypeHalves DEF ControlType, Runs, Running, FilesInv, Live, Receive, operationVars
<1>2. ASSUME NEW i \in 1 .. Len(queue'), queue'[i].to = "operation"
      PROVE  i + 1 \in 1 .. Len(queue) /\ queue'[i] = queue[i + 1]
    <2>1. /\ Tail(queue) \in Seq(Completions) /\ Len(Tail(queue)) = Len(queue) - 1 /\ Len(queue) \in Nat
          /\ \A j \in 1 .. Len(Tail(queue)) : Tail(queue)[j] = queue[j + 1]
        BY <1>1, HeadTailProperties, LenProperties
    <2>2. i \in 1 .. Len(Tail(queue)) /\ queue'[i] = Tail(queue)[i]
        BY <1>2, <2>1, ReceivedQueue
    <2> QED BY <2>1, <2>2
<1>3. KnownIds'
    BY <1>1, <1>2 DEF RunInv, KnownIds
<1>4. Dallies'
    BY <1>1, <1>2 DEF RunInv, Dallies, OfOperation
<1>5. Idle => Idle'
    BY <1>1, <1>2 DEF Idle, OfOperation
<1>6. ThereOrReported'
    BY <1>1 DEF RunInv, ThereOrReported
<1>7. CalmFiles => Whole(disk', statistic'.started)
    BY <1>1, OneWriterWhole DEF FilesInv
<1>8. SuccessIsOnDisk' /\ SentAsAnnounced'
    BY <1>1 DEF FilesInv, SuccessIsOnDisk, SentAsAnnounced, Faulty
<1> QED BY <1>1, <1>3, <1>4, <1>5, <1>6, <1>7, <1>8, FilesPrimed DEF RunInv

(* A disk stays whole when another operation is started. *)
LEMMA WholeLater ==
    ASSUME NEW d, NEW last \in Nat, Whole(d, last)
    PROVE  Whole(d, last + 1)
BY DEF Whole

(* What is left of the queue belongs to earlier operations. *)
LEMMA EarlierIds ==
    ASSUME TypeInv, FilesInv, Runs("server"), Receive(Tail(queue)),
           NEW i \in 1 .. Len(queue'), queue'[i].to = "operation"
    PROVE  queue'[i].id \in 1 .. statistic.started
<1>1. queue \in Seq(Completions) /\ queue # <<>> /\ KnownIds
    BY TypeHalves DEF ControlType, Runs, Running, FilesInv, RunInv, Live
<1>2. /\ Tail(queue) \in Seq(Completions) /\ Len(Tail(queue)) = Len(queue) - 1 /\ Len(queue) \in Nat
      /\ \A j \in 1 .. Len(Tail(queue)) : Tail(queue)[j] = queue[j + 1]
    BY <1>1, HeadTailProperties, LenProperties
<1>3. i \in 1 .. Len(Tail(queue)) /\ queue'[i] = Tail(queue)[i]
    BY <1>2, ReceivedQueue
<1>4. i + 1 \in 1 .. Len(queue) /\ queue'[i] = queue[i + 1]
    BY <1>2, <1>3
<1> QED BY <1>1, <1>4 DEF KnownIds

(* An operation that starts *)
LEMMA StartsFiles ==
    ASSUME TypeInv, FilesInv, Runs("server"), NEW o \in Operation, Starts(o),
           o.id = statistic.started + 1, o.kind # "none", "timeoutDally" \notin o.waits,
           Reads(o, disk'), Writes(o, disk') \/ (o.waits = {} /\ Faulty("file")),
           CalmFiles => Whole(disk', statistic.started)
    PROVE  FilesInv'
<1>1. /\ operation' = o /\ completed' = NoOperation /\ Receive(Tail(queue)) /\ world' = world
      /\ statistic.started \in Nat /\ statistic'.started = statistic.started + 1
    BY CountedAnswers DEF Starts, Receive
<1>2. CalmFiles => Whole(disk', statistic'.started)
    BY <1>1, WholeLater
<1>3. KnownIds'
    BY <1>1, EarlierIds DEF KnownIds
<1>4. \A i \in 1 .. Len(queue') : ~OfOperation(i)'
    BY <1>1, EarlierIds DEF OfOperation
<1>5. Dallies'
    BY <1>1, <1>4 DEF Dallies
<1>6. ThereOrReported'
    BY <1>1 DEF ThereOrReported, NoOperation
<1>7. SuccessIsOnDisk' /\ SentAsAnnounced'
    BY <1>1 DEF SuccessIsOnDisk, SentAsAnnounced, NoOperation
<1>8. o.waits = {} => Idle'
    BY <1>1, <1>4 DEF Idle
<1> QED BY <1>1, <1>2, <1>3, <1>5, <1>6, <1>7, <1>8, FilesPrimed

(* An operation that reports in start() *)
LEMMA ReportsFiles ==
    ASSUME TypeInv, FilesInv, Runs("server"), NEW o \in Operation, o.id = statistic.started + 1,
           NEW status \in {"TransferError", "CommunicationError"}, NEW q \in Seq(Completions),
           \A i \in 1 .. Len(q) : q[i].to = "operation" => q[i].id \in 1 .. statistic.started + 1,
           Reports(o, status, q), CalmFiles => Whole(disk', statistic.started)
    PROVE  FilesInv'
<1>1. /\ operation' = NoOperation /\ completed'.status = status /\ Receive(q) /\ world' = world
      /\ statistic.started \in Nat /\ statistic'.started = statistic.started + 1
    <2>1. statistic.counted \in Nat
        BY TypeHalves DEF ControlType, Statistics
    <2> QED BY <2>1, CountedAnswers DEF Reports, Receive, Outcome, Operation
<1>2. CalmFiles => Whole(disk', statistic'.started)
    BY <1>1, WholeLater
<1>3. KnownIds'
    BY <1>1, ReceivedQueue DEF KnownIds
<1>4. SuccessIsOnDisk' /\ SentAsAnnounced'
    BY <1>1 DEF SuccessIsOnDisk, SentAsAnnounced
<1>5. ThereOrReported' /\ Dallies' /\ Reads(operation', disk') /\ Writes(operation', disk')
    BY <1>1 DEF ThereOrReported, Dallies, Reads, Writes, NoOperation
<1> QED BY <1>1, <1>2, <1>3, <1>4, <1>5, FilesPrimed

(* What an operation is when it has been assigned to serverOperation. *)
Fresh(o) ==
    /\ o \in Operation /\ o.id = statistic.started + 1 /\ o.kind \in {"read", "write"}
    /\ o.waits = {} /\ o.data = <<>> /\ o.flushed = 0 /\ o.good /\ ~o.ending

(* readOperation(), writeOperation(): nothing has been sent or written yet. *)
LEMMA NewOperationFresh ==
    ASSUME TypeInv, Current.file \in Files, NEW kind \in {"read", "write"}, NEW announced \in Nat
    PROVE  /\ Fresh(NewOperation(kind, announced))
           /\ NewOperation(kind, announced).announced = announced
           /\ NewOperation(kind, announced).replaced = IF operation.kind = "write" THEN operation.file ELSE "none"
<1>1. NewOperation(kind, announced) \in Operation
    BY NewOperationType
<1> QED BY <1>1 DEF Fresh, NewOperation, NoOperation

(* A new operation that reads stands at the beginning of its file. *)
LEMMA FreshReads ==
    ASSUME NEW o, Fresh(o), NEW d, DiskType(d), o.file \in DOMAIN d,
           o.announced = Len(d[o.file]) \/ o.replaced = o.file
    PROVE  Reads(o, d)
<1>1. Len(d[o.file]) \in Nat /\ Len(o.data) = 0
    BY LenProperties DEF DiskType, Fresh
<1>2. SubSeq(d[o.file], 1, 0) = <<>>
    BY SubSeqEmpty
<1> QED BY <1>1, <1>2 DEF Reads, Fresh

(* A new operation that writes has its file to itself once start() has truncated it. *)
LEMMA FreshWrites ==
    ASSUME NEW o, Fresh(o), NEW d
    PROVE  Writes(o, Truncated(d, o.file))
<1>1. o.id \in Nat /\ Len(o.data) = 0 /\ o.data = <<>> /\ o.flushed = 0 /\ o.good
    BY DEF Fresh, Operation
<1>2. Chunked(o.id, 0) = <<>>
    BY <1>1, NoChunks
<1> QED BY <1>1, <1>2 DEF Writes, Truncated

(* Whatever start() does keeps the invariant. *)
LEMMA BeginFiles ==
    ASSUME TypeInv, FilesInv, Runs("server"), NEW o, Fresh(o), NEW first \in SUBSET Operation,
           NEW assigned, Begin(o, first, assigned), Reads(o, assigned),
           \A f \in first : /\ f.id = o.id /\ f.kind = o.kind
                            /\ Reads(f, assigned) /\ (o.kind = "write" => f = o),
           CalmFiles => IF o.kind = "write" THEN WholeBut(assigned, statistic.started, o.file)
                                            ELSE Whole(assigned, statistic.started)
    PROVE  FilesInv'
<1>0. o \in Operation /\ o.kind # "none" /\ o.id = statistic.started + 1 /\ o.waits = {}
      /\ o.id \in Nat /\ statistic.started \in Nat
    BY CountedAnswers DEF Fresh, Operation
<1>1. CalmFiles => Whole(StreamStarted(assigned, o), statistic.started)
    BY <1>0, WholeTruncated DEF StreamStarted
<1>2. o.kind = "read" => StreamStarted(assigned, o) = assigned
    BY DEF StreamStarted
<1>3. Writes(o, StreamStarted(assigned, o))
    <2>1. CASE o.kind = "write"
        BY <2>1, FreshWrites DEF StreamStarted
    <2>2. CASE o.kind # "write"
        BY <2>2 DEF Writes
    <2> QED BY <2>1, <2>2
<1>4. /\ Tail(queue) \in Seq(Completions) /\ WithDanglingError(o) \in Seq(Completions)
      /\ \A i \in 1 .. Len(WithDanglingError(o)) :
            WithDanglingError(o)[i].to = "operation" =>
                WithDanglingError(o)[i].id \in 1 .. statistic.started + 1
      /\ \A i \in 1 .. Len(Tail(queue)) :
            Tail(queue)[i].to = "operation" => Tail(queue)[i].id \in 1 .. statistic.started + 1
    <2>1. queue \in Seq(Completions) /\ queue # <<>> /\ KnownIds
        BY TypeHalves DEF ControlType, Runs, Running, FilesInv, RunInv, Live
    <2>2. /\ Tail(queue) \in Seq(Completions) /\ Len(Tail(queue)) = Len(queue) - 1
          /\ Len(queue) \in Nat /\ Len(Tail(queue)) \in Nat
          /\ \A j \in 1 .. Len(Tail(queue)) : Tail(queue)[j] = queue[j + 1]
        BY <2>1, HeadTailProperties, LenProperties
    <2>3. \A i \in 1 .. Len(Tail(queue)) :
            Tail(queue)[i].to = "operation" => Tail(queue)[i].id \in 1 .. statistic.started + 1
        <3> SUFFICES ASSUME NEW i \in 1 .. Len(Tail(queue)), Tail(queue)[i].to = "operation"
                     PROVE  Tail(queue)[i].id \in 1 .. statistic.started + 1
            OBVIOUS
        <3>1. i + 1 \in 1 .. Len(queue) /\ Tail(queue)[i] = queue[i + 1]
            BY <2>2
        <3>2. queue[i + 1].id \in 1 .. statistic.started
            BY <2>1, <3>1 DEF KnownIds
        <3> QED BY <1>0, <3>1, <3>2
    <2> DEFINE c == Completion("operation", o.id, Event("failed"))
               q == Tail(queue)
               e == Append(q, c)
    <2>4. c \in Completions /\ c.id = statistic.started + 1
        BY <1>0, CompletionTypes DEF Completion
    <2> HIDE DEF c, q
    <2>5. /\ e \in Seq(Completions) /\ Len(e) = Len(q) + 1 /\ e[Len(q) + 1] = c
          /\ \A j \in 1 .. Len(q) : e[j] = q[j]
        BY <2>2, <2>4, AppendProperties DEF q
    <2>6. \A i \in 1 .. Len(e) : e[i].to = "operation" => e[i].id \in 1 .. statistic.started + 1
        <3> HIDE DEF e
        <3> SUFFICES ASSUME NEW i \in 1 .. Len(e), e[i].to = "operation"
                     PROVE  e[i].id \in 1 .. statistic.started + 1
            OBVIOUS
        <3>1. CASE i = Len(q) + 1
            BY <1>0, <2>4, <2>5, <3>1
        <3>2. CASE i # Len(q) + 1
            <4>1. i \in 1 .. Len(q) /\ e[i] = q[i]
                <5>1. Len(q) \in Nat
                    BY <2>2 DEF q
                <5> QED BY <2>5, <3>2, <5>1
            <4> QED BY <2>3, <4>1 DEF q
        <3> QED BY <3>1, <3>2
    <2> QED BY <2>2, <2>3, <2>5, <2>6 DEF WithDanglingError, c, q
<1>5. CASE \E f \in first : /\ disk' = StreamStarted(assigned, o)
                            /\ Starts([f EXCEPT !.waits = {"receive", "timeout"}, !.transmitCounter = 1])
    <2>1. PICK f \in first : /\ disk' = StreamStarted(assigned, o)
                             /\ Starts([f EXCEPT !.waits = {"receive", "timeout"}, !.transmitCounter = 1])
        BY <1>5
    <2> DEFINE p == [f EXCEPT !.waits = {"receive", "timeout"}, !.transmitCounter = 1]
    <2>2. f \in Operation /\ f.id = o.id /\ f.kind = o.kind /\ Reads(f, assigned)
          /\ (o.kind = "write" => f = o)
        BY <2>1
    <2>3. p \in Operation /\ Alike(f, p) /\ p.waits = {"receive", "timeout"}
        BY <2>2 DEF Operation, Alike
    <2> HIDE DEF p
    <2>4. Reads(f, disk') /\ Writes(f, disk')
        BY <1>2, <1>3, <2>1, <2>2 DEF Reads, Writes
    <2>5. Reads(p, disk') /\ Writes(p, disk') /\ p.id = o.id /\ p.kind = o.kind
        BY <2>2, <2>3, <2>4, AlikeFiles DEF Alike
    <2> QED BY <1>0, <1>1, <2>1, <2>3, <2>5, StartsFiles DEF p
<1>6. CASE disk' = StreamStarted(assigned, o) /\ (Refuses(o) \/ FailsToSend(o))
    <2> DEFINE p == Tail(queue)
               q == WithDanglingError(o)
    <2>1. CalmFiles => Whole(disk', statistic.started)
        BY <1>1, <1>6
    <2>2. Reports(o, "TransferError", p) \/ Reports(o, "CommunicationError", q)
        BY <1>6 DEF Refuses, FailsToSend
    <2> HIDE DEF p, q
    <2>3. /\ p \in Seq(Completions) /\ q \in Seq(Completions)
          /\ \A i \in 1 .. Len(p) : p[i].to = "operation" => p[i].id \in 1 .. statistic.started + 1
          /\ \A i \in 1 .. Len(q) : q[i].to = "operation" => q[i].id \in 1 .. statistic.started + 1
        BY <1>4 DEF p, q
    <2>4. CASE Reports(o, "TransferError", p)
        BY <1>0, <2>1, <2>3, <2>4, ReportsFiles
    <2>5. CASE Reports(o, "CommunicationError", q)
        BY <1>0, <2>1, <2>3, <2>5, ReportsFiles
    <2> QED BY <2>2, <2>4, <2>5
<1>7. CASE Faulty("file") /\ disk' = assigned /\ Starts(o)
    BY <1>0, <1>7, StartsFiles DEF CalmFiles
<1>8. CASE Terminates(o) /\ (disk' = StreamStarted(assigned, o) \/ Faulty("open"))
    <2>1. ~Live' /\ completed' = NoOperation /\ world' = world /\ statistic' = statistic
        BY <1>8 DEF Terminates, Live
    <2>2. SuccessIsOnDisk' /\ SentAsAnnounced'
        BY <2>1 DEF SuccessIsOnDisk, SentAsAnnounced, NoOperation
    <2>3. CalmFiles => Whole(disk', statistic'.started)
        BY <1>1, <1>8, <2>1 DEF CalmFiles
    <2> QED BY <2>1, <2>2, <2>3, FilesPrimed
<1> QED BY <1>5, <1>6, <1>7, <1>8 DEF Begin

(* transmitFile() *)
LEMMA FilesTransmitFile == ASSUME TypeInv, FilesInv, TransmitFile PROVE FilesInv'
<1>1. Runs("server") /\ Current.file \in DOMAIN disk /\ Running
    BY DEF TransmitFile, ReceivedRequest, ServerHandles, Runs
<1>2. /\ DiskType(disk) /\ operation \in Operation /\ Current.file \in Files /\ RunInv
      /\ Len(disk[Current.file]) \in Nat /\ statistic.started \in Nat
    BY <1>1, TypeHalves, LenProperties, CountedAnswers
       DEF FilesType, DiskType, FilesInv, Live, Running
<1> DEFINE o == NewOperation("read", Len(disk[Current.file]))
<1>3. /\ Fresh(o) /\ o.kind = "read" /\ o.file = Current.file /\ o.announced = Len(disk[Current.file])
      /\ o.replaced = IF operation.kind = "write" THEN operation.file ELSE "none"
    BY <1>2, NewOperationFresh, NewOperationType
<1>4. PICK assigned \in Closed(disk, operation) : Begin(o, {o, SuppliedFrom(assigned, o)}, assigned)
    BY DEF TransmitFile
<1> HIDE DEF o
<1>5. /\ DiskType(assigned) /\ DOMAIN assigned = DOMAIN disk
      /\ o.file # operation.file \/ operation.kind # "write" => assigned[o.file] = disk[o.file]
    BY <1>1, <1>2, <1>3, ClosedType, ClosedDisk
<1>6. Reads(o, assigned)
    BY <1>1, <1>3, <1>5, FreshReads
<1>7. o \in Operation /\ SuppliedFrom(assigned, o) \in Operation
      /\ SuppliedFrom(assigned, o).id = o.id /\ SuppliedFrom(assigned, o).kind = o.kind
      /\ Reads(SuppliedFrom(assigned, o), assigned)
    BY <1>1, <1>3, <1>5, <1>6, SuppliedFromType, SuppliedReads DEF Fresh
<1>8. ASSUME CalmFiles PROVE Whole(assigned, statistic.started)
    <2>1. Whole(disk, statistic.started)
        BY <1>8, OneWriterWhole DEF FilesInv
    <2>2. operation.kind = "write" => Writes(operation, disk) /\ operation.id \in 0 .. statistic.started
        BY <1>2, <1>8 DEF RunInv, ThereOrReported, NoOperation, CalmFiles
    <2> QED BY <1>2, <1>4, <2>1, <2>2, ClosedWhole
<1> QED BY <1>1, <1>3, <1>4, <1>6, <1>7, <1>8, BeginFiles

(* receiveFile(): what the replaced operation flushes is truncated with the file it shares. *)
LEMMA FilesReceiveFile == ASSUME TypeInv, FilesInv, ReceiveFile PROVE FilesInv'
<1>1. Runs("server") /\ Current.file \in Files /\ Running
    BY DEF ReceiveFile, ReceivedRequest, ServerHandles, Runs
<1>2. DiskType(disk) /\ operation \in Operation /\ RunInv /\ statistic.started \in Nat
    BY <1>1, TypeHalves, CountedAnswers DEF FilesType, FilesInv, Live, Running
<1> DEFINE o == NewOperation("write", 0)
<1>3. Fresh(o) /\ o.kind = "write" /\ o.file = Current.file
    BY <1>1, NewOperationFresh, NewOperationType
<1>4. PICK assigned \in Closed(Truncated(disk, Current.file), operation) : Begin(o, {o}, assigned)
    BY DEF ReceiveFile
<1> HIDE DEF o
<1>5. Reads(o, assigned) /\ o \in Operation
    BY <1>3 DEF Reads, Fresh
<1>6. ASSUME CalmFiles PROVE WholeBut(assigned, statistic.started, o.file)
    <2>1. DiskType(Truncated(disk, o.file))
        BY <1>1, <1>2, <1>3, TruncatedType
    <2>2. WholeBut(Truncated(disk, o.file), statistic.started, o.file)
        BY <1>6, OneWriterWhole DEF FilesInv, Whole, WholeBut, Truncated
    <2>3. operation.kind = "write" /\ operation.file # o.file =>
             Writes(operation, Truncated(disk, o.file)) /\ operation.id \in 0 .. statistic.started
        BY <1>2, <1>6 DEF RunInv, ThereOrReported, NoOperation, CalmFiles, Writes, Truncated
    <2> QED BY <1>2, <1>3, <1>4, <2>1, <2>2, <2>3, ClosedWholeBut
<1> QED BY <1>1, <1>3, <1>4, <1>5, <1>6, BeginFiles

(* Every handler of the dispatcher keeps the invariant. *)
LEMMA FilesServerHandler == ASSUME TypeInv, FilesInv, ServerHandler PROVE FilesInv'
<1>1. Runs("server")
    BY ServerStep
<1>2. CASE UnexpectedPacket \/ RefusedRequest
    <2>1. ErrorOperation
        BY <1>2 DEF UnexpectedPacket, RefusedRequest
    <2>2. statistic'.started = statistic.started
        BY <2>1, CountedAnswers DEF ErrorOperation
    <2> QED BY <1>1, <2>1, <2>2, FilesApart DEF ErrorOperation
<1>3. CASE InvalidPacket
    BY <1>1, <1>3, CountedAnswers, FilesApart DEF InvalidPacket
<1>4. CASE ReceiveFails \/ NoRequestHandler \/ DirectoryRequest
    <2>1. PICK errors : EscapesWith(errors)
        BY <1>4 DEF ReceiveFails, NoRequestHandler, DirectoryRequest
    <2>2. statistic'.started = statistic.started /\ ~Live' /\ world' = world /\ UNCHANGED operationVars
        BY <2>1, CountedAnswers DEF EscapesWith, Statistics, Live
    <2> QED BY <2>2, FilesEnd
<1> QED BY <1>2, <1>3, <1>4, FilesTransmitFile, FilesReceiveFile DEF ServerHandler

(* Every step keeps the invariant. *)
LEMMA FilesStep == TypeInv /\ FilesInv /\ [Next]_vars => FilesInv'
<1> SUFFICES ASSUME TypeInv, FilesInv, [Next]_vars PROVE FilesInv'
    OBVIOUS
<1>0. queue \in Seq(Completions)
    BY TypeHalves DEF ControlType
<1>1. CASE SignalHandler
    <2>1. /\ queue # <<>> /\ queue' = Tail(queue) /\ RunInv
          /\ UNCHANGED <<world, operation, completed, disk, statistic>>
        BY <1>1 DEF SignalHandler, Runs, Running, FilesInv, Live, operationVars
    <2>2. KnownIds'
        BY <1>0, <2>1, KnownBehind DEF RunInv
    <2>3. \A i \in 1 .. Len(queue') : i + 1 \in 1 .. Len(queue) /\ queue'[i] = queue[i + 1]
        BY <1>0, <2>1, QueueBehind
    <2>4. Dallies' /\ (Idle => Idle')
        BY <2>1, <2>3 DEF RunInv, Dallies, Idle, OfOperation
    <2>5. ThereOrReported' /\ SuccessIsOnDisk' /\ SentAsAnnounced'
        BY <2>1 DEF RunInv, ThereOrReported, FilesInv, SuccessIsOnDisk, SentAsAnnounced, Faulty
    <2>6. CalmFiles => Whole(disk', statistic'.started)
        BY <2>1, OneWriterWhole DEF FilesInv
    <2> QED BY <2>1, <2>2, <2>4, <2>5, <2>6, FilesPrimed DEF RunInv
<1>2. CASE Start \/ UNCHANGED vars
    <2>1. UNCHANGED <<world, operation, completed, disk, statistic, queue>> /\ (Live' => RunInv)
        BY <1>2 DEF Start, vars, operationVars, FilesInv, Live
    <2>2. Live' => KnownIds' /\ Dallies' /\ (Idle => Idle') /\ ThereOrReported'
        BY <2>1 DEF RunInv, KnownIds, Dallies, Idle, OfOperation, ThereOrReported
    <2>3. SuccessIsOnDisk' /\ SentAsAnnounced'
        BY <2>1 DEF FilesInv, SuccessIsOnDisk, SentAsAnnounced, Faulty
    <2>4. CalmFiles => Whole(disk', statistic'.started)
        BY <2>1, OneWriterWhole DEF FilesInv
    <2> QED BY <2>1, <2>2, <2>3, <2>4, FilesPrimed DEF RunInv
<1>3. CASE Exit
    <2>1. /\ ~Live' /\ UNCHANGED operationVars /\ world' = world
          /\ statistic'.started = statistic.started
        BY <1>3, CountedAnswers DEF Exit, Live, Statistics, TypeInv, TypeOK
    <2> QED BY <2>1, FilesEnd
<1> QED BY <1>1, <1>2, <1>3, FilesArrival, FilesOperationHandler, FilesServerHandler
        DEF Next, Dispatch, Arrival

(* The process starts with it. *)
LEMMA FilesInit == Init => FilesInv
<1> SUFFICES ASSUME Init PROVE FilesInv
    OBVIOUS
<1>1. \A f \in DOMAIN disk : disk[f] = Chunked(0, Len(disk[f])) /\ 0 \in 0 .. statistic.started
    BY ServerAssumption DEF Init, Chunked
<1>2. OneWriter
    BY <1>1 DEF OneWriter, Chunked
<1>3. SuccessIsOnDisk /\ SentAsAnnounced
    BY DEF Init, SuccessIsOnDisk, SentAsAnnounced, NoOperation
<1>4. RunInv
    BY DEF Init, RunInv, ThereOrReported, KnownIds, Dallies, Reads, Writes, NoOperation
<1> QED BY <1>2, <1>3, <1>4 DEF FilesInv

(* The invariant of the files holds in every state of the process. *)
LEMMA FilesInvariant == Spec => []FilesInv
BY FilesInit, FilesStep, TypeInvariant, PTL DEF Spec

(* receiveFile(), transmitFile(): no file ever holds chunks of two operations, or has a hole, *)
(* also when an operation is replaced by one that writes the same file while its stream has    *)
(* not been flushed.                                                                           *)
THEOREM FilesHaveOneWriter == Spec => []OneWriter
<1>1. FilesInv => OneWriter
    BY DEF FilesInv
<1> QED BY <1>1, FilesInvariant, PTL

(* finished(): a write operation that has reported success has its whole file on disk. *)
THEOREM SuccessfulWriteIsOnDisk == Spec => []SuccessIsOnDisk
<1>1. FilesInv => SuccessIsOnDisk
    BY DEF FilesInv
<1> QED BY <1>1, FilesInvariant, PTL

(* transmitFile(), sendData(): a read operation that has reported success has sent the whole *)
(* file, and as much as was announced unless the file was just being written.                 *)
THEOREM SuccessfulReadIsComplete == Spec => []SentAsAnnounced
<1>1. FilesInv => SentAsAnnounced
    BY DEF FilesInv
<1> QED BY <1>1, FilesInvariant, PTL

-----------------------------------------------------------------------------
(* Every packet that has arrived is counted *)

(* A packet that is added to a queue is one more, another completion is none. *)
LEMMA QueuedBehind ==
    ASSUME NEW q \in Seq(Completions), NEW c \in Completions
    PROVE  /\ Cardinality(QueuedPackets(q)) \in Nat
           /\ Cardinality(QueuedPackets(Append(q, c)))
                = Cardinality(QueuedPackets(q)) + (IF IsPacket(c.event) THEN 1 ELSE 0)
<1> DEFINE n == Len(q)
<1>1. n \in Nat /\ n + 1 \notin QueuedPackets(q) /\ QueuedPackets(q) \in SUBSET (1 .. n)
    BY DEF QueuedPackets
<1>2. IsFiniteSet(QueuedPackets(q)) /\ Cardinality(QueuedPackets(q)) \in Nat
    <2>1. IsFiniteSet(1 .. n)
        BY <1>1, FS_Interval
    <2> QED BY <1>1, <2>1, FS_Subset, FS_CardinalityType
<1>3. /\ Len(Append(q, c)) = n + 1 /\ Append(q, c)[n + 1] = c
      /\ \A i \in 1 .. n : Append(q, c)[i] = q[i]
    OBVIOUS
<1> HIDE DEF n
<1>4. QueuedPackets(Append(q, c)) = QueuedPackets(q) \cup (IF IsPacket(c.event) THEN {n + 1} ELSE {})
    BY <1>1, <1>3 DEF QueuedPackets, n
<1>5. CASE IsPacket(c.event)
    BY <1>1, <1>2, <1>4, <1>5, FS_AddElement
<1>6. CASE ~IsPacket(c.event)
    BY <1>2, <1>4, <1>6
<1> QED BY <1>5, <1>6

(* A packet that is taken from a queue is one less, another completion is none. *)
LEMMA QueuedBefore ==
    ASSUME NEW q \in Seq(Completions), q # <<>>
    PROVE  Cardinality(QueuedPackets(q))
             = Cardinality(QueuedPackets(Tail(q))) + (IF IsPacket(Head(q).event) THEN 1 ELSE 0)
<1> DEFINE n    == Len(q)
           rest == {i \in 2 .. n : IsPacket(q[i].event)}
           down == [i \in rest |-> i - 1]
<1>1. /\ n \in Nat /\ n > 0 /\ Tail(q) \in Seq(Completions) /\ Len(Tail(q)) = n - 1
      /\ Head(q) = q[1] /\ \A i \in 1 .. n - 1 : Tail(q)[i] = q[i + 1]
    BY HeadTailProperties, EmptySeq
<1> HIDE DEF n
<1>2. /\ IsFiniteSet(rest) /\ Cardinality(rest) \in Nat
    <2>1. IsFiniteSet(2 .. n) /\ rest \in SUBSET (2 .. n)
        BY <1>1, FS_Interval
    <2> HIDE DEF rest
    <2> QED BY <2>1, FS_Subset, FS_CardinalityType
<1>3. down \in Bijection(rest, QueuedPackets(Tail(q)))
    <2>1. ASSUME NEW i \in rest PROVE down[i] \in QueuedPackets(Tail(q))
        BY <1>1 DEF QueuedPackets
    <2>2. ASSUME NEW i \in rest, NEW j \in rest, down[i] = down[j] PROVE i = j
        BY <1>1, <2>2
    <2>3. ASSUME NEW j \in QueuedPackets(Tail(q)) PROVE j + 1 \in rest /\ down[j + 1] = j
        BY <1>1 DEF QueuedPackets
    <2>4. down \in [rest -> QueuedPackets(Tail(q))]
        BY <2>1
    <2> HIDE DEF down
    <2> QED BY <2>2, <2>3, <2>4 DEF Bijection, Injection, Surjection, IsInjective
<1>4. Cardinality(rest) = Cardinality(QueuedPackets(Tail(q)))
    BY <1>2, <1>3, FS_Bijection DEF ExistsBijection
<1>5. 1 \notin rest /\ QueuedPackets(q) = rest \cup (IF IsPacket(Head(q).event) THEN {1} ELSE {})
    BY <1>1 DEF QueuedPackets, n
<1> HIDE DEF rest
<1>6. CASE IsPacket(Head(q).event)
    BY <1>2, <1>4, <1>5, <1>6, FS_AddElement
<1>7. CASE ~IsPacket(Head(q).event)
    BY <1>4, <1>5, <1>7
<1> QED BY <1>6, <1>7

(* The packet of the handler is counted, once, and no other one has arrived. *)
CountsOne ==
    /\ statistic'.arrived = statistic.arrived
    /\ statistic'.counted = statistic.counted + (IF IsPacket(Current) THEN 1 ELSE 0)

(* Each form of the statistic that a handler leaves counts its packet. *)
LEMMA CountedCounts ==
    ASSUME TypeInv, NEW n \in Nat,
           \/ statistic' = Counted
           \/ statistic' = [Counted EXCEPT !.printed = n]
           \/ statistic' = [Counted EXCEPT !.errors = @ + 1]
           \/ statistic' = [Counted EXCEPT !.started = @ + 1]
           \/ statistic' = [Counted EXCEPT !.started = @ + 1, !.printed = n]
    PROVE  CountsOne
<1>1. statistic \in Statistics
    BY TypeHalves DEF ControlType
<1> QED BY <1>1 DEF CountsOne, Counted, Statistics

(* Handlers of the operation count their packets, timeouts are none. *)
LEMMA OperationCounts == ASSUME TypeInv, OperationHandler, Running' PROVE CountsOne
<1>0. statistic.counted \in Nat /\ statistic \in Statistics
    BY TypeHalves DEF ControlType, Statistics
<1>1. ASSUME NEW o, NEW timer, Waits(o, timer) PROVE CountsOne
    BY <1>0, <1>1, CountedCounts DEF Waits
<1>2. ASSUME NEW o, NEW d, NEW status, Finished(o, d, status) PROVE CountsOne
    BY <1>0, <1>2, CountedCounts DEF Finished
<1>3. CASE DataStored
    BY <1>1, <1>2, <1>3 DEF DataStored
<1>4. CASE DataAcknowledged \/ PacketRepeated
    BY <1>1, <1>2, <1>4 DEF DataAcknowledged, PacketRepeated
<1>5. CASE OperationFails \/ TimeoutDally
    BY <1>2, <1>5 DEF OperationFails, TimeoutDally
<1>6. CASE Timeout
    <2>1. CASE Finished(operation, disk, "CommunicationError")
        BY <1>2, <2>1
    <2>2. CASE UNCHANGED statistic
        <3>1. ~IsPacket(Current)
            BY <1>6 DEF Timeout, Handles, IsPacket
        <3> QED BY <1>0, <2>2, <3>1 DEF CountsOne
    <2> QED BY <1>6, <2>1, <2>2 DEF Timeout
<1>7. CASE SendFails \/ DanglingHandler
    BY <1>7 DEF SendFails, DanglingHandler, Running
<1> QED BY <1>3, <1>4, <1>5, <1>6, <1>7 DEF OperationHandler

(* Handlers of the dispatcher count their packets unless the process ends. *)
LEMMA ServerCounts == ASSUME TypeInv, ServerHandler, Running' PROVE CountsOne
<1>0. statistic.counted \in Nat
    BY TypeHalves DEF ControlType, Statistics
<1>1. CASE UnexpectedPacket \/ RefusedRequest \/ InvalidPacket
    BY <1>0, <1>1, CountedCounts DEF UnexpectedPacket, RefusedRequest, InvalidPacket, ErrorOperation
<1>2. CASE ReceiveFails \/ NoRequestHandler \/ DirectoryRequest
    BY <1>2 DEF ReceiveFails, NoRequestHandler, DirectoryRequest, EscapesWith, Running
<1>3. CASE TransmitFile \/ ReceiveFile
    <2>1. PICK o, first, assigned : Begin(o, first, assigned)
        BY <1>3 DEF TransmitFile, ReceiveFile
    <2>2. ASSUME NEW s, Starts(s) PROVE CountsOne
        BY <1>0, <2>2, CountedCounts DEF Starts
    <2>3. ASSUME NEW status, NEW q, Reports(o, status, q) PROVE CountsOne
        BY <1>0, <2>3, CountedCounts DEF Reports
    <2>4. ~Terminates(o)
        BY DEF Terminates, Running
    <2> QED BY <2>1, <2>2, <2>3, <2>4 DEF Begin, Refuses, FailsToSend
<1> QED BY <1>1, <1>2, <1>3 DEF ServerHandler

(* The completion of a signal is none of a packet. *)
SignalsApart(q) == \A i \in 1 .. Len(q) : q[i].to = "signal" => ~IsPacket(q[i].event)

CountInv ==
    /\ process = "starting" => queue = <<>> /\ statistic.arrived = statistic.counted
    /\ Running => SignalsApart(queue)
    /\ PacketsCounted

(* Signals stay apart when a queue loses its head, or gets another completion. *)
LEMMA SignalsKept ==
    ASSUME NEW q \in Seq(Completions), SignalsApart(q)
    PROVE  /\ q # <<>> => SignalsApart(Tail(q)) /\ (Head(q).to = "signal" => ~IsPacket(Head(q).event))
           /\ \A c \in Completions :
                 (c.to = "signal" => ~IsPacket(c.event)) => SignalsApart(Append(q, c))
<1>1. ASSUME q # <<>>
      PROVE  SignalsApart(Tail(q)) /\ (Head(q).to = "signal" => ~IsPacket(Head(q).event))
    <2>1. /\ Len(q) \in Nat /\ Len(q) > 0 /\ Len(Tail(q)) = Len(q) - 1
          /\ Head(q) = q[1] /\ \A i \in 1 .. Len(q) - 1 : Tail(q)[i] = q[i + 1]
        BY <1>1, HeadTailProperties, EmptySeq
    <2> QED BY <2>1 DEF SignalsApart
<1>2. ASSUME NEW c \in Completions, c.to = "signal" => ~IsPacket(c.event)
      PROVE  SignalsApart(Append(q, c))
    <2>1. /\ Len(q) \in Nat /\ Len(Append(q, c)) = Len(q) + 1 /\ Append(q, c)[Len(q) + 1] = c
          /\ \A i \in 1 .. Len(q) : Append(q, c)[i] = q[i]
        OBVIOUS
    <2> QED BY <1>2, <2>1 DEF SignalsApart
<1> QED BY <1>1, <1>2

(* What has arrived is counted or queued, after the arrival of a completion ... *)
LEMMA CountArrival ==
    ASSUME TypeInv, Arrival
    PROVE  /\ \E c \in Completions :
                /\ queue' = Append(queue, c)
                /\ c.to = "signal" => ~IsPacket(c.event)
                /\ statistic'.arrived = statistic.arrived + (IF IsPacket(c.event) THEN 1 ELSE 0)
           /\ statistic'.counted = statistic.counted /\ UNCHANGED process /\ Running
<1>0. statistic \in Statistics /\ statistic.arrived \in Nat /\ operation.id \in Nat
      /\ operation.waits \subseteq {"receive", "timeout", "timeoutDally"}
    BY TypeHalves DEF ControlType, FilesType, Operation, Statistics
<1>1. UNCHANGED process /\ Running
    BY ArrivalStep
<1>2. ASSUME NEW c \in Completions, Arrive(c)
      PROVE  /\ queue' = Append(queue, c)
             /\ statistic'.arrived = statistic.arrived + (IF IsPacket(c.event) THEN 1 ELSE 0)
             /\ statistic'.counted = statistic.counted
    BY <1>0, <1>2 DEF Arrive, Statistics
<1>3. CASE ServerReceives
    <2>1. PICK event \in ServerEvents : Arrive(Completion("server", 0, event))
        BY <1>3 DEF ServerReceives
    <2>2. Completion("server", 0, event) \in Completions /\ Completion("server", 0, event).to # "signal"
        BY CompletionTypes DEF Completion
    <2> QED BY <1>1, <1>2, <2>1, <2>2
<1>4. CASE OperationReceives
    <2>1. PICK event \in OperationEvents : Arrive(Completion("operation", operation.id, event))
        BY <1>4 DEF OperationReceives
    <2>2. /\ Completion("operation", operation.id, event) \in Completions
          /\ Completion("operation", operation.id, event).to # "signal"
        BY <1>0, CompletionTypes DEF Completion
    <2> QED BY <1>1, <1>2, <2>1, <2>2
<1>5. CASE TimerExpires
    <2>1. PICK timer \in operation.waits \ {"receive"} :
             queue' = Append(queue, Completion("operation", operation.id, Event(timer)))
        BY <1>5 DEF TimerExpires
    <2> DEFINE c == Completion("operation", operation.id, Event(timer))
    <2>2. c \in Completions /\ ~IsPacket(c.event)
        BY <1>0, CompletionTypes DEF IsPacket, Event, Completion
    <2>3. UNCHANGED statistic
        BY <1>5 DEF TimerExpires
    <2> HIDE DEF c
    <2> QED BY <1>0, <1>1, <2>1, <2>2, <2>3 DEF c
<1>6. CASE UserSignals
    <2> DEFINE c == Completion("signal", 0, Event("signal"))
    <2>1. c \in Completions /\ ~IsPacket(c.event)
        BY CompletionTypes DEF IsPacket, Event, Completion
    <2>2. queue' = Append(queue, c) /\ UNCHANGED statistic
        BY <1>6 DEF UserSignals
    <2> HIDE DEF c
    <2> QED BY <1>0, <1>1, <2>1, <2>2
<1> QED BY <1>3, <1>4, <1>5, <1>6 DEF Arrival

(* ... and after every other step. *)
LEMMA CountStep == TypeInv /\ CountInv /\ [Next]_vars => CountInv'
<1> SUFFICES ASSUME TypeInv, CountInv, [Next]_vars PROVE CountInv'
    OBVIOUS
<1> DEFINE Queued == Cardinality(QueuedPackets(queue))
           Here   == IF IsPacket(Current) THEN 1 ELSE 0
<1>0. queue \in Seq(Completions) /\ statistic.arrived \in Nat /\ statistic.counted \in Nat
    BY TypeHalves DEF ControlType, Statistics
<1>1. Queued \in Nat /\ (Running => statistic.arrived = statistic.counted + Queued)
    <2>1. \E c \in Completions : TRUE
        BY CompletionTypes
    <2> QED BY <1>0, <2>1, QueuedBehind DEF CountInv, PacketsCounted, Queued
<1> HIDE DEF Queued
<1>2. CASE Arrival
    <2>1. PICK c \in Completions :
             /\ queue' = Append(queue, c)
             /\ c.to = "signal" => ~IsPacket(c.event)
             /\ statistic'.arrived = statistic.arrived + (IF IsPacket(c.event) THEN 1 ELSE 0)
        BY <1>2, CountArrival
    <2>2. statistic'.counted = statistic.counted /\ UNCHANGED process /\ Running
        BY <1>2, CountArrival
    <2>3. Cardinality(QueuedPackets(queue')) = Queued + (IF IsPacket(c.event) THEN 1 ELSE 0)
        BY <1>0, <2>1, QueuedBehind DEF Queued
    <2>4. statistic'.arrived = statistic'.counted + Cardinality(QueuedPackets(queue'))
        BY <1>0, <1>1, <2>1, <2>2, <2>3
    <2>5. SignalsApart(queue')
        BY <1>0, <2>1, <2>2, SignalsKept DEF CountInv
    <2> QED BY <2>2, <2>4, <2>5 DEF CountInv, PacketsCounted, Running
<1>3. ASSUME queue # <<>>, Running, CountsOne, process' = "running",
             NEW q \in Seq(Completions), SignalsApart(q), Cardinality(QueuedPackets(q)) = Cardinality(QueuedPackets(Tail(queue))),
             queue' = q
      PROVE  CountInv'
    <2>1. Cardinality(QueuedPackets(q)) \in Nat /\ Queued = Cardinality(QueuedPackets(q)) + Here
        <3>1. \E c \in Completions : TRUE
            BY CompletionTypes
        <3> QED BY <1>0, <1>3, <3>1, QueuedBehind, QueuedBefore DEF Queued, Current
    <2>2. Here \in Nat /\ statistic'.arrived = statistic.arrived /\ statistic'.counted = statistic.counted + Here
        BY <1>3 DEF CountsOne
    <2> HIDE DEF Here
    <2>3. statistic'.arrived = statistic'.counted + Cardinality(QueuedPackets(queue'))
        BY <1>0, <1>1, <1>3, <2>1, <2>2
    <2> QED BY <1>3, <2>3 DEF CountInv, PacketsCounted
<1>4. ASSUME process' \notin {"starting", "running", "success"} PROVE CountInv'
    BY <1>4 DEF CountInv, PacketsCounted, Running
<1>5. ASSUME queue # <<>> PROVE Tail(queue) \in Seq(Completions)
    BY <1>0, <1>5, HeadTailProperties
<1>6. ASSUME queue # <<>>, Running
       PROVE  SignalsApart(Tail(queue)) /\ (Head(queue).to = "signal" => ~IsPacket(Head(queue).event))
    BY <1>0, <1>6, SignalsKept DEF CountInv
<1>7. CASE OperationHandler
    <2>1. Running /\ queue # <<>> /\ queue' = Tail(queue) /\ process' \in {"running", "undefined"}
        BY <1>7, OperationStep DEF Runs
    <2>2. CASE process' = "running"
        BY <1>3, <1>5, <1>7, <1>6, <2>1, <2>2, OperationCounts DEF Running
    <2> QED BY <1>4, <2>1, <2>2
<1>8. CASE ServerHandler
    <2>1. Runs("server") /\ Running /\ queue # <<>> /\ (GoesOn \/ EndsProcess)
        BY <1>8, ServerStep DEF Runs
    <2>2. CASE EndsProcess
        BY <1>4, <2>2 DEF EndsProcess
    <2>3. CASE GoesOn
        <3>1. process' = "running" /\ CountsOne
            BY <1>8, <2>1, <2>3, ServerCounts DEF GoesOn, Running
        <3>2. PICK t \in Seq(Completions) : t = Tail(queue) /\ SignalsApart(t)
            BY <1>5, <1>6, <2>1
        <3>3. PICK q \in Seq(Completions) :
                 /\ Receive(q) /\ SignalsApart(q)
                 /\ Cardinality(QueuedPackets(q)) = Cardinality(QueuedPackets(Tail(queue)))
            <4>1. CASE Receive(Tail(queue))
                BY <3>2, <4>1
            <4>2. ASSUME NEW id \in Nat,
                         Receive(Append(Tail(queue), Completion("operation", id, Event("failed"))))
                  PROVE  \E q \in Seq(Completions) :
                           /\ Receive(q) /\ SignalsApart(q)
                           /\ Cardinality(QueuedPackets(q)) = Cardinality(QueuedPackets(Tail(queue)))
                <5> DEFINE c == Completion("operation", id, Event("failed"))
                <5>1. c \in Completions /\ ~IsPacket(c.event) /\ c.to # "signal"
                    BY CompletionTypes DEF IsPacket, Event, Completion
                <5> HIDE DEF c
                <5>2. Append(t, c) \in Seq(Completions) /\ SignalsApart(Append(t, c))
                    <6>1. SignalsApart(t)
                        BY <3>2
                    <6>2. SignalsApart(Append(t, c))
                        BY <5>1, <6>1, SignalsKept
                    <6> QED BY <5>1, <6>2
                <5>3. Cardinality(QueuedPackets(Append(t, c))) = Cardinality(QueuedPackets(t))
                    BY <5>1, QueuedBehind
                <5> QED BY <3>2, <4>2, <5>2, <5>3 DEF c
            <4> QED BY <2>3, <4>1, <4>2 DEF GoesOn
        <3>4. CASE queue' = q
            BY <1>3, <2>1, <3>1, <3>3, <3>4
        <3>5. CASE queue' # q
            <4> DEFINE c == Completion("server", 0, Event("failed"))
            <4>1. queue' = Append(q, c)
                BY <3>3, <3>5 DEF Receive
            <4>2. c \in Completions /\ ~IsPacket(c.event) /\ c.to # "signal"
                BY CompletionTypes DEF IsPacket, Event, Completion
            <4> HIDE DEF c
            <4>3. /\ Append(q, c) \in Seq(Completions) /\ SignalsApart(Append(q, c))
                  /\ Cardinality(QueuedPackets(Append(q, c))) = Cardinality(QueuedPackets(Tail(queue)))
                BY <3>3, <4>2, QueuedBehind, SignalsKept
            <4> QED BY <1>3, <2>1, <3>1, <4>1, <4>3
        <3> QED BY <3>4, <3>5
    <2> QED BY <2>1, <2>2, <2>3
<1>9. CASE SignalHandler
    <2>1. Running /\ queue # <<>> /\ Head(queue).to = "signal" /\ queue' = Tail(queue)
          /\ UNCHANGED <<process, statistic>>
        BY <1>9 DEF SignalHandler, Runs, operationVars
    <2>2. ~IsPacket(Current)
        BY <1>6, <2>1 DEF Current
    <2>3. CountsOne
        BY <1>0, <2>1, <2>2 DEF CountsOne
    <2> QED BY <1>3, <1>5, <1>6, <2>1, <2>3 DEF Running
<1>10. CASE Start
    <2>1. process = "starting" /\ process' \in {"running", "failure"} /\ UNCHANGED <<queue, statistic>>
        BY <1>10 DEF Start
    <2>2. queue' = <<>> /\ statistic'.arrived = statistic'.counted
        BY <2>1 DEF CountInv
    <2>3. QueuedPackets(queue') = {}
        BY <2>2 DEF QueuedPackets
    <2>4. Cardinality(QueuedPackets(queue')) = 0
        BY <2>3, FS_EmptySet
    <2>5. SignalsApart(queue')
        BY <2>2 DEF SignalsApart
    <2> QED BY <1>0, <2>1, <2>2, <2>4, <2>5 DEF CountInv, PacketsCounted, Running
<1>11. CASE Exit
    <2>1. /\ Running /\ queue = <<>> /\ process' = "success"
          /\ statistic' = [statistic EXCEPT !.printed = statistic.counted]
        BY <1>11 DEF Exit
    <2>2. QueuedPackets(queue) = {}
        BY <2>1 DEF QueuedPackets
    <2>3. Queued = 0
        BY <2>2, FS_EmptySet DEF Queued
    <2>4. statistic'.printed = statistic'.arrived
        <3>1. statistic \in Statistics
            BY TypeHalves DEF ControlType
        <3> QED BY <1>0, <1>1, <2>1, <2>3, <3>1 DEF Statistics
    <2> QED BY <2>1, <2>4 DEF CountInv, PacketsCounted, Running
<1>12. CASE UNCHANGED vars
    BY <1>12 DEF vars, CountInv, PacketsCounted, Running, SignalsApart, QueuedPackets
<1> QED BY <1>2, <1>7, <1>8, <1>9, <1>10, <1>11, <1>12 DEF Next, Dispatch, Arrival

(* receiveHandler(), packet(): no packet is lost for the statistic, or counted twice, whatever *)
(* its handler does, and what main() prints at the end has all of them.                        *)
THEOREM EveryPacketCounted == Spec => []PacketsCounted
<1>1. Init => CountInv
    BY DEF Init, CountInv, PacketsCounted, Running
<1>2. CountInv => PacketsCounted
    BY DEF CountInv
<1> QED BY <1>1, <1>2, CountStep, TypeInvariant, PTL DEF Spec

=============================================================================
