------------------------------ MODULE DataFiles ------------------------------
(***************************************************************************)
(* The data handlers of the library: StreamFile, MemoryFile and            *)
(* NullSinkFile (src/lib/tftp/files).  A file that is sent has its content *)
(* and a position in it; a file that is received only grows.               *)
(***************************************************************************)
EXTENDS Integers, Sequences

Unknown == -1   \* no size: std::nullopt, and 0 for a NullSinkFile

(* size: what is announced for a StreamFile that is sent, and the largest announcement that *)
(* is accepted for one that is received.                                                     *)
File(contents) == [type : {"stream", "memory", "null"}, operation : {"Transmit", "Receive"},
                   content : contents, position : Nat, size : Nat \cup {Unknown}]

Minimum(a, b) == IF a <= b THEN a ELSE b

(* Mutant: what has been received before is kept. *)
StartedAgain(file) == [file EXCEPT !.position = 0]

(* start(): a StreamFile is opened with "trunc", a MemoryFile is cleared. *)
Started(file) ==
    [file EXCEPT !.position = 0,
                 !.content  = IF file.operation = "Receive" THEN <<>> ELSE @]

(* finished(): the stream is closed, the position of a MemoryFile reset. *)
Closed(file) == [file EXCEPT !.position = 0]

(* receivedData() *)
Received(file, data) ==
    IF file.type = "null" THEN file ELSE [file EXCEPT !.content = @ \o data]

(* receivedTransferSize(): a MemoryFile accepts every size. *)
ReceivedTransferSize(file, transferSize) ==
    file.type = "memory" \/ file.size = Unknown \/ transferSize <= file.size

(* requestedTransferSize() *)
RequestedTransferSize(file) == IF file.type = "memory" THEN Len(file.content) ELSE file.size

(* sendData(): what is left, but at most maxSize; nothing at the end of the file. *)
DataToSend(file, maxSize) ==
    SubSeq(file.content, file.position + 1, Minimum(file.position + maxSize, Len(file.content)))
Sent(file, maxSize) == [file EXCEPT !.position = Minimum(@ + maxSize, Len(file.content))]

=============================================================================
