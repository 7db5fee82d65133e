----------------------------- MODULE MCDataPath -----------------------------
(* Values for model checking DataPath.  The numbers of the code are scaled: 512 bytes of data *)
(* are 16 cells, the largest block size is 24, and 16 bits end at 32, so that the buffer for   *)
(* a block size of 30 or 31 wraps to 0 or 1; a request with three options fits the buffer of    *)
(* the dispatcher, one with four does not.                                                       *)
EXTENDS DataPath

Config(blockSize, timeout, size) == [blockSize |-> blockSize, timeout |-> timeout, transferSize |-> size]

Letters(n) == [i \in 1 .. n |-> Letter]
Content(n) == [i \in 1 .. n |-> i]

Source0(type, n, size) ==
    [type |-> type, operation |-> "Transmit", content |-> Content(n), position |-> 0,
     size |-> IF size THEN n ELSE Unknown]
Sink0(type, limit) ==
    [type |-> type, operation |-> "Receive", content |-> <<>>, position |-> 0, size |-> limit]

Plain == [configurations |-> <<>>, additional |-> NoOptions, handler |-> "application",
          name |-> Letters(1), mode |-> "OCTET", file |-> Sink0("stream", Unknown)]
PlainServer == [configurations |-> <<>>, extra |-> "none", file |-> Source0("stream", 5, TRUE)]

(* A setup: the file of n cells goes from the server to the client, or the other way. *)
Case(kind, c, s, source, sink) ==
    [kind |-> kind, client |-> [c EXCEPT !.file = IF kind = "read" THEN sink ELSE source],
     server |-> [s EXCEPT !.file = IF kind = "read" THEN source ELSE sink]]

Kinds == {"read", "write"}
BlockSizes == {None, 1, 5, 16, 24, 27, 30, 31}

(* Sizes of blocks, buffers and files *)
SizeSetups ==
    {Case(k, [Plain EXCEPT !.configurations = <<Config(b, None, TRUE)>>],
             [PlainServer EXCEPT !.configurations = <<Config(d, None, TRUE)>>],
             Source0("stream", n, TRUE), Sink0("stream", Unknown)) :
        k \in Kinds, b \in BlockSizes, d \in BlockSizes, n \in {0, 4, 5, 10, 15, 16, 17, 24, 32}}

(* Block sizes, timeouts and transfer sizes, which the factory may preset *)
OptionSetups ==
    {Case(k, [Plain EXCEPT !.configurations = <<Config(24, 1, FALSE), Config(b, t, s)>>],
             [PlainServer EXCEPT !.configurations = <<Config(d, u, v)>>],
             Source0("stream", 5, s), Sink0("stream", Unknown)) :
        k \in Kinds, b \in {None, 5}, d \in {None, 5},
        t \in {None, 0, 1, 10, 11, 33}, u \in {None, 1, 10, 33}, s \in BOOLEAN, v \in BOOLEAN}

(* Additional options, handlers, files, and requests of any length *)
Additional ==
    {NoOptions, [n \in {"a"} |-> Empty], [n \in {"a", "b"} |-> Text], [n \in {"blksize"} |-> 24],
     [n \in {"blksize"} |-> Text], [n \in {"tsize"} |-> 3], [n \in {"a", "b", "tsize"} |-> 3]}

HandlerSetups ==
    {Case(k, [Plain EXCEPT !.configurations = <<c>>, !.additional = a, !.handler = h,
                           !.name = Letters(l), !.mode = IF l = 1 THEN "OCTET" ELSE "NETASCII"],
             [PlainServer EXCEPT !.configurations = <<Config(16, None, TRUE)>>, !.extra = e],
             Source0("memory", 5, TRUE), Sink0("memory", Unknown)) :
        k \in Kinds, c \in {NoConfiguration, Config(5, 1, TRUE)}, a \in Additional, h \in Handlers,
        l \in {0, 1, 2, 3, 4}, e \in {"none", "remaining", "unasked"}}

FileSetups ==
    {Case(k, [Plain EXCEPT !.configurations = <<Config(None, None, s)>>],
             [PlainServer EXCEPT !.configurations = <<Config(None, None, v)>>],
             Source0(from, n, known), Sink0(to, limit)) :
        k \in Kinds, s \in BOOLEAN, v \in BOOLEAN, n \in {0, 4, 5}, known \in BOOLEAN,
        from \in {"stream", "memory"}, to \in {"stream", "null", "memory"}, limit \in {Unknown, 4}}

AllSetups == SizeSetups \cup OptionSetups \cup HandlerSetups \cup FileSetups

(* The server of a second request answers without options, or with all of them. *)
OtherServers ==
    {[PlainServer EXCEPT !.configurations = c] : c \in {<<>>, <<Config(24, 10, TRUE)>>}}

=============================================================================
