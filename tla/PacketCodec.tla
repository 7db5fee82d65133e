----------------------------- MODULE PacketCodec -----------------------------
(***************************************************************************)
(* What packets look like on the wire, and what a receiver makes of a      *)
(* datagram that may have been cut to the size of its buffer (encode() and *)
(* decodeBody() of the packets, packets/Options.cpp).                      *)
(*                                                                         *)
(* A datagram is a sequence of cells, which are numbers.  An opcode, a     *)
(* block number, a transfer mode, the name of an option and its value take *)
(* one cell each instead of some bytes, and so does each byte of a         *)
(* filename and of a file.  Strings end with NUL.                          *)
(***************************************************************************)
EXTENDS OptionNegotiation, Sequences, SequencesExt, FiniteSets

NUL == 0

Opcodes == [RRQ |-> 1, WRQ |-> 2, DATA |-> 3, ACK |-> 4, ERROR |-> 5, OACK |-> 6]

Modes      == {"OCTET", "NETASCII", "MAIL"}
ErrorCodes == {"DiskFullOrAllocationExceeds", "IllegalTftpOperation", "TftpOptionRefused"}

ModeCells == [OCTET |-> 7, NETASCII |-> 8, MAIL |-> 9]
CodeCells == [DiskFullOrAllocationExceeds |-> 3, IllegalTftpOperation |-> 4, TftpOptionRefused |-> 8]
Letter    == 10   \* a character of a filename, and of an error message

OptionNames == KnownOptions \cup OtherOptions

(* The header is an opcode and a block number.  A packet of the default size has room for an *)
(* opcode and the options of the library, which take four cells each.                         *)
ASSUME PacketAssumption ==
    HeaderSize = 2 /\ HeaderSize + DefaultDataSize >= 13 /\ IsFiniteSet(OtherOptions)

(* std::map is ordered: the known names, then the others. *)
OrderedNames ==
    <<"blksize", "timeout", "tsize">> \o SetToSeq(OtherOptions)
NameCell(name)  == 10 + CHOOSE i \in DOMAIN OrderedNames : OrderedNames[i] = name
ValueCells(value) == IF value = Empty THEN <<>> ELSE <<IF value = Text THEN 99 ELSE 100 + value>>

IsName(string)  == Len(string) = 1 /\ \E name \in OptionNames : string = <<NameCell(name)>>
NameOf(string)  == CHOOSE name \in OptionNames : string = <<NameCell(name)>>
ValueOf(string) == IF string = <<>> THEN Empty ELSE IF string[1] >= 100 THEN string[1] - 100 ELSE Text

-----------------------------------------------------------------------------
(* Options_rawOptions() *)
RawOptions(options) ==
    FlattenSeq([i \in DOMAIN OrderedNames |->
        IF OrderedNames[i] \in DOMAIN options
        THEN <<NameCell(OrderedNames[i]), NUL>> \o ValueCells(options[OrderedNames[i]]) \o <<NUL>>
        ELSE <<>>])

(* encode() of the packets.  "name" is a filename of letters. *)
EncodeRequest(type, name, mode, options) ==
    <<Opcodes[type]>> \o name \o <<NUL, ModeCells[mode], NUL>> \o RawOptions(options)
EncodeData(block, data) == <<Opcodes["DATA"], block>> \o data
EncodeAck(block)        == <<Opcodes["ACK"], block>>
EncodeError(code)       == <<Opcodes["ERROR"], CodeCells[code], Letter, NUL>>
EncodeOack(options)     == <<Opcodes["OACK"]>> \o RawOptions(options)

-----------------------------------------------------------------------------
(* The positions of NUL in order, and the strings they end. *)
Count(cells, n) == Cardinality({i \in 1 .. n : cells[i] = NUL})
Ends(cells) ==
    [k \in 1 .. Count(cells, Len(cells)) |->
        CHOOSE i \in DOMAIN cells : cells[i] = NUL /\ Count(cells, i) = k]
Strings(cells) ==
    LET ends == Ends(cells)
    IN  [i \in DOMAIN ends |-> SubSeq(cells, IF i = 1 THEN 1 ELSE ends[i - 1] + 1, ends[i] - 1)]

Terminated(cells) == cells = <<>> \/ Last(cells) = NUL

(* The options that pairs of strings are: the first one of a name counts. *)
Pairs(strings) ==
    LET names == {i \in DOMAIN strings : i % 2 = 1 /\ IsName(strings[i])}
        First(name) == CHOOSE i \in names : /\ NameOf(strings[i]) = name
                                            /\ \A j \in names : NameOf(strings[j]) = name => i <= j
    IN  [name \in {NameOf(strings[i]) : i \in names} |-> ValueOf(strings[First(name) + 1])]

InvalidPacket == [type |-> "INVALID"]

(* Mutant: the end of the packet ends the last string, too. *)
DecodeOptionsUnterminated(cells) ==
    LET strings == Strings(IF Terminated(cells) THEN cells ELSE cells \o <<NUL>>)
        even    == IF Len(strings) % 2 = 0 THEN strings ELSE Append(strings, <<>>)
    IN  [valid |-> TRUE, options |-> Pairs(even)]

(* Options_options(): names and values, each with its end *)
DecodeOptions(cells) ==
    IF Terminated(cells) /\ Len(Strings(cells)) % 2 = 0
    THEN [valid |-> TRUE, options |-> Pairs(Strings(cells))]
    ELSE [valid |-> FALSE, options |-> NoOptions]

(* ReadWriteRequestPacket::decodeBody(), after the opcode.  A mode that is not known is *)
(* for the application to refuse.                                                       *)
DecodeRequest(type, body) ==
    IF body = <<>> \/ ~Terminated(body) \/ Len(Strings(body)) < 2 THEN InvalidPacket
    ELSE LET ends    == Ends(body)
             mode    == Strings(body)[2]
             decoded == DecodeOptions(SubSeq(body, ends[2] + 1, Len(body)))
         IN  IF ~decoded.valid THEN InvalidPacket
             ELSE [type    |-> type,
                   name    |-> Strings(body)[1],
                   mode    |-> IF \E m \in Modes : mode = <<ModeCells[m]>>
                               THEN CHOOSE m \in Modes : mode = <<ModeCells[m]>>
                               ELSE "Invalid",
                   options |-> decoded.options]

(* DataPacket::decodeBody(): the rest is data, however much it is. *)
DecodeData(body) ==
    IF body = <<>> THEN InvalidPacket
    ELSE [type |-> "DATA", block |-> Head(body), data |-> Tail(body)]

(* AcknowledgementPacket::decodeBody() *)
DecodeAck(body) ==
    IF Len(body) # 1 THEN InvalidPacket ELSE [type |-> "ACK", block |-> Head(body)]

(* ErrorPacket::decodeBody(): the message has its end. *)
DecodeError(body) ==
    IF Len(body) < 2 \/ Last(body) # NUL THEN InvalidPacket
    ELSE [type |-> "ERROR", code |-> CHOOSE c \in ErrorCodes : CodeCells[c] = Head(body)]

(* OptionsAcknowledgementPacket::decodeBody(): at least one option *)
DecodeOack(body) ==
    LET decoded == DecodeOptions(body)
    IN  IF body = <<>> \/ ~decoded.valid THEN InvalidPacket
        ELSE [type |-> "OACK", options |-> decoded.options]

(* Packet::packetType(), and the decoder PacketHandler::packet() chooses for it *)
PacketType(cells) ==
    IF cells # <<>> /\ \E t \in DOMAIN Opcodes : Opcodes[t] = Head(cells)
    THEN CHOOSE t \in DOMAIN Opcodes : Opcodes[t] = Head(cells)
    ELSE "INVALID"

Decode(cells) ==
    LET body == Tail(cells)
    IN  CASE PacketType(cells) \in {"RRQ", "WRQ"} -> DecodeRequest(PacketType(cells), body)
          [] PacketType(cells) = "DATA"    -> DecodeData(body)
          [] PacketType(cells) = "ACK"     -> DecodeAck(body)
          [] PacketType(cells) = "ERROR"   -> DecodeError(body)
          [] PacketType(cells) = "OACK"    -> DecodeOack(body)
          [] PacketType(cells) = "INVALID" -> InvalidPacket

(* What a buffer holds of a datagram: the socket drops the rest. *)
Cut(cells, size) == SubSeq(cells, 1, IF Len(cells) < size THEN Len(cells) ELSE size)

=============================================================================
