-------------------------- MODULE OptionNegotiation --------------------------
(***************************************************************************)
(* The negotiation of options: what a client asks for, what the server     *)
(* decodes, uses and answers, and what the client makes of the answer      *)
(* (packets/Options.ipp, ServerImpl::tftpOptions() and the option code of  *)
(* the four operations).  Everything here is a function of its arguments;  *)
(* DataPath has the operations around it.                                  *)
(*                                                                         *)
(* Options are a function from names to values.  A value is the number     *)
(* that std::stoull() reads, or one of two strings that are no number.     *)
(***************************************************************************)
EXTENDS Integers

CONSTANTS
    HeaderSize,       \* DefaultTftpDataPacketHeaderSize
    DefaultDataSize,  \* data in a packet if no block size has been negotiated
    BlockSizeMin, BlockSizeMax, TimeoutMin, TimeoutMax, \* the ranges of the options
    Word,             \* 2^16
    OtherOptions      \* names of options the library does not know

KnownOptions == {"blksize", "timeout", "tsize"}

ASSUME OptionAssumption ==
    /\ HeaderSize \in Nat /\ DefaultDataSize \in Nat /\ Word \in Nat
    /\ BlockSizeMin \in Nat /\ BlockSizeMax \in Nat /\ TimeoutMin \in Nat /\ TimeoutMax \in Nat
    /\ 0 < BlockSizeMin /\ BlockSizeMin <= DefaultDataSize /\ DefaultDataSize <= BlockSizeMax
    /\ HeaderSize + BlockSizeMax < Word
    /\ 0 < TimeoutMin /\ TimeoutMin <= TimeoutMax /\ TimeoutMax < Word
    /\ OtherOptions \cap KnownOptions = {}

None  == -1   \* std::nullopt, boost::none
Empty == -2   \* ""
Text  == -3   \* a string without a number at its beginning

Values  == Nat \cup {Empty, Text}
IsOptions(o) == DOMAIN o \subseteq KnownOptions \cup OtherOptions /\ o \in [DOMAIN o -> Values]
NoOptions == [name \in {} |-> Empty]

(* TftpOptionsConfiguration: what an operation asks for, or grants *)
Configuration == [blockSize : 0 .. Word - 1 \cup {None}, timeout : Nat \cup {None},
                  transferSize : BOOLEAN]

-----------------------------------------------------------------------------
(* Options_getOption(): what is not there is valid, and has no value. *)
GetOption(options, name, values) ==
    IF name \notin DOMAIN options THEN [valid |-> TRUE, value |-> None]
    ELSE IF options[name] \in values THEN [valid |-> TRUE, value |-> options[name]]
    ELSE [valid |-> FALSE, value |-> None]

BlockSizeOption(options)    == GetOption(options, "blksize", BlockSizeMin .. BlockSizeMax)
TimeoutOption(options)      == GetOption(options, "timeout", TimeoutMin .. TimeoutMax)
TransferSizeOption(options) == GetOption(options, "tsize", Nat)

(* std::map::try_emplace(), for a value that is there; an option of the user is kept. *)
WithOption(options, name, value) ==
    IF value = None THEN options
    ELSE [n \in DOMAIN options \cup {name} |->
            IF n \in DOMAIN options THEN options[n] ELSE value]

(* The options of this library, in the order in which they are added. *)
WithOptions(additional, blockSize, timeout, size) ==
    WithOption(WithOption(WithOption(additional, "blksize", blockSize), "timeout", timeout),
               "tsize", size)

(* What is left when getOption() has extracted the known options *)
Remaining(options) == [name \in DOMAIN options \ KnownOptions |-> options[name]]

(* Mutant: the header is forgotten. *)
BufferOfData(config) ==
    IF config.blockSize > DefaultDataSize THEN config.blockSize ELSE DefaultDataSize

(* optionsConfiguration() of the operations that receive data: the size of the buffer, which *)
(* is converted to 16 bits                                                                    *)
BufferSize(config) ==
    (HeaderSize + IF config.blockSize > DefaultDataSize THEN config.blockSize ELSE DefaultDataSize)
        % Word

-----------------------------------------------------------------------------
(* request() of the client: "size" is 0 for a read, and what the data handler has for a *)
(* write.  The timeout is converted to 16 bits.                                          *)
RequestOptions(config, additional, size) ==
    WithOptions(additional, config.blockSize,
                IF config.timeout = None THEN None ELSE config.timeout % Word,
                IF config.transferSize THEN size ELSE None)

(* ServerImpl::tftpOptions(): an option that is invalid is as if it were not there. *)
TftpOptions(options) ==
    [blockSize    |-> BlockSizeOption(options).value,
     timeout      |-> TimeoutOption(options).value,
     transferSize |-> TransferSizeOption(options).value]

(* start() of the server: the smaller block size *)
GrantedBlockSize(config, client) ==
    IF config.blockSize = None \/ client.blockSize = None THEN None
    ELSE IF client.blockSize <= config.blockSize THEN client.blockSize
    ELSE config.blockSize

(* Mutant: a timeout that is too long is shortened. *)
GrantedTimeoutShortened(config, client) ==
    IF config.timeout = None \/ client.timeout = None THEN None
    ELSE IF client.timeout <= config.timeout THEN client.timeout
    ELSE config.timeout

(* ... the timeout of the client, or none *)
GrantedTimeout(config, client) ==
    IF config.timeout # None /\ client.timeout # None /\ client.timeout <= config.timeout
    THEN client.timeout ELSE None

(* Mutant: the client gets its own transfer size back. *)
ServerOptionsEchoed(config, client, additional, size) ==
    WithOptions(additional, GrantedBlockSize(config, client), GrantedTimeout(config, client),
                IF config.transferSize THEN client.transferSize ELSE None)

(* ... and "size" for the transfer size, if it is asked for: the size of the file for a *)
(* read, what the client has announced for a write.                                      *)
ServerOptions(config, client, additional, size) ==
    WithOptions(additional, GrantedBlockSize(config, client), GrantedTimeout(config, client),
                IF config.transferSize /\ client.transferSize # None THEN size ELSE None)

-----------------------------------------------------------------------------
(* optionsAcknowledgementPacket() of the client: what makes it refuse the answer.  An *)
(* option that has not been requested is not expected.                                 *)
RefusesBlockSize(config, option) ==
    ~option.valid \/ (option.value # None /\ (config.blockSize = None \/ option.value > config.blockSize))

RefusesTimeout(config, option) ==
    ~option.valid \/ (option.value # None /\ option.value # config.timeout)

(* A read asks its data handler, a write compares with what it has sent. *)
RefusesTransferSize(config, option, acceptable) ==
    ~option.valid \/ (option.value # None /\ ~(config.transferSize /\ acceptable))

(* Option negotiation handlers: none; the one of tftp_client, which accepts no additional *)
(* options; one that handles, and removes, all of them; one that accepts but forgets to   *)
(* remove them; one that refuses.                                                          *)
Handlers == {"none", "application", "handles", "forgets", "refuses"}

HandlerAccepts(handler, remaining) ==
    CASE handler = "refuses"     -> FALSE
      [] handler = "application" -> DOMAIN remaining = {}
      [] OTHER                   -> TRUE

(* What the handler leaves must be empty, also if there is no handler. *)
RefusesRemaining(handler, remaining) ==
    \/ ~HandlerAccepts(handler, remaining)
    \/ handler # "handles" /\ DOMAIN remaining # {}

=============================================================================
