# A TLA+ model of the TFTP library

The repository is a TFTP client and server in C++ on top of boost::asio: the
library `src/lib/tftp` and the applications `src/app/tftp_client` and
`src/app/tftp_server`. This directory holds TLA+ modules that model the
transfer of a file, the server process around it, and the way of options and
data through it, configurations that check them with TLC, and theorems that
TLAPS proves.

## The system

| Component | State | Operations | Correct if |
|---|---|---|---|
| Block numbers (`packets/BlockNumber`) | a 16 bit number | next, previous; 65535 is followed by 1 | both sides number alike, 0 is never given to data |
| Packets (`packets/*Packet`, `PacketHandler`) | none | decode, encode, dispatch by type | the handler of the right type is called, once |
| Operation base (`clients/`, `servers/implementation/OperationImpl`) | socket, timer, last packet, retry counter, peer | initialise, send, receive, dally, time out, abort, finish | an operation waits or has finished, and finishes once |
| Client read, server write (receivers) | last received block, whether an OACK has come | request or start, DATA, OACK | what is stored is the beginning of the file, success means all of it |
| Server read, client write (senders) | last transmitted and acknowledged block, end of file | request or start, ACK, OACK | one packet at a time, success means all is stored |
| Server dispatcher (`servers/implementation/ServerImpl`) | well-known socket | receive a request, reject, start, stop | each request is answered by one operation or by an error |
| Server application | pointer to the running operation | transmit a file, receive a file, completion | an operation lives as long as its handlers |
| Client factory, client application | default parameters; one operation | create an operation, run one request | - |
| Option negotiation (`TftpOptions`, `TftpOptionsConfiguration`) | none | offer, accept, refuse | both sides use the same sizes |
| Data handlers (`files/`) | position, buffer | start, send, receive, finished | a file of full blocks ends with an empty one |
| Packet statistic | counters behind a shared mutex | count, read | no count is lost |
| Configuration, descriptions, Qt model | - | - | not part of the protocol |

The client sends its request to the well-known port of the server. The
dispatcher there calls the application, which constructs an operation with a
socket of its own; from its first answer on the two operations talk to each
other. Each side has one receive operation and one timer pending in its
`io_context`, and its handlers run one after the other. The operations call a
data handler (`start`, `sendData`, `receivedData`, `finished`), an option
negotiation handler, and in the end a completion handler.

What makes it hard:

* datagrams are lost, repeated and reordered, and both sides repeat on a timer;
* a completion that asio has queued cannot be cancelled any more: a timeout and
  a packet may coincide, and the second handler finds the state the first left;
* `finished()` is `noexcept` and cancels a socket, which throws if it is called
  a second time; handlers and starts go on after it;
* the numbers of blocks repeat, and comparisons use only the number;
* any host may send to an unconnected client, and any packet to either side;
* asio binds handlers to plain pointers, and the application destroys an
  operation from within its own handler, or because another request arrives;
* a file may be opened for a new operation while the buffer of the old one has
  not been flushed;
* each side computes sizes and timeouts from its own configuration and the
  options of the other, some of them in 16 bits, and datagrams are cut.

`PROJECT.json` lists each of these hazards at its line. Where the code does go wrong,
or a property holds only with an exception that covers the hazard, its note says so.

## Modules

| Module | Models |
|---|---|
| `BlockNumber` | `packets/BlockNumber.cpp`; the largest number is the constant `MaxBlock` |
| `Packets` | the packets as the handlers see them: type, block, payload identity, size class or code |
| `Parameters` | what configuration, user, network and operating system decide |
| `Operation` | members and member functions that both `OperationImpl` share, the socket and timer of asio, its event loop, the network; lemmas about their types, and about what handlers leave to run |
| `ServerOperation`, `ClientOperation` | the rest of `Servers::OperationImpl` and `Clients::OperationImpl`; lemmas |
| `ServerReadOperation`, `ServerWriteOperation`, `ClientReadOperation`, `ClientWriteOperation` | the four `ReadOperationImpl`, `WriteOperationImpl` |
| `OptionNegotiation` | `Options`, `TftpOptions`, what a request asks for, what `start()` grants and answers, what a client accepts, the size of receive buffers |
| `PacketCodec` | `packets/*Packet`: encoding, decoding, and which packets are invalid, also when they are cut |
| `DataFiles` | `files/`: `StreamFile`, `MemoryFile`, `NullSinkFile` |
| `Transfer` | a client operation, a server operation and the network; `INSTANCE`s of the four |
| `FileTransfer` | what a transfer promises to its users: the abstract specification of `Transfer` |
| `AnyPeer` | one operation against a peer that sends anything |
| `TimelyTransfer` | a transfer on a network with bounded delay and few losses |
| `DataPath` | a client and a server operation with their options, packets and data, without loss |
| `Server` | the server process: `ServerImpl`, `tftp_server`, its event loop, the files on disk, the statistic |
| `MCTransfer`, `MCAnyPeer`, `MCTimelyTransfer`, `MCDataPath`, `MCServer` | values for TLC |
| `TransferProofs` | theorems of `Transfer` that need no assumption about the file: types, going on, reporting once, exceptions, block numbers |
| `SafetyProofs` | theorems of `Transfer` about the file, that it implements `FileTransfer`, and that the two sides agree |
| `DataPathProofs` | theorems of `DataPath`, and of `OptionNegotiation` and `PacketCodec`, which it is built on |
| `PeerProofs` | theorems of `AnyPeer` |
| `ServerProofs` | theorems of `Server`: the process and its handlers; its files |

Three views of an operation share the work. `Transfer` has every step, guard and
fault of it, and abstracts options to a verdict and data to indices. `DataPath`
has options and data, and nothing that goes wrong on the way. `Server` has what
the process around an operation can tell of it.

### State and actions of a transfer

`base` is a record with the members of `OperationImpl`. A member function is an
operator on this record, so that an action composes them in the order of the
statements of its handler: `Receive(Send(Popped, packet, ok))`. `Perform` ends
each handler: it stores the record and puts what was sent on the network. An
action is one handler from its first statement to its return, with everything
it calls, as the event loop runs it without interruption.

* `rx`, `timer`: the pending receive and wait. `ready`: completions that are
  queued. `Arrive`, `ReceiveFails` and `Expire` move one from the former to the
  latter; a handler runs the head of the queue. With `Coincide` a second one may
  be queued while the first waits; without, no completion is ever stale.
* `socket`: closed, open, connected, or "reopened": `connect()` on a closed
  socket opens it again, on a port its peer does not know.
* `fate`: "terminated" if an exception left a `noexcept` function, "escaped" if
  one left `io_context::run()`.
* `dataHandler`, `status`: the calls to the data handler, and the completion
  handler's argument.
* `remote`: of a client the source of the last packet received by
  `async_receive_from()`, "none" before; of a server the client.
* `received`, `supplied`: the chunks given to, and taken from, the data handler.
* `net`: datagrams in flight. Any of them may never be delivered, so there is no
  action for loss, except in `TimelyTransfer`, which counts losses. With
  `Redelivery` a datagram stays when it is delivered; with `Overtaking` one may
  arrive before an older one.

Payloads are abstracted to the index of the chunk of the file they carry, sizes
to their comparison with the negotiated size, options to "some" or "none" and
their negotiation to a verdict. `chunk` in an ACK is not in the code: it orders
the network, and the invariants read it.

Not in `src/`, and modelled from its use: asio's queue, timers and sockets, UDP,
and the two processes.

### State and actions of the server process

* `process`: `main()` before and in `run()`, "success" and "failure" as its two
  exit codes, "terminated" if an exception left a `noexcept` function,
  "undefined" if a handler touched an operation that had been destroyed.
* `socket`, `receiving`, `signal`: `ServerImpl::socketV`, its pending receive, and
  the wait for SIGINT and SIGTERM. `queue`: completions that wait to run, each
  with the operation it is bound to.
* `operation` is `serverOperation`: what it waits for, its retry counter, its
  chunks, and how many of them its stream has flushed. `completed` is what the
  completion handler was told last. The packets of an operation are reduced to
  what they do to it: "next", "last", "repeated", "wrong".
* `disk`: the files, each a sequence of chunks marked with the operation that
  wrote them. `Closed`, `Flush`, `WriteAt` and `Truncated` are what a stream does
  to a file when it is closed or destroyed, flushes its buffer at its own
  position, and is opened. `ReceivedData` leaves open whether a chunk stays in
  the buffer, as the size of the buffer is up to the C++ library.
* `statistic`: packets that have arrived, been counted, been printed.
* `world`: what is unusual in this behaviour - no request handler, no dally,
  coinciding completions, requests for a directory, one kind of fault.

`TransmitFile` and `ReceiveFile` are one handler each, from the dispatcher's
`receiveHandler()` through the application's checks, the assignment to
`serverOperation`, which destroys the operation it held and flushes its stream,
and the new operation's `start()`, to the next receive of the dispatcher. Their
disjuncts are the ways `start()` may end.

### State and actions of the data path

Packets are sequences of cells: a number, a character and a byte of data take one
each, and strings end with `NUL`. `Cut` is what a receive buffer leaves of a
datagram. Options are functions from names to values, as in the `std::map` of the
code. `Setup` is a configuration of both sides, as a list of calls of
`optionsConfiguration()`: the one of the factory, then those of the user. `Rounds`
is the number of requests a client operation makes; the second one meets another
server operation. An action is one handler, with `Cut`, `Decode`, the
negotiation, the data handler and the packet that is encoded for the answer.

## Runs

| Run | What it shows | Distinct states |
|---|---|---|
| `any_peer` | each operation alone, any packet at any time, a third party and a user who aborts: it always waits or has finished, never ends the process, never stores a gap, never reports success before its last packet, and does nothing after its completion | 6,603 |
| `any_network` | loss, repetition, reordering and stale completions: what is stored is a beginning of the file, success on either side means the whole file, the sender is at most one chunk ahead, data after an OACK is stored only after that was accepted | 1,149,951 |
| `in_order` | numbers that roll over twice: they agree with the position in the file on both sides, no protocol error, no crash, agreed outcomes, refinement of `FileTransfer` | 5,054 |
| `faults` | failing `open`, `send`, `receive` and data handler, aborts, refused options: still a refinement of `FileTransfer`, and both operations end | 49,285 |
| `timely` | as many losses as retries are survived, if the receiver has the longer timeout | 687 |
| `server` | the server process: it always listens until it is stopped, no handler runs on a destroyed operation, what ends the process is known, each packet that can be decoded is answered once, no file has two writers, success means the file is on disk or has been sent as announced, every packet is counted, and a signal ends the process | 812,779 |
| `data_path` | both sides use the same sizes, the file that is stored is the one that was sent, legal configurations come to terms, nobody waits for a side that has given up, a request that is cut is not misunderstood, a datagram that is cut is not taken for a last block | 70,722 |

These runs show a violation each, of what the code says of itself:

| Run | Shows |
|---|---|
| `lost_first_data` | an OACK that is repeated because the first DATA packet was lost is accepted a second time by the client, which goes on to the second packet |
| `lost_data` | a lost DATA packet: the receiver's repeated ACKs postpone the timer of the sender until the receiver gives up |
| `stale_timeout` | a timeout queued behind a packet runs after the operation has finished and ends the process |
| `late_first` | the first answer queued behind the last timeout: the operation reports twice |
| `start_fails` | the server logs an exception of its data handler and neither answers nor reports |

Seen on the way, without a run of their own: a stale timeout replaces the dally
wait by an ordinary one, so that the receiver of a complete file reports an
error; a failing `open` ends the process, as `initialise()` closes the socket
before it calls `finished()`; so does a failing `send`, whose callers finish
again; and so does `gracefulAbort()` of a client that has only heard of a third
party, as `send()` fails on its unconnected socket.

Of the server process: a request for a directory passes `checkFilename()`, and
`file_size()` ends the process; without a request handler, the empty handler is
called after the request has been rejected, and `std::bad_function_call` ends it;
`stop()` while a request is queued makes the next receive fail, and `main()`
returns a failure; a full disk is not noticed by a write that reports success.
`KeepsRunning` and `SuccessIsOnDisk` name these exceptions. `Server.hpp:34` says
"If no expected packets or invalid packets are received, an error is sent back to
the sender"; the code (`ServerImpl.cpp:391`) ignores invalid packets. No property
takes a side: `AnsweredOnce` is about packets that can be decoded.

Of the data path: a configured block size of 65532 or more wraps the size of the
buffer, and no transfer works; a block size below the minimum makes the client
refuse the OACK of its server; a timeout above 65535 is cut in the request and
then refused in the answer. A second request of an operation keeps the timeout,
and for a read `oackReceived`, of the first, so that the option handler is not
asked again (`HandlerIsConsulted` and `BothSidesAgree` name this). A comment in
`clients/Operation.hpp:101` says that options are accepted if there is no
handler, the code (`ReadOperationImpl.cpp:529`) refuses them. An OACK without options
decodes as invalid, so that the check for "Empty OACK" is never reached.

### Bounds, and why they are enough

* `MaxBlock` is 2 to 4 instead of 65535. The code only compares numbers with
  each other, with 0 and with the largest one, and takes successors; with 2 and
  five chunks each number is used more than twice. Where datagrams may overtake
  each other the file is shorter than a cycle of numbers (`LastChunk < MaxBlock`):
  a DATA packet delayed by a whole cycle is taken for a new one, which 16 bits
  cannot exclude.
* `LastChunk` 3 has a first, an inner and a last chunk; the last is the short one.
* `Retries` is 1, the default of the program, or 2.
* In `any_peer` the constraint `Bounded` cuts off operations that have stored or
  sent more than `MaxBlock + 1` chunks, that is after the roll-over.
* A write with options is left out of `any_network` and `in_order`: a repeated
  OACK is accepted as long as no ACK has arrived, and breaks them.
* `Faults` is empty in the runs that check `NoCrash`, as failing calls end the
  process; `Coincide` is FALSE in those that check it or `AgreedOutcome`, as a stale
  timeout breaks both.
* In `any_peer` only the user of the server aborts, see `gracefulAbort()` above.
* `any_network` has no dally, which `in_order`, `faults` and `timely` have.
* `server` has four packets, two operations and two chunks: the second operation
  meets the first one before, while and after it writes or reads the same file or
  the other one, and a packet is left for each. `Worlds` has one unusual thing at
  a time; the theorems about the process have all of them at once, and the
  invariant of the files was also checked with pairs of them.
* `data_path` scales the numbers: 512 bytes of data are 16 cells, the largest block
  size is 24, and 16 bits end at 32, so that the buffers of the block sizes 30 and
  31 wrap as those of 65532 and more do. Files have sizes around the multiples of
  the block sizes. A request with three options fits the buffer of the
  dispatcher, one with four does not. Within each of the four families of setups
  all combinations are checked.

### Fairness

`faults` assumes weak fairness of the steps of each process (a queued handler, the
arrival of a datagram, a receive error) and of its timer: `io_context::run()`
runs what is queued, and an armed timer expires. That a datagram arrives is not
implied: the timer, whose expiry disables the arrival, may always come first.
`Request` and `Serve` need no fairness there; a user who never requests, and a
request that never arrives, leave both sockets closed. Redelivery is off, as
endless repetitions of an acknowledgement keep an operation alive: each one
restarts its timer.

`server` assumes weak fairness of `Dispatch`, `TimerExpires` and `Exit`: the event
loop runs what is queued, a timer expires, and `run()` returns when nothing is
left. Neither packets nor the signal need to come; `StopEndsServer` holds because
each operation ends when its peer falls silent, and `MaxPackets` bounds how long
a peer may talk.

`timely` and the runs that show violations of its kind also assume that the
request is made and reaches the server, and that a timer expires only when no
datagram is on its way. The code has no such bound; it is the network a user of
the default timeout of two seconds and a single retry counts on.

## Proofs

TLAPS proves, for every value of the constants that the named assumptions admit
(`MaxBlockAssumption`, `ParametersAssumption`, `TransferAssumption`;
`ServerAssumption`; `OptionAssumption`, `PacketAssumption`, `DataPathAssumption`):

* `TypeCorrect`: `Spec => []TypeOK`;
* under `Distinguishable` (no strays, writes without options, and either
  `LastChunk < MaxBlock`, or a network that keeps the order and no stale completions):
  `StoredIsPrefix`, `InLockStep`, `ReceiverSuccess` and `SenderSuccess`, that is
  `[]ReceivedIsPrefix`, `[]LockStep`, `[]ReceiverSuccessIsComplete` and
  `[]SenderSuccessIsDelivered`. They hold for every retry count, with and without
  dally, and with every fault and abort; for files without roll-overs also with
  every stale completion and reordering at once, which no run of TLC combines; in a
  network that keeps the order for files of any length, over any number of roll-overs;
* under `Distinguishable` and without stale completions (`~Coincide`):
  `TransferImplementsFileTransfer`, the refinement, which `faults` checks with the
  options of writes besides, and `in_order` across roll-overs;
* for files of any length, with any roll-overs: `ChunksNumbered`, `[]Numbering`,
  without a further assumption; `GoesOn`, `[]NeverStuck`, if data handlers throw nothing
  (`"dataHandler" \notin Faults`); `ReportsOnce`, `ReportedOnce`, if `~Coincide`;
  `NothingThrows`, `[]NoCrash`, if there are no faults, no aborts by the user of the
  client and `~Coincide`. `start_fails` is a counterexample to the first of these three without its assumption,
  `late_first` and `stale_timeout` are ones to the others with stale completions;
* of `AnyPeer`, that is whatever packets a peer sends, to a server or a client, read
  or write: `PeerGoesOn`, `PeerThrowsNothing` and `PeerEndsOnce`, that is
  `[]NeverStuck`, `[]NoCrash` and `CompletionIsFinal`, under the assumptions above;
  `PeerLeavesNoGap`, `[]NoGap`, if the chunk of a DATA packet is the block it claims to
  be (`Marked`, which is how `MCAnyPeer` marks them); `PeerSuccessIsAllSent`,
  `[]SuccessIsAllSent`, without a further assumption; `PeerRefusesEarly`,
  `[]RefusedBeforeTransfer`, if `~Coincide`;
* of reads with options: `NegotiatedFirst`, `[]NegotiatedBeforeData`, in every network
  that is empty at first (`Strays = {}`), over any number of roll-overs;
* under `Peaceful` (`Distinguishable`, a network that keeps the order, no stale
  completions, no faults, no aborts, and no refusal of an option by the user):
  `Understood`, `[]NoProtocolError`, and `Agreed`, `[]AgreedOutcome`, for every retry
  count, with and without dally, whatever is lost or repeated, and over any number of
  roll-overs;
* of `Server`: `[]TypeOK`, `[]ListensUntilStopped`, `[]NoDanglingHandler`,
  `[]KeepsRunning`, `[]NothingOutlivesMain`, `AnsweredOnce`, `[]PacketsCounted`,
  `[]OneWriter`, `[]SuccessIsOnDisk` and `[]SentAsAnnounced`, for every number of packets,
  operations, files and chunks and every set of worlds;
* of `DataPath`: `[]BothSidesAgree`, `[]Delivered`, `[]EndsWithShortBlock`,
  `[]NobodyIsLeftWaiting`, `[]RequestUnderstood`, `[]AnnouncedIsReceived` and
  `[]HandlerIsConsulted`, for every configuration of both sides, in range or not,
  every set of additional options, files of every length and content, requests and
  packets that are cut by any buffer, and any number of requests of one client
  operation;
* of `DataPath`, if `[]OackFits`, that is if no OACK is longer than a packet of the default
  size: `CutPacketIsRejected`, and `[]LegalTransferSucceeds`, for every configuration in the
  ranges of the RFCs, every file that fits its sink and every handler that does not
  refuse; both without that condition if no server adds options (`NothingIsAdded`), as
  `tftp_server` does (`ApplicationTransfersSucceed`);
* of `OptionNegotiation`: `NegotiationSucceeds`, a client in range never refuses the
  block size or timeout that a server in range answers, and both use the same
  values; `BufferHoldsBlock`, the buffer holds each packet of a block size in range.

### Transfer

The argument is made once for all four operations. `BaseOf(k)` is the type of
the base class of an operation that only knows the packets, timeouts, statuses
and states of the data handler of `k`. Lemmas in `Operation`, `ServerOperation`
and `ClientOperation` show that each member function, and each handler of the
base class, keeps `BaseOf(k)` and sends only packets of `k`, whatever `k` is.
`TransferProofs` adds the handlers of the four operations, which keep it if `k`
has the packet they send, the timeout they arm and the status they report.

What a handler leaves to run is argued once as well. However different the four
operations are, their handlers combine the member functions in few ways
(`Moves` in `Operation`): they finish, ignore and receive again, reply and
receive, repeat the last packet, go to the port of the first answer, or
leave by an exception. Three invariants of the base class follow for each of
these ways, and so for every step (`ClientSteps`, `ServerSteps`):

* `Alive`, for `GoesOn`: an open socket comes with an armed timer or a queued
  timeout;
* `Once`, for `ReportsOnce`: at most one completion is queued, and none of a packet
  when the socket is closed, so that nothing runs that could report again;
* `Sound`, for `NothingThrows`: nothing at all is left when the socket is closed.

`Numbering` is not inductive, as it says nothing of a receiver that has not begun;
`Counted` adds `Unstarted`. Its step is `NextNumber`: the number after that of chunk
i is that of chunk i + 1, also when it rolls over, to 1 and not to 0.

For the types `k` is everything, and `TypeOK` is inductive. The safety properties
are not inductive: a stale timeout may repeat any packet an operation remembers,
and a queued packet is handled however late. `Safe` in `SafetyProofs` is their
strengthening. `Good` are the packets that are true of the file: a DATA packet
carries a chunk that has been supplied, under its own number, and is short just
if it is the last one; an ACK acknowledges no more than has been stored. `Known`
has only these packets, and the dally and success only when the file is complete.
`Safe` says that both operations are of the type `BaseOf(Known)` or have not
begun, that the network carries only `Good` packets, and (`Numbers`) that block
numbers and chunks agree and the sender is at most one chunk ahead. `Known` grows
with the transfer (`KnownGrows`), so that what one operation knows survives the
steps of the other. TLC has checked `Safe` on the instance of `any_network`, and on
one with all faults and aborts, before it was proved.

A step keeps `Safe` if it starts from a state that is `Unambiguous`: the number of
the packet that is handled next tells its chunk. Where the numbers do not roll over,
`Safe` alone implies that, as each chunk has its own number. Otherwise it takes the
order of the network: `InTurn` says that neither the network nor a queue has a DATA packet
older than the last one stored, or an ACK older than the last but one sent, that the
queued packet comes before those on the way, and that an operation repeats only its
latest packet. So the packets that a side can be offered carry one of two successive
chunks, whose numbers differ (`UnambiguousInTurn`). `InTurn` is kept by every step from
`Unambiguous` states (`ReceiverTurn`, `SenderTurn`): a datagram that is taken leaves none
that is older, and a new packet carries the latest chunk. TLC has checked it on the
instance of `in_order`, and on one with all faults, verdicts and aborts.

The assumptions of `Distinguishable` are needed: without an order of the network a
DATA packet that is delayed by a whole cycle of numbers is taken for a new one, and a
write with options accepts a repeated OACK (`OackAfterWrq`).

`NoProtocolError` and `AgreedOutcome` speak of both sides at once: that what one of them says
is what the other one waits for. What an operation may say is told by its manners (`Polite` in
`Operation`, of a record `t`: its peer, the packets it asks with, says and hears), and a step
that takes nothing for a violation is one that `Converses`; the two together keep the manners
(`ConversesPolite`), for all four operations. `Calm` in `SafetyProofs` joins them: the
network carries only what the two sides may say to each other, both are polite, an OACK
comes before all data, the acknowledgement that the sender has seen last is the one before
the chunk it has sent last, and a receiver that has the whole file only dallies. Each branch that
reports a violation is then excluded by the packet that is handled: by `Safe`, `InTurn` and
`Calm` it carries the last or the next number (`ExpectedData`, `ExpectedAck`). `AgreedOutcome`
follows from `Calm`: if the sender reports success the file is complete (`SuccessIsComplete`),
and a receiver that dallies (`Dallying`) can only report success. TLC has checked
`Safe`, `InTurn` and `Calm` together (`Settled`) on the instance of `in_order`.

`Peaceful` is stronger than each of the two properties needs, but little of it can be left out.
On the instance of `in_order`, TLC finds `AgreedOutcome` violated with aborts, with
faults, with stale completions and with overtaking, each by itself: the receiver reports
something else after the sender has reported success. It finds `NoProtocolError` violated with
aborts and with refused options, as the error that tells the peer of them is reported as one
of the transfer, and with overtaking, as an older packet is one out of sequence.

`NegotiatedBeforeData` has an invariant of its own, `Negotiating`: as long as the client
has not accepted the OACK, either there is no OACK anywhere (`Untold`), or there is
no DATA and no ACK anywhere and nothing has been stored (`Silent`), where "anywhere"
is on the way, queued, or kept for a repetition. Both are instances of `BaseOf`, with
packets of the respective types left out. The start of the server ends one of them at
most, and to end the other the client would have to accept the OACK.

The refinement needs no invariant of its own. `Safe` implies `Promised`: no more than
the file is received, and success means that it is complete. `Once` implies that a
status which has been reported stays (`StatusesKept`). With both, a step of the
operations either appends one chunk, or decides one outcome, or is not seen by the
users (`RefinedStep`), and this is a step of `FileTransfer` or a stutter (`AbstractStep`).

### Any peer

`AnyPeer` runs one operation of `Transfer` against the packets of `Strays`. Its steps are
among those that `TransferProofs` speaks of, or leave the operation alone
(`PeerProofs`), so that `Alive`, `Once` and `Sound` hold again. `NoGap` and `SuccessIsAllSent`
need little more: what the receiver stores has the next number by the guard of its
handler, and only a short packet sets the member that success depends on.

`RefusedBeforeTransfer` depends on the history. Its invariant is `RefusesEarly`: either nothing
has been transferred, or no refusal has been reported and the packet that the operation
would repeat is not its request any more (`Opens`), so that no error is taken for the
answer to it. A client that reads refuses an OACK only while its last block number is
0, which by `Counted` it never is again once data has been stored. With stale
completions (`Coincide`) an operation could go on and transfer data after it has
reported a refusal; `Once` excludes that.

### Server

Each invariant of the process has a strengthening of its own, proved on top of
the types (`TypeInv`: `TypeOK`, and a file that is read is on disk). `ListenInv`: the
dispatcher has an open socket, and a receive pending or a completion queued. `DanglingInv`: unless completions coincide or sending fails, there is at
most one completion queued, and it belongs to the operation that is there, as
the request that would replace it cannot be queued besides. `QuietInv` keeps an operation
from ending the process where nothing fails; `AttendedInv`: an operation that is
there waits, has a completion queued, or had a file that could not be opened, so
that `run()` does not return before it is destroyed.

`FilesInv` is the strengthening for the files. Every file holds the chunks of one
operation (`Whole`, named by `OneWriter`). An operation that writes has its file
to itself, and on disk is exactly what it has flushed (`Writes`); one that reads has
sent what its file begins with (`Reads`). Both would be lost with a second
operation, so `ThereOrReported`, `KnownIds`, `Dallies` and `Idle` say when an operation
may still act. The step that replaces an operation is the core: its buffer is
flushed into the file that has been truncated for its successor, which leaves
a hole or chunks of the wrong operation there until `StreamStarted` truncates
it once more. If `start()` fails before that the hole stays, which is why `OneWriter`
excepts the faults "file" and "open".

`CountInv` is the one for the statistic: while the process runs, the packets that have
arrived are those counted and those in the queue (`QueuedPackets`, the places of the queue
that hold one), and the completion of a signal is none of a packet. Every handler counts its
own packet once (`CountsOne`), on each path it may take, and whatever it queues besides is
no packet (`CountStep`).

### Data path

Nothing is lost here, so one datagram at most is on its way, and the transfer is a
conversation. `Inv` in `DataPathProofs` is the inductive invariant: the types (`TypeOK`),
and `Conversation`, which says in which of its stages a transfer is, and of each what
is on the wire and what both sides have come to agree on:

| Stage | On the wire |
|---|---|
| `Idle` | nothing, before the first request |
| `Asking` | the request, or nothing as the dispatcher has ignored it |
| `Answered` | the server's OACK of the values it uses (`HasAnswered`), its first DATA or ACK packet (`HasStarted`), or its error |
| `ServersTurn`, `ClientsTurn` | a block, its acknowledgement, or an error; both use the same sizes (`Transferring`) |
| `ServersEnd`, `ClientsEnd` | the last packet of a client, or of a server, that has ended, or nothing |

None of the properties is inductive alone. `BothSidesAgree` needs that the OACK on the wire
names what the server uses, and that the client reads of it what was written. `Delivered`
needs that the packet on the wire is the part of the file behind what the sink has
(`InFlight`), that the block numbers match (`Supplied`), and that a short block is
the last one and comes whole. `Holds` says why it does: the buffer of a receiver either
holds all it may be sent, or its size has wrapped to 0 or 1, and then every packet is
invalid; what lies between would be taken for a last block. `Results` keeps what a
success means and `Understood` what the server has read of the request, after
the wire is empty. `Consults` is the invariant for `HandlerIsConsulted`: it says for each
kind of transfer when the handler has been asked. TLC has checked `Inv` on the instance of
`data_path` before it was proved.

Each packet that a side gets has been encoded, cut and decoded, and the steps rest on
lemmas about that, for packets of any size: a request decodes as invalid, or with the name
and mode that were sent and some of its options (`RequestIsDecodedAsSent`); a DATA packet
decodes as it was sent if it fits (`DataIsDecoded`); an OACK may lose additional options,
but none of the library, if the buffer is not a wrapped one (`OackIsDecoded`). That last one
is why `PacketAssumption` gives a packet of the default size room for three options, of four cells each.
These lemmas are about sequences of options of any length, which takes induction: it is done
by a theorem about sets of numbers (`SetInduction`), as a set can be given to a lemma and
an operator cannot. `Count`, the number of strings that end in a part of a packet, is what
the induction counts by. `StringsOfStart` and `OneMoreString` tell what strings a
packet has that is cut or is longer by one; `PairsAreOptions` and `OptionsAreDecoded` go
from them to options.

`CutPacketIsRejected` and `LegalTransferSucceeds` say more than the rest, and need that an
OACK arrives whole (`OackFits`). The library does not guarantee it: a client receives the
answer in a buffer of at least the default size, but the user of a server may add as many
options to an OACK as he likes. Without additions it fits (`LibraryOacksFit`), as the options
of the library take twelve cells and every other packet of a server is of another type;
`tftp_server` adds none, so that `ApplicationTransfersSucceed` needs no such condition. In
`data_path`, which has servers that do add options, TLC has checked `OackFits`, too. The
condition is needed: with seven additional options instead of two, answered without being asked
for, TLC finds `LegalTransferSucceeds` violated, and, with packets that end where an option
does (`DefaultDataSize` 15), `CutPacketIsRejected`.

* `CutPacketIsRejected`: each packet either fits its buffer or meets one that has wrapped
  (`HasRoom`), which leaves 0 or 1 cells, and those decode as invalid.
* `LegalTransferSucceeds` follows from `Inv` and `Succeeds`, which is inductive relative
  to it: a side that is in range has a buffer that has not wrapped (`Unwrapped`), and as long as
  both are `Legal` every stage is `Smooth`: the request asks for what the client has
  configured, the answer is `Acceptable` to it, a side has ended only with success and
  none has reported an error. `ClientUnderstands` and `Excluded` show that then no action
  that refuses, rejects or gives up is enabled.

### What is only model-checked

The properties of `timely`, a network with a clock, and liveness (`OperationsEnd`,
`Survives`, `StopEndsServer`), which is beyond the prover.

## Not modelled

* Command line, property trees, descriptions of codes, log messages and the Qt
  view: they have no state of the protocol.
* The exit code of `tftp_client`, which is a success even if the transfer failed.
* The statistic by packet type, that of transmitted packets, and the lock that
  makes them safe for threads: the programs run one thread.
* Two operations at a time in one server: the library allows it, the application
  has one pointer.
