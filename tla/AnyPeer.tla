------------------------------ MODULE AnyPeer ------------------------------
(***************************************************************************)
(* One operation alone, of the client or the server, against a peer that   *)
(* sends any packet at any time: "Strays" are what it may send, and with   *)
(* Redelivery and Overtaking each of them may arrive whenever, and as      *)
(* often as, it pleases.                                                   *)
(***************************************************************************)
EXTENDS Transfer

VARIABLE alone    \* the operation that runs

peerVars == <<vars, alone>>

PeerInit == Init /\ alone \in {"client", "server"}

(* The server is started whether or not there has been a request. *)
Started ==
    \/ ReadAtServer
       /\ \E options \in Requests["read"] :
            \E answer \in SR!Answers(options) : SR!Start(answer)
    \/ WriteAtServer
       /\ \E options \in Requests["write"] :
            \E answer \in SW!Answers(options) : SW!Start(answer)

PeerNext ==
    /\ \/ alone = "client" /\ (Request \/ ClientStep \/ ClientTimer)
       \/ alone = "server" /\ (Started \/ ServerStep \/ ServerTimer)
    /\ UNCHANGED alone

PeerSpec == PeerInit /\ [][PeerNext]_peerVars

-----------------------------------------------------------------------------
Alone == IF alone = "client" THEN client ELSE server

(* errorPacket(), optionsAcknowledgementPacket(): a request, or its options, are only *)
(* reported as refused before any data has been sent or stored; later on the same    *)
(* error is one of the transfer.  For a client that stores, this takes a next() that *)
(* skips 0 at the roll-over, as an OACK is accepted while the last block is 0.  A    *)
(* client that sends accepts, and refuses, an OACK too late: see OackAfterWrq.       *)
RefusedBeforeTransfer ==
    \/ Alone.status \in {"RequestError", "OptionNegotiationError"}
          => supplied = 0 /\ received = <<>>
    \/ kind = "write" /\ client.status = "OptionNegotiationError"

(* acknowledgementPacket(): whatever acknowledgements arrive, success is only reported *)
(* after the short packet, which ends the file, has been sent.                         *)
SuccessIsAllSent == Alone = Sender /\ Alone.status = "Successful" => supplied >= LastChunk

(* dataPacket(): whatever the peer sends, a gap in its block numbers is never stored. *)
(* Here each packet carries its block number as its chunk.                            *)
NoGap == \A i \in 1 .. Len(received) : received[i] = BlockOf(i)

(* finished(): completion is the last thing that happens to an operation. *)
CompletionIsFinal == CR!CompletionIsFinal /\ SR!CompletionIsFinal

=============================================================================
