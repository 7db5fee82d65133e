--------------------------- MODULE TimelyTransfer ---------------------------
(***************************************************************************)
(* Transfer on a timely network: a datagram that is not lost arrives       *)
(* within the receive timeout, and once the client has had an answer to    *)
(* its request at most MaxLosses datagrams are lost.  A timer then only    *)
(* expires when nothing is on its way, and the dally timer of the          *)
(* receiver, set to twice the timeout, not before a timer of the sender.   *)
(* Until then nothing is lost: a repeated request would start a second     *)
(* operation of the server, which Transfer does not have.                  *)
(***************************************************************************)
EXTENDS Transfer

CONSTANTS
    MaxLosses,   \* bound of the datagrams that are lost
    Patient      \* is the receive timeout of the receiver longer than that of the sender?

ASSUME TimelyAssumption ==
    MaxLosses \in Nat /\ Patient \in BOOLEAN /\ Dally /\ ~Coincide /\ ~Redelivery

VARIABLE losses      \* datagrams lost so far

timelyVars == <<vars, losses>>

TimelyInit == Init /\ losses = 0

(* The datagram will be received. *)
Deliverable(d) ==
    \/ client.rx # "none" /\ CR!Accepts(d)
    \/ server.rx # "none" /\ SR!Accepts(d)
    \/ d.to = "wellKnown" /\ server = SR!InitialServer

Quiet == /\ client.ready = <<>> /\ server.ready = <<>>
         /\ \A d \in net : ~Deliverable(d)

Lose == /\ client.socket = "connected"
        /\ losses < MaxLosses
        /\ losses' = losses + 1
        /\ \E d \in net : Deliverable(d) /\ net' = net \ {d}
        /\ UNCHANGED <<kind, client, server, senderVars, receiverVars>>

(* The timer of an operation expires before that of the other one may. *)
MayExpire(timed, other) ==
    /\ Quiet
    /\ timed = Receiver /\ (Patient \/ timed.timer = "timeoutDally") => other.timer = "none"

TimelyRequest     == Request /\ UNCHANGED losses
TimelyServe       == Serve /\ UNCHANGED losses
TimelyClientStep  == ClientStep /\ UNCHANGED losses
TimelyServerStep  == ServerStep /\ UNCHANGED losses
TimelyClientTimer == ClientTimer /\ MayExpire(client, server) /\ UNCHANGED losses
TimelyServerTimer == ServerTimer /\ MayExpire(server, client) /\ UNCHANGED losses

TimelyNext ==
    \/ TimelyRequest \/ TimelyServe
    \/ TimelyClientStep \/ TimelyServerStep
    \/ TimelyClientTimer \/ TimelyServerTimer
    \/ Lose

TimelySpec ==
    /\ TimelyInit /\ [][TimelyNext]_timelyVars
    /\ WF_timelyVars(TimelyRequest) /\ WF_timelyVars(TimelyServe)
    /\ WF_timelyVars(TimelyClientStep) /\ WF_timelyVars(TimelyServerStep)
    /\ WF_timelyVars(TimelyClientTimer) /\ WF_timelyVars(TimelyServerTimer)

(* tftpRetries and receiveDally(): if not more datagrams are lost than a packet *)
(* may be repeated, both sides complete the transfer and report success, unless *)
(* the data handler of the server has refused the transfer size of a write.     *)
Survives == <>(\/ client.status = "Successful" /\ server.status = "Successful"
               \/ kind = "write" /\ client.status = "RequestError")

=============================================================================
