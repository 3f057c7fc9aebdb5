---------------------------- MODULE GaduPackets ----------------------------
(***************************************************************************)
(* Reading packets of a Gadu-Gadu session: gg_recv_packet of libgadu on a  *)
(* socket that does not block.  A packet is a header, which tells how long *)
(* the body is, and a body; the network delivers any part of them.  What   *)
(* has been read of a packet waits in the session for the next call.       *)
(*                                                                         *)
(* A byte is a pair: the packet it belongs to, and its place in it.        *)
(***************************************************************************)
EXTENDS Naturals, Sequences

CONSTANTS
    Header,      \* length of a header, 8 in the code
    Limit,       \* length of the longest body, 65535 in the code
    Lengths,     \* lengths of the bodies a server sends
    MaxPackets   \* bound on the packets sent

ASSUME PacketAssumption == Header \in Nat \ {0} /\ Limit \in Nat /\ Lengths \subseteq Nat

VARIABLES
    posted,      \* lengths of the bodies of the packets that were sent
    wire,        \* bytes sent and not read
    arrived,     \* how many of them the kernel has
    hungUp,      \* the server has closed the connection, or it is broken
    reading,     \* gg_recv_packet runs and reads a "header" or a "body"; "no"
    h,           \* its local header, as far as it is read (header_done)
    buf,         \* its local buffer, as far as it is read (offset)
    size,        \* how much of the body it still wants
    headerBuf,   \* sess->header_buf, empty for NULL
    recvBuf,     \* sess->recv_buf, as far as it is read (recv_done)
    recvLeft,    \* sess->recv_left
    handed,      \* the packets it has returned
    dropped      \* it has failed, and the plugin has freed the session

networkVars == <<posted, wire, arrived, hungUp>>
localVars   == <<reading, h, buf, size>>
sessionVars == <<headerBuf, recvBuf, recvLeft>>
packetVars  == <<networkVars, localVars, sessionVars, handed, dropped>>

Byte(n, k) == [packet |-> n, place |-> k]

(* All of the packet n.                                                    *)
Whole(n) == [k \in 1..Header + posted[n] |-> Byte(n, k)]

(* gg_fix32(h.length), of the header in s                                  *)
LengthOf(s) == posted[s[1].packet]

-----------------------------------------------------------------------------
(* The server and the network                                              *)

Post(n) ==
    /\ ~hungUp /\ Len(posted) < MaxPackets
    /\ posted' = Append(posted, n)
    /\ wire' = wire \o [k \in 1..Header + n |-> Byte(Len(posted) + 1, k)]
    /\ UNCHANGED <<arrived, hungUp, localVars, sessionVars, handed, dropped>>

Arrive ==
    /\ arrived < Len(wire)
    /\ \E n \in arrived + 1..Len(wire) : arrived' = n
    /\ UNCHANGED <<posted, wire, hungUp, localVars, sessionVars, handed, dropped>>

HangUp ==
    /\ ~hungUp /\ hungUp' = TRUE
    /\ UNCHANGED <<posted, wire, arrived, localVars, sessionVars, handed, dropped>>

-----------------------------------------------------------------------------
(* gg_recv_packet                                                          *)

Idle == reading' = "no" /\ h' = <<>> /\ buf' = <<>> /\ size' = 0

(* gg_read returns a byte; a call that returns several is several of these. *)
Read == arrived > 0 /\ wire' = Tail(wire) /\ arrived' = arrived - 1

(* test_chan is dispatched, and gg_watch_fd_connected calls it.            *)
Resume ==
    /\ reading = "no" /\ ~dropped /\ (arrived > 0 \/ hungUp)
    /\ IF recvLeft < 1
       THEN /\ reading' = "header"
            /\ h' = headerBuf /\ headerBuf' = <<>>
            /\ UNCHANGED <<buf, size>>
       ELSE /\ reading' = "body"
            /\ h' = SubSeq(recvBuf, 1, Header) /\ buf' = recvBuf /\ size' = recvLeft
            /\ UNCHANGED headerBuf
    /\ UNCHANGED <<networkVars, recvBuf, recvLeft, handed, dropped>>

ReadHeader ==
    /\ reading = "header" /\ Len(h) < Header
    /\ Read /\ h' = Append(h, wire[1])
    /\ UNCHANGED <<posted, hungUp, reading, buf, size, sessionVars, handed, dropped>>

(* Mutant of HeaderAgain: what has been read of the header is lost.        *)
HeaderAgainLost ==
    /\ reading = "header" /\ Len(h) < Header /\ arrived = 0
    /\ Idle
    /\ UNCHANGED <<networkVars, sessionVars, handed, dropped>>

(* EAGAIN in the header                                                    *)
HeaderAgain ==
    /\ reading = "header" /\ Len(h) < Header /\ arrived = 0
    /\ headerBuf' = h /\ Idle
    /\ UNCHANGED <<networkVars, recvBuf, recvLeft, handed, dropped>>

(* The header is there: a buffer for the packet.                           *)
HeaderDone ==
    /\ reading = "header" /\ Len(h) = Header /\ LengthOf(h) <= Limit
    /\ reading' = "body" /\ buf' = h /\ size' = LengthOf(h)
    /\ UNCHANGED <<networkVars, h, sessionVars, handed, dropped>>

ReadBody ==
    /\ reading = "body" /\ size > 0
    /\ Read /\ buf' = Append(buf, wire[1]) /\ size' = size - 1
    /\ UNCHANGED <<posted, hungUp, reading, h, sessionVars, handed, dropped>>

(* EAGAIN in the body                                                      *)
BodyAgain ==
    /\ reading = "body" /\ size > 0 /\ arrived = 0
    /\ recvBuf' = buf /\ recvLeft' = size /\ Idle
    /\ UNCHANGED <<networkVars, headerBuf, handed, dropped>>

(* The packet is returned.  recv_buf still points to it.                   *)
BodyDone ==
    /\ reading = "body" /\ size = 0
    /\ recvLeft' = 0 /\ handed' = Append(handed, buf) /\ Idle
    /\ UNCHANGED <<networkVars, headerBuf, recvBuf, dropped>>

(* The length is out of range, the connection is closed or broken: the     *)
(* plugin frees the session (ggadu_gadu_gadu_reconnect).                   *)
RecvFails ==
    /\ \/ reading = "header" /\ Len(h) = Header /\ LengthOf(h) > Limit
       \/ hungUp /\ reading = "header" /\ Len(h) < Header
       \/ hungUp /\ reading = "body" /\ size > 0
    /\ dropped' = TRUE /\ Idle
    /\ UNCHANGED <<networkVars, sessionVars, handed>>

-----------------------------------------------------------------------------

PacketInit ==
    /\ posted = <<>> /\ wire = <<>> /\ arrived = 0 /\ hungUp = FALSE
    /\ reading = "no" /\ h = <<>> /\ buf = <<>> /\ size = 0
    /\ headerBuf = <<>> /\ recvBuf = <<>> /\ recvLeft = 0
    /\ handed = <<>> /\ dropped = FALSE

PacketNext ==
    \/ \E n \in Lengths : Post(n)
    \/ Arrive \/ HangUp
    \/ Resume \/ ReadHeader \/ HeaderAgain \/ HeaderDone
    \/ ReadBody \/ BodyAgain \/ BodyDone \/ RecvFails

PacketSpec == PacketInit /\ [][PacketNext]_packetVars

-----------------------------------------------------------------------------
(* However the network splits the stream, what gg_recv_packet returns are  *)
(* the packets the server sent, whole, once each and in their order: the   *)
(* two ways of resuming (header_buf, recv_buf) neither lose a byte, nor    *)
(* read one twice, nor mistake a body for a header.                        *)
PacketsInOrder ==
    /\ Len(handed) <= Len(posted)
    /\ \A n \in 1..Len(handed) : handed[n] = Whole(n)
=============================================================================
