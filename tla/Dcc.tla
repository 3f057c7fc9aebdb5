--------------------------------- MODULE Dcc ---------------------------------
(***************************************************************************)
(* Files sent directly between two GNU Gadu programs: gg_dcc_watch_fd of   *)
(* libgadu (dcc.c) at both ends of a connection, with the callbacks of the *)
(* plugin that drive it (test_chan_dcc, test_chan_dcc_get and the signals  *)
(* "send file" and "get file" of gadu_gadu_plugin.c).                      *)
(*                                                                         *)
(* One program sends all the files, another gets them.  In a "direct"      *)
(* transfer the sender connects; in a "callback" transfer it asks through  *)
(* the server and the receiver connects.  A file is a sequence of units of *)
(* 1024 bytes, what one call reads or writes.  check follows from state.   *)
(*                                                                         *)
(* A write to a socket that is nearly full may take only a part of a unit; *)
(* the sender goes on as if all of it were gone, and its receiver is out   *)
(* of step from there on.  What such a receiver takes for data or for a    *)
(* header is left open, and not recorded.                                  *)
(*                                                                         *)
(* Not modelled: voice (the plugin never starts it), errors of the disk,   *)
(* a file that changes while it is sent, offsets other than 0 (the plugin  *)
(* never resumes), a message that TCP splits.                              *)
(***************************************************************************)
EXTENDS Naturals, Sequences

CONSTANTS
    Transfers,   \* the transfers, each of a file of its own
    Size,        \* the size of each file, in units
    Chunk,       \* units after one header: 4 in the code (4096 bytes)
    Exits        \* the programs that may end at any time

ASSUME DccAssumption ==
    /\ "none" \notin Transfers /\ Size \in [Transfers -> Nat]
    /\ Chunk \in Nat \ {0} /\ Exits \subseteq {"send", "get"}

VARIABLES
    running,     \* the programs that run
    flow,        \* "unused", "requested", "callback" or "direct"
    state,       \* of each end: "none", d->state, or "freed" after gg_dcc_free
    source,      \* of each end: the conditions its GLib source waits for
    wire,        \* of each end: packets written by the other and not yet read
    left,        \* of each end: chunk_size - chunk_offset
    sent,        \* units the sending end has written (h->offset)
    file,        \* the file the sending end has opened, "none" before
    got,         \* the units the receiving end has written to its file in step
    torn,        \* the transfers whose receiver has read a part of a unit
    requested,   \* dcc_send_request_filename
    prevCheck,   \* of each program: prev_check of test_chan_dcc
    told,        \* of each end: the message shown to its user
    fault        \* "none" until freed memory or a NULL buffer is used

usersVars == <<running, flow, requested>>
fileVars  == <<left, sent, file, got, torn>>
vars == <<usersVars, state, source, wire, fileVars, prevCheck, told, fault>>

Sides   == {"send", "get"}
Ends    == Transfers \X Sides
Peer(e) == <<e[1], IF e[2] = "send" THEN "get" ELSE "send">>

Reading == {"read_uin_1", "read_uin_2", "read_type", "read_request", "read_info", "read_ack",
            "read_file_ack", "read_header", "read_no_buffer", "get_file"}
Writing == {"connecting", "send_ack", "send_request", "send_info", "send_file_ack",
            "send_header", "send_file"}

Check(st) == IF st \in Reading THEN "in" ELSE "out"

Unit(f, i)   == [file |-> f, at |-> i]
Packet(p)    == [is |-> p, arg |-> 0]
Header(n)    == [is |-> "header", arg |-> n]
Info(f)      == [is |-> "info", arg |-> f]
Data(f, i)   == [is |-> "data", arg |-> Unit(f, i)]
SizeOf(t)    == IF file[t] = "none" THEN 0 ELSE Size[file[t]]

-----------------------------------------------------------------------------
(* The connection is closed at this end, or nobody listens for it.         *)
Closed(e) == state[e] = "freed" \/ (state[e] = "none" /\ e[2] \notin running)

(* GLib dispatches the source of e: a condition it waits for holds.        *)
Ready(e) ==
    /\ fault = "none"
    /\ \/ "out" \in source[e]
       \/ "in" \in source[e] /\ (wire[e] # <<>> \/ Closed(Peer(e)))

In(e, st)    == Ready(e) /\ state[e] = st
Reads(e, p)  == wire[e] # <<>> /\ wire[e][1].is = p /\ wire' = [wire EXCEPT ![e] = Tail(@)]
Writes(e, s) == wire' = [wire EXCEPT ![Peer(e)] = IF Closed(Peer(e)) THEN @ ELSE @ \o s]

(* test_chan_dcc_get serves the end that connected on request, and asks    *)
(* for a new source every time; test_chan_dcc only if prev_check differs.  *)
ByRequest(e) == e[2] = "get" /\ flow[e[1]] = "callback"

(* Mutant of Rewatch: prev_check is not compared, nor the source replaced. *)
RewatchNever(e, st) == UNCHANGED <<prevCheck, source>>

Rewatch(e, st) ==
    IF ByRequest(e) \/ prevCheck[e[2]] # Check(st)
    THEN /\ source' = [source EXCEPT ![e] = {Check(st)}]
         /\ prevCheck' = IF ByRequest(e) THEN prevCheck ELSE [prevCheck EXCEPT ![e[2]] = Check(st)]
    ELSE UNCHANGED <<prevCheck, source>>

Goes(e, st) == state' = [state EXCEPT ![e] = st] /\ Rewatch(e, st)

(* gg_dcc_free and return FALSE, after message is shown.                   *)
Closes(e, message) ==
    /\ state' = [state EXCEPT ![e] = "freed"]
    /\ source' = [source EXCEPT ![e] = {}]
    /\ told' = [told EXCEPT ![e] = message]
    /\ UNCHANGED prevCheck

-----------------------------------------------------------------------------
(* The users, the server and the listening sockets                         *)

Opens(e, st, conditions) ==
    /\ state' = [state EXCEPT ![e] = st]
    /\ source' = [source EXCEPT ![e] = conditions]

(* "send file", the receiver cannot be reached: it is asked to connect.    *)
RequestTransfer(t) ==
    /\ fault = "none" /\ "send" \in running /\ flow[t] = "unused"
    /\ flow' = [flow EXCEPT ![t] = "requested"]
    /\ requested' = t
    /\ UNCHANGED <<running, state, source, wire, fileVars, prevCheck, told, fault>>

(* The CTCP message arrives: gg_dcc_get_file, and the user is asked.       *)
RequestArrives(t) ==
    /\ fault = "none" /\ "get" \in running /\ flow[t] = "requested"
    /\ flow' = [flow EXCEPT ![t] = "callback"]
    /\ Opens(<<t, "get">>, "connecting", {})
    /\ UNCHANGED <<running, wire, fileVars, requested, prevCheck, told, fault>>

(* "get file", the answer to that dialog.                                  *)
Answer(t, yes) ==
    /\ fault = "none" /\ flow[t] = "callback"
    /\ state[<<t, "get">>] = "connecting" /\ source[<<t, "get">>] = {}
    /\ IF yes THEN Opens(<<t, "get">>, "connecting", {"out"}) ELSE Opens(<<t, "get">>, "freed", {})
    /\ UNCHANGED <<usersVars, wire, fileVars, prevCheck, told, fault>>

(* "send file" to a receiver that can be reached.                          *)
SendDirectly(t) ==
    /\ fault = "none" /\ "send" \in running /\ flow[t] = "unused"
    /\ flow' = [flow EXCEPT ![t] = "direct"]
    /\ Opens(<<t, "send">>, "connecting", {"in", "out"})
    /\ file' = [file EXCEPT ![t] = t]
    /\ UNCHANGED <<running, wire, left, sent, got, torn, requested, prevCheck, told, fault>>

(* The dialog of a direct transfer names a session that is freed.          *)
AnswerDirect(t) ==
    /\ fault = "none" /\ "get" \in running /\ flow[t] = "direct" /\ told[<<t, "get">>] = "asked"
    /\ fault' = "use_after_free"
    /\ UNCHANGED <<usersVars, state, source, wire, fileVars, prevCheck, told>>

(* The listening socket of the other program: GG_EVENT_DCC_NEW.            *)
Accept(e) ==
    /\ fault = "none" /\ e[2] \in running /\ state[e] = "none" /\ state[Peer(e)] # "none"
    /\ Opens(e, "read_uin_1", {"in"})
    /\ UNCHANGED <<usersVars, wire, fileVars, prevCheck, told, fault>>

(* A program ends, its connections are closed.                             *)
Exit(p) ==
    /\ p \in Exits /\ fault = "none" /\ p \in running
    /\ running' = running \ {p}
    /\ state' = [e \in Ends |-> IF e[2] = p /\ state[e] # "none" THEN "freed" ELSE state[e]]
    /\ source' = [e \in Ends |-> IF e[2] = p THEN {} ELSE source[e]]
    /\ UNCHANGED <<flow, wire, fileVars, requested, prevCheck, told, fault>>

-----------------------------------------------------------------------------
(* The handshake                                                           *)

Connected(e) ==
    /\ In(e, "connecting")
    /\ Writes(e, <<Packet("uin"), Packet("uin")>>)
    /\ Goes(e, "read_ack")
    /\ UNCHANGED <<usersVars, fileVars, told, fault>>

ReadUin(e) ==
    /\ \/ In(e, "read_uin_1") /\ Goes(e, "read_uin_2")
       \/ In(e, "read_uin_2") /\ Goes(e, "send_ack")
    /\ Reads(e, "uin")
    /\ UNCHANGED <<usersVars, fileVars, told, fault>>

SendAck(e) ==
    /\ In(e, "send_ack")
    /\ Writes(e, <<Packet("ack")>>)
    /\ Goes(e, "read_type")
    /\ UNCHANGED <<usersVars, fileVars, told, fault>>

ReadAck(e) ==
    /\ In(e, "read_ack")
    /\ Reads(e, "ack")
    /\ Goes(e, "send_request")
    /\ UNCHANGED <<usersVars, fileVars, told, fault>>

(* The end that connected says what for: to get a file, or to send one.    *)
SendRequest(e) ==
    /\ In(e, "send_request")
    /\ IF e[2] = "get"
       THEN Writes(e, <<Packet("want")>>) /\ Goes(e, "read_request")
       ELSE Writes(e, <<Packet("offer")>>) /\ Goes(e, "send_info")
    /\ UNCHANGED <<usersVars, fileVars, told, fault>>

ReadType(e) ==
    /\ In(e, "read_type")
    /\ \/ Reads(e, "want") /\ Goes(e, "send_info")
       \/ Reads(e, "offer") /\ Goes(e, "read_request")
    /\ UNCHANGED <<usersVars, fileVars, told, fault>>

(* GG_EVENT_DCC_NEED_FILE_INFO: the plugin opens the last file requested.  *)
NeedFileInfo(e) ==
    /\ In(e, "send_info") /\ file[e[1]] = "none"
    /\ file' = [file EXCEPT ![e[1]] = requested]
    /\ Goes(e, "send_info")
    /\ UNCHANGED <<usersVars, wire, left, sent, got, torn, told, fault>>

SendFileInfo(e) ==
    /\ In(e, "send_info") /\ file[e[1]] # "none"
    /\ Writes(e, <<Packet("announce"), Info(file[e[1]])>>)
    /\ Goes(e, "read_file_ack")
    /\ UNCHANGED <<usersVars, fileVars, told, fault>>

ReadRequest(e) ==
    /\ In(e, "read_request")
    /\ Reads(e, "announce")
    /\ Goes(e, "read_info")
    /\ UNCHANGED <<usersVars, fileVars, told, fault>>

(* GG_EVENT_DCC_NEED_FILE_ACK: test_chan_dcc shows a dialog about the      *)
(* session and frees it; test_chan_dcc_get opens the file and goes on.     *)
ReadFileInfo(e) ==
    /\ In(e, "read_info")
    /\ Reads(e, "info")
    /\ IF ByRequest(e) THEN Goes(e, "send_file_ack") /\ UNCHANGED told ELSE Closes(e, "asked")
    /\ UNCHANGED <<usersVars, fileVars, fault>>

SendFileAck(e) ==
    /\ In(e, "send_file_ack")
    /\ Writes(e, <<Packet("file_ack")>>)
    /\ Goes(e, "read_header")
    /\ UNCHANGED <<usersVars, fileVars, told, fault>>

ReadFileAck(e) ==
    /\ In(e, "read_file_ack")
    /\ Reads(e, "file_ack")
    /\ Goes(e, "send_header")
    /\ UNCHANGED <<usersVars, fileVars, told, fault>>

-----------------------------------------------------------------------------
(* The file                                                                *)

(* The size of the next chunk: never more than Chunk units.                *)
ChunkOf(e) == LET rest == SizeOf(e[1]) - sent[e[1]] IN IF rest > Chunk THEN Chunk ELSE rest

SendHeader(e) ==
    /\ In(e, "send_header")
    /\ Writes(e, <<Header(ChunkOf(e))>>)
    /\ left' = [left EXCEPT ![e] = ChunkOf(e)]
    /\ Goes(e, "send_file")
    /\ UNCHANGED <<usersVars, sent, file, got, torn, told, fault>>

(* The result of write is compared with -1 only.                           *)
WritesUnit(e, n) ==
    \E f \in {file[e[1]], "none"} : Writes(e, [i \in 1..n |-> Data(f, sent[e[1]] + 1)])

(* Mutant of SendData: the end is taken to be there with the last chunk.    *)
SendDataEarly(e) ==
    /\ In(e, "send_file")
    /\ LET t == e[1]
           n == IF SizeOf(t) = 0 THEN 0 ELSE 1
       IN  /\ WritesUnit(e, n)
           /\ sent' = [sent EXCEPT ![t] = @ + n]
           /\ left' = [left EXCEPT ![e] = @ - n]
           /\ IF sent'[t] + Chunk >= SizeOf(t)
              THEN Closes(e, "sent")
              ELSE Goes(e, IF left'[e] = 0 THEN "send_header" ELSE "send_file") /\ UNCHANGED told
    /\ UNCHANGED <<usersVars, file, got, torn, fault>>

(* GG_EVENT_DCC_DONE once everything is written; an empty file is done     *)
(* without writing.                                                        *)
SendData(e) ==
    /\ In(e, "send_file")
    /\ LET t == e[1]
           n == IF SizeOf(t) = 0 THEN 0 ELSE 1
       IN  /\ WritesUnit(e, n)
           /\ sent' = [sent EXCEPT ![t] = @ + n]
           /\ left' = [left EXCEPT ![e] = @ - n]
           /\ IF sent'[t] >= SizeOf(t)
              THEN Closes(e, "sent")
              ELSE Goes(e, IF left'[e] = 0 THEN "send_header" ELSE "send_file") /\ UNCHANGED told
    /\ UNCHANGED <<usersVars, file, got, torn, fault>>

(* A header of 0 ends the transfer, but test_chan_dcc_get goes on with the *)
(* session, whose buffer is gone.                                          *)
ReadHeader(e) ==
    /\ In(e, "read_header") /\ e[1] \notin torn
    /\ Reads(e, "header")
    /\ left' = [left EXCEPT ![e] = wire[e][1].arg]
    /\ Goes(e, IF wire[e][1].arg = 0 THEN "read_no_buffer" ELSE "get_file")
    /\ UNCHANGED <<usersVars, sent, file, got, torn, told, fault>>

ReadNoBuffer(e) ==
    /\ In(e, "read_no_buffer")
    /\ fault' = "no_buffer"
    /\ UNCHANGED <<usersVars, state, source, wire, fileVars, prevCheck, told>>

(* Mutant of GetData: what is read is put at the front.                    *)
GetDataFirst(e) ==
    /\ In(e, "get_file") /\ e[1] \notin torn
    /\ Reads(e, "data") /\ wire[e][1].arg.file # "none"
    /\ got' = [got EXCEPT ![e[1]] = <<wire[e][1].arg>> \o @]
    /\ left' = [left EXCEPT ![e] = @ - 1]
    /\ Goes(e, IF left'[e] = 0 THEN "read_header" ELSE "get_file")
    /\ UNCHANGED <<usersVars, sent, file, torn, told, fault>>

(* After the last unit the session stays as it is and is read once more.   *)
GetData(e) ==
    /\ In(e, "get_file") /\ e[1] \notin torn
    /\ Reads(e, "data") /\ wire[e][1].arg.file # "none"
    /\ got' = [got EXCEPT ![e[1]] = Append(@, wire[e][1].arg)]
    /\ IF Len(got'[e[1]]) >= Size[wire[e][1].arg.file]
       THEN UNCHANGED left /\ Goes(e, "get_file")
       ELSE /\ left' = [left EXCEPT ![e] = @ - 1]
            /\ Goes(e, IF left'[e] = 0 THEN "read_header" ELSE "get_file")
    /\ UNCHANGED <<usersVars, sent, file, torn, told, fault>>

(* A receiver out of step: data and headers are taken for one another, a   *)
(* header may seem to say that nothing follows, or that the file is        *)
(* refused.                                                                *)
Garbled(e) ==
    /\ Ready(e) /\ state[e] \in {"get_file", "read_header"} /\ wire[e] # <<>>
    /\ e[1] \in torn \/ (wire[e][1].is = "data" /\ wire[e][1].arg.file = "none")
    /\ torn' = torn \cup {e[1]}
    /\ wire' = [wire EXCEPT ![e] = Tail(@)]
    /\ \/ Goes(e, "get_file") /\ UNCHANGED told
       \/ e[1] \in torn /\ Goes(e, "read_header") /\ UNCHANGED told
       \/ state[e] = "read_header" /\ Goes(e, "read_no_buffer") /\ UNCHANGED told
       \/ state[e] = "read_header" /\ Closes(e, "nothing")
    /\ UNCHANGED <<usersVars, left, sent, file, got, fault>>

-----------------------------------------------------------------------------
(* Errors                                                                  *)

(* Nothing to read: the other end has closed the connection, or this one   *)
(* was dispatched because it may write.  A header that never comes is      *)
(* waited for again and again once the connection is closed.               *)
Message(e) ==
    CASE state[e] = "get_file" /\ Closed(Peer(e)) -> "received"
      [] state[e] = "read_file_ack"              -> "refused"
      [] OTHER                                   -> "nothing"

ReadFails(e) ==
    /\ Ready(e) /\ state[e] \in Reading \ {"read_no_buffer"} /\ wire[e] = <<>>
    /\ state[e] = "read_header" => ~Closed(Peer(e))
    /\ Closes(e, Message(e))
    /\ UNCHANGED <<usersVars, wire, fileVars, fault>>

(* Writing to a connection that is closed may fail, or do nothing.         *)
WriteFails(e) ==
    /\ Ready(e) /\ state[e] \in Writing /\ Closed(Peer(e))
    /\ Closes(e, "nothing")
    /\ UNCHANGED <<usersVars, wire, fileVars, fault>>

-----------------------------------------------------------------------------

Init ==
    /\ running = Sides
    /\ flow = [t \in Transfers |-> "unused"]
    /\ state = [e \in Ends |-> "none"] /\ source = [e \in Ends |-> {}]
    /\ wire = [e \in Ends |-> <<>>] /\ left = [e \in Ends |-> 0]
    /\ sent = [t \in Transfers |-> 0] /\ file = [t \in Transfers |-> "none"]
    /\ got = [t \in Transfers |-> <<>>] /\ torn = {} /\ requested = "none"
    /\ prevCheck = [p \in Sides |-> "none"]
    /\ told = [e \in Ends |-> "nothing"] /\ fault = "none"

Step(e) ==
    \/ Connected(e) \/ ReadUin(e) \/ SendAck(e) \/ ReadAck(e) \/ SendRequest(e) \/ ReadType(e)
    \/ NeedFileInfo(e) \/ SendFileInfo(e) \/ ReadRequest(e) \/ ReadFileInfo(e)
    \/ SendFileAck(e) \/ ReadFileAck(e) \/ SendHeader(e) \/ SendData(e)
    \/ ReadHeader(e) \/ ReadNoBuffer(e) \/ GetData(e) \/ Garbled(e)
    \/ ReadFails(e) \/ WriteFails(e)

Next ==
    \/ \E t \in Transfers :
          \/ RequestTransfer(t) \/ RequestArrives(t) \/ SendDirectly(t) \/ AnswerDirect(t)
          \/ \E yes \in BOOLEAN : Answer(t, yes)
    \/ \E e \in Ends : Accept(e) \/ Step(e)
    \/ \E p \in Sides : Exit(p)

(* GLib dispatches what is ready, the server delivers the request.         *)
Fairness ==
    /\ \A e \in Ends : WF_vars(Accept(e) \/ Step(e))
    /\ \A t \in Transfers : WF_vars(RequestArrives(t))

Spec == Init /\ [][Next]_vars /\ Fairness

-----------------------------------------------------------------------------
(***************************************************************************)
(* Properties.                                                             *)
(***************************************************************************)
Whole(t)    == got[t] = [i \in 1..Size[t] |-> Unit(t, i)]
Accepted(t) == flow[t] = "callback" /\ source[<<t, "get">>] # {}
Succeeded(t) == Whole(t) /\ told[<<t, "send">>] = "sent" /\ told[<<t, "get">>] = "received"

(* What has been written to disk, before the first unit of which only a    *)
(* part came, is the beginning of one file: nothing is lost, repeated or   *)
(* mixed with another transfer (dcc.c, both loops over chunks).  What such *)
(* a receiver writes afterwards is no beginning of any file, and nobody is *)
(* told: a write that took less than it was given is not noticed.          *)
GotPrefix ==
    \A t \in Transfers : \E f \in Transfers :
        got[t] = [i \in 1..Len(got[t]) |-> Unit(f, i)] /\ Len(got[t]) <= Size[f]

(* If one user is told that the file was sent and the other that it was    *)
(* received, then all of it was received, but for a unit that was written  *)
(* in part: of that both users are told nothing.                           *)
BothToldComplete ==
    \A t \in Transfers :
        told[<<t, "send">>] = "sent" /\ told[<<t, "get">>] = "received"
            => Len(got[t]) = SizeOf(t) \/ t \in torn

(* A transfer on request of a file that is not empty, which its receiver   *)
(* accepts, is completed and both users are told, when it is the only one  *)
(* and no program ends meanwhile, unless a unit is written in part.        *)
LoneTransferSucceeds ==
    \A t \in {u \in Transfers : Size[u] > 0} :
        []((\A u \in Transfers \ {t} : flow[u] = "unused") /\ running = Sides)
            => (Accepted(t) ~> Succeeded(t) \/ t \in torn)

=============================================================================
