--------------------------------- MODULE GGDcc ---------------------------------
(***************************************************************************)
(* A direct connection of libgadu: one file or one voice chat between two  *)
(* programs that call gg_dcc_watch_fd when the socket is ready for what    *)
(* "check" asks, and deal with the event it returns before the next call.  *)
(* The listener opened a socket; the caller connects to it, either because *)
(* it has a file (or something to say), or because it was asked to call    *)
(* back.  Both run this code; an end may be another client that refuses.   *)
(*                                                                         *)
(* The connection is a stream of bytes: what was written together may come *)
(* in parts.  A byte is a pair of what was written and a place in it.      *)
(* Memory never runs out.  "timeout" is left to the program: GivesUp.      *)
(***************************************************************************)
EXTENDS Integers, FiniteSets, Sequences, SequencesExt, FiniteSetsExt

CONSTANTS
    FileSizes,      \* sizes of the sender's file
    Resumes,        \* bytes of the file that the receiver has already
    MaxChunk,       \* bytes in a chunk of the file (4096)
    BufSize,        \* bytes read from the file at once (1024)
    Frames,         \* lengths of voice frames
    MinFrame, MaxFrame,    \* lengths of frames that are accepted (16, 1024)
    Width,          \* offsets and sizes are below this (2^32)
    Ports,          \* port numbers are 0..Ports-1 (2^16)
    DefaultPort,    \* GG_DEFAULT_DCC_PORT
    Asked,          \* ports programs ask for: 0 for the default one, -1 (see gg_dcc_socket_create)
    Window,         \* bytes on their way to an end before its peer must wait
    MaxFaults,      \* bound: kinds of failures in one connection
    MaxFrames       \* bound: voice frames

ASSUME DccAssumption ==
    /\ Width \in Nat /\ FileSizes \subseteq 0..Width - 1 /\ Resumes \subseteq 0..Width - 1
    /\ {MaxChunk, BufSize, MinFrame, Window} \subseteq Nat \ {0}
    /\ MaxFrame \in MinFrame..Width - 1 /\ MaxChunk + 1 < Width /\ Frames \subseteq Nat
    /\ Ports \in Nat /\ Asked \subseteq -1..Ports - 1 /\ DefaultPort \in 1..Ports - 2
    /\ MaxFaults \in Nat /\ MaxFrames \in Nat

VARIABLES
    plan,        \* what the connection is for and who calls
    sock,        \* the listening struct gg_dcc
    h,           \* struct gg_dcc of each end
    event,       \* what gg_dcc_watch_fd returned last
    link, pipe,  \* the connection, bytes on their way to each end
    length,      \* of the sender's file now
    got,         \* the receiver's file
    said, heard, \* lengths of the frames sent, bytes of the frames received
    outcome,     \* how each end ended
    faults       \* history: what went wrong

vars == <<plan, sock, h, event, link, pipe, length, got, said, heard, outcome, faults>>
endVars == <<h, event, pipe, faults>>
dataVars == <<length, got, said, heard>>

Ends == {"caller", "listener"}
Peer(e) == IF e = "caller" THEN "listener" ELSE "caller"
Uin(e) == IF e = "caller" THEN 1 ELSE 2
Sender == IF plan.callback THEN "listener" ELSE "caller"
Receiver == Peer(Sender)
None == [state |-> "none"]
Closed == [state |-> "closed"]
Live(e) == h[e].state \notin {"none", "closed"}
Open(e) == h[e].state # "closed"
NoSocket == [state |-> "none"]

Init ==
    /\ plan \in [voice : BOOLEAN, callback : BOOLEAN, resume : Resumes, size : FileSizes]
    /\ plan.voice => plan.resume = 0 /\ plan.size = 0
    /\ sock = NoSocket
    /\ h = [e \in Ends |-> None] /\ event = [e \in Ends |-> "NONE"]
    /\ link = "up" /\ pipe = [e \in Ends |-> <<>>]
    /\ length = plan.size /\ got = <<>>
    /\ said = [e \in Ends |-> <<>>] /\ heard = [e \in Ends |-> <<>>]
    /\ outcome = [e \in Ends |-> "NONE"] /\ faults = {}

-------------------------------------------------------------------------------
(***************************************************************************)
(* The stream.                                                             *)
(***************************************************************************)
Small == 2   \* bytes of a packet that may come in parts (4), of a header (12)

Size(packet) == IF packet[1] \in {"tiny", "data"} THEN 1 ELSE Small
Bytes(packet) == [i \in 1..Size(packet) |-> <<packet, i>>]
FrameBytes(n, size) == [i \in 1..size |-> <<<<"voice", n>>, i>>]
FileBytes(from, size) == [i \in 1..size |-> <<<<"data", from + i>>, 1>>]
Refused == -1
Unsigned(n) == n % Width

\* What a reader makes of bytes that are not the packet it expects
Garbage == 0..MaxChunk + 1
Values(bytes, kind) ==
    LET packet == Head(bytes)[1]
    IN  IF packet[1] = kind /\ bytes = Bytes(packet) THEN {packet[2]} ELSE Garbage

Delivered(e, bytes) ==
    IF Open(Peer(e)) THEN [pipe EXCEPT ![Peer(e)] = @ \o bytes] ELSE pipe
Consumed(e, n) == [pipe EXCEPT ![e] = SubSeq(@, n + 1, Len(@))]
AtEnd(e) == pipe[e] = <<>> /\ ~Open(Peer(e))

\* select says that the socket is ready for what h->check asks
Ready(e) ==
    /\ Live(e) /\ event[e] = "NONE"
    /\ \/ link = "broken"
       \/ h[e].check = "READ" /\ (pipe[e] # <<>> \/ AtEnd(e))
       \/ h[e].check = "WRITE" /\ (Len(pipe[Peer(e)]) < Window \/ ~Open(Peer(e)))

\* A struct with some fields assigned
With(fields, c) ==
    [x \in DOMAIN fields \cup DOMAIN c |-> IF x \in DOMAIN fields THEN fields[x] ELSE c[x]]

Becomes(e, fields) == h' = [h EXCEPT ![e] = With(fields, @)]
Returns(e, type) == event' = [event EXCEPT ![e] = type]
Fault(kind) == Cardinality(faults \cup {kind}) <= MaxFaults /\ faults' = faults \cup {kind}

\* gg_write: all of it is written, or the handshake has failed
Writes(e, bytes, fields, type) ==
    \/ link = "up" /\ pipe' = Delivered(e, bytes) /\ Becomes(e, fields) /\ Returns(e, type)
       /\ UNCHANGED faults
    \/ /\ link = "broken" \/ ~Open(Peer(e))
       /\ Returns(e, "ERROR_HANDSHAKE") /\ UNCHANGED <<h, pipe, faults>>
    \/ \E n \in 0..Len(bytes) - 1 :
        /\ link = "up" /\ pipe' = Delivered(e, SubSeq(bytes, 1, n))
        /\ Returns(e, "ERROR_HANDSHAKE") /\ Fault("short write") /\ UNCHANGED h

\* gg_read of a whole packet
Reads(e, kind, value) ==
    LET n == Size(<<kind>>)
    IN  /\ Ready(e) /\ link = "up" /\ Len(pipe[e]) >= n
        /\ value \in Values(SubSeq(pipe[e], 1, n), kind)
        /\ pipe' = Consumed(e, n)
        /\ UNCHANGED faults

Fails(e, error) == Returns(e, error) /\ UNCHANGED h

Expected == [READING_UIN_1 |-> "uin", READING_UIN_2 |-> "uin", READING_TYPE |-> "small",
             READING_REQUEST |-> "small", READING_FILE_INFO |-> "info",
             READING_ACK |-> "ack", READING_FILE_ACK |-> "file_ack",
             READING_VOICE_ACK |-> "tiny", READING_VOICE_HEADER |-> "tiny",
             READING_VOICE_SIZE |-> "small"]

\* gg_read that finds the end, an error or only a part of the packet
ReadsShort(e) ==
    /\ Ready(e) /\ h[e].state \in DOMAIN Expected
    /\ \/ /\ AtEnd(e) \/ link = "broken"
          /\ UNCHANGED <<pipe, faults>>
       \/ \E n \in 1..Size(<<Expected[h[e].state]>>) - 1 :
            /\ n <= Len(pipe[e]) /\ pipe' = Consumed(e, n)
            /\ IF Len(pipe[e]) < Size(<<Expected[h[e].state]>>) THEN UNCHANGED faults ELSE Fault("split")
    /\ Fails(e, "ERROR_HANDSHAKE")
    /\ UNCHANGED dataVars

-------------------------------------------------------------------------------
(***************************************************************************)
(* Meeting: who we are, what we want.                                      *)
(***************************************************************************)
Fresh == [offset |-> 0, size |-> 0, file |-> FALSE, chunkSize |-> 0, chunkOffset |-> 0,
          chunkBuf |-> <<>>, allocated |-> FALSE, voiceBuf |-> <<>>, established |-> FALSE]

\* GG_STATE_READING_UIN_1, GG_STATE_READING_UIN_2
ReadingUin(e) ==
    \E uin \in {Uin(x) : x \in Ends} \cup Garbage :
        /\ Reads(e, "uin", uin)
        /\ \/ /\ h[e].state = "READING_UIN_1"
              /\ Becomes(e, [state |-> "READING_UIN_2", check |-> "READ", peerUin |-> uin])
              /\ UNCHANGED event
           \/ /\ h[e].state = "READING_UIN_2"
              /\ Becomes(e, [state |-> "SENDING_ACK", check |-> "WRITE", uin |-> uin])
              /\ Returns(e, "CLIENT_ACCEPT")
        /\ UNCHANGED dataVars

SendingAck(e) ==
    /\ Ready(e) /\ h[e].state = "SENDING_ACK"
    /\ Writes(e, Bytes(<<"ack", 1>>), [state |-> "READING_TYPE", check |-> "READ"], "NONE")
    /\ UNCHANGED dataVars

\* The caller's request: 3 asks for a callback, 2 sends
ReadingType(e) ==
    /\ h[e].state = "READING_TYPE"
    /\ \E type \in Garbage :
        /\ Reads(e, "small", type)
        /\ \/ /\ type = 3
              /\ Becomes(e, [type |-> "SEND", state |-> "SENDING_FILE_INFO", check |-> "WRITE"])
              /\ Returns(e, "CALLBACK")
           \/ /\ type = 2
              /\ Becomes(e, [type |-> "GET", state |-> "READING_REQUEST", check |-> "READ"])
              /\ UNCHANGED event
           \/ type \notin {2, 3} /\ Fails(e, "ERROR_HANDSHAKE")
    /\ UNCHANGED dataVars

\* 1 offers a file, 3 a voice chat
ReadingRequest(e) ==
    /\ h[e].state = "READING_REQUEST"
    /\ \E request \in Garbage :
        /\ Reads(e, "small", request)
        /\ \/ /\ request = 1
              /\ Becomes(e, [state |-> "READING_FILE_INFO", check |-> "READ"])
              /\ UNCHANGED event
           \/ /\ request = 3
              /\ Becomes(e, [state |-> "SENDING_VOICE_ACK", check |-> "WRITE", type |-> "VOICE"])
              /\ Returns(e, "NEED_VOICE_ACK")
           \/ request \notin {1, 3} /\ Fails(e, "ERROR_HANDSHAKE")
    /\ UNCHANGED dataVars

\* SO_ERROR tells whether somebody listens at the port we were told
Reached == link = "up" /\ sock.state = "LISTENING" /\ sock.bound = sock.port
Connecting(e) ==
    /\ Ready(e) /\ h[e].state = "CONNECTING"
    /\ IF Reached
       THEN Writes(e, Bytes(<<"uin", h[e].uin>>) \o Bytes(<<"uin", h[e].peerUin>>),
                   [state |-> "READING_ACK", check |-> "READ"], "NONE")
       ELSE Fails(e, "ERROR_HANDSHAKE") /\ UNCHANGED <<pipe, faults>>
    /\ UNCHANGED dataVars

ReadingAck(e) ==
    /\ h[e].state = "READING_ACK"
    /\ \E ack \in Garbage :
        /\ Reads(e, "ack", ack)
        /\ IF ack = 1 THEN Becomes(e, [state |-> "SENDING_REQUEST", check |-> "WRITE"]) /\ UNCHANGED event
                      ELSE Fails(e, "ERROR_HANDSHAKE")
    /\ UNCHANGED dataVars

SendingRequest(e) ==
    /\ Ready(e) /\ h[e].state = "SENDING_REQUEST"
    /\ \/ /\ h[e].type = "GET"
          /\ Writes(e, Bytes(<<"small", 3>>), [state |-> "READING_REQUEST", check |-> "READ"], "NONE")
       \/ /\ h[e].type = "SEND"
          /\ Writes(e, Bytes(<<"small", 2>>), [state |-> "SENDING_FILE_INFO", check |-> "WRITE"],
                    IF h[e].file THEN "NONE" ELSE "NEED_FILE_INFO")
       \/ /\ h[e].type = "VOICE"
          /\ Writes(e, Bytes(<<"small", 2>>), [state |-> "SENDING_VOICE_REQUEST", check |-> "WRITE"], "NONE")
    /\ UNCHANGED dataVars

SendingVoiceRequest(e) ==
    /\ Ready(e) /\ h[e].state = "SENDING_VOICE_REQUEST"
    /\ Writes(e, Bytes(<<"small", 3>>), [state |-> "READING_VOICE_ACK", check |-> "READ"], "NONE")
    /\ UNCHANGED dataVars

-------------------------------------------------------------------------------
(***************************************************************************)
(* The file.                                                               *)
(***************************************************************************)
SendingFileInfo(e) ==
    /\ Ready(e) /\ h[e].state = "SENDING_FILE_INFO"
    /\ IF h[e].file
       THEN Writes(e, Bytes(<<"small", 1>>) \o Bytes(<<"info", h[e].size>>),
                   [state |-> "READING_FILE_ACK", check |-> "READ"], "NONE")
       ELSE Fails(e, "NEED_FILE_INFO") /\ UNCHANGED <<pipe, faults>>
    /\ UNCHANGED dataVars

ReadingFileInfo(e) ==
    /\ h[e].state = "READING_FILE_INFO"
    /\ \E size \in FileSizes \cup Garbage :
        /\ Reads(e, "info", size)
        /\ Becomes(e, [state |-> "SENDING_FILE_ACK", check |-> "WRITE", size |-> size])
    /\ Returns(e, "NEED_FILE_ACK")
    /\ UNCHANGED dataVars

\* The receiver is about to read a file header into a new buffer
HeaderComes == [state |-> "READING_FILE_HEADER", check |-> "READ", chunkSize |-> Small,
                chunkOffset |-> 0, chunkBuf |-> <<>>, allocated |-> TRUE]

SendingFileAck(e) ==
    /\ Ready(e) /\ h[e].state = "SENDING_FILE_ACK"
    /\ Writes(e, Bytes(<<"file_ack", h[e].offset>>), HeaderComes, "NONE")
    /\ UNCHANGED dataVars

MutFileAckIgnored(e) ==
    /\ h[e].state = "READING_FILE_ACK"
    /\ \E offset \in Resumes \cup Garbage :
        /\ Reads(e, "file_ack", offset)
        /\ Becomes(e, [state |-> "SENDING_FILE_HEADER", check |-> "WRITE", offset |-> 0])
    /\ Returns(e, "ACK")
    /\ UNCHANGED dataVars
MutFileAckCheck(e) ==
    /\ h[e].state = "READING_FILE_ACK"
    /\ \E offset \in Resumes \cup Garbage :
        /\ Reads(e, "file_ack", offset)
        /\ Becomes(e, [state |-> "SENDING_FILE_HEADER", offset |-> offset])
    /\ Returns(e, "ACK")
    /\ UNCHANGED dataVars

\* The answer is taken for a consent whatever it is
ReadingFileAck(e) ==
    /\ h[e].state = "READING_FILE_ACK"
    /\ \E offset \in Resumes \cup Garbage :
        /\ Reads(e, "file_ack", offset)
        /\ Becomes(e, [state |-> "SENDING_FILE_HEADER", check |-> "WRITE", offset |-> offset])
    /\ Returns(e, "ACK")
    /\ UNCHANGED dataVars

MutHeaderSize(e) == Min({h[e].size - h[e].offset, MaxChunk})

\* What is left of the file in unsigned numbers, as far as a chunk holds it
HeaderSize(e) == Min({Unsigned(h[e].size - h[e].offset), MaxChunk})

SendingFileHeader(e) ==
    LET size == HeaderSize(e)
    IN  /\ Ready(e) /\ h[e].state = "SENDING_FILE_HEADER"
        /\ Writes(e, Bytes(<<"header", size>>),
                  [state |-> "SENDING_FILE", check |-> "WRITE", chunkSize |-> size,
                   chunkOffset |-> 0, established |-> TRUE], "NONE")
        /\ UNCHANGED dataVars

\* A header may come in parts.  At the end of the stream read() keeps
\* returning zero: no event.
ReadingFileHeader(e) ==
    /\ Ready(e) /\ h[e].state = "READING_FILE_HEADER"
    /\ \/ /\ link = "broken"
          /\ Fails(e, "ERROR_NET") /\ UNCHANGED pipe
       \/ \E n \in 1..Min({Unsigned(h[e].chunkSize - h[e].chunkOffset), Len(pipe[e])}) :
            LET buf == h[e].chunkBuf \o SubSeq(pipe[e], 1, n)
                whole == h[e].chunkOffset + n >= h[e].chunkSize
            IN  /\ link = "up" /\ pipe' = Consumed(e, n)
                /\ \/ /\ ~whole
                      /\ Becomes(e, [chunkOffset |-> h[e].chunkOffset + n, chunkBuf |-> buf])
                      /\ UNCHANGED event
                   \/ \E size \in Values(buf, "header") :
                        LET read == [chunkBuf |-> <<>>, allocated |-> FALSE, chunkOffset |-> 0,
                                     chunkSize |-> Unsigned(size)]
                        IN  /\ whole
                            /\ \/ /\ size \in {Refused, 0}
                                  /\ Becomes(e, read)
                                  /\ Returns(e, IF size = 0 THEN "DONE" ELSE "REFUSED")
                               \/ /\ size \notin {Refused, 0}
                                  /\ Becomes(e, With([state |-> "GETTING_FILE", check |-> "READ",
                                                      established |-> TRUE], read))
                                  /\ UNCHANGED event
    /\ UNCHANGED <<faults, dataVars>>

\* What is left of the chunk, as far as the buffer holds it
Piece(e) == Min({Unsigned(h[e].chunkSize - h[e].chunkOffset), BufSize})

\* What was read from the file, cut at the size that was announced
FromFile(e) == Min({Piece(e), Max({length - h[e].offset, 0})})
Cut(e) == Min({FromFile(e), h[e].size - h[e].offset})

\* A write that takes less than it was given counts as if it took all of it
SendingFile(e) ==
    LET sent(size) == [offset |-> h[e].offset + size, check |-> "WRITE"]
        next(size) == With([state |-> IF h[e].chunkOffset + size >= h[e].chunkSize
                                      THEN "SENDING_FILE_HEADER" ELSE "SENDING_FILE",
                            chunkOffset |-> h[e].chunkOffset + size], sent(size))
    IN  /\ Ready(e) /\ h[e].state = "SENDING_FILE"
        /\ \/ /\ h[e].size = 0
              /\ Fails(e, "DONE") /\ UNCHANGED <<pipe, faults>>
           \/ /\ h[e].size # 0 /\ FromFile(e) = 0
              /\ Fails(e, "ERROR_EOF") /\ UNCHANGED <<pipe, faults>>
           \/ /\ h[e].size # 0 /\ FromFile(e) > 0 /\ Cut(e) < 1
              /\ Fails(e, "DONE") /\ UNCHANGED <<pipe, faults>>
           \/ /\ h[e].size # 0 /\ FromFile(e) > 0 /\ Cut(e) >= 1
              /\ \/ /\ link = "broken" \/ ~Open(Peer(e))
                    /\ Fails(e, "ERROR_NET") /\ UNCHANGED <<pipe, faults>>
                 \/ \E taken \in 1..Cut(e) :
                    LET size == Cut(e)
                    IN  /\ link = "up"
                        /\ IF taken < Cut(e) THEN Fault("short write") ELSE UNCHANGED faults
                        /\ pipe' = Delivered(e, FileBytes(h[e].offset, taken))
                        /\ IF h[e].offset + size >= h[e].size
                           THEN Becomes(e, sent(size)) /\ Returns(e, "DONE")
                           ELSE Becomes(e, next(size)) /\ UNCHANGED event
        /\ UNCHANGED dataVars

MutCompleteEarly(e, offset) == offset + 1 >= h[e].size

Complete(e, offset) == offset >= h[e].size

GettingFile(e) ==
    /\ Ready(e) /\ h[e].state = "GETTING_FILE"
    /\ \/ /\ link = "broken"
          /\ Fails(e, "ERROR_NET") /\ UNCHANGED <<pipe, got, faults>>
       \/ /\ link = "up" /\ AtEnd(e)
          /\ Fails(e, "ERROR_EOF") /\ UNCHANGED <<pipe, got, faults>>
       \/ /\ link = "up" /\ pipe[e] # <<>>
          /\ Fault("disk") /\ Fails(e, "ERROR_NET") /\ UNCHANGED got
          /\ pipe' = Consumed(e, Min({Piece(e), Len(pipe[e])}))
       \/ \E n \in 1..Min({Piece(e), Len(pipe[e])}) :
            LET offset == Unsigned(h[e].offset + n)
                chunkOffset == h[e].chunkOffset + n
            IN  /\ link = "up" /\ pipe' = Consumed(e, n) /\ UNCHANGED faults
                /\ got' = got \o SubSeq(pipe[e], 1, n)
                /\ IF Complete(e, offset)
                   THEN Becomes(e, [offset |-> offset]) /\ Returns(e, "DONE")
                   ELSE /\ UNCHANGED event
                        /\ IF chunkOffset >= h[e].chunkSize
                           THEN Becomes(e, With([offset |-> offset], HeaderComes))
                           ELSE Becomes(e, [offset |-> offset, chunkOffset |-> chunkOffset])
    /\ UNCHANGED <<length, said, heard>>

-------------------------------------------------------------------------------
(***************************************************************************)
(* The voice chat.                                                         *)
(***************************************************************************)
VoiceComes == [state |-> "READING_VOICE_HEADER", check |-> "READ"]

SendingVoiceAck(e) ==
    /\ Ready(e) /\ h[e].state = "SENDING_VOICE_ACK"
    /\ Writes(e, Bytes(<<"tiny", 1>>), With([offset |-> 0], VoiceComes), "NONE")
    /\ UNCHANGED dataVars

ReadingVoiceAck(e) ==
    /\ h[e].state = "READING_VOICE_ACK"
    /\ \E ack \in {Refused} \cup Garbage :
        /\ Reads(e, "tiny", ack)
        /\ IF ack = 1 THEN Becomes(e, VoiceComes) /\ Returns(e, "ACK")
                      ELSE Fails(e, "REFUSED")
    /\ UNCHANGED dataVars

\* 3 announces a frame; 4 ends the chat
ReadingVoiceHeader(e) ==
    /\ h[e].state = "READING_VOICE_HEADER"
    /\ \E type \in Garbage :
        /\ Reads(e, "tiny", type)
        /\ IF type = 3
           THEN /\ Becomes(e, [state |-> "READING_VOICE_SIZE", check |-> "READ", established |-> TRUE])
                /\ UNCHANGED event
           ELSE Fails(e, "ERROR_HANDSHAKE")
    /\ UNCHANGED dataVars

ReadingVoiceSize(e) ==
    /\ h[e].state = "READING_VOICE_SIZE"
    /\ \E size \in Frames \cup Garbage :
        /\ Reads(e, "small", size)
        /\ IF size \in MinFrame..MaxFrame
           THEN /\ Becomes(e, [state |-> "READING_VOICE_DATA", check |-> "READ",
                               chunkSize |-> size, chunkOffset |-> 0, voiceBuf |-> <<>>])
                /\ UNCHANGED event
           ELSE Fails(e, "ERROR_NET")
    /\ UNCHANGED dataVars

\* The program takes the frame with the event
ReadingVoiceData(e) ==
    /\ Ready(e) /\ h[e].state = "READING_VOICE_DATA"
    /\ \/ /\ link = "broken" \/ AtEnd(e)
          /\ Fails(e, "ERROR_NET") /\ UNCHANGED <<pipe, heard>>
       \/ \E n \in 1..Min({Unsigned(h[e].chunkSize - h[e].chunkOffset), Len(pipe[e])}) :
            LET buf == h[e].voiceBuf \o SubSeq(pipe[e], 1, n)
                offset == h[e].chunkOffset + n
            IN  /\ link = "up" /\ pipe' = Consumed(e, n)
                /\ IF offset >= h[e].chunkSize
                   THEN /\ Becomes(e, With([chunkOffset |-> offset, voiceBuf |-> <<>>], VoiceComes))
                        /\ heard' = [heard EXCEPT ![e] = Append(@, buf)]
                        /\ Returns(e, "VOICE_DATA")
                   ELSE /\ Becomes(e, [chunkOffset |-> offset, voiceBuf |-> buf])
                        /\ UNCHANGED <<heard, event>>
    /\ UNCHANGED <<faults, length, got, said>>

\* gg_dcc_voice_send: a header and the frame, each may be cut short.  The
\* length is not checked against what the peer accepts.
Packets(n, size) == Bytes(<<"tiny", 3>>) \o Bytes(<<"small", size>>) \o FrameBytes(n, size)

VoiceSend(e) ==
    /\ Live(e) /\ event[e] = "NONE" /\ h[e].type = "VOICE"
    /\ h[e].state \in {"READING_VOICE_HEADER", "READING_VOICE_SIZE", "READING_VOICE_DATA"}
    /\ link = "up" /\ Len(said.caller) + Len(said.listener) < MaxFrames
    /\ Len(pipe[Peer(e)]) < Window
    /\ \E size \in Frames :
        LET all == Packets(Len(said[e]) + 1, size)
        IN  /\ said' = [said EXCEPT ![e] = Append(@, size)]
            /\ \/ pipe' = Delivered(e, all) /\ UNCHANGED faults
               \/ \E n \in 0..Len(all) - 1 :
                    pipe' = Delivered(e, SubSeq(all, 1, n)) /\ Fault("short write")
    /\ UNCHANGED <<h, event, length, got, heard>>

-------------------------------------------------------------------------------
(***************************************************************************)
(* gg_dcc_watch_fd.                                                        *)
(***************************************************************************)
\* A new connection to the listening socket
Accept ==
    /\ sock.state = "LISTENING" /\ Reached /\ h.caller # None /\ h.listener = None
    /\ h' = [h EXCEPT !.listener =
                With([state |-> "READING_UIN_1", type |-> "DCC", check |-> "READ",
                      uin |-> 0, peerUin |-> 0], Fresh)]
    /\ UNCHANGED <<event, pipe, faults, dataVars>>

WatchHandshake(e) ==
    \/ ReadsShort(e) \/ ReadingUin(e) \/ SendingAck(e) \/ ReadingType(e) \/ ReadingRequest(e)
    \/ Connecting(e) \/ ReadingAck(e) \/ SendingRequest(e)
WatchFile(e) ==
    \/ SendingFileInfo(e) \/ ReadingFileInfo(e) \/ SendingFileAck(e) \/ ReadingFileAck(e)
    \/ SendingFileHeader(e) \/ ReadingFileHeader(e) \/ SendingFile(e) \/ GettingFile(e)
WatchVoice(e) ==
    \/ SendingVoiceRequest(e) \/ SendingVoiceAck(e) \/ ReadingVoiceAck(e)
    \/ ReadingVoiceHeader(e) \/ ReadingVoiceSize(e) \/ ReadingVoiceData(e)

\* gg_dcc_watch_fd for a connection
Watch(e) ==
    /\ WatchHandshake(e) \/ WatchFile(e) \/ WatchVoice(e)
    /\ UNCHANGED <<plan, sock, link, outcome>>

-------------------------------------------------------------------------------
(***************************************************************************)
(* The programs.                                                           *)
(***************************************************************************)
\* gg_dcc_socket_create: the first free port from the one that is asked for;
\* port 0 lets the system choose
Listening(port, bound) == [state |-> "LISTENING", port |-> port, bound |-> bound]
FirstPort(asked) == IF asked = 0 THEN DefaultPort ELSE asked
Bound(port, free) ==
    LET found == {p \in port..Ports - 2 : p \in free}
    IN  IF port = Ports - 1
        THEN IF port \in free THEN {Listening(port, port)} ELSE {Listening(0, p) : p \in free}
        ELSE {Listening(p, p) : p \in {q \in found : \A r \in found : q <= r}}

\* the port is a 16-bit number: -1 is the last one, not the default one
SocketCreate(asked) ==
    /\ sock = NoSocket
    /\ \E busy \in SUBSET {DefaultPort, Ports - 1} :
        sock' \in Bound(FirstPort(asked % Ports), (1..Ports - 1) \ busy)
    /\ UNCHANGED <<plan, endVars, dataVars, link, outcome>>

\* gg_dcc_send_file, gg_dcc_get_file, gg_dcc_voice_chat; to be called back one
\* sends gg_dcc_request first
Transfer ==
    /\ sock.state = "LISTENING" /\ sock.port # 0 /\ h.caller = None
    /\ h' = [h EXCEPT !.caller =
                With([state |-> "CONNECTING", check |-> "WRITE", uin |-> Uin("caller"),
                      peerUin |-> Uin("listener"),
                      type |-> IF plan.callback THEN "GET" ELSE IF plan.voice THEN "VOICE" ELSE "SEND"],
                     Fresh)]
    /\ UNCHANGED <<plan, sock, event, pipe, faults, dataVars, link, outcome>>

Given(e, fields, events) ==
    /\ Live(e) /\ event[e] \in events
    /\ Becomes(e, fields) /\ Returns(e, "NONE")
    /\ UNCHANGED <<plan, sock, pipe, faults, length, said, heard, link, outcome>>

\* gg_dcc_fill_file_info2, before it is needed or when it is
FillFileInfo(e) ==
    /\ Live(e) /\ h[e].type = "SEND" /\ ~h[e].file
    /\ Given(e, [size |-> length, file |-> TRUE], {"NONE", "NEED_FILE_INFO"})
    /\ UNCHANGED got

\* gg_dcc_set_type
SetType(e) ==
    /\ Given(e, IF plan.voice THEN [type |-> "VOICE", state |-> "SENDING_VOICE_REQUEST"]
                              ELSE [type |-> "SEND", state |-> "SENDING_FILE_INFO"], {"CALLBACK"})
    /\ UNCHANGED got

\* The program opens the file where it wants it, at the end of what it has
AcceptFile(e) ==
    /\ Given(e, [file |-> TRUE, offset |-> plan.resume], {"NEED_FILE_ACK"})
    /\ got' = FileBytes(0, plan.resume)

GoesOn(e) ==
    /\ Given(e, <<>>, {"CLIENT_ACCEPT", "ACK", "NEED_VOICE_ACK", "VOICE_DATA"})
    /\ UNCHANGED got

\* gg_dcc_free when it is over.  What is on its way to the peer still comes.
Over == {"DONE", "REFUSED", "ERROR_HANDSHAKE", "ERROR_NET", "ERROR_EOF"}
Frees(e, why) ==
    /\ h' = [h EXCEPT ![e] = Closed] /\ event' = [event EXCEPT ![e] = "NONE"]
    /\ pipe' = [pipe EXCEPT ![e] = <<>>]
    /\ outcome' = [outcome EXCEPT ![e] = why]
    /\ UNCHANGED <<plan, sock, dataVars, link>>
DccFree(e) == Live(e) /\ event[e] \in Over /\ Frees(e, event[e]) /\ UNCHANGED faults

\* The user cancels, the program refuses or its timeout expires
GivesUp(e) ==
    /\ Live(e) /\ event[e] \notin Over
    /\ Frees(e, "GIVEN_UP") /\ Fault("given up")

\* Another client refuses the file, or the voice chat
RefusesFile(e) ==
    /\ Live(e) /\ h[e].state = "SENDING_FILE_HEADER" /\ link = "up"
    /\ pipe' = Delivered(e, Bytes(<<"header", Refused>>))
    /\ UNCHANGED <<h, event, outcome>>
    /\ Fault("refused")
RefusesVoice(e) ==
    /\ Live(e) /\ h[e].state = "SENDING_VOICE_ACK" /\ link = "up"
    /\ pipe' = Delivered(e, Bytes(<<"tiny", Refused>>))
    /\ UNCHANGED <<h, event, outcome>>
    /\ Fault("refused")
Refuses(e) ==
    /\ "refused" \notin faults
    /\ RefusesFile(e) \/ RefusesVoice(e)
    /\ UNCHANGED <<plan, sock, dataVars, link>>

\* The connection breaks: what was on its way is lost
Breaks ==
    /\ link = "up" /\ link' = "broken" /\ pipe' = [e \in Ends |-> <<>>] /\ Fault("broken")
    /\ UNCHANGED <<plan, sock, h, event, dataVars, outcome>>

\* Somebody writes to the file while it is sent
FileChanges ==
    /\ "file" \notin faults /\ Fault("file") /\ ~plan.voice
    /\ length' \in FileSizes \ {length}
    /\ UNCHANGED <<plan, sock, h, event, pipe, got, said, heard, link, outcome>>

Accepts == Accept /\ UNCHANGED <<plan, sock, link, outcome>>
Says(e) == VoiceSend(e) /\ UNCHANGED <<plan, sock, link, outcome>>
Handles(e) == SetType(e) \/ AcceptFile(e) \/ GoesOn(e) \/ FillFileInfo(e) \/ DccFree(e)

Next ==
    \/ \E asked \in Asked : SocketCreate(asked)
    \/ Transfer \/ Accepts \/ Breaks \/ FileChanges
    \/ \E e \in Ends : Watch(e) \/ Handles(e) \/ Says(e) \/ GivesUp(e) \/ Refuses(e)

Spec == Init /\ [][Next]_vars

\* The programs watch their sockets and deal with the events; they need not
\* say anything, nor give up.
FairSpec ==
    /\ Spec /\ WF_vars(Accepts)
    /\ \A e \in Ends : WF_vars(Watch(e)) /\ WF_vars(Handles(e))
-------------------------------------------------------------------------------
(***************************************************************************)
(* Properties.                                                             *)
(***************************************************************************)
States == DOMAIN Expected \cup
    {"SENDING_ACK", "CONNECTING", "SENDING_REQUEST", "SENDING_VOICE_REQUEST",
     "SENDING_FILE_INFO", "SENDING_FILE_ACK", "SENDING_VOICE_ACK", "SENDING_FILE_HEADER",
     "SENDING_FILE", "READING_FILE_HEADER", "GETTING_FILE", "READING_VOICE_DATA"}
Number == 0..Width - 1
PacketKinds == {"uin", "small", "info", "ack", "file_ack", "tiny", "header", "data", "voice"}
Packet == {p \in PacketKinds \X Int : p[1] = "header" => p[2] \in {Refused} \cup Number}
ByteSeq == Seq(Packet \X Nat)

Connections ==
    [state : States, type : {"DCC", "SEND", "GET", "VOICE"}, check : {"READ", "WRITE"},
     uin : Number, peerUin : Number, offset : Number, size : Number, file : BOOLEAN,
     chunkSize : Number, chunkOffset : Number, chunkBuf : ByteSeq, allocated : BOOLEAN,
     voiceBuf : ByteSeq, established : BOOLEAN]
Events == Over \cup {"NONE", "CLIENT_ACCEPT", "CALLBACK", "NEED_FILE_INFO", "NEED_FILE_ACK",
                     "NEED_VOICE_ACK", "ACK", "VOICE_DATA"}

\* Nothing is read into a buffer that is not there or has no room: chunk_buf
\* lives while a header is read, a voice frame fits, and a chunk has bytes left
\* whenever the file is read.
BuffersFit ==
    \A e \in Ends : Live(e) /\ event[e] = "NONE" =>
        /\ h[e].allocated <=> h[e].state = "READING_FILE_HEADER"
        /\ h[e].state = "READING_FILE_HEADER" =>
            Len(h[e].chunkBuf) = h[e].chunkOffset /\ h[e].chunkOffset < h[e].chunkSize
        /\ h[e].state = "READING_VOICE_DATA" =>
            /\ Len(h[e].voiceBuf) = h[e].chunkOffset
            /\ h[e].chunkOffset < h[e].chunkSize /\ h[e].chunkSize <= MaxFrame
        /\ h[e].state = "GETTING_FILE" => h[e].chunkOffset < h[e].chunkSize

\* The fields of both connections are in range: unsigned numbers of their
\* width, known states and events, and buffers as the states need them.
TypeOK ==
    /\ h \in [Ends -> Connections \cup {None, Closed}]
    /\ event \in [Ends -> Events] /\ outcome \in [Ends -> Over \cup {"NONE", "GIVEN_UP"}]
    /\ link \in {"up", "broken"} /\ pipe \in [Ends -> ByteSeq] /\ got \in ByteSeq
    /\ length \in FileSizes /\ said \in [Ends -> Seq(Frames)]
    /\ BuffersFit

Uncut == "short write" \notin faults

\* As long as writes are not cut short, what the receiver has in its file is how
\* the sender's file begins, whatever was there before, however the stream is
\* divided, and although headers come between the chunks.
FileIsPrefix == Uncut => got = FileBytes(0, Len(got))

\* A receiver that is told DONE has all of the size it was offered.
DoneIsWhole ==
    Uncut /\ Live(Receiver) /\ event[Receiver] = "DONE" => Len(got) = h[Receiver].size

\* Voice frames are handed over whole, in the order they were sent, none left
\* out, while both ends talk and listen at once.
VoiceInOrder ==
    Uncut => \A e \in Ends : \A n \in DOMAIN heard[e] :
        n <= Len(said[Peer(e)]) /\ heard[e][n] = FrameBytes(n, said[Peer(e)][n])

\* Files and voices arrive as they were sent, in whatever parts.
ReceivedIsSent == FileIsPrefix /\ DoneIsWhole /\ VoiceInOrder

Sends == {"SENDING_FILE_HEADER", "SENDING_FILE"}
Gets == {"READING_FILE_HEADER", "GETTING_FILE"}
Chats == {"READING_VOICE_HEADER", "READING_VOICE_SIZE", "READING_VOICE_DATA"}
Talks(e) == h[e].state \in Sends \cup Gets \cup Chats

\* Whoever called and whoever was asked to call back, two ends that have come to
\* talk have complementary types, and the listener knows both numbers.
KindsAgree ==
    Uncut /\ (\A e \in Ends : Talks(e)) =>
        /\ h[Sender].type = IF plan.voice THEN "VOICE" ELSE "SEND"
        /\ h[Receiver].type = IF plan.voice THEN "VOICE" ELSE "GET"
        /\ h.listener.uin = Uin("listener") /\ h.listener.peerUin = Uin("caller")

InPipe == Cardinality({i \in DOMAIN pipe[Receiver] : pipe[Receiver][i][1][1] = "data"})

\* The offsets of both ends differ by what is on its way: a file that is resumed
\* is sent from where the receiver wants it.
OffsetsAgree ==
    /\ Uncut /\ link = "up" /\ faults \cap {"disk", "refused"} = {}
    /\ h[Sender].state \in Sends /\ h[Receiver].state \in Gets
    => h[Sender].offset = h[Receiver].offset + InPipe

\* What one end believes of the transfer is what the other believes.
EndsAgree == KindsAgree /\ OffsetsAgree

\* Nobody waits for ever, without a timeout: each end of a transfer is over some
\* day, and each end of a chat has come to talk.  The exception is the receiver
\* whose peer has gone where a file header should come: it is never told.
Spins(e) == h[e].state = "READING_FILE_HEADER" /\ AtEnd(e)
NobodyWaits ==
    \A e \in Ends : Live(e) ~> ~Live(e) \/ Spins(e) \/ h[e].state \in Chats

\* If nothing went wrong and there was something to send, an end that is DONE
\* has a peer that will be.  (A file that the receiver has already is an error
\* to the sender.)
DoneForBoth ==
    \A e \in Ends :
        outcome[e] = "DONE" /\ faults = {}
            /\ (plan.resume < plan.size \/ plan.resume = 0)
        ~> outcome[Peer(e)] = "DONE" \/ faults # {}

\* A transfer ends at both ends.
TransfersEnd == NobodyWaits /\ DoneForBoth

===============================================================================
