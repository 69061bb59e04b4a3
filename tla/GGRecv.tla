-------------------------------- MODULE GGRecv --------------------------------
(***************************************************************************)
(* gg_recv_packet of libgadu: one packet is read from a socket that may    *)
(* give any number of bytes at a time, or none.  What was read is kept in  *)
(* the session (header_buf, recv_buf) until the next call.                 *)
(*                                                                         *)
(* A byte is its number in the stream; 0 is a byte that was never read.    *)
(* An interrupted read (EINTR) changes nothing and is left out, as is a    *)
(* failing malloc.  A pointer is a sequence of at most one block.          *)
(***************************************************************************)
EXTENDS Integers, Sequences

CONSTANTS
    HeaderSize,  \* sizeof(struct gg_header)
    Lengths,     \* lengths that a header may claim
    MaxLength,   \* 65535
    MaxPackets   \* bound on the packets the server sends

ASSUME HeaderAssumption == HeaderSize \in Nat \ {0}
ASSUME LengthsAssumption == Lengths # {} /\ Lengths \subseteq Nat
ASSUME MaxAssumption == MaxLength \in Nat

VARIABLES
    sent,         \* packets written by the server: where they start, their lengths
    arrived,      \* bytes that have reached the socket
    read,         \* bytes taken from it
    conn,         \* state of the connection
    header_buf, header_done, recv_buf, recv_left, recv_done,  \* struct gg_session
    freed,        \* the block recv_buf points to has been freed
    pc, h, buf, offset, size,  \* a call and its local variables
    received,     \* history: packets returned before any failure
    failures      \* history: why calls have failed, EAGAIN aside

streamVars  == <<sent, arrived, read, conn>>
structVars == <<header_buf, header_done, recv_buf, recv_left, recv_done, freed>>
callVars    == <<pc, h, buf, offset, size>>
recvVars == <<streamVars, structVars, callVars, received, failures>>

NULL == <<>>
Unread(n) == [i \in 1..n |-> 0]
NoRead == [header |-> Unread(HeaderSize), body |-> Unread(0)]

Written ==
    IF sent = <<>> THEN 0
    ELSE LET last == sent[Len(sent)] IN last.at + HeaderSize + last.length

RecvInit ==
    /\ sent = <<>> /\ arrived = 0 /\ read = 0 /\ conn = "open"
    /\ header_buf = NULL /\ header_done = 0
    /\ recv_buf = NULL /\ recv_left = 0 /\ recv_done = 0 /\ freed = FALSE
    /\ pc = "idle" /\ h = Unread(HeaderSize) /\ buf = NoRead /\ offset = 0 /\ size = 0
    /\ received = <<>> /\ failures = {}

-------------------------------------------------------------------------------
(***************************************************************************)
(* The server and the network.                                             *)
(***************************************************************************)
Send ==
    /\ conn = "open"
    /\ Len(sent) < MaxPackets
    /\ \E length \in Lengths : sent' = Append(sent, [at |-> Written, length |-> length])
    /\ UNCHANGED <<arrived, read, conn>>

Arrive ==
    /\ conn \in {"open", "closed"}
    /\ \E n \in (arrived + 1)..Written : arrived' = n
    /\ UNCHANGED <<sent, read, conn>>

\* what was sent still arrives after an orderly close, not after a reset
Hangup ==
    /\ conn = "open"
    /\ conn' \in {"closed", "reset"}
    /\ UNCHANGED <<sent, arrived, read>>

Network ==
    /\ Send \/ Arrive \/ Hangup
    /\ UNCHANGED <<structVars, callVars, received, failures>>

-------------------------------------------------------------------------------
(***************************************************************************)
(* gg_read: what is there, up to the bytes asked for; else EAGAIN, the end *)
(* of the stream, or an error that the socket reports once.                *)
(***************************************************************************)
MutGivesAll(wanted) == 1..(arrived - read)
Gives(wanted) == 1..(IF wanted < arrived - read THEN wanted ELSE arrived - read)
Empty == read = arrived /\ conn \in {"open", "closed"} /\ (conn = "open" \/ arrived # Written)
AtEnd == read = arrived /\ (conn = "dead" \/ (conn = "closed" /\ arrived = Written))
Broken == read = arrived /\ conn = "reset"

Fill(block, done, n) ==
    [i \in DOMAIN block |->
        IF i \in (done + 1)..(done + n) THEN read + (i - done) ELSE block[i]]

Returns ==
    /\ pc' = "idle"
    /\ h' = Unread(HeaderSize) /\ buf' = NoRead /\ offset' = 0 /\ size' = 0

Fails(why) == Returns /\ failures' = failures \cup {why} /\ UNCHANGED received

-------------------------------------------------------------------------------
(***************************************************************************)
(* gg_recv_packet.                                                         *)
(***************************************************************************)
MutHeaderForgotten ==
    /\ pc = "idle" /\ recv_left < 1
    /\ pc' = "header"
    /\ header_buf' = NULL /\ header_done' = 0
    /\ UNCHANGED <<streamVars, h, buf, offset, size, recv_buf, recv_left, recv_done, freed,
                   received, failures>>

CallHeader ==
    /\ pc = "idle" /\ recv_left < 1
    /\ pc' = "header"
    /\ IF header_buf # NULL
       THEN /\ h' = [i \in 1..HeaderSize |-> IF i <= header_done THEN header_buf[1][i] ELSE 0]
            /\ header_buf' = NULL
            /\ UNCHANGED header_done
       ELSE header_done' = 0 /\ UNCHANGED <<h, header_buf>>
    /\ UNCHANGED <<streamVars, buf, offset, size, recv_buf, recv_left, recv_done, freed,
                   received, failures>>

HeaderRead ==
    /\ pc = "header" /\ header_done < HeaderSize
    /\ \E n \in Gives(HeaderSize - header_done) :
         /\ h' = Fill(h, header_done, n)
         /\ header_done' = header_done + n
         /\ read' = read + n
    /\ UNCHANGED <<sent, arrived, conn, header_buf, recv_buf, recv_left, recv_done, freed, pc,
                   buf, offset, size, received, failures>>

HeaderAgain ==
    /\ pc = "header" /\ header_done < HeaderSize
    /\ Empty
    /\ header_buf' = <<[i \in 1..header_done |-> h[i]]>>
    /\ Returns
    /\ UNCHANGED <<streamVars, header_done, recv_buf, recv_left, recv_done, freed, received,
                   failures>>

HeaderFails ==
    /\ pc = "header" /\ header_done < HeaderSize
    /\ \/ AtEnd /\ Fails("end") /\ UNCHANGED conn
       \/ Broken /\ Fails("error") /\ conn' = "dead"
    /\ UNCHANGED <<sent, arrived, read, structVars>>

\* the length that a header says; one that is not a header may say anything
IsHeader(k) == \A i \in 1..HeaderSize : h[i] = sent[k].at + i
Claimed == {l \in Lengths : \A k \in DOMAIN sent : IsHeader(k) => l = sent[k].length}

TooLong(length) == length > MaxLength

HeaderDone ==
    /\ pc = "header" /\ header_done = HeaderSize
    /\ \E length \in Claimed :
         IF TooLong(length)
         THEN Fails("range")
         ELSE /\ pc' = "body"
              /\ buf' = [header |-> h, body |-> Unread(length)]
              /\ offset' = 0 /\ size' = length
              /\ UNCHANGED <<h, received, failures>>
    /\ UNCHANGED <<streamVars, structVars>>

MutOffsetForgotten ==
    /\ pc = "idle" /\ recv_left > 0
    /\ pc' = "body"
    /\ buf' = recv_buf[1] /\ size' = recv_left /\ offset' = 0
    /\ UNCHANGED <<streamVars, structVars, h, received, failures>>

\* recv_left is positive: the call goes on with recv_buf, even one that has
\* been freed, which may hold any length
CallBody ==
    /\ pc = "idle" /\ recv_left > 0
    /\ \/ /\ pc' = "body"
          /\ buf' = recv_buf[1] /\ size' = recv_left /\ offset' = recv_done
          /\ UNCHANGED <<h, received, failures>>
       \/ freed /\ Fails("range")
    /\ UNCHANGED <<streamVars, structVars>>

BodyRead ==
    /\ pc = "body" /\ size > 0
    /\ \E n \in Gives(size) :
         /\ buf' = [buf EXCEPT !.body = Fill(@, offset, n)]
         /\ offset' = offset + n
         /\ size' = size - n
         /\ read' = read + n
    /\ UNCHANGED <<sent, arrived, conn, structVars, pc, h, received, failures>>

BodyAgain ==
    /\ pc = "body" /\ size > 0
    /\ Empty
    /\ recv_buf' = <<buf>> /\ recv_left' = size /\ recv_done' = offset
    /\ Returns
    /\ UNCHANGED <<streamVars, header_buf, header_done, freed, received, failures>>

BodyFails ==
    /\ pc = "body" /\ size > 0
    /\ \/ AtEnd /\ Fails("end") /\ UNCHANGED <<conn, freed>>
       \/ /\ Broken /\ Fails("error") /\ conn' = "dead"
          /\ freed' = (freed \/ recv_left > 0)
    /\ UNCHANGED <<sent, arrived, read, header_buf, header_done, recv_buf, recv_left, recv_done>>

MutStillLeft ==
    /\ pc = "body" /\ size = 0
    /\ received' = IF failures = {} THEN Append(received, buf) ELSE received
    /\ Returns
    /\ UNCHANGED <<streamVars, structVars, failures>>

BodyDone ==
    /\ pc = "body" /\ size = 0
    /\ recv_left' = 0
    /\ received' = IF failures = {} THEN Append(received, buf) ELSE received
    /\ Returns
    /\ UNCHANGED <<streamVars, header_buf, header_done, recv_buf, recv_done, freed, failures>>

Reader ==
    \/ CallHeader \/ HeaderRead \/ HeaderAgain \/ HeaderFails \/ HeaderDone
    \/ CallBody \/ BodyRead \/ BodyAgain \/ BodyFails \/ BodyDone

RecvNext == Network \/ Reader

RecvSpec == RecvInit /\ [][RecvNext]_recvVars

\* What was sent arrives, and the program calls again whenever it can.
FairRecvSpec == RecvSpec /\ WF_recvVars(Arrive /\ Network) /\ WF_recvVars(Reader)

-------------------------------------------------------------------------------
Bytes(n) == [1..n -> Nat]
IsBlock(b) ==
    /\ DOMAIN b = {"header", "body"}
    /\ b.header \in Bytes(HeaderSize)
    /\ \E l \in Lengths \cup {0} : b.body \in Bytes(l)

RecvTypeOK ==
    /\ sent \in Seq([at : Nat, length : Lengths])
    /\ arrived \in Nat /\ read \in Nat
    /\ conn \in {"open", "closed", "reset", "dead"}
    /\ header_buf # NULL => Len(header_buf) = 1 /\ header_buf[1] \in Bytes(header_done)
    /\ header_done \in 0..HeaderSize
    /\ recv_buf # NULL => Len(recv_buf) = 1 /\ IsBlock(recv_buf[1])
    /\ recv_left \in Nat /\ recv_done \in Nat
    /\ freed \in BOOLEAN
    /\ pc \in {"idle", "header", "body"}
    /\ h \in Bytes(HeaderSize)
    /\ IsBlock(buf)
    /\ offset \in Nat /\ size \in Nat
    /\ \A i \in DOMAIN received : IsBlock(received[i])
    /\ failures \subseteq {"end", "error", "range"}

\* A read never writes outside the block it was given, and what is left to
\* read of a packet is what its header claimed less what was read -- also
\* when the packet is taken up again in a later call.
InBounds ==
    /\ pc = "body" => offset + size = Len(buf.body)
    /\ recv_left > 0 => recv_done + recv_left = Len(recv_buf[1].body)

Held ==
    IF pc = "body" THEN HeaderSize + offset
    ELSE IF pc = "header" \/ header_buf # NULL THEN header_done
    ELSE IF recv_left > 0 THEN HeaderSize + recv_done
    ELSE 0

\* where the packet starts that is being read or comes next
Start == IF Len(received) = Len(sent) THEN Written ELSE sent[Len(received) + 1].at

\* No byte is lost between two calls: what was read from the socket is what
\* was returned and what the session and the call hold.
NothingLost == failures = {} => Len(received) <= Len(sent) /\ read = Start + Held

\* A block that was freed after a read error is used again by the next call
\* but is never returned as a packet.
FreedIsNotReturned == pc = "body" /\ recv_left > 0 /\ size = 0 => ~freed

\* gg_recv_packet: over any number of calls every byte is read once, into a
\* block that has room for it, and no block is returned that was freed.
ReadsAreSound == NothingLost /\ InBounds /\ FreedIsNotReturned

Content(p) ==
    [header |-> [i \in 1..HeaderSize |-> p.at + i],
     body   |-> [i \in 1..p.length |-> p.at + HeaderSize + i]]

Stream == INSTANCE PacketStream WITH
    sent <- [k \in DOMAIN sent |-> Content(sent[k])],
    broken <- failures # {}

\* However the stream is cut, the packets returned are those sent, whole and
\* in order, up to the first failure.
ImplementsPacketStream == Stream!Spec

\* A packet that was sent is returned in the end, unless the connection was
\* reset or a packet is longer than the reader takes; an orderly close loses
\* nothing.
SentIsReceived ==
    \A k \in 1..MaxPackets :
        Len(sent) >= k ~> Len(received) >= k \/ conn \in {"reset", "dead"} \/ "range" \in failures
===============================================================================
