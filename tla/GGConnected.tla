------------------------------ MODULE GGConnected ------------------------------
(***************************************************************************)
(* A connected session of libgadu: the requests a program makes of it      *)
(* (contacts to watch, status, messages, list transfers, images, searches) *)
(* and gg_watch_fd_connected, which handles one packet of the server.      *)
(*                                                                         *)
(* Packets arrive whole and in order, as PacketStream promises.  A call is *)
(* one step: it only sends, and gg_send_packet never reports a failure     *)
(* (-1 is compared as unsigned, a packet that could not be written is lost)*)
(* Peers send their images with gg_image_reply.  Memory never runs out.    *)
(***************************************************************************)
EXTENDS Integers, Sequences, SequencesExt

CONSTANTS
    MaxUin,        \* the contacts are 1..MaxUin
    Images,        \* images of peers: records with sender, size and crc32
    ListLengths,   \* lengths of the contact lists that are exported
    ListChunk,     \* bytes of a list in one packet (2047)
    NotifyPart,    \* contacts in one packet (400)
    FirstPiece,    \* bytes of an image beside its file name in a packet
    NextPiece,     \* bytes of an image in a packet without one
    SeqSpace,      \* message numbers are below this (2^32)
    Seed, Steps,   \* the first number, by how much the next one differs
    Programs,      \* what sessions are used for, and a bound on the calls made
    MaxParts,      \* bound: packets in which the server sends a list
    MaxInbox       \* bound: packets on their way to the client

Kinds == {"contacts", "messages", "lists", "images"}

ASSUME ConnectedAssumption ==
    /\ MaxUin \in Nat /\ ListLengths \subseteq Nat /\ Steps \subseteq Nat \ {0}
    /\ Images \subseteq [sender : 1..MaxUin, size : Nat \ {0}, crc32 : Nat]
    /\ {ListChunk, NotifyPart, FirstPiece, NextPiece, Seed} \subseteq Nat \ {0}
    /\ SeqSpace \in Nat /\ Seed < SeqSpace
    /\ Programs \subseteq [kinds : SUBSET Kinds, calls : Nat]
    /\ MaxParts \in Nat \ {0} /\ MaxInbox \in Nat \ {0}

VARIABLES
    program,                 \* what the session is used for
    live,                    \* the session has not been freed
    images, userlist_blocks, userlist_reply, seq, status,  \* struct gg_session
    reqSeq,                  \* seq of the program's search request
    link, toServer, toClient,
    watched, firstParts, seenStatus,     \* the server: whom we watch, our status
    wanted, sending,         \* the peers: images asked of them, gg_image_reply's loops
    event,                   \* what gg_watch_fd returned last
    calls,                   \* bound
    uins, numbers,           \* history: contacts to be watched, numbers of messages
    clean, reported          \* history: the last export met no other, was reported

sessVars == <<images, userlist_blocks, userlist_reply, seq, status, reqSeq>>
wireVars == <<link, toServer, toClient>>
peerVars == <<watched, firstParts, seenStatus, wanted, sending>>
histVars == <<calls, uins, numbers, clean, reported>>
vars == <<program, live, sessVars, wireVars, peerVars, event, histVars>>

Uins == 1..MaxUin
NULL == <<>>
NoEvent == [type |-> "NONE"]
Idle == [image |-> NULL, sent |-> 0]
Statuses == {"AVAIL", "BUSY"}

Init ==
    /\ program \in Programs
    /\ live = TRUE
    /\ images = <<>> /\ userlist_blocks = 0 /\ userlist_reply = NULL /\ seq = 0
    /\ status = "AVAIL" /\ reqSeq = 0
    /\ link = "up" /\ toServer = <<>> /\ toClient = <<>>
    /\ watched = {} /\ firstParts = {} /\ seenStatus = "AVAIL"
    /\ wanted = [i \in Images |-> 0] /\ sending = [u \in Uins |-> Idle]
    /\ event = NoEvent
    /\ calls = 0 /\ uins = {} /\ numbers = <<>> /\ clean = FALSE /\ reported = 0

\* packets of list transfers on their way
PutsOwed == \E q \in {toServer, toClient} :
                \E i \in DOMAIN q : q[i].type \in {"put", "put_reply"}
ListsOwed == \E q \in {toServer, toClient} :
                 \E i \in DOMAIN q : q[i].type \in {"put", "put_reply", "get", "list"}

-------------------------------------------------------------------------------
(***************************************************************************)
(* Requests.                                                               *)
(***************************************************************************)
\* gg_send_packet for each of the packets
Send(packets) ==
    /\ live /\ calls < program.calls /\ calls' = calls + 1
    /\ toServer' = IF link = "up" THEN toServer \o packets ELSE toServer
    /\ UNCHANGED <<live, link, toClient, peerVars, event>>

Parts(n, size) == (n + size - 1) \div size

MutNotifyParts(n) ==
    [k \in 1..Parts(n, NotifyPart) |->
        [type |-> IF n - (k - 1) * NotifyPart < NotifyPart THEN "notify_last" ELSE "notify_first",
         uins |-> {u \in 1..n : Parts(u, NotifyPart) = k}]]

\* gg_notify for the contacts 1..n: every packet but the last is full
NotifyParts(n) ==
    [k \in 1..Parts(n, NotifyPart) |->
        [type |-> IF n - (k - 1) * NotifyPart > NotifyPart THEN "notify_first" ELSE "notify_last",
         uins |-> {u \in 1..n : Parts(u, NotifyPart) = k}]]

\* gg_notify, gg_notify_ex
Notify(n) ==
    /\ Send(IF n = 0 THEN <<[type |-> "list_empty"]>> ELSE NotifyParts(n))
    /\ uins' = 1..n
    /\ UNCHANGED <<sessVars, numbers, clean, reported>>

\* gg_add_notify, gg_remove_notify
AddNotify(u) ==
    /\ Send(<<[type |-> "add_notify", uin |-> u]>>) /\ uins' = uins \cup {u}
    /\ UNCHANGED <<sessVars, numbers, clean, reported>>

RemoveNotify(u) ==
    /\ Send(<<[type |-> "remove_notify", uin |-> u]>>) /\ uins' = uins \ {u}
    /\ UNCHANGED <<sessVars, numbers, clean, reported>>

\* gg_change_status and its variants
ChangeStatus(s) ==
    /\ Send(<<[type |-> "new_status", status |-> s]>>) /\ status' = s
    /\ UNCHANGED <<images, userlist_blocks, userlist_reply, seq, reqSeq, uins, numbers,
                   clean, reported>>

Ping == Send(<<[type |-> "ping"]>>) /\ UNCHANGED <<sessVars, uins, numbers, clean, reported>>

\* gg_send_message_richtext and gg_send_message_confer_richtext: the copies of a
\* message have one number, and the next message has another
SendMessage(to) ==
    LET s == IF seq = 0 THEN Seed ELSE seq IN
    /\ Send([k \in 1..Len(to) |-> [type |-> "msg", seq |-> s, recipient |-> to[k]]])
    /\ \E d \in Steps : seq' = (s + d) % SeqSpace
    /\ numbers' = Append(numbers, s)
    /\ UNCHANGED <<images, userlist_blocks, userlist_reply, status, reqSeq, uins, clean, reported>>

\* gg_userlist_request(GET, NULL)
ImportList ==
    /\ Send(<<[type |-> "get"]>>)
    /\ userlist_blocks' = 1
    /\ clean' = FALSE /\ reported' = 0
    /\ UNCHANGED <<images, userlist_reply, seq, status, reqSeq, uins, numbers>>

\* gg_userlist_request(PUT, list)
ExportList(n) ==
    LET packets == IF n = 0 THEN 1 ELSE Parts(n, ListChunk) IN
    /\ Send([k \in 1..packets |-> [type |-> "put"]])
    /\ userlist_blocks' = packets
    /\ clean' = (link = "up" /\ ~ListsOwed) /\ reported' = 0
    /\ UNCHANGED <<images, userlist_reply, seq, status, reqSeq, uins, numbers>>

\* an image nobody has sent a byte of
Requested(image) ==
    [image |-> image, done |-> 0, filename |-> FALSE, data |-> [k \in 1..image.size |-> 0]]

ImageRequest(image) ==
    /\ Send(<<[type |-> "image", image |-> image]>>)
    /\ images' = Append(images, Requested(image))
    /\ UNCHANGED <<userlist_blocks, userlist_reply, seq, status, reqSeq, uins, numbers, clean, reported>>

\* gg_pubdir50: the request keeps the number it was sent with
Search(time) ==
    LET number == IF reqSeq # 0 THEN reqSeq ELSE time IN
    /\ Send(<<[type |-> "search", seq |-> number]>>)
    /\ reqSeq' = number
    /\ UNCHANGED <<images, userlist_blocks, userlist_reply, seq, status, uins, numbers, clean, reported>>

\* gg_free_session, after which nothing is used
FreeSession ==
    /\ live /\ live' = FALSE
    /\ images' = <<>>
    /\ link' = "down" /\ toServer' = <<>> /\ toClient' = <<>>
    /\ event' = NoEvent /\ clean' = FALSE
    /\ UNCHANGED <<program, userlist_blocks, userlist_reply, seq, status, reqSeq, peerVars,
                   calls, uins, numbers, reported>>

Conferences == {<<u>> : u \in Uins} \cup {to \in Uins \X Uins : to[1] < to[2]}

Makes(kind) == kind \in program.kinds /\ UNCHANGED program

Request ==
    \/ /\ Makes("contacts")
       /\ \/ \E n \in Uins \cup {0} : Notify(n)
          \/ \E u \in Uins : AddNotify(u) \/ RemoveNotify(u)
          \/ \E s \in Statuses : ChangeStatus(s)
    \/ /\ Makes("messages")
       /\ \/ \E to \in Conferences : SendMessage(to)
          \/ \E time \in 1..2 : Search(time)
          \/ Ping
    \/ Makes("lists") /\ (ImportList \/ \E n \in ListLengths : ExportList(n))
    \/ Makes("images") /\ \E i \in Images : ImageRequest(i)

-------------------------------------------------------------------------------
(***************************************************************************)
(* gg_watch_fd_connected: one packet.                                      *)
(***************************************************************************)
Packet == Head(toClient)
Receive(type) == live /\ toClient # <<>> /\ Packet.type = type /\ toClient' = Tail(toClient)
Quiet == UNCHANGED <<program, live, link, toServer, peerVars, status, reqSeq, seq, calls, uins, numbers>>

\* the options before the first that ends the loop
Taken(options) ==
    LET last == {k \in DOMAIN options : options[k] \in {"image_request", "unknown", "broken"}} IN
    IF last = {} THEN Range(options)
    ELSE {options[k] : k \in 1..CHOOSE k \in last : \A j \in last : k <= j}

\* gg_handle_recv_msg without an image
WatchMsg ==
    /\ Receive("msg")
    /\ event' = LET taken == Taken(Packet.options) IN
                IF Packet.bait \/ "broken" \in taken THEN NoEvent
                ELSE IF "image_request" \in taken THEN [type |-> "IMAGE_REQUEST"]
                ELSE [type |-> "MSG", recipients |-> "confer" \in taken, formats |-> "rich" \in taken]
    /\ Quiet /\ UNCHANGED <<images, userlist_blocks, userlist_reply, clean, reported>>

\* GG_NOTIFY_REPLY: a description follows the first contact and ends the packet;
\* GG_NOTIFY_REPLY60, GG_STATUS and GG_STATUS60: each contact has its own
WatchNotify ==
    /\ Receive("notify")
    /\ event' = IF Packet.old /\ Head(Packet.who).descr
                THEN [type |-> "NOTIFY_DESCR", who |-> <<Head(Packet.who)>>]
                ELSE [type |-> "NOTIFY", who |-> Packet.who]
    /\ Quiet /\ UNCHANGED <<images, userlist_blocks, userlist_reply, clean, reported>>

\* acknowledgements, pong
WatchAck ==
    \E type \in {"ACK", "PONG"} :
        /\ Receive(type) /\ event' = Packet
        /\ Quiet /\ UNCHANGED <<images, userlist_blocks, userlist_reply, clean, reported>>

\* gg_pubdir50_handle_reply: persons are counted by the empty fields between
\* them, the field "nextstart" stands alone
WatchPubdir ==
    /\ Receive("found")
    /\ event' = [type |-> "PUBDIR50", seq |-> Packet.seq,
                 count |-> IF Packet.fields = <<>> THEN 0
                           ELSE Len(SelectSeq(Packet.fields, LAMBDA f : f = "separator"))
                                - Len(SelectSeq(Packet.fields, LAMBDA f : f = "nextstart")) + 1]
    /\ Quiet /\ UNCHANGED <<images, userlist_blocks, userlist_reply, clean, reported>>

\* an answer without an image leaves its entry in the queue
WatchNoImage ==
    /\ Receive("image_empty")
    /\ event' = [type |-> "IMAGE_REPLY", image |-> Packet.image, data |-> NULL, filename |-> FALSE]
    /\ Quiet /\ UNCHANGED <<images, userlist_blocks, userlist_reply, clean, reported>>

\* the first entry of this sender, size and checksum
Entry(image) == CHOOSE k \in DOMAIN images : /\ images[k].image = image
                                             /\ \A j \in 1..(k - 1) : images[j].image # image

\* a first packet starts the image anew; no packet goes beyond the buffer
Written(q, p) ==
    LET done == IF p.first THEN 0 ELSE q.done
        len == IF done + p.len > q.image.size THEN q.image.size - done ELSE p.len IN
    [q EXCEPT !.done = done + len, !.filename = @ \/ p.first,
              !.data = [k \in DOMAIN @ |-> IF k \in done + 1 .. done + len
                                           THEN p.from + k - done ELSE @[k]]]

MutComplete(q) == q.done > q.image.size
Complete(q) == q.done >= q.image.size

MutDequeue(k) == SelectSeq(images, LAMBDA q : q.image # images[k].image)

\* gg_image_queue_remove
Dequeue(k) == RemoveAt(images, k)

\* gg_image_queue_parse
WatchPiece ==
    /\ Receive("piece")
    /\ IF \E k \in DOMAIN images : images[k].image = Packet.image
       THEN LET k == Entry(Packet.image)  q == Written(images[k], Packet) IN
            IF Complete(q)
            THEN /\ images' = Dequeue(k)
                 /\ event' = [type |-> "IMAGE_REPLY", image |-> q.image, data |-> q.data,
                              filename |-> q.filename]
            ELSE images' = [images EXCEPT ![k] = q] /\ event' = NoEvent
       ELSE UNCHANGED images /\ event' = NoEvent
    /\ Quiet /\ UNCHANGED <<userlist_blocks, userlist_reply, clean, reported>>

\* a reply to an export is reported when it is the last; it carries no text, and
\* takes with it what there is of a list
WatchPutReply ==
    /\ Receive("put_reply")
    /\ userlist_blocks' = userlist_blocks - 1
    /\ IF userlist_blocks' # 0
       THEN event' = NoEvent /\ UNCHANGED <<userlist_reply, reported>>
       ELSE /\ event' = [type |-> "USERLIST", kind |-> "PUT_REPLY", reply |-> userlist_reply]
            /\ userlist_reply' = NULL
            /\ reported' = reported + 1
    /\ Quiet /\ UNCHANGED <<images, clean>>

MutWatchList ==
    /\ Receive("list")
    /\ LET reply == userlist_reply \o Packet.text IN
       IF Packet.last
       THEN /\ event' = [type |-> "USERLIST", kind |-> "GET_REPLY", reply |-> reply]
            /\ userlist_reply' = reply
       ELSE event' = NoEvent /\ userlist_reply' = reply
    /\ Quiet /\ UNCHANGED <<images, userlist_blocks, clean, reported>>

\* GET_MORE_REPLY and GET_REPLY: the parts of a list are put together
WatchList ==
    /\ Receive("list")
    /\ LET reply == userlist_reply \o Packet.text IN
       IF Packet.last
       THEN /\ event' = [type |-> "USERLIST", kind |-> "GET_REPLY", reply |-> reply]
            /\ userlist_reply' = NULL
       ELSE event' = NoEvent /\ userlist_reply' = reply
    /\ Quiet /\ UNCHANGED <<images, userlist_blocks, clean, reported>>

\* gg_recv_packet fails: gg_watch_fd returns NULL, the session stays as it is
WatchBroken ==
    /\ live /\ link = "down" /\ toClient = <<>> /\ event # [type |-> "NULL"]
    /\ event' = [type |-> "NULL"]
    /\ Quiet /\ UNCHANGED <<toClient, images, userlist_blocks, userlist_reply, clean, reported>>

Watch ==
    \/ WatchMsg \/ WatchNotify \/ WatchAck \/ WatchPubdir
    \/ WatchNoImage \/ WatchPiece \/ WatchPutReply \/ WatchList \/ WatchBroken

-------------------------------------------------------------------------------
(***************************************************************************)
(* The server: takes requests in order and answers each at once.           *)
(***************************************************************************)
Answer(packets) ==
    /\ toClient' = toClient \o packets
    /\ UNCHANGED <<program, live, sessVars, link, event, histVars>>

Served(type) == toServer # <<>> /\ Head(toServer).type = type /\ toServer' = Tail(toServer)

\* parts of the list that are on their way have the number of their place
ListParts(n) ==
    [k \in 1..n |-> [type |-> "list", last |-> k = n, text |-> <<[part |-> k, of |-> n]>>]]

ServeList ==
    /\ Served("get")
    /\ \E n \in 0..MaxParts :
         Answer(IF n = 0 THEN <<[type |-> "list", last |-> TRUE, text |-> <<>>]>> ELSE ListParts(n))
    /\ UNCHANGED peerVars

ServeOther ==
    /\ \/ Served("put") /\ Answer(<<[type |-> "put_reply"]>>)
       \/ Served("ping") /\ Answer(<<[type |-> "PONG"]>>)
       \/ Served("msg") /\ Answer(<<[type |-> "ACK", seq |-> Head(toServer).seq,
                                      recipient |-> Head(toServer).recipient]>>)
    /\ UNCHANGED peerVars

\* who was found, each with his fields, and where the search may go on
Found == {<<>>, <<"field">>, <<"field", "separator", "nextstart">>, <<"field", "separator", "field">>}

ServeSearch ==
    /\ Served("search")
    /\ \E fields \in Found :
         Answer(<<[type |-> "found", seq |-> Head(toServer).seq, fields |-> fields]>>)
    /\ UNCHANGED peerVars

ServeStatus ==
    /\ Served("new_status") /\ seenStatus' = Head(toServer).status /\ Answer(<<>>)
    /\ UNCHANGED <<watched, firstParts, wanted, sending>>

ServeNotify ==
    /\ \/ Served("list_empty") /\ watched' = {} /\ firstParts' = {}
       \/ /\ Served("notify_first") /\ firstParts' = firstParts \cup Head(toServer).uins
          /\ UNCHANGED watched
       \/ /\ Served("notify_last") /\ watched' = firstParts \cup Head(toServer).uins
          /\ firstParts' = {}
       \/ /\ Served("add_notify") /\ watched' = watched \cup {Head(toServer).uin}
          /\ UNCHANGED firstParts
       \/ /\ Served("remove_notify") /\ watched' = watched \ {Head(toServer).uin}
          /\ UNCHANGED firstParts
    /\ Answer(<<>>) /\ UNCHANGED <<seenStatus, wanted, sending>>

ServeImage ==
    /\ Served("image") /\ wanted' = [wanted EXCEPT ![Head(toServer).image] = @ + 1]
    /\ Answer(<<>>) /\ UNCHANGED <<watched, firstParts, seenStatus, sending>>

Serve == link = "up" /\ (ServeList \/ ServeSearch \/ ServeOther \/ ServeStatus \/ ServeNotify \/ ServeImage)

-------------------------------------------------------------------------------
(***************************************************************************)
(* The peers.                                                              *)
(***************************************************************************)
Room == link = "up" /\ Len(toClient) < MaxInbox
ToClient(p) == toClient' = Append(toClient, p)
               /\ UNCHANGED <<program, live, sessVars, link, toServer, event, histVars>>

\* a peer that no longer has the image says so
PeerRefuses(i) ==
    /\ Room /\ wanted[i] > 0 /\ wanted' = [wanted EXCEPT ![i] = @ - 1]
    /\ ToClient([type |-> "image_empty", image |-> i])
    /\ UNCHANGED <<watched, firstParts, seenStatus, sending>>

\* gg_image_reply: one turn of its loop
PeerSends(i) ==
    LET u == i.sender
        sent == IF sending[u].image = i THEN sending[u].sent ELSE 0
        room == IF sent = 0 THEN FirstPiece ELSE NextPiece
        len == IF i.size - sent >= room THEN room ELSE i.size - sent IN
    /\ Room
    /\ \/ sending[u].image = i /\ UNCHANGED wanted
       \/ sending[u] = Idle /\ wanted[i] > 0 /\ wanted' = [wanted EXCEPT ![i] = @ - 1]
    /\ sending' = [sending EXCEPT ![u] = IF sent + len = i.size THEN Idle
                                         ELSE [image |-> i, sent |-> sent + len]]
    /\ ToClient([type |-> "piece", image |-> i, first |-> sent = 0, from |-> sent, len |-> len])
    /\ UNCHANGED <<watched, firstParts, seenStatus>>

\* the peer's own connection breaks: the rest of the image never comes
PeerBreaks(u) ==
    /\ sending[u] # Idle /\ sending' = [sending EXCEPT ![u] = Idle]
    /\ UNCHANGED <<program, live, sessVars, wireVars, watched, firstParts, seenStatus, wanted, event, histVars>>

\* messages and notifications that come by themselves; bound: one on its way
Options == {<<>>, <<"confer", "rich">>, <<"rich", "unknown">>, <<"confer", "broken">>, <<"image_request">>}
Told == {<<[uin |-> u, descr |-> d]>> : u \in Uins, d \in BOOLEAN}

Chatter ==
    /\ Room /\ "messages" \in program.kinds
    /\ \A k \in DOMAIN toClient : toClient[k].type \notin {"msg", "notify"}
    /\ \/ \E options \in Options, bait \in BOOLEAN :
            ToClient([type |-> "msg", options |-> options, bait |-> bait])
       \/ \E who \in Told, old \in BOOLEAN :
            ToClient([type |-> "notify", who |-> who, old |-> old])
    /\ UNCHANGED peerVars

\* the connection breaks: what was sent is lost, what has come can be read
Hangup ==
    /\ link = "up" /\ link' = "down" /\ toServer' = <<>> /\ clean' = FALSE
    /\ UNCHANGED <<program, live, sessVars, toClient, peerVars, event, calls, uins, numbers, reported>>

PeerNext == \E i \in Images : PeerSends(i)

Next ==
    \/ Request \/ FreeSession \/ Watch \/ Serve
    \/ PeerNext \/ (\E i \in Images : PeerRefuses(i)) \/ (\E u \in Uins : PeerBreaks(u))
    \/ Chatter \/ Hangup

Spec == Init /\ [][Next]_vars

\* The program watches its session, the server and the peers answer.
FairSpec == Spec /\ WF_vars(Watch) /\ WF_vars(Serve) /\ WF_vars(PeerNext)

-------------------------------------------------------------------------------
Entries == [image : Images, done : Nat, filename : BOOLEAN, data : Seq(Nat)]

TypeOK ==
    /\ live \in BOOLEAN /\ link \in {"up", "down"}
    /\ images \in Seq(Entries)
    /\ \A k \in DOMAIN images : images[k].done < images[k].image.size
    /\ userlist_blocks \in Int /\ seq \in 0..SeqSpace - 1 /\ status \in Statuses
    /\ reqSeq \in Nat
    /\ watched \subseteq Uins /\ firstParts \subseteq Uins /\ seenStatus \in Statuses
    /\ wanted \in [Images -> Nat]
    /\ DOMAIN sending = Uins
    /\ calls \in 0..program.calls /\ program \in Programs /\ uins \subseteq Uins /\ numbers \in Seq(0..SeqSpace - 1)
    /\ clean \in BOOLEAN /\ reported \in Nat

\* gg_image_queue_parse: an image that is handed to the program has its name and
\* every byte in its place, though its sender was cut off and began anew, and
\* though other images, or the same one, came in between.
ImageIsWhole ==
    event.type = "IMAGE_REPLY" /\ event.data # NULL =>
        event.filename /\ event.data = [k \in 1..event.image.size |-> k]

\* A list that was imported is one list of the server from its first part to its
\* last, whatever other transfers were asked for meanwhile.
ListIsWhole ==
    event.type = "USERLIST" =>
        /\ event.kind = "PUT_REPLY" => event.reply = NULL
        /\ event.kind = "GET_REPLY" =>
              event.reply = [k \in 1..Len(event.reply) |-> [part |-> k, of |-> Len(event.reply)]]

\* userlist_blocks: an export that no other transfer overlaps is reported once,
\* when all of its replies have come, whatever earlier transfers left behind.
ExportReported == clean => reported = IF PutsOwed THEN 0 ELSE 1

\* gg_image_queue_parse, userlist_reply, userlist_blocks: what comes in several
\* packets is handed to the program whole and once, whatever came in between.
RepliesAreWhole == ImageIsWhole /\ ListIsWhole /\ ExportReported

\* The last packet of every image that was sent to the end finds an entry in the
\* queue and is reported, however often the same image was asked for.
SentIsReported ==
    [][/\ toClient # <<>> /\ toClient' = Tail(toClient) /\ live'
       /\ Packet.type = "piece" /\ Packet.from + Packet.len = Packet.image.size
       => event'.type = "IMAGE_REPLY" /\ event'.image = Packet.image]_vars

\* userlist_blocks: an export that no other transfer overlaps is reported in the
\* end.
ExportEnds == clean ~> (~clean \/ reported = 1)

\* gg_image_queue_remove, userlist_blocks: no answer that came whole is swallowed.
AnswersArrive == SentIsReported /\ ExportEnds

\* gg_notify in parts, gg_add_notify, gg_remove_notify, gg_change_status: when the
\* server has taken all requests it watches whom the program asked it to watch,
\* and shows the status the session has.
AskedIsKnown ==
    link = "up" /\ toServer = <<>> => watched = uins /\ firstParts = {} /\ seenStatus = status

\* A message number tells which message an acknowledgement is for.
NumbersDiffer == \A i, j \in DOMAIN numbers : i # j => numbers[i] # numbers[j]

\* What a program has asked for is what the server has been told, and whatever
\* the server acknowledges names one message.
RequestsKnown == AskedIsKnown /\ NumbersDiffer
================================================================================
