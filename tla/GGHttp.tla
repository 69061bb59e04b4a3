--------------------------------- MODULE GGHttp ---------------------------------
(***************************************************************************)
(* HTTP requests of libgadu: gg_http_connect and gg_http_watch_fd, the     *)
(* requests of the public directory (an account is made, removed, changed  *)
(* or its password reminded) and the token, which takes two requests: one  *)
(* for the token's name and the place of its picture, one for the picture. *)
(* A synchronous call loops over gg_http_watch_fd by itself.  In an        *)
(* asynchronous one the program calls the watch function of the request    *)
(* when the descriptor is ready, and may give up at any time; it does not  *)
(* get beyond the resolver, whose pipe is read with recv.                  *)
(*                                                                         *)
(* A reply is a header and the pieces of a body; what was sent may come    *)
(* in parts.  A proxy is an address like another; forms, URLs and the text *)
(* of replies are left out.  Memory never runs out.                        *)
(***************************************************************************)
EXTENDS Integers, FiniteSets, Sequences, SequencesExt, FiniteSetsExt

CONSTANTS
    QuerySize,     \* pieces of a query
    HeaderSize,    \* pieces of a reply's header
    BodySizes,     \* pieces of a reply's body
    Lengths,       \* what Content-length says, 0 if it is not there
    BufSize        \* pieces read at once (1024)

ASSUME HttpAssumption ==
    /\ {QuerySize, HeaderSize, BufSize} \subseteq Nat \ {0}
    /\ BodySizes \subseteq Nat /\ Lengths \subseteq Nat

VARIABLES
    request,    \* what is asked for, and whether asynchronously
    at,         \* whose turn it is: where the call is
    named,      \* an outer gg_token_watch_fd holds the name of the token
    h, h2,      \* struct gg_http of the request, of the picture while it is fetched
    sockets,    \* descriptors that are open
    reply,      \* the server's answer on each connection
    sent,       \* pieces of it that have been sent
    peer,       \* the server's end of each connection
    given       \* what the call, or the last one to watch, has returned

vars == <<request, at, named, h, h2, sockets, reply, sent, peer, given>>
serverVars == <<reply, sent, peer>>

Kinds == {"pubdir", "token"}
None == [state |-> "none"]
NoFd == -1
Socket(c) == c
Pipe == 3
Connections == {1, 2}      \* the request's; a picture's is the other one
Other(c) == 3 - c
NoReply == [ok |-> FALSE, length |-> 0, body |-> 0, says |-> "nothing"]
Replies == [ok : BOOLEAN, length : Lengths, body : BodySizes, says : {"nothing", "success", "token"}]

Init ==
    /\ request \in [kind : Kinds, async : BOOLEAN]
    /\ at = "idle" /\ named = FALSE /\ h = None /\ h2 = None /\ sockets = {}
    /\ reply = [c \in Connections |-> NoReply] /\ sent = [c \in Connections |-> 0]
    /\ peer = [c \in Connections |-> "none"]
    /\ given = "nothing"

-------------------------------------------------------------------------------
(***************************************************************************)
(* gg_http_connect.                                                        *)
(***************************************************************************)
Fresh(c, part) ==
    [state |-> "CONNECTING", conn |-> c, part |-> part, fd |-> NoFd, query |-> QuerySize,
     taken |-> 0, header |-> 0, body |-> <<>>, size |-> 0, room |-> 0,
     data |-> "NULL", error |-> "NONE"]

\* The resolver writes to a pipe
Resolving == [Fresh(1, "first") EXCEPT !.state = "RESOLVING", !.fd = Pipe]

\* A connection that fails at once is not noticed: the test negates the descriptor
Begun(c, part) == {Fresh(c, part), [Fresh(c, part) EXCEPT !.fd = Socket(c)]}
Opened(x) == IF x.fd = NoFd THEN sockets ELSE sockets \cup {x.fd}

\* gg_register3 and the others, gg_token.  NULL when the host or the resolver fails
Call ==
    /\ at = "idle"
    /\ \/ /\ given' = "NULL" /\ at' = "ended"
          /\ UNCHANGED <<h, sockets>>
       \/ \E x \in IF request.async THEN {Resolving} ELSE Begun(1, "first") :
            /\ h' = x /\ sockets' = Opened(x) /\ at' = "watch"
            /\ UNCHANGED given
    /\ UNCHANGED <<request, named, h2, serverVars>>

-------------------------------------------------------------------------------
(***************************************************************************)
(* gg_http_watch_fd, for the picture when it is fetched synchronously.     *)
(***************************************************************************)
Http == IF at = "watch2" THEN h2 ELSE h
Becomes(x) == IF at = "watch2" THEN h2' = x /\ UNCHANGED h ELSE h' = x /\ UNCHANGED h2
Here == sent[Http.conn] - Http.taken
Watching(state) == at \in {"watch", "watch2"} /\ Http.state = state

\* gg_http_error; the buffers named are freed
Fails(error) ==
    /\ Becomes([Http EXCEPT !.state = "ERROR", !.fd = NoFd, !.error = error,
                            !.body = <<>>, !.room = 0])
    /\ sockets' = sockets \ {Http.fd}

\* The pipe is readable when the resolver has written or is gone, but recv does
\* not read from a pipe
WatchResolving ==
    /\ Watching("RESOLVING") /\ Fails("RESOLVING")
    /\ UNCHANGED <<request, at, named, serverVars, given>>

\* A send that a signal cuts short leaves a part of the query
Sent(n) ==
    IF n < Http.query
    THEN /\ Becomes([Http EXCEPT !.state = "SENDING_QUERY", !.query = @ - n])
         /\ UNCHANGED serverVars
    ELSE /\ Becomes([Http EXCEPT !.state = "READING_HEADER", !.query = 0])
         /\ peer' = [peer EXCEPT ![Http.conn] = "open"]
         /\ \E r \in Replies : reply' = [reply EXCEPT ![Http.conn] = r]
         /\ UNCHANGED sent

\* The failure of send is not looked at
MutSendQuery ==
    /\ \E n \in {-1} \cup 1..Http.query : Sent(n)
    /\ UNCHANGED sockets

\* The first part of the query is sent by the call that finds the connection made
SendQuery ==
    \/ Fails("WRITING") /\ UNCHANGED serverVars
    \/ /\ Http.fd \in sockets
       /\ \E n \in 1..Http.query : Sent(n)
       /\ UNCHANGED sockets

WatchConnecting ==
    /\ Watching("CONNECTING") /\ SendQuery
    /\ UNCHANGED <<request, at, named, given>>

WatchSendingQuery ==
    /\ Watching("SENDING_QUERY") /\ SendQuery
    /\ UNCHANGED <<request, at, named, given>>

\* recv: what has come, as far as the buffer holds it; nothing at the end
AtEnd == Here = 0 /\ peer[Http.conn] = "closed"
Broken == peer[Http.conn] = "reset"

Enough == Len(Http.body) >= Http.size
Received(n) == n \in 1..Min({Here, BufSize}) /\ ~Broken
Pieces(c, from, to) == [i \in 1..to - from |-> <<c, from + i>>]

\* What is left after the header begins the body.  Content-length is believed
\* only if it is not less than that.
MutBodySize(left) == IF reply[Http.conn].length = 0 THEN left ELSE reply[Http.conn].length
BodySize(left) ==
    LET length == reply[Http.conn].length
    IN  IF length = 0 \/ left > length THEN left ELSE length

\* The end of the connection is not looked at
MutReadingHeader ==
    /\ Watching("READING_HEADER")
    /\ \/ Broken /\ Fails("READING")
       \/ \E n \in 1..BufSize :
            /\ Received(n) /\ Http.header + n < HeaderSize
            /\ Becomes([Http EXCEPT !.header = @ + n, !.taken = @ + n])
            /\ UNCHANGED sockets
    /\ UNCHANGED <<request, at, named, serverVars, given>>

WatchReadingHeader ==
    /\ Watching("READING_HEADER")
    /\ \/ (AtEnd \/ Broken) /\ Fails("READING")
       \/ \E n \in 1..BufSize :
            LET header == Http.header + n
                left == header - HeaderSize
            IN  /\ Received(n)
                /\ \/ /\ left < 0
                      /\ Becomes([Http EXCEPT !.header = header, !.taken = @ + n])
                      /\ UNCHANGED sockets
                   \/ left >= 0 /\ ~reply[Http.conn].ok /\ Fails("CONNECTING")
                   \/ /\ left >= 0 /\ reply[Http.conn].ok
                      /\ Becomes([Http EXCEPT
                            !.state = "READING_DATA", !.taken = @ + n, !.header = header,
                            !.size = BodySize(left), !.room = BodySize(left) + 1,
                            !.body = Pieces(Http.conn, 0, left)])
                      /\ UNCHANGED sockets
    /\ UNCHANGED <<request, at, named, serverVars, given>>

\* Only the end of the connection ends the body; it must not come too early
WatchReadingData ==
    /\ Watching("READING_DATA")
    /\ \/ Broken /\ Fails("READING")
       \/ AtEnd /\ ~Enough /\ Fails("READING")
       \/ /\ AtEnd /\ Enough
          /\ Becomes([Http EXCEPT !.state = "PARSING", !.fd = NoFd])
          /\ sockets' = sockets \ {Http.fd}
       \/ \E n \in 1..BufSize :
            LET done == Len(Http.body) + n
                larger == done > Http.size
            IN  /\ Received(n)
                /\ Becomes([Http EXCEPT
                        !.taken = @ + n,
                        !.size = IF larger THEN done ELSE @,
                        !.room = IF larger THEN done + 1 ELSE @,
                        !.body = @ \o Pieces(Http.conn, Len(@), done)])
                /\ UNCHANGED sockets
    /\ UNCHANGED <<request, at, named, serverVars, given>>

HttpWatch ==
    \/ WatchResolving \/ WatchConnecting \/ WatchSendingQuery
    \/ WatchReadingHeader \/ WatchReadingData

-------------------------------------------------------------------------------
(***************************************************************************)
(* The requests.                                                           *)
(***************************************************************************)
\* The calls of gg_token_watch_fd return one in another, each with the token it
\* has parsed; the outermost one's stays.  gg_token does not look at what they say.
TokenReturns ==
    /\ h' = [h EXCEPT !.data = IF named THEN "token" ELSE @]
    /\ at' = "returned" /\ given' = "h"

\* A synchronous gg_http_connect ends with the reply, or with NULL
LoopFails ==
    /\ ~request.async /\ Http.state = "ERROR" /\ h2' = None
    /\ \/ at = "watch" /\ h' = None /\ given' = "NULL" /\ at' = "ended"
       \/ at = "watch2" /\ TokenReturns
    /\ UNCHANGED <<request, named, sockets, serverVars>>

\* The reply is looked at by the call that has seen its end
LoopEnds ==
    /\ at = "watch" /\ h.state = "PARSING"
    /\ at' = "parse"
    /\ UNCHANGED <<request, named, h, h2, sockets, serverVars, given>>

\* gg_pubdir_watch_fd
ParsePubdir ==
    /\ at = "parse" /\ request.kind = "pubdir"
    /\ h' = [h EXCEPT !.state = "DONE", !.data = "pubdir"]
    /\ given' = "h" /\ at' = "returned"
    /\ UNCHANGED <<request, named, h2, sockets, serverVars>>

\* A reply with all the fields of a token; one that was cut may seem to have them
SeemsToken == reply[h.conn].says = "token" /\ Len(h.body) > 0
HasToken == SeemsToken /\ Len(h.body) = reply[h.conn].body

\* gg_token_watch_fd with h->data NULL: the picture is asked for.  A reply that
\* has no token, or a gg_http_connect that fails at once, ends the call.
ParseToken ==
    /\ at = "parse" /\ request.kind = "token"
    /\ \/ /\ ~HasToken \/ SeemsToken
          /\ TokenReturns
          /\ UNCHANGED <<h2, sockets, serverVars>>
       \/ LET c == Other(h.conn)
          IN  /\ SeemsToken
              /\ \E x \in Begun(c, "picture") : h2' = x /\ sockets' = Opened(x)
              /\ reply' = [reply EXCEPT ![c] = NoReply] /\ sent' = [sent EXCEPT ![c] = 0]
              /\ peer' = [peer EXCEPT ![c] = "none"]
              /\ at' = "watch2"
              /\ UNCHANGED <<h, given>>
    /\ UNCHANGED <<request, named>>

\* The picture's struct takes the place of the request's.  Its data is NULL when
\* gg_token_watch_fd calls itself, which takes the picture for a token's reply.
PictureComes ==
    /\ at = "watch2" /\ h2.state = "PARSING"
    /\ h' = h2 /\ h2' = None /\ named' = TRUE
    /\ at' = "parse"
    /\ UNCHANGED <<request, sockets, serverVars, given>>

MutStop(x) == sockets

\* gg_http_stop
Stop(x) == IF x.state \in {"ERROR", "DONE"} THEN sockets ELSE sockets \ {x.fd}

\* gg_pubdir_free, gg_token_free
Free ==
    /\ h # None
    /\ h' = None /\ sockets' = Stop(h) /\ at' = "ended"
    /\ UNCHANGED <<request, named, h2, serverVars, given>>
Ends ==
    /\ \/ at = "returned"
       \/ at = "watch" /\ request.async /\ h.state = "ERROR"
    /\ Free
GivesUp == at = "watch" /\ request.async /\ Free

Parse == LoopFails \/ LoopEnds \/ ParsePubdir \/ ParseToken \/ PictureComes

-------------------------------------------------------------------------------
(***************************************************************************)
(* The servers.                                                            *)
(***************************************************************************)
Rest(c) == HeaderSize + reply[c].body - sent[c]
Send(c) ==
    /\ peer[c] = "open"
    /\ \E n \in 1..Rest(c) : sent' = [sent EXCEPT ![c] = @ + n]
    /\ UNCHANGED <<reply, peer>>
\* after the reply, or before its end
Close(c) ==
    /\ peer[c] = "open" /\ \E end \in {"closed", "reset"} : peer' = [peer EXCEPT ![c] = end]
    /\ UNCHANGED <<reply, sent>>
Serve(c) == (Send(c) \/ Close(c)) /\ UNCHANGED <<request, at, named, h, h2, sockets, given>>

Next ==
    \/ Call \/ HttpWatch \/ Parse \/ Ends \/ GivesUp
    \/ \E c \in Connections : Serve(c)

Spec == Init /\ [][Next]_vars

\* The program goes on watching, and a server that was asked answers or closes
FairSpec ==
    /\ Spec /\ WF_vars(HttpWatch) /\ WF_vars(Parse) /\ WF_vars(Ends)
    /\ \A c \in Connections : WF_vars(Serve(c))

-------------------------------------------------------------------------------
(***************************************************************************)
(* Properties.                                                             *)
(***************************************************************************)
Https ==
    [state : {"RESOLVING", "CONNECTING", "SENDING_QUERY", "READING_HEADER", "READING_DATA",
              "PARSING", "DONE", "ERROR"},
     conn : Connections, part : {"first", "picture"}, fd : {NoFd} \cup 1..3,
     query : 0..QuerySize, taken : Nat, header : Nat, body : Seq(Connections \X Nat),
     size : Nat, room : Nat, data : {"NULL", "pubdir", "token"},
     error : {"NONE", "RESOLVING", "WRITING", "READING", "CONNECTING"}]

\* The fields of both structures are in range.
TypeOK ==
    /\ request \in [kind : Kinds, async : BOOLEAN] /\ named \in BOOLEAN
    /\ {h, h2} \subseteq Https \cup {None}
    /\ at \in {"idle", "watch", "watch2", "parse", "returned", "ended"}
    /\ sockets \subseteq 1..3 /\ given \in {"nothing", "NULL", "h"}
    /\ reply \in [Connections -> Replies \cup {NoReply}] /\ sent \in [Connections -> Nat]
    /\ peer \in [Connections -> {"none", "open", "closed", "reset"}]

Running == {x \in {h, h2} : x # None}

\* The body never grows beyond its block, which has room for the zero at its
\* end, whatever Content-length said and however the reply came in parts.
BodyFits == \A x \in Running : x.state \in {"READING_DATA", "PARSING"} => Len(x.body) < x.room

\* A reply that is looked at is what its server sent before it closed, without
\* the header, nothing left out or twice; if the server announced a length it
\* is not shorter.
BodyIsReply ==
    \A x \in Running : x.state \in {"PARSING", "DONE"} =>
        /\ x.body = Pieces(x.conn, 0, sent[x.conn] - HeaderSize)
        /\ Len(x.body) >= reply[x.conn].length

\* A program that gets the struct back from gg_token can tell from its data what
\* its body is: a token's data is there when the body is a picture's, whether the
\* last picture came or failed, and is NULL when the body is the first reply's.
TokenBelongs ==
    at = "returned" /\ request.kind = "token" => (h.data = "token" <=> h.part = "picture")

\* The open descriptors are those the structures name: every way out of a state
\* closes the pipe or the socket it replaces, and nothing stays open at the end.
SocketsAccounted == sockets = {x.fd : x \in Running} \ {NoFd}

\* A synchronous request of the public directory that the program gets back is
\* DONE, an asynchronous one that failed says why.  A synchronous gg_token is the
\* exception: pubdir.c:488-489 promises NULL after an error, but a reply without a
\* token comes back as a struct in the state PARSING, without data.
OverIsTold ==
    /\ at = "returned" /\ request.kind = "pubdir" => h.state = "DONE"
    /\ h # None /\ h.state = "ERROR" => h.error # "NONE"

\* gg_http_watch_fd and the requests' own watch functions: what a program gets in
\* the end is the server's whole answer to what it asked, in a block that holds
\* it, or (except for a synchronous gg_token) a failure that it is told of.
ResultSound == BodyFits /\ BodyIsReply /\ TokenBelongs /\ OverIsTold

\* A picture that reads as a token is followed by a request for another picture.
AsksAgain == at = "parse" /\ h.part = "picture" /\ SeemsToken

\* Every request ends, if the servers answer or close and do not for ever answer
\* the requests for pictures with tokens: then gg_token does not return.
RequestEnds == (at # "idle" ~> at = "ended") \/ []<>AsksAgain

===============================================================================
