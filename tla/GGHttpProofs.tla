------------------------------ MODULE GGHttpProofs ------------------------------
(***************************************************************************)
(* Proofs about GGHttp: queries, headers, bodies and buffers of any size,  *)
(* replies that come in any parts and say anything about their length.     *)
(***************************************************************************)
EXTENDS GGHttp, SequenceTheorems, TLAPS

Body == Seq(Connections \X Nat)

(***************************************************************************)
(* The inductive invariant.  What a structure holds depends on its state   *)
(* and on what its server has sent; s, p and r stand for sent, peer, reply.*)
(***************************************************************************)
FdOk(x) ==
    /\ x.state \in {"PARSING", "DONE", "ERROR"} => x.fd = NoFd
    /\ x.state = "ERROR" => x.error # "NONE"
    /\ x.state = "RESOLVING" => x.fd = Pipe
    /\ x.state = "CONNECTING" => x.fd \in {NoFd, Socket(x.conn)}
    /\ x.state \in {"SENDING_QUERY", "READING_HEADER", "READING_DATA"} => x.fd = Socket(x.conn)

NotAsked(x, s, p) ==
    x.state \in {"RESOLVING", "CONNECTING", "SENDING_QUERY"} =>
        x.taken = 0 /\ x.header = 0 /\ s[x.conn] = 0 /\ p[x.conn] = "none" /\ x.query > 0

HeaderOk(x, s, p) ==
    x.state = "READING_HEADER" =>
        x.header = x.taken /\ x.taken <= s[x.conn] /\ p[x.conn] # "none"

BodyOk(x, s, p, r) ==
    x.state \in {"READING_DATA", "PARSING", "DONE"} =>
        /\ HeaderSize <= x.taken /\ x.taken <= s[x.conn]
        /\ x.body = Pieces(x.conn, 0, x.taken - HeaderSize)
        /\ x.taken - HeaderSize <= x.size /\ r[x.conn].length <= x.size
        /\ x.room = x.size + 1
        /\ p[x.conn] # "none"

\* nothing more comes after the end of the connection
Whole(x, s, p) ==
    x.state \in {"PARSING", "DONE"} =>
        x.taken = s[x.conn] /\ p[x.conn] = "closed" /\ x.size <= x.taken - HeaderSize

Good(x, s, p, r) ==
    x # None =>
        /\ FdOk(x) /\ NotAsked(x, s, p) /\ HeaderOk(x, s, p) /\ BodyOk(x, s, p, r) /\ Whole(x, s, p)

Places ==
    /\ at = "idle" => h = None /\ \A c \in Connections : sent[c] = 0 /\ peer[c] = "none"
    /\ at = "ended" => h = None
    /\ at \notin {"idle", "ended"} => h # None
    /\ at = "watch2" <=> h2 # None
    /\ at = "watch2" =>
        /\ h.state = "PARSING" /\ h2.conn # h.conn /\ h2.part = "picture" /\ h2.data = "NULL"
        /\ request.kind = "token"
    /\ at = "parse" => h.state = "PARSING"

Stages ==
    /\ h # None => (named <=> h.part = "picture")
    /\ at \in {"idle", "watch"} => ~named
    /\ h # None /\ request.kind = "token" /\ at # "returned" => h.data = "NULL"

IInv ==
    /\ TypeOK /\ Places /\ Stages
    /\ Good(h, sent, peer, reply) /\ Good(h2, sent, peer, reply)
    /\ SocketsAccounted /\ TokenBelongs /\ OverIsTold
-------------------------------------------------------------------------------
\* Pieces are a sequence as long as it should be.
LEMMA PiecesAreBody ==
    ASSUME NEW c \in Connections, NEW a \in Nat, NEW b \in Nat, a <= b
    PROVE  Pieces(c, a, b) \in Body /\ Len(Pieces(c, a, b)) = b - a
<1>1. b - a \in Nat
  OBVIOUS
<1>2. \A i \in 1..b - a : <<c, a + i>> \in Connections \X Nat
  OBVIOUS
<1>3. Pieces(c, a, b) \in [1..b - a -> Connections \X Nat]
  BY <1>2 DEF Pieces
<1>4. Pieces(c, a, b) \in Body
  BY <1>1, <1>3 DEF Body
<1>5. /\ Len(Pieces(c, a, b)) \in Nat
      /\ 1..Len(Pieces(c, a, b)) = 1..b - a
  BY <1>3, <1>4, LenProperties DEF Body
<1> QED BY <1>1, <1>4, <1>5

\* A sequence is the concatenation of its parts.
LEMMA Parts ==
    ASSUME NEW S, NEW s \in Seq(S), NEW t \in Seq(S), NEW u \in Seq(S),
           Len(u) = Len(s) + Len(t),
           \A i \in 1..Len(s) : s[i] = u[i],
           \A i \in 1..Len(t) : t[i] = u[Len(s) + i]
    PROVE  s \o t = u
<1>1. Len(s) \in Nat /\ Len(t) \in Nat
  BY LenProperties
<1>2. /\ s \o t \in Seq(S) /\ Len(s \o t) = Len(u)
      /\ \A i \in 1..Len(u) : (s \o t)[i] = IF i <= Len(s) THEN s[i] ELSE t[i - Len(s)]
  BY ConcatProperties
<1>3. ASSUME NEW i \in 1..Len(u) PROVE (s \o t)[i] = u[i]
  <2>1. CASE i <= Len(s)
    BY <1>1, <1>2, <2>1
  <2>2. CASE ~(i <= Len(s))
    <3>1. i - Len(s) \in 1..Len(t) /\ Len(s) + (i - Len(s)) = i
      BY <1>1, <2>2
    <3>2. t[i - Len(s)] = u[i]
      BY <3>1
    <3> QED BY <1>2, <2>2, <3>2
  <2> QED BY <2>1, <2>2
<1> QED BY <1>2, <1>3, SeqEqual

\* As long as what has come.
LEMMA AllPieces ==
    ASSUME NEW c \in Connections, NEW n \in Nat
    PROVE  Len(Pieces(c, 0, n)) = n
<1>1. Len(Pieces(c, 0, n)) = n - 0
  BY PiecesAreBody
<1> QED BY <1>1

\* What follows is appended without a gap.
LEMMA PiecesJoin ==
    ASSUME NEW c \in Connections, NEW a \in Nat, NEW b \in Nat, a <= b
    PROVE  Pieces(c, 0, a) \o Pieces(c, a, b) = Pieces(c, 0, b)
<1> DEFINE s == Pieces(c, 0, a)  t == Pieces(c, a, b)  u == Pieces(c, 0, b)
<1>1. s \in Body /\ Len(s) = a
  BY PiecesAreBody, a - 0 = a
<1>2. t \in Body /\ Len(t) = b - a
  BY PiecesAreBody
<1>3. u \in Body /\ Len(u) = b
  BY PiecesAreBody, b - 0 = b
<1>4. /\ \A i \in 1..a : s[i] = u[i]
      /\ \A i \in 1..b - a : t[i] = u[a + i]
  BY DEF Pieces
<1> HIDE DEF s, t, u
<1>5. Len(u) = Len(s) + Len(t)
  BY <1>1, <1>2, <1>3
<1>6. /\ \A i \in 1..Len(s) : s[i] = u[i]
      /\ \A i \in 1..Len(t) : t[i] = u[Len(s) + i]
  BY <1>1, <1>2, <1>4
<1>7. s \in Seq(Connections \X Nat) /\ t \in Seq(Connections \X Nat) /\ u \in Seq(Connections \X Nat)
  BY <1>1, <1>2, <1>3 DEF Body
<1>8. s \o t = u
  BY <1>5, <1>6, <1>7, Parts
<1> QED BY <1>8 DEF s, t, u

\* A read takes something, and no more than has come.
LEMMA ReceivedIsHere ==
    ASSUME NEW n \in Nat, Here \in Int, Received(n)
    PROVE  1 <= n /\ n <= Here
<1>1. \E m \in {Here, BufSize} : \A k \in {Here, BufSize} : m <= k
  BY HttpAssumption
<1>2. Min({Here, BufSize}) \in {Here, BufSize} /\ Min({Here, BufSize}) <= Here
  BY <1>1 DEF Min
<1> QED BY <1>2, HttpAssumption DEF Received

\* Before the call there is no structure and no descriptor.
LEMMA InitInv == Init => IInv
<1> SUFFICES ASSUME Init PROVE IInv
  OBVIOUS
<1>1. TypeOK
  BY DEF Init, TypeOK, Connections
<1>2. Places /\ Stages /\ Good(h, sent, peer, reply) /\ Good(h2, sent, peer, reply)
  BY DEF Init, Places, Stages, Good, Connections
<1>3. SocketsAccounted /\ TokenBelongs /\ OverIsTold
  BY DEF Init, SocketsAccounted, TokenBelongs, OverIsTold, Running
<1> QED BY <1>1, <1>2, <1>3 DEF IInv

\* A structure is not None.
LEMMA NoneIsNone == None \notin Https /\ \A x \in Https : x # None
<1>1. \A x \in Https : x.state # "none"
  BY DEF Https
<1>2. None.state = "none"
  BY DEF None
<1> QED BY <1>1, <1>2

\* The structure that is watched is sound, and its descriptor is all there is.
LEMMA Watched ==
    ASSUME IInv, at \in {"watch", "watch2"}
    PROVE  /\ Http \in Https /\ Http # None /\ Good(Http, sent, peer, reply)
           /\ sockets = {Http.fd} \ {NoFd}
           /\ at = "watch2" => h.fd = NoFd /\ h # None /\ h \in Https
           /\ at = "watch" => h2 = None /\ Http = h
           /\ at = "watch2" => Http = h2
<1>1. h # None /\ (at = "watch2" => h2 # None) /\ (at = "watch" => h2 = None)
  BY DEF IInv, Places
<1>2. h \in Https /\ (at = "watch2" => h2 \in Https)
  BY <1>1 DEF IInv, TypeOK
<1>3. at = "watch2" => h.fd = NoFd
  BY <1>1 DEF IInv, Places, Good, FdOk
<1>4. sockets = {Http.fd} \ {NoFd}
  BY <1>1, <1>3 DEF IInv, SocketsAccounted, Running, Http
<1> QED BY <1>1, <1>2, <1>3, <1>4 DEF Http, IInv

(***************************************************************************)
(* What a step of gg_http_watch_fd has to show: the structure that it      *)
(* leaves is sound and names the one descriptor that is open.              *)
(***************************************************************************)
LEMMA WatchStep ==
    ASSUME IInv, TypeOK', at \in {"watch", "watch2"},
           UNCHANGED <<request, at, named, given>>,
           NEW x \in Https, Becomes(x),
           x.conn = Http.conn, x.part = Http.part, x.data = Http.data, x.state # "DONE",
           Good(x, sent', peer', reply'),
           sockets' = {x.fd} \ {NoFd},
           \A c \in Connections \ {x.conn} :
                sent'[c] = sent[c] /\ peer'[c] = peer[c] /\ reply'[c] = reply[c]
    PROVE  IInv'
<1> USE Watched, NoneIsNone
<1>1. x # None /\ x.conn \in Connections
  BY DEF Https
<1>2. CASE at = "watch"
  <2>1. h' = x /\ h2' = None /\ h2 = None /\ Http = h /\ h # None
    BY <1>2 DEF Becomes
  <2>2. Places'
    BY <1>1, <1>2, <2>1 DEF IInv, Places
  <2>3. Stages'
    BY <1>1, <1>2, <2>1 DEF IInv, Stages, Connections
  <2>4. Good(h, sent, peer, reply)' /\ Good(h2, sent, peer, reply)'
    BY <2>1 DEF Good, FdOk, NotAsked, HeaderOk, BodyOk, Whole
  <2>5. SocketsAccounted'
    BY <1>1, <2>1 DEF SocketsAccounted, Running
  <2>6. TokenBelongs' /\ OverIsTold'
    BY <1>1, <1>2, <2>1 DEF TokenBelongs, OverIsTold, Good, FdOk
  <2> QED BY <2>2, <2>3, <2>4, <2>5, <2>6 DEF IInv
<1>3. CASE at = "watch2"
  <2>1. h' = h /\ h2' = x /\ h2 # None /\ Http = h2 /\ h # None
    BY <1>3 DEF Becomes, IInv, Places
  <2>2. /\ h.state = "PARSING" /\ x.conn # h.conn /\ h.conn \in Connections /\ h.fd = NoFd
        /\ x.part = "picture" /\ x.data = "NULL" /\ request.kind = "token"
    BY <1>3, <2>1 DEF IInv, Places, Https
  <2>3. sent'[h.conn] = sent[h.conn] /\ peer'[h.conn] = peer[h.conn] /\ reply'[h.conn] = reply[h.conn]
    BY <2>2
  <2>4. Places'
    BY <1>1, <1>3, <2>1, <2>2 DEF IInv, Places
  <2>5. Stages'
    BY <1>1, <1>3, <2>1, <2>2 DEF IInv, Stages
  <2>6. Good(h, sent', peer', reply')
    BY <2>1, <2>2, <2>3 DEF IInv, Good, FdOk, NotAsked, HeaderOk, BodyOk, Whole
  <2>7. Good(h, sent, peer, reply)' /\ Good(h2, sent, peer, reply)'
    BY <2>1, <2>6 DEF Good, FdOk, NotAsked, HeaderOk, BodyOk, Whole
  <2>8. SocketsAccounted'
    BY <1>1, <2>1, <2>2 DEF SocketsAccounted, Running
  <2>9. TokenBelongs' /\ OverIsTold'
    BY <1>3, <2>1, <2>2 DEF TokenBelongs, OverIsTold, IInv
  <2> QED BY <2>4, <2>5, <2>7, <2>8, <2>9 DEF IInv
<1> QED BY <1>2, <1>3

-------------------------------------------------------------------------------
(***************************************************************************)
(* The steps of gg_http_watch_fd.                                          *)
(***************************************************************************)
\* What gg_http_error makes of a structure.
Errors == {"RESOLVING", "CONNECTING", "WRITING", "READING"}
Failed(x, error) == [x EXCEPT !.state = "ERROR", !.fd = NoFd, !.error = error, !.body = <<>>, !.room = 0]

LEMMA ErrorOk ==
    ASSUME NEW x \in Https, NEW error \in Errors
    PROVE  /\ Failed(x, error) \in Https /\ Failed(x, error).state = "ERROR" /\ Failed(x, error).fd = NoFd
           /\ Failed(x, error).conn = x.conn /\ Failed(x, error).part = x.part
           /\ Failed(x, error).data = x.data /\ Failed(x, error).error = error
<1> DEFINE a == [x EXCEPT !.state = "ERROR", !.fd = NoFd]
           b == [a EXCEPT !.error = error]
           c == [b EXCEPT !.body = <<>>, !.room = 0]
<1>0. <<>> \in Seq(Connections \X Nat)
  OBVIOUS
<1>1. a \in Https /\ a.state = "ERROR" /\ a.fd = NoFd /\ a.conn = x.conn /\ a.part = x.part /\ a.data = x.data
  BY DEF Https
<1> HIDE DEF a
<1>2. b \in Https /\ b.state = "ERROR" /\ b.fd = NoFd /\ b.conn = x.conn /\ b.part = x.part /\ b.data = x.data
      /\ b.error = error
  BY <1>1 DEF Https, Errors
<1> HIDE DEF b
<1>3. c \in Https /\ c.state = "ERROR" /\ c.fd = NoFd /\ c.conn = x.conn /\ c.part = x.part /\ c.data = x.data
      /\ c.error = error
  BY <1>0, <1>2 DEF Https
<1>4. Failed(x, error) = c
  BY Zenon DEF Failed, a, b, c
<1> QED BY <1>3, <1>4, Zenon

\* The records that a step leaves.
LEMMA FailedOk ==
    ASSUME IInv, at \in {"watch", "watch2"}, NEW error \in Errors,
           Fails(error), UNCHANGED <<request, at, named, given>>, UNCHANGED serverVars
    PROVE  IInv'
<1>0. Http \in Https
  BY Watched
<1> DEFINE x == Failed(Http, error)
<1>1. /\ x \in Https /\ x.state = "ERROR" /\ x.fd = NoFd /\ x.conn = Http.conn
      /\ x.part = Http.part /\ x.data = Http.data /\ x.error # "NONE"
  BY <1>0, ErrorOk DEF Errors
<1> USE Watched, NoneIsNone
<1>2. Becomes(x) /\ sockets' = sockets \ {Http.fd}
  BY DEF Fails, Failed
<1> HIDE DEF x
<1>3. TypeOK'
  BY <1>1, <1>2 DEF IInv, TypeOK, Becomes, serverVars
<1>4. Good(x, sent', peer', reply')
  BY <1>1 DEF Good, FdOk, NotAsked, HeaderOk, BodyOk, Whole
<1>5. sockets' = {x.fd} \ {NoFd}
  BY <1>1, <1>2
<1>6. \A c \in Connections \ {x.conn} : sent'[c] = sent[c] /\ peer'[c] = peer[c] /\ reply'[c] = reply[c]
  BY DEF serverVars
<1> QED BY <1>1, <1>2, <1>3, <1>4, <1>5, <1>6, WatchStep

\* What the resolver wrote cannot be read.
LEMMA ResolvingOk == IInv /\ WatchResolving => IInv'
<1> SUFFICES ASSUME IInv, WatchResolving PROVE IInv'
  OBVIOUS
<1>1. /\ at \in {"watch", "watch2"} /\ Fails("RESOLVING") /\ UNCHANGED <<request, at, named, given>>
      /\ UNCHANGED serverVars
  BY DEF WatchResolving, Watching
<1> QED BY <1>1, FailedOk DEF Errors

\* The query is sent, whole or in part; the part that is left is never empty.
LEMMA SendOk ==
    ASSUME IInv, at \in {"watch", "watch2"}, Http.state \in {"CONNECTING", "SENDING_QUERY"},
           SendQuery, UNCHANGED <<request, at, named, given>>
    PROVE  IInv'
<1> USE Watched, NoneIsNone
<1>1. Http.taken = 0 /\ Http.header = 0 /\ sent[Http.conn] = 0 /\ peer[Http.conn] = "none" /\ Http.query > 0
  BY DEF Good, NotAsked
<1>2. CASE Fails("WRITING") /\ UNCHANGED serverVars
  BY <1>2, FailedOk DEF Errors
<1>3. CASE Http.fd \in sockets /\ (\E n \in 1..Http.query : Sent(n)) /\ UNCHANGED sockets
  <2>1. Http.query \in 0..QuerySize /\ QuerySize \in Nat /\ Http.conn \in Connections
    BY HttpAssumption DEF Https
  <2>2. Http.fd = Socket(Http.conn) /\ Http.fd # NoFd /\ sockets = {Http.fd}
    BY <1>3, <2>1 DEF Good, FdOk
  <2>3. PICK n \in 1..Http.query :
                IF n < Http.query
                THEN /\ Becomes([Http EXCEPT !.state = "SENDING_QUERY", !.query = @ - n])
                     /\ UNCHANGED serverVars
                ELSE /\ Becomes([Http EXCEPT !.state = "READING_HEADER", !.query = 0])
                     /\ peer' = [peer EXCEPT ![Http.conn] = "open"]
                     /\ \E r \in Replies : reply' = [reply EXCEPT ![Http.conn] = r]
                     /\ UNCHANGED sent
    BY <1>3 DEF Sent
  <2>4. CASE n < Http.query
    <3> DEFINE x == [Http EXCEPT !.state = "SENDING_QUERY", !.query = @ - n]
    <3> DEFINE left == Http.query - n
    <3>0. left \in 0..QuerySize /\ left > 0 /\ Http \in Https
      BY <2>1, <2>4
    <3> HIDE DEF left
    <3>1. x \in Https /\ x.state = "SENDING_QUERY" /\ x.fd = Http.fd /\ x.conn = Http.conn /\ x.part = Http.part
          /\ x.data = Http.data /\ x.taken = 0 /\ x.header = 0 /\ x.query > 0
      <4>1. x = [Http EXCEPT !.state = "SENDING_QUERY", !.query = left]
        BY <3>0 DEF left, Https
      <4> HIDE DEF x
      <4> QED BY <1>1, <3>0, <4>1 DEF Https
    <3>2. Becomes(x) /\ UNCHANGED serverVars
      BY <2>3, <2>4
    <3> HIDE DEF x
    <3>3. sockets' = {x.fd} \ {NoFd}
      BY <1>3, <2>2, <3>1
    <3>4. TypeOK'
      BY <1>3, <3>1, <3>2 DEF IInv, TypeOK, Becomes, serverVars
    <3>5. Good(x, sent', peer', reply')
      BY <1>1, <2>2, <3>1, <3>2 DEF Good, FdOk, NotAsked, HeaderOk, BodyOk, Whole, serverVars
    <3>6. \A c \in Connections \ {x.conn} : sent'[c] = sent[c] /\ peer'[c] = peer[c] /\ reply'[c] = reply[c]
      BY <3>2 DEF serverVars
    <3> QED BY <3>1, <3>2, <3>3, <3>4, <3>5, <3>6, WatchStep
  <2>5. CASE ~(n < Http.query)
    <3> DEFINE x == [Http EXCEPT !.state = "READING_HEADER", !.query = 0]
    <3>0. 0 \in 0..QuerySize /\ Http \in Https
      BY <2>1
    <3>1. x \in Https /\ x.state = "READING_HEADER" /\ x.fd = Http.fd /\ x.conn = Http.conn /\ x.part = Http.part
          /\ x.data = Http.data /\ x.taken = 0 /\ x.header = 0
      BY <1>1, <3>0 DEF Https
    <3>2. Becomes(x)
      BY <2>3, <2>5
    <3> HIDE DEF x
    <3>3. PICK r \in Replies : reply' = [reply EXCEPT ![Http.conn] = r]
      BY <2>3, <2>5
    <3>4. peer' = [peer EXCEPT ![Http.conn] = "open"] /\ sent' = sent
      BY <2>3, <2>5
    <3>5. sockets' = {x.fd} \ {NoFd}
      BY <1>3, <2>2, <3>1
    <3>6. reply' \in [Connections -> Replies \cup {NoReply}]
          /\ peer' \in [Connections -> {"none", "open", "closed", "reset"}]
      BY <3>3, <3>4 DEF IInv, TypeOK
    <3>7. TypeOK'
      BY <1>3, <3>1, <3>2, <3>4, <3>6 DEF IInv, TypeOK, Becomes
    <3>8. peer'[x.conn] = "open"
      BY <2>1, <3>1, <3>4 DEF IInv, TypeOK
    <3>9. Good(x, sent', peer', reply')
      BY <1>1, <2>2, <3>1, <3>4, <3>8 DEF Good, FdOk, NotAsked, HeaderOk, BodyOk, Whole
    <3>10. \A c \in Connections \ {x.conn} : sent'[c] = sent[c] /\ peer'[c] = peer[c] /\ reply'[c] = reply[c]
      BY <3>1, <3>3, <3>4 DEF IInv, TypeOK
    <3> QED BY <3>1, <3>2, <3>5, <3>7, <3>9, <3>10, WatchStep
  <2> QED BY <2>4, <2>5
<1> QED BY <1>2, <1>3 DEF SendQuery

\* The connection was made, and the query begins.
LEMMA ConnectingOk == IInv /\ WatchConnecting => IInv'
<1> SUFFICES ASSUME IInv, WatchConnecting PROVE IInv'
  OBVIOUS
<1>1. at \in {"watch", "watch2"} /\ Http.state = "CONNECTING" /\ UNCHANGED <<request, at, named, given>>
  BY DEF WatchConnecting, Watching
<1>2. SendQuery
  BY DEF WatchConnecting
<1> QED BY <1>1, <1>2, SendOk

\* The rest of the query is sent.
LEMMA SendingOk == IInv /\ WatchSendingQuery => IInv'
<1> SUFFICES ASSUME IInv, WatchSendingQuery PROVE IInv'
  OBVIOUS
<1>1. /\ at \in {"watch", "watch2"} /\ Http.state = "SENDING_QUERY" /\ SendQuery
      /\ UNCHANGED <<request, at, named, given>>
  BY DEF WatchSendingQuery, Watching
<1> QED BY <1>1, SendOk

\* The block is as long as what is left and what was announced.
LEMMA BodySizeBounds ==
    ASSUME IInv, at \in {"watch", "watch2"}, NEW left \in Nat
    PROVE  /\ BodySize(left) \in Nat /\ left <= BodySize(left)
           /\ reply[Http.conn].length \in Nat /\ reply[Http.conn].length <= BodySize(left)
<1>1. Http.conn \in Connections
  BY Watched DEF Https
<1>2. reply[Http.conn] \in Replies \cup {NoReply}
  BY <1>1 DEF IInv, TypeOK
<1>3. reply[Http.conn].length \in Nat
  <2>1. CASE reply[Http.conn] \in Replies
    <3>1. reply[Http.conn].length \in Lengths
      BY <2>1 DEF Replies
    <3> QED BY <3>1, HttpAssumption
  <2>2. CASE reply[Http.conn] = NoReply
    BY <2>2 DEF NoReply
  <2> QED BY <1>2, <2>1, <2>2
<1> QED BY <1>3 DEF BodySize

\* What has come is at least what was taken.
LEMMA HereType ==
    ASSUME IInv, at \in {"watch", "watch2"}
    PROVE  Here \in Int /\ Http.taken \in Nat /\ sent[Http.conn] \in Nat /\ Http.conn \in Connections
<1>1. Http.conn \in Connections /\ Http.taken \in Nat
  BY Watched DEF Https
<1>2. sent[Http.conn] \in Nat
  BY <1>1 DEF IInv, TypeOK
<1> QED BY <1>1, <1>2 DEF Here

\* More of the header, its end with the beginning of the body, or an error.
LEMMA ReadingHeaderOk == IInv /\ WatchReadingHeader => IInv'
<1> SUFFICES ASSUME IInv, WatchReadingHeader PROVE IInv'
  OBVIOUS
<1>1. at \in {"watch", "watch2"} /\ Http.state = "READING_HEADER" /\ UNCHANGED <<request, at, named, given>>
      /\ UNCHANGED serverVars
  BY DEF WatchReadingHeader, Watching
<1> USE Watched, NoneIsNone
<1>2. /\ Http.conn \in Connections /\ Http.taken \in Nat /\ sent[Http.conn] \in Nat /\ Here \in Int
      /\ HeaderSize \in Nat /\ Http.header = Http.taken /\ Http.taken <= sent[Http.conn]
      /\ peer[Http.conn] # "none" /\ Http.fd = Socket(Http.conn) /\ Http.fd # NoFd
  BY <1>1, HereType, HttpAssumption DEF Good, FdOk, HeaderOk, Connections, Socket, NoFd
<1>3. \A c \in Connections : sent'[c] = sent[c] /\ peer'[c] = peer[c] /\ reply'[c] = reply[c]
  BY <1>1 DEF serverVars
<1>4. CASE Fails("READING") \/ Fails("CONNECTING")
  BY <1>1, <1>4, FailedOk DEF Errors
<1>5. ASSUME NEW n \in 1..BufSize, Received(n),
             Becomes([Http EXCEPT !.header = Http.header + n, !.taken = @ + n]), UNCHANGED sockets
      PROVE  IInv'
  <2> DEFINE taken == Http.taken + n
             x == [Http EXCEPT !.header = taken, !.taken = taken]
  <2>1. taken \in Nat /\ taken <= sent[Http.conn]
    <3>1. n \in Nat /\ 1 <= n /\ n <= Here
      BY <1>2, <1>5, ReceivedIsHere, HttpAssumption
    <3> QED BY <1>2, <3>1 DEF Here
  <2>2. Becomes(x)
    BY <1>2, <1>5 DEF Https
  <2> HIDE DEF taken
  <2>3. x \in Https /\ x.state = "READING_HEADER" /\ x.conn = Http.conn /\ x.part = Http.part /\ x.data = Http.data
        /\ x.fd = Http.fd /\ x.header = taken /\ x.taken = taken
    BY <1>1, <2>1 DEF Https
  <2> HIDE DEF x
  <2>4. sockets' = {x.fd} \ {NoFd}
    BY <1>1, <1>2, <1>5, <2>3
  <2>5. TypeOK'
    BY <1>1, <1>5, <2>2, <2>3 DEF IInv, TypeOK, Becomes, serverVars
  <2>6. Good(x, sent', peer', reply')
    BY <1>2, <1>3, <2>1, <2>3 DEF Good, FdOk, NotAsked, HeaderOk, BodyOk, Whole
  <2> QED BY <1>1, <1>3, <2>2, <2>3, <2>4, <2>5, <2>6, WatchStep
<1>6. ASSUME NEW n \in 1..BufSize, Received(n), (Http.header + n) - HeaderSize >= 0,
             Becomes([Http EXCEPT
                !.state = "READING_DATA", !.taken = @ + n, !.header = Http.header + n,
                !.size = BodySize((Http.header + n) - HeaderSize),
                !.room = BodySize((Http.header + n) - HeaderSize) + 1,
                !.body = Pieces(Http.conn, 0, (Http.header + n) - HeaderSize)]),
             UNCHANGED sockets
      PROVE  IInv'
  <2> DEFINE taken == Http.taken + n
             left == taken - HeaderSize
             size == BodySize(left)
             room == size + 1
             body == Pieces(Http.conn, 0, left)
             x == [Http EXCEPT !.state = "READING_DATA", !.taken = taken, !.header = taken,
                               !.size = size, !.room = room, !.body = body]
  <2>1. taken \in Nat /\ taken <= sent[Http.conn]
    <3>1. n \in Nat /\ 1 <= n /\ n <= Here
      BY <1>2, <1>6, ReceivedIsHere, HttpAssumption
    <3> QED BY <1>2, <3>1 DEF Here
  <2>2. left \in Nat /\ HeaderSize <= taken
    BY <1>2, <1>6, <2>1
  <2>3. Becomes(x)
    BY <1>2, <1>6 DEF Https
  <2>4. size \in Nat /\ left <= size /\ reply[Http.conn].length <= size /\ room \in Nat /\ room = size + 1
    <3> HIDE DEF left
    <3> QED BY <1>1, <2>2, BodySizeBounds
  <2>5. body \in Seq(Connections \X Nat) /\ body = Pieces(Http.conn, 0, left)
    <3> HIDE DEF left
    <3>1. 0 \in Nat /\ 0 <= left
      BY <2>2
    <3> QED BY <1>2, <2>2, <3>1, PiecesAreBody DEF Body
  <2> HIDE DEF taken, size, room, body
  <2>6. x \in Https /\ x.state = "READING_DATA" /\ x.conn = Http.conn /\ x.part = Http.part /\ x.data = Http.data
        /\ x.fd = Http.fd /\ x.taken = taken /\ x.size = size /\ x.room = room /\ x.body = body
    BY <1>1, <2>1, <2>4, <2>5 DEF Https
  <2> HIDE DEF x
  <2>7. sockets' = {x.fd} \ {NoFd}
    BY <1>1, <1>2, <1>6, <2>6
  <2>8. TypeOK'
    BY <1>1, <1>6, <2>3, <2>6 DEF IInv, TypeOK, Becomes, serverVars
  <2>9. Good(x, sent', peer', reply')
    BY <1>2, <1>3, <2>1, <2>2, <2>4, <2>5, <2>6 DEF Good, FdOk, NotAsked, HeaderOk, BodyOk, Whole
  <2> QED BY <1>1, <1>3, <2>3, <2>6, <2>7, <2>8, <2>9, WatchStep
<1> QED BY <1>4, <1>5, <1>6 DEF WatchReadingHeader

\* More of the body, its end, or an error.
LEMMA ReadingDataOk == IInv /\ WatchReadingData => IInv'
<1> SUFFICES ASSUME IInv, WatchReadingData PROVE IInv'
  OBVIOUS
<1>1. at \in {"watch", "watch2"} /\ Http.state = "READING_DATA" /\ UNCHANGED <<request, at, named, given>>
      /\ UNCHANGED serverVars
  BY DEF WatchReadingData, Watching
<1> USE Watched, NoneIsNone
<1> DEFINE done == Http.taken - HeaderSize
<1>2. /\ Http.conn \in Connections /\ Http.taken \in Nat /\ sent[Http.conn] \in Nat /\ Here \in Int
      /\ HeaderSize \in Nat /\ HeaderSize <= Http.taken /\ Http.taken <= sent[Http.conn]
      /\ Http.body = Pieces(Http.conn, 0, done) /\ Http.room = Http.size + 1
      /\ done <= Http.size /\ reply[Http.conn].length <= Http.size
      /\ peer[Http.conn] # "none" /\ Http.fd = Socket(Http.conn) /\ Http.fd # NoFd
  BY <1>1, HereType, HttpAssumption DEF Good, FdOk, BodyOk, Connections, Socket, NoFd
<1>3. done \in Nat /\ Http.size \in Nat /\ 0 \in Nat /\ 0 <= done
  BY <1>1, <1>2 DEF Https
<1>4. Len(Http.body) = done
  <2> HIDE DEF done
  <2>1. Len(Pieces(Http.conn, 0, done)) = done - 0
    BY <1>2, <1>3, PiecesAreBody
  <2> QED BY <1>2, <1>3, <2>1
<1>5. \A c \in Connections : sent'[c] = sent[c] /\ peer'[c] = peer[c] /\ reply'[c] = reply[c]
  BY <1>1 DEF serverVars
<1>6. reply[Http.conn].length \in Nat
  BY <1>1, <1>3, BodySizeBounds
<1>7. CASE Fails("READING")
  BY <1>1, <1>7, FailedOk DEF Errors
<1>8. CASE /\ AtEnd /\ Enough
           /\ Becomes([Http EXCEPT !.state = "PARSING", !.fd = NoFd])
           /\ sockets' = sockets \ {Http.fd}
  <2> DEFINE x == [Http EXCEPT !.state = "PARSING", !.fd = NoFd]
  <2>1. x \in Https /\ x.state = "PARSING" /\ x.conn = Http.conn /\ x.part = Http.part /\ x.data = Http.data /\ x.fd = NoFd
        /\ x.taken = Http.taken /\ x.size = Http.size /\ x.room = Http.room /\ x.body = Http.body
    BY <1>1 DEF Https
  <2>2. Becomes(x)
    BY <1>8
  <2> HIDE DEF x
  <2>3. sockets' = {x.fd} \ {NoFd}
    BY <1>1, <1>8, <2>1
  <2>4. TypeOK'
    BY <1>1, <2>1, <2>2, <2>3 DEF IInv, TypeOK, Becomes, serverVars
  <2>5. x.taken = sent[x.conn] /\ peer[x.conn] = "closed" /\ x.size <= done
    BY <1>2, <1>3, <1>4, <1>8, <2>1 DEF AtEnd, Enough, Here
  <2>6. Good(x, sent', peer', reply')
    BY <1>2, <1>5, <2>1, <2>5 DEF Good, FdOk, NotAsked, HeaderOk, BodyOk, Whole
  <2> QED BY <1>1, <1>5, <2>1, <2>2, <2>3, <2>4, <2>6, WatchStep
<1>9. ASSUME NEW n \in 1..BufSize, Received(n),
             Becomes([Http EXCEPT
                !.taken = @ + n,
                !.size = IF Len(Http.body) + n > Http.size THEN Len(Http.body) + n ELSE @,
                !.room = IF Len(Http.body) + n > Http.size THEN Len(Http.body) + n + 1 ELSE @,
                !.body = @ \o Pieces(Http.conn, Len(@), Len(Http.body) + n)]),
             UNCHANGED sockets
      PROVE  IInv'
  <2> DEFINE taken == Http.taken + n
             now == done + n
             size == IF now > Http.size THEN now ELSE Http.size
             room == size + 1
             body == Pieces(Http.conn, 0, now)
             x == [Http EXCEPT !.taken = taken, !.size = size, !.room = room, !.body = body]
  <2>1. n \in Nat /\ taken \in Nat /\ taken <= sent[Http.conn] /\ HeaderSize <= taken
    <3>1. n \in Nat /\ 1 <= n /\ n <= Here
      BY <1>2, <1>9, ReceivedIsHere, HttpAssumption
    <3> QED BY <1>2, <3>1 DEF Here
  <2>2. now \in Nat /\ done <= now /\ now = taken - HeaderSize /\ 0 <= now
    BY <1>2, <1>3, <2>1
  <2>3. Http.body \o Pieces(Http.conn, Len(Http.body), Len(Http.body) + n) = body
    <3> HIDE DEF done
    <3>1. Pieces(Http.conn, 0, done) \o Pieces(Http.conn, done, now) = Pieces(Http.conn, 0, now)
      <4> HIDE DEF now
      <4> QED BY <1>2, <1>3, <2>2, PiecesJoin
    <3> QED BY <1>2, <1>4, <3>1
  <2>4. size \in Nat /\ room \in Nat /\ now <= size /\ reply[Http.conn].length <= size /\ room = size + 1
    BY <1>2, <1>3, <1>6, <2>2
  <2>5. Becomes(x)
    <3>1. /\ size = IF Len(Http.body) + n > Http.size THEN Len(Http.body) + n ELSE Http.size
          /\ room = IF Len(Http.body) + n > Http.size THEN Len(Http.body) + n + 1 ELSE Http.room
      BY <1>2, <1>4
    <3> HIDE DEF size, room, body, done
    <3> QED BY <1>1, <1>9, <2>3, <3>1 DEF Https
  <2>6. body \in Seq(Connections \X Nat)
    <3> HIDE DEF now
    <3> QED BY <1>2, <1>3, <2>2, PiecesAreBody DEF Body
  <2> HIDE DEF taken, size, room, body
  <2>7. x \in Https /\ x.state = "READING_DATA" /\ x.conn = Http.conn /\ x.part = Http.part /\ x.data = Http.data
        /\ x.fd = Http.fd /\ x.taken = taken /\ x.size = size /\ x.room = room /\ x.body = body
    BY <1>1, <2>1, <2>4, <2>6 DEF Https
  <2> HIDE DEF x
  <2>8. sockets' = {x.fd} \ {NoFd}
    BY <1>1, <1>2, <1>9, <2>7
  <2>9. TypeOK'
    BY <1>1, <1>9, <2>5, <2>7 DEF IInv, TypeOK, Becomes, serverVars
  <2>10. x.body = Pieces(x.conn, 0, x.taken - HeaderSize)
    BY <2>2, <2>7 DEF body
  <2>11. Good(x, sent', peer', reply')
    BY <1>2, <1>5, <2>1, <2>2, <2>4, <2>7, <2>10 DEF Good, FdOk, NotAsked, HeaderOk, BodyOk, Whole
  <2> QED BY <1>1, <1>5, <2>5, <2>7, <2>8, <2>9, <2>11, WatchStep
<1> QED BY <1>7, <1>8, <1>9 DEF WatchReadingData

-------------------------------------------------------------------------------
(***************************************************************************)
(* The other steps.                                                        *)
(***************************************************************************)
\* What a request begins with.
LEMMA BegunOk ==
    ASSUME NEW c \in Connections, NEW part \in {"first", "picture"},
           NEW x, x \in Begun(c, part) \/ (x = Resolving /\ c = 1 /\ part = "first")
    PROVE  /\ x \in Https /\ x # None /\ x.conn = c /\ x.part = part /\ x.data = "NULL" /\ FdOk(x)
           /\ x.state \in {"RESOLVING", "CONNECTING"} /\ x.taken = 0 /\ x.header = 0 /\ x.query > 0
           /\ x.fd \in {NoFd, Pipe, Socket(c)}
           /\ Opened(x) = sockets \cup ({x.fd} \ {NoFd})
<1> USE HttpAssumption DEF Connections, Pipe, Socket, NoFd
<1>0. QuerySize \in 0..QuerySize /\ QuerySize > 0 /\ <<>> \in Seq(Connections \X Nat)
  OBVIOUS
<1>1. Fresh(c, part) \in Https
  BY <1>0 DEF Fresh, Https
<1>2. /\ Fresh(c, part).conn = c /\ Fresh(c, part).part = part /\ Fresh(c, part).data = "NULL"
      /\ Fresh(c, part).taken = 0 /\ Fresh(c, part).header = 0
      /\ Fresh(c, part).query > 0 /\ Fresh(c, part).state = "CONNECTING" /\ Fresh(c, part).fd = NoFd
  BY <1>0 DEF Fresh
<1>3. /\ x \in Https
      /\ x.conn = c /\ x.part = part /\ x.data = "NULL" /\ x.taken = 0 /\ x.header = 0 /\ x.query > 0
      /\ x.state \in {"RESOLVING", "CONNECTING"}
      /\ x.fd \in {NoFd, Pipe, Socket(c)}
      /\ x.state = "RESOLVING" => x.fd = Pipe
      /\ x.state = "CONNECTING" => x.fd \in {NoFd, Socket(c)}
  <2>0. Pipe \in 1..3 /\ Socket(c) \in 1..3
    OBVIOUS
  <2> HIDE DEF Pipe, Socket
  <2>1. CASE x = Resolving /\ c = 1 /\ part = "first"
    <3>0. x = [Fresh(c, part) EXCEPT !.state = "RESOLVING", !.fd = Pipe]
      BY <2>1 DEF Resolving
    <3>1. x \in Https
      BY <1>1, <2>0, <3>0 DEF Https
    <3> QED BY <1>1, <1>2, <3>0, <3>1 DEF Https
  <2>2. CASE x = [Fresh(c, part) EXCEPT !.fd = Socket(c)]
    <3>1. x \in Https
      BY <1>1, <2>0, <2>2 DEF Https
    <3> QED BY <1>1, <1>2, <2>2, <3>1 DEF Https
  <2>3. CASE x = Fresh(c, part)
    BY <1>1, <1>2, <2>3
  <2> QED BY <2>1, <2>2, <2>3 DEF Begun
<1>4. Opened(x) = sockets \cup ({x.fd} \ {NoFd})
  BY DEF Opened
<1> QED BY <1>3, <1>4, NoneIsNone DEF FdOk

\* gg_http_connect returns NULL or a structure in its first state.
LEMMA CallOk == IInv /\ Call => IInv'
<1> SUFFICES ASSUME IInv, Call PROVE IInv'
  OBVIOUS
<1> USE NoneIsNone
<1>1. at = "idle" /\ h = None /\ h2 = None /\ h2' = None /\ UNCHANGED <<request, reply, sent, peer>>
  BY DEF Call, serverVars, IInv, Places
<1>2. sockets = {} /\ sent[1] = 0 /\ peer[1] = "none" /\ ~named /\ named' = named
  BY <1>1 DEF Call, IInv, Places, Stages, SocketsAccounted, Running, Connections
<1>3. CASE given' = "NULL" /\ at' = "ended" /\ UNCHANGED <<h, sockets>>
  <2>1. TypeOK'
    BY <1>1, <1>2, <1>3 DEF IInv, TypeOK
  <2> QED BY <1>1, <1>2, <1>3, <2>1
          DEF IInv, Places, Stages, Good, SocketsAccounted, Running, TokenBelongs, OverIsTold
<1>4. ASSUME NEW x, x \in Begun(1, "first") \/ x = Resolving,
             h' = x /\ sockets' = Opened(x) /\ at' = "watch" /\ UNCHANGED given
      PROVE  IInv'
  <2>1. /\ x \in Https /\ x # None /\ x.conn = 1 /\ x.part = "first" /\ x.data = "NULL" /\ FdOk(x)
        /\ x.state \in {"RESOLVING", "CONNECTING"} /\ x.taken = 0 /\ x.header = 0 /\ x.query > 0
        /\ x.fd \in {NoFd, Pipe, Socket(1)} /\ Opened(x) = sockets \cup ({x.fd} \ {NoFd})
    BY <1>4, BegunOk DEF Connections
  <2>2. sockets' = {x.fd} \ {NoFd} /\ sockets' \subseteq 1..3
    BY <1>2, <1>4, <2>1 DEF Pipe, Socket
  <2>3. TypeOK'
    BY <1>1, <1>2, <1>4, <2>1, <2>2 DEF IInv, TypeOK
  <2>4. Places' /\ Stages'
    BY <1>1, <1>2, <1>4, <2>1 DEF Places, Stages
  <2>5. Good(h, sent, peer, reply)' /\ Good(h2, sent, peer, reply)'
    BY <1>1, <1>2, <1>4, <2>1 DEF Good, FdOk, NotAsked, HeaderOk, BodyOk, Whole
  <2>6. SocketsAccounted' /\ TokenBelongs' /\ OverIsTold'
    BY <1>1, <1>4, <2>1, <2>2 DEF SocketsAccounted, Running, TokenBelongs, OverIsTold
  <2> QED BY <2>3, <2>4, <2>5, <2>6 DEF IInv
<1> QED BY <1>3, <1>4 DEF Call

\* While the reply is looked at there is one structure, without a descriptor.
LEMMA Parsing ==
    ASSUME IInv, at = "parse"
    PROVE  /\ h \in Https /\ h # None /\ h2 = None /\ h.state = "PARSING" /\ h.fd = NoFd /\ sockets = {}
           /\ (named <=> h.part = "picture") /\ (request.kind = "token" => h.data = "NULL")
<1>1. h # None /\ h2 = None /\ h.state = "PARSING"
  BY DEF IInv, Places
<1>2. h \in Https /\ h.fd = NoFd
  BY <1>1 DEF IInv, TypeOK, Good, FdOk
<1>3. sockets = {}
  BY <1>1, <1>2 DEF IInv, SocketsAccounted, Running
<1> QED BY <1>1, <1>2, <1>3 DEF IInv, Stages

\* The calls of gg_token_watch_fd return: the struct they leave has the token of
\* the first one, if there was a second.
LEMMA TokenReturnsOk ==
    ASSUME IInv, at \in {"watch2", "parse"}, request.kind = "token", h.state = "PARSING", TokenReturns,
           h2' = None, sockets = {}, UNCHANGED <<request, named, sockets, reply, sent, peer>>
    PROVE  IInv'
<1> USE NoneIsNone
<1> DEFINE d == IF named THEN "token" ELSE h.data
           x == [h EXCEPT !.data = d]
<1>1. /\ h # None /\ h \in Https /\ h.fd = NoFd /\ (named <=> h.part = "picture") /\ h.data = "NULL"
      /\ Good(h, sent, peer, reply) /\ named \in BOOLEAN
  BY DEF IInv, TypeOK, Places, Stages, Good, FdOk
<1>2. d \in {"NULL", "token"} /\ (d = "token" <=> named)
  BY <1>1
<1>3. h' = x /\ at' = "returned" /\ given' = "h"
  BY <1>1 DEF TokenReturns, Https
<1> HIDE DEF d
<1>4. /\ x \in Https /\ x.state = "PARSING" /\ x.conn = h.conn /\ x.part = h.part /\ x.data = d
      /\ x.fd = NoFd /\ x.taken = h.taken /\ x.size = h.size /\ x.room = h.room /\ x.body = h.body
  BY <1>1, <1>2 DEF Https
<1> HIDE DEF x
<1>5. TypeOK'
  BY <1>3, <1>4 DEF IInv, TypeOK
<1>6. Places' /\ Stages'
  BY <1>1, <1>3, <1>4 DEF IInv, Places, Stages
<1>7. Good(h, sent, peer, reply)' /\ Good(h2, sent, peer, reply)'
  BY <1>1, <1>3, <1>4 DEF Good, FdOk, NotAsked, HeaderOk, BodyOk, Whole
<1>8. SocketsAccounted' /\ TokenBelongs' /\ OverIsTold'
  BY <1>1, <1>2, <1>3, <1>4 DEF SocketsAccounted, Running, TokenBelongs, OverIsTold
<1> QED BY <1>5, <1>6, <1>7, <1>8 DEF IInv

\* A synchronous gg_http_connect goes on to the reply, or frees what failed.
LEMMA LoopOk == IInv /\ (LoopFails \/ LoopEnds) => IInv'
<1> SUFFICES ASSUME IInv, LoopFails \/ LoopEnds PROVE IInv'
  OBVIOUS
<1> USE NoneIsNone
<1>1. CASE LoopEnds
  <2>1. at = "watch" /\ h.state = "PARSING" /\ at' = "parse"
        /\ UNCHANGED <<request, named, h, h2, sockets, reply, sent, peer, given>>
    BY <1>1 DEF LoopEnds, serverVars
  <2>2. TypeOK'
    BY <2>1 DEF IInv, TypeOK
  <2>3. Places' /\ Stages'
    BY <2>1 DEF IInv, Places, Stages
  <2>4. Good(h, sent, peer, reply)' /\ Good(h2, sent, peer, reply)'
    BY <2>1 DEF IInv, Good, FdOk, NotAsked, HeaderOk, BodyOk, Whole
  <2>5. SocketsAccounted' /\ TokenBelongs' /\ OverIsTold'
    BY <2>1 DEF IInv, SocketsAccounted, Running, TokenBelongs, OverIsTold
  <2> QED BY <2>2, <2>3, <2>4, <2>5 DEF IInv
<1>2. CASE LoopFails
  <2>1. /\ at \in {"watch", "watch2"} /\ Http.state = "ERROR" /\ h2' = None
        /\ UNCHANGED <<request, named, sockets, reply, sent, peer>>
    BY <1>2 DEF LoopFails, serverVars, IInv, Places
  <2>2. Http.fd = NoFd /\ sockets = {}
    BY <2>1, Watched DEF Good, FdOk
  <2>3. CASE at = "watch" /\ h' = None /\ given' = "NULL" /\ at' = "ended"
    <3>1. TypeOK'
      BY <2>1, <2>3 DEF IInv, TypeOK
    <3> QED BY <2>1, <2>2, <2>3, <3>1
            DEF IInv, Places, Stages, Good, SocketsAccounted, Running, TokenBelongs, OverIsTold
  <2>4. CASE at = "watch2" /\ TokenReturns
    <3>1. h.state = "PARSING" /\ request.kind = "token"
      BY <2>4 DEF IInv, Places
    <3> QED BY <2>1, <2>2, <2>4, <3>1, TokenReturnsOk
  <2> QED BY <1>2, <2>3, <2>4 DEF LoopFails
<1> QED BY <1>1, <1>2

\* gg_pubdir_watch_fd finishes the request.
LEMMA ParsePubdirOk == IInv /\ ParsePubdir => IInv'
<1> SUFFICES ASSUME IInv, ParsePubdir PROVE IInv'
  OBVIOUS
<1> DEFINE x == [h EXCEPT !.state = "DONE", !.data = "pubdir"]
<1>0. /\ at = "parse" /\ request.kind = "pubdir" /\ given' = "h" /\ at' = "returned" /\ h' = x
      /\ UNCHANGED <<request, named, h2, sockets, reply, sent, peer>>
  BY DEF ParsePubdir, serverVars
<1> USE NoneIsNone, Parsing
<1>1. /\ x \in Https /\ x.state = "DONE" /\ x.conn = h.conn /\ x.part = h.part /\ x.data = "pubdir"
      /\ x.fd = NoFd /\ x.taken = h.taken /\ x.size = h.size /\ x.room = h.room /\ x.body = h.body
  BY <1>0 DEF Https
<1> HIDE DEF x
<1>2. x # None
  BY <1>1
<1>4. TypeOK'
  BY <1>0, <1>1 DEF IInv, TypeOK
<1>5. Places' /\ Stages'
  BY <1>0, <1>1, <1>2 DEF IInv, Places, Stages
<1>6. Good(h, sent, peer, reply)' /\ Good(h2, sent, peer, reply)'
  BY <1>0, <1>1 DEF IInv, Good, FdOk, NotAsked, HeaderOk, BodyOk, Whole
<1>7. SocketsAccounted' /\ TokenBelongs' /\ OverIsTold'
  BY <1>0, <1>1 DEF SocketsAccounted, Running, TokenBelongs, OverIsTold
<1> QED BY <1>4, <1>5, <1>6, <1>7 DEF IInv

\* The request for the picture stands beside the one that it will take the place
\* of, on the other connection; or the call is over.
LEMMA ParseTokenOk == IInv /\ ParseToken => IInv'
<1> SUFFICES ASSUME IInv, ParseToken PROVE IInv'
  OBVIOUS
<1> USE NoneIsNone
<1> DEFINE c == Other(h.conn)
<1>1. at = "parse" /\ request.kind = "token" /\ UNCHANGED <<request, named>>
  BY DEF ParseToken
<1>2. /\ h \in Https /\ h # None /\ h2 = None /\ h.state = "PARSING" /\ h.fd = NoFd /\ sockets = {}
      /\ h.data = "NULL" /\ (named <=> h.part = "picture")
  BY <1>1, Parsing
<1>3. c \in Connections /\ c # h.conn /\ h.conn \in Connections
  BY <1>2 DEF Https, Connections, Other
<1> HIDE DEF c
<1>4. CASE TokenReturns /\ UNCHANGED <<h2, sockets, serverVars>>
  BY <1>1, <1>2, <1>4, TokenReturnsOk DEF serverVars
<1>5. ASSUME NEW x \in Begun(c, "picture"), h2' = x, sockets' = Opened(x),
             reply' = [reply EXCEPT ![c] = NoReply], sent' = [sent EXCEPT ![c] = 0],
             peer' = [peer EXCEPT ![c] = "none"],
             at' = "watch2", UNCHANGED <<h, given>>
      PROVE  IInv'
  <2>1. /\ x \in Https /\ x # None /\ x.conn = c /\ x.part = "picture" /\ x.data = "NULL" /\ FdOk(x)
        /\ x.state \in {"RESOLVING", "CONNECTING"} /\ x.taken = 0 /\ x.header = 0 /\ x.query > 0
        /\ x.fd \in {NoFd, Pipe, Socket(c)} /\ Opened(x) = sockets \cup ({x.fd} \ {NoFd})
    BY <1>3, <1>5, BegunOk
  <2>2. sockets' = {x.fd} \ {NoFd} /\ sockets' \subseteq 1..3
    BY <1>2, <1>3, <1>5, <2>1 DEF Pipe, Socket, Connections
  <2>3. /\ reply' \in [Connections -> Replies \cup {NoReply}] /\ sent' \in [Connections -> Nat]
        /\ peer' \in [Connections -> {"none", "open", "closed", "reset"}]
        /\ sent'[c] = 0 /\ peer'[c] = "none"
        /\ sent'[h.conn] = sent[h.conn] /\ peer'[h.conn] = peer[h.conn] /\ reply'[h.conn] = reply[h.conn]
    BY <1>3, <1>5 DEF IInv, TypeOK
  <2>4. TypeOK'
    BY <1>1, <1>5, <2>1, <2>2, <2>3 DEF IInv, TypeOK
  <2>6. Places' /\ Stages'
    BY <1>1, <1>2, <1>3, <1>5, <2>1 DEF Places, Stages
  <2>7. Good(h, sent', peer', reply')
    BY <1>2, <2>3 DEF IInv, Good, FdOk, NotAsked, HeaderOk, BodyOk, Whole
  <2>8. Good(x, sent', peer', reply')
    BY <2>1, <2>3 DEF Good, NotAsked, HeaderOk, BodyOk, Whole
  <2>9. Good(h, sent, peer, reply)' /\ Good(h2, sent, peer, reply)'
    BY <1>5, <2>7, <2>8 DEF Good, FdOk, NotAsked, HeaderOk, BodyOk, Whole
  <2>10. SocketsAccounted' /\ TokenBelongs' /\ OverIsTold'
    BY <1>1, <1>2, <1>5, <2>1, <2>2 DEF IInv, SocketsAccounted, Running, TokenBelongs, OverIsTold
  <2> QED BY <2>4, <2>6, <2>9, <2>10 DEF IInv
<1> QED BY <1>4, <1>5 DEF ParseToken, c

\* The picture's struct takes the place of the request's, and is parsed.
LEMMA PictureOk == IInv /\ PictureComes => IInv'
<1> SUFFICES ASSUME IInv, PictureComes PROVE IInv'
  OBVIOUS
<1> USE NoneIsNone
<1>1. /\ at = "watch2" /\ h2.state = "PARSING" /\ h' = h2 /\ h2' = None /\ named' = TRUE /\ at' = "parse"
      /\ UNCHANGED <<request, sockets, reply, sent, peer, given>>
  BY DEF PictureComes, serverVars
<1>2. /\ h2 \in Https /\ h2 # None /\ request.kind = "token"
      /\ h2.part = "picture" /\ h2.data = "NULL"
      /\ sockets = {h2.fd} \ {NoFd} /\ Good(h2, sent, peer, reply)
  BY <1>1, Watched DEF IInv, Places
<1>4. TypeOK'
  BY <1>1, <1>2 DEF IInv, TypeOK
<1>5. Places' /\ Stages'
  BY <1>1, <1>2 DEF Places, Stages
<1>6. Good(h, sent, peer, reply)' /\ Good(h2, sent, peer, reply)'
  BY <1>1, <1>2 DEF Good, FdOk, NotAsked, HeaderOk, BodyOk, Whole
<1>7. SocketsAccounted' /\ TokenBelongs' /\ OverIsTold'
  BY <1>1, <1>2 DEF SocketsAccounted, Running, TokenBelongs, OverIsTold
<1> QED BY <1>4, <1>5, <1>6, <1>7 DEF IInv

\* gg_http_stop closes what the structure still has.
LEMMA FreeOk == IInv /\ (Ends \/ GivesUp) => IInv'
<1> SUFFICES ASSUME IInv, Ends \/ GivesUp PROVE IInv'
  OBVIOUS
<1> USE NoneIsNone
<1>1. /\ at \in {"returned", "watch"} /\ h # None /\ h' = None /\ sockets' = Stop(h) /\ at' = "ended"
      /\ UNCHANGED <<request, named, h2, reply, sent, peer, given>>
  BY DEF Ends, GivesUp, Free, serverVars
<1>2. h2 = None /\ sockets = {h.fd} \ {NoFd} /\ (h.state \in {"ERROR", "DONE"} => h.fd = NoFd)
  BY <1>1 DEF IInv, Places, SocketsAccounted, Running, Good, FdOk
<1>3. sockets' = {}
  BY <1>1, <1>2 DEF Stop
<1>4. TypeOK'
  BY <1>1, <1>3 DEF IInv, TypeOK
<1> QED BY <1>1, <1>2, <1>3, <1>4
        DEF IInv, Places, Stages, Good, SocketsAccounted, Running, TokenBelongs, OverIsTold

\* What the server sends or the end of its connection changes no structure.
LEMMA ServeOk == ASSUME IInv, NEW c \in Connections, Serve(c) PROVE IInv'
<1> USE NoneIsNone
<1>1. UNCHANGED <<request, at, named, h, h2, sockets, given, reply>> /\ peer[c] = "open"
  BY DEF Serve, Send, Close
<1>2. sent[c] \in Nat /\ reply[c].body \in Nat /\ HeaderSize \in Nat
  <2>1. reply[c] \in Replies \cup {NoReply}
    BY DEF IInv, TypeOK
  <2>2. CASE reply[c] \in Replies
    <3>1. reply[c].body \in BodySizes
      BY <2>2 DEF Replies
    <3> QED BY <3>1, HttpAssumption DEF IInv, TypeOK
  <2>3. CASE reply[c] = NoReply
    BY <2>3, HttpAssumption DEF NoReply, IInv, TypeOK
  <2> QED BY <2>1, <2>2, <2>3
<1>3. /\ sent' \in [Connections -> Nat] /\ peer' \in [Connections -> {"none", "open", "closed", "reset"}]
      /\ sent'[c] \in Nat /\ sent[c] <= sent'[c] /\ peer'[c] # "none"
      /\ \A d \in Connections \ {c} : sent'[d] = sent[d] /\ peer'[d] = peer[d]
  <2>1. CASE Send(c)
    <3>1. PICK n \in 1..Rest(c) : sent' = [sent EXCEPT ![c] = @ + n]
      BY <2>1 DEF Send
    <3>2. n \in Nat /\ sent[c] + n \in Nat /\ sent[c] <= sent[c] + n
      BY <1>2 DEF Rest
    <3> QED BY <1>1, <2>1, <3>1, <3>2 DEF Send, IInv, TypeOK
  <2>2. CASE Close(c)
    BY <1>1, <1>2, <2>2 DEF Close, IInv, TypeOK
  <2> QED BY <2>1, <2>2 DEF Serve
<1>4. TypeOK'
  BY <1>1, <1>3 DEF IInv, TypeOK
<1>5. ASSUME NEW x \in Https, Good(x, sent, peer, reply) PROVE Good(x, sent', peer', reply')
  <2>1. x.conn \in Connections /\ x.taken \in Nat
    BY DEF Https
  <2>2. CASE x.conn = c
    BY <1>1, <1>2, <1>3, <1>5, <2>1, <2>2 DEF Good, FdOk, NotAsked, HeaderOk, BodyOk, Whole
  <2>3. CASE x.conn # c
    BY <1>1, <1>3, <1>5, <2>1, <2>3 DEF Good, FdOk, NotAsked, HeaderOk, BodyOk, Whole
  <2> QED BY <2>2, <2>3
<1>6. Good(h, sent, peer, reply)' /\ Good(h2, sent, peer, reply)'
  <2>1. h \in Https => Good(h, sent', peer', reply')
    BY <1>5 DEF IInv
  <2>2. h2 \in Https => Good(h2, sent', peer', reply')
    BY <1>5 DEF IInv
  <2> QED BY <1>1, <2>1, <2>2 DEF IInv, TypeOK, Good
<1>7. Places' /\ Stages'
  BY <1>1, <1>3 DEF IInv, Places, Stages, Connections
<1>8. SocketsAccounted' /\ TokenBelongs' /\ OverIsTold'
  BY <1>1 DEF IInv, SocketsAccounted, Running, TokenBelongs, OverIsTold
<1> QED BY <1>4, <1>6, <1>7, <1>8 DEF IInv

\* A stuttering step changes nothing that the invariant looks at.
LEMMA StutterOk == IInv /\ UNCHANGED vars => IInv'
<1> SUFFICES ASSUME IInv, UNCHANGED vars PROVE IInv'
  OBVIOUS
<1>1. UNCHANGED <<request, at, named, h, h2, sockets, reply, sent, peer, given>>
  BY DEF vars
<1>2. TypeOK' /\ Places' /\ Stages'
  BY <1>1 DEF IInv, TypeOK, Places, Stages
<1>3. Good(h, sent, peer, reply)' /\ Good(h2, sent, peer, reply)'
  BY <1>1 DEF IInv, Good, FdOk, NotAsked, HeaderOk, BodyOk, Whole
<1>4. SocketsAccounted' /\ TokenBelongs' /\ OverIsTold'
  BY <1>1 DEF IInv, SocketsAccounted, Running, TokenBelongs, OverIsTold
<1> QED BY <1>2, <1>3, <1>4 DEF IInv

(***************************************************************************)
(* The invariant holds of every request: each step of gg_http_watch_fd, of *)
(* the watch functions of the public directory and of the servers keeps it.*)
(***************************************************************************)
THEOREM Invariance == Spec => []IInv
<1>1. IInv /\ [Next]_vars => IInv'
  <2> SUFFICES ASSUME IInv, [Next]_vars PROVE IInv'
    OBVIOUS
  <2>1. CASE Call
    BY <2>1, CallOk
  <2>2. CASE HttpWatch
    BY <2>2, ResolvingOk, ConnectingOk, SendingOk, ReadingHeaderOk, ReadingDataOk DEF HttpWatch
  <2>3. CASE Parse
    BY <2>3, LoopOk, ParsePubdirOk, ParseTokenOk, PictureOk DEF Parse
  <2>4. CASE Ends \/ GivesUp
    BY <2>4, FreeOk
  <2>5. ASSUME NEW c \in Connections, Serve(c) PROVE IInv'
    BY <2>5, ServeOk
  <2>6. CASE UNCHANGED vars
    BY <2>6, StutterOk
  <2> QED BY <2>1, <2>2, <2>3, <2>4, <2>5, <2>6 DEF Next
<1> QED BY InitInv, <1>1, PTL DEF Spec

(***************************************************************************)
(* gg_http_watch_fd: the fields of both structures stay in their ranges.   *)
(***************************************************************************)
THEOREM TypeCorrect == Spec => []TypeOK
<1>1. IInv => TypeOK
  BY DEF IInv
<1> QED BY <1>1, Invariance, PTL

(***************************************************************************)
(* gg_http_watch_fd, READING_DATA: whatever Content-length said and in     *)
(* whatever parts the reply came, the body and its zero fit the block.     *)
(***************************************************************************)
THEOREM NoOverrun == Spec => []BodyFits
<1>1. ASSUME IInv, NEW x \in Running, x.state \in {"READING_DATA", "PARSING"}
      PROVE  Len(x.body) < x.room
  <2>1. x \in Https /\ BodyOk(x, sent, peer, reply)
    BY <1>1 DEF IInv, TypeOK, Running, Good
  <2>2. x.conn \in Connections /\ x.taken \in Nat /\ x.size \in Nat
    BY <2>1 DEF Https
  <2>3. /\ HeaderSize <= x.taken /\ x.body = Pieces(x.conn, 0, x.taken - HeaderSize)
        /\ x.taken - HeaderSize <= x.size /\ x.room = x.size + 1
    BY <1>1, <2>1 DEF BodyOk
  <2>4. x.taken - HeaderSize \in Nat
    BY <2>2, <2>3, HttpAssumption
  <2>5. Len(x.body) = x.taken - HeaderSize
    BY <2>2, <2>3, <2>4, AllPieces
  <2> QED BY <2>2, <2>3, <2>4, <2>5
<1>2. IInv => BodyFits
  BY <1>1 DEF BodyFits
<1> QED BY <1>2, Invariance, PTL

(***************************************************************************)
(* gg_http_watch_fd, PARSING: the reply that is parsed is what the server  *)
(* sent, all of it and in order, and no shorter than was announced.        *)
(***************************************************************************)
THEOREM ReplyIsWhole == Spec => []BodyIsReply
<1>1. ASSUME IInv, NEW x \in Running, x.state \in {"PARSING", "DONE"}
      PROVE  /\ x.body = Pieces(x.conn, 0, sent[x.conn] - HeaderSize)
             /\ Len(x.body) >= reply[x.conn].length
  <2>1. x \in Https /\ BodyOk(x, sent, peer, reply) /\ Whole(x, sent, peer)
    BY <1>1 DEF IInv, TypeOK, Running, Good
  <2>2. x.conn \in Connections /\ x.taken \in Nat /\ x.size \in Nat
    BY <2>1 DEF Https
  <2>3. /\ HeaderSize <= x.taken /\ x.body = Pieces(x.conn, 0, x.taken - HeaderSize)
        /\ reply[x.conn].length <= x.size /\ x.size <= x.taken - HeaderSize
        /\ x.taken = sent[x.conn]
    BY <1>1, <2>1 DEF BodyOk, Whole
  <2>4. x.taken - HeaderSize \in Nat
    BY <2>2, <2>3, HttpAssumption
  <2>5. Len(x.body) = x.taken - HeaderSize
    BY <2>2, <2>3, <2>4, AllPieces
  <2>6. reply[x.conn].length \in Nat
    <3>1. reply[x.conn] \in Replies \cup {NoReply}
      BY <1>1, <2>2 DEF IInv, TypeOK
    <3>2. CASE reply[x.conn] \in Replies
      <4>1. reply[x.conn].length \in Lengths
        BY <3>2 DEF Replies
      <4> QED BY <4>1, HttpAssumption
    <3>3. CASE reply[x.conn] = NoReply
      BY <3>3 DEF NoReply
    <3> QED BY <3>1, <3>2, <3>3
  <2> QED BY <2>2, <2>3, <2>4, <2>5, <2>6
<1>2. IInv => BodyIsReply
  BY <1>1 DEF BodyIsReply
<1> QED BY <1>2, Invariance, PTL

(***************************************************************************)
(* gg_token: the struct has a token exactly when its body is a picture's.  *)
(***************************************************************************)
THEOREM TokenIsAnswer == Spec => []TokenBelongs
<1>1. IInv => TokenBelongs
  BY DEF IInv
<1> QED BY <1>1, Invariance, PTL

(***************************************************************************)
(* gg_http_watch_fd, gg_http_stop: no descriptor is lost or left open.     *)
(***************************************************************************)
THEOREM NoSocketLeft == Spec => []SocketsAccounted
<1>1. IInv => SocketsAccounted
  BY DEF IInv
<1> QED BY <1>1, Invariance, PTL

(***************************************************************************)
(* gg_pubdir_watch_fd, gg_http_watch_fd: a request that is over says so.   *)
(***************************************************************************)
THEOREM EndIsTold == Spec => []OverIsTold
<1>1. IInv => OverIsTold
  BY DEF IInv
<1> QED BY <1>1, Invariance, PTL

(***************************************************************************)
(* A request ends with the whole answer, in its block, or tells that it    *)
(* failed.                                                                 *)
(***************************************************************************)
THEOREM ResultIsSound == Spec => []ResultSound
BY NoOverrun, ReplyIsWhole, TokenIsAnswer, EndIsTold, PTL DEF ResultSound

===============================================================================
