------------------------------ MODULE GGDccProofs ------------------------------
(***************************************************************************)
(* Proofs about direct connections.  The fields of both ends are in range  *)
(* in every state (TypeInv).  As long as no write is cut short, the bytes  *)
(* on their way to an end lead, one packet after another, from the place   *)
(* in the stream that this end awaits to the place that its peer has       *)
(* written (Main); what both have read, written and believe follows.       *)
(***************************************************************************)
EXTENDS GGDcc, SequenceTheorems, FiniteSetTheorems, WellFoundedInduction, TLAPS

(***************************************************************************)
(* Numbers, connections and sequences of bytes.                            *)
(***************************************************************************)

\* The two ends.
LEMMA EndsFacts ==
    ASSUME NEW e \in Ends
    PROVE  /\ Peer(e) \in Ends /\ Peer(e) # e /\ Peer(Peer(e)) = e
           /\ Ends = {e, Peer(e)}
  BY DEF Ends, Peer

\* The smaller and the larger of two numbers.
LEMMA MinFacts ==
    ASSUME NEW a \in Int, NEW b \in Int
    PROVE  Min({a, b}) = IF a <= b THEN a ELSE b
<1> DEFINE m == IF a <= b THEN a ELSE b
<1>1. m \in {a, b} /\ \A y \in {a, b} : m <= y
  OBVIOUS
<1>2. \A x \in {a, b} : (\A y \in {a, b} : x <= y) => x = m
  OBVIOUS
<1> QED BY <1>1, <1>2 DEF Min

\* The greater of two numbers.
LEMMA MaxFacts ==
    ASSUME NEW a \in Int, NEW b \in Int
    PROVE  Max({a, b}) = IF a >= b THEN a ELSE b
<1> DEFINE m == IF a >= b THEN a ELSE b
<1>1. m \in {a, b} /\ \A y \in {a, b} : m >= y
  OBVIOUS
<1>2. \A x \in {a, b} : (\A y \in {a, b} : x >= y) => x = m
  OBVIOUS
<1> QED BY <1>1, <1>2 DEF Max

\* Unsigned numbers.
LEMMA UnsignedFacts ==
    ASSUME NEW n \in Int
    PROVE  /\ Unsigned(n) \in Number
           /\ n \in Number => Unsigned(n) = n
           /\ n < 0 /\ -n \in Number => Unsigned(n) = n + Width
<1>1. Width \in Nat \ {0}
  BY DccAssumption
<1>2. \A W \in Nat \ {0} : n % W \in 0..W - 1
  OBVIOUS
<1>3. ASSUME NEW W \in Nat \ {0}, n \in 0..W - 1 PROVE n % W = n
  BY <1>3
<1>4. ASSUME NEW W \in Nat \ {0}, n \in -(W - 1)..-1 PROVE n % W = n + W
  BY <1>4
<1>5. n < 0 /\ -n \in Number => n \in -(Width - 1)..-1
  BY <1>1 DEF Number
<1> QED BY <1>1, <1>2, <1>3, <1>4, <1>5 DEF Unsigned, Number

\* The constants are numbers.
LEMMA ConstantFacts ==
    /\ Width \in Nat /\ Width > 2 /\ 0 \in Number /\ 1 \in Number /\ 2 \in Number
    /\ MaxChunk \in Nat \ {0} /\ MaxChunk + 1 < Width /\ BufSize \in Nat \ {0}
    /\ MinFrame \in Nat \ {0} /\ MaxFrame < Width
    /\ MinFrame..MaxFrame \subseteq Number
    /\ Garbage \subseteq Number /\ FileSizes \subseteq Number /\ Resumes \subseteq Number
    /\ Small \in Number /\ Frames \subseteq Nat
<1>1. Width \in Int
  BY DccAssumption
<1> QED BY <1>1, DccAssumption DEF Number, Garbage, Small

\* The fields of struct gg_dcc, and what each may be.
Types == [state |-> States, type |-> {"DCC", "SEND", "GET", "VOICE"}, check |-> {"READ", "WRITE"},
          uin |-> Number, peerUin |-> Number, offset |-> Number, size |-> Number, file |-> BOOLEAN,
          chunkSize |-> Number, chunkOffset |-> Number, chunkBuf |-> ByteSeq, allocated |-> BOOLEAN,
          voiceBuf |-> ByteSeq, established |-> BOOLEAN]
Fields == {"state", "type", "check", "uin", "peerUin", "offset", "size", "file", "chunkSize",
           "chunkOffset", "chunkBuf", "allocated", "voiceBuf", "established"}
\* Fields that may be assigned.
Well(f) == DOMAIN f \subseteq Fields /\ \A x \in DOMAIN f : f[x] \in Types[x]

\* A struct is what its fields are.
LEMMA ConnectionForm ==
    ASSUME NEW c
    PROVE  c \in Connections <=> c = [x \in Fields |-> c[x]] /\ \A x \in Fields : c[x] \in Types[x]
<1>1. ASSUME c \in Connections PROVE c = [x \in Fields |-> c[x]] /\ \A x \in Fields : c[x] \in Types[x]
  BY <1>1 DEF Connections, Fields, Types
<1>2. ASSUME c = [x \in Fields |-> c[x]], \A x \in Fields : c[x] \in Types[x] PROVE c \in Connections
  <2>1. DOMAIN c = Fields
    BY <1>2
  <2>2. /\ c.state \in States /\ c.type \in {"DCC", "SEND", "GET", "VOICE"} /\ c.check \in {"READ", "WRITE"}
        /\ c.uin \in Number /\ c.peerUin \in Number /\ c.offset \in Number /\ c.size \in Number
        /\ c.file \in BOOLEAN /\ c.chunkSize \in Number /\ c.chunkOffset \in Number /\ c.chunkBuf \in ByteSeq
        /\ c.allocated \in BOOLEAN /\ c.voiceBuf \in ByteSeq /\ c.established \in BOOLEAN
    BY <1>2 DEF Fields, Types
  <2> QED BY <1>2, <2>1, <2>2 DEF Connections, Fields
<1> QED BY <1>1, <1>2

\* Fields that are not assigned keep what they are.
LEMMA WithFacts ==
    ASSUME NEW c \in Connections, NEW f, Well(f)
    PROVE  /\ With(f, c) \in Connections
           /\ \A x \in Fields : With(f, c)[x] = IF x \in DOMAIN f THEN f[x] ELSE c[x]
<1>1. c = [x \in Fields |-> c[x]] /\ (\A x \in Fields : c[x] \in Types[x]) /\ DOMAIN c = Fields
  BY ConnectionForm
<1> DEFINE d == With(f, c)
<1>2. d = [x \in Fields |-> IF x \in DOMAIN f THEN f[x] ELSE c[x]]
  BY <1>1 DEF Well, With
<1> HIDE DEF d
<1>3. d = [x \in Fields |-> d[x]] /\ \A x \in Fields : d[x] = IF x \in DOMAIN f THEN f[x] ELSE c[x]
  BY <1>2
<1>4. \A x \in Fields : d[x] \in Types[x]
  BY <1>1, <1>3 DEF Well
<1> QED BY <1>3, <1>4, ConnectionForm DEF d

\* What one end has is never what was not there or was given back.
LEMMA LiveFacts ==
    ASSUME NEW c \in Connections
    PROVE  c # None /\ c # Closed /\ c.state \notin {"none", "closed"} /\ c.state \in States
<1>1. c.state \in States /\ "none" \notin States /\ "closed" \notin States
  BY DEF Connections, States, Expected
<1> QED BY <1>1 DEF None, Closed

--------------------------------------------------------------------------------
\* Fields and states that have something to do with buffers.
BufferFields == {"state", "allocated", "chunkBuf", "chunkOffset", "chunkSize", "voiceBuf"}
BufferStates == {"READING_FILE_HEADER", "READING_VOICE_DATA", "GETTING_FILE", "SENDING_FILE"}

\* Buffers of a connection that is not over.
Sound(c, v) == v \notin Over =>
    /\ c.allocated <=> c.state = "READING_FILE_HEADER"
    /\ c.state = "READING_FILE_HEADER" =>
        Len(c.chunkBuf) = c.chunkOffset /\ c.chunkOffset < c.chunkSize /\ c.chunkSize = Small
    /\ c.state = "READING_VOICE_DATA" =>
        Len(c.voiceBuf) = c.chunkOffset /\ c.chunkOffset < c.chunkSize /\ c.chunkSize <= MaxFrame
    /\ c.state = "GETTING_FILE" => c.chunkOffset < c.chunkSize
    /\ c.state = "SENDING_FILE" => c.chunkOffset <= c.chunkSize
    /\ v = "CALLBACK" => c.state \notin BufferStates

\* The type invariant: both ends, and what was sent and what came.
EndsInv ==
    /\ h \in [Ends -> Connections \cup {None, Closed}]
    /\ event \in [Ends -> Events] /\ pipe \in [Ends -> ByteSeq]
    /\ \A e \in Ends : Live(e) => Sound(h[e], event[e])
DataInv ==
    /\ outcome \in [Ends -> Over \cup {"NONE", "GIVEN_UP"}] /\ link \in {"up", "broken"}
    /\ got \in ByteSeq /\ length \in FileSizes /\ said \in [Ends -> Seq(Frames)]
    /\ heard \in [Ends -> Seq(ByteSeq)]
    /\ plan \in [voice : BOOLEAN, callback : BOOLEAN, resume : Resumes, size : FileSizes]
TypeInv == EndsInv /\ DataInv

\* A live end is a connection.
LEMMA LiveEnd ==
    ASSUME EndsInv, NEW e \in Ends, Live(e)
    PROVE  h[e] \in Connections /\ event[e] \in Events /\ pipe[e] \in ByteSeq /\ Sound(h[e], event[e])
  BY DEF EndsInv, Live, None, Closed

\* Assigning fields leaves the other end alone.
LEMMA BecomesFacts ==
    ASSUME EndsInv, NEW e \in Ends, Live(e), NEW f, Well(f), Becomes(e, f)
    PROVE  /\ h'[e] = With(f, h[e]) /\ h'[e] \in Connections /\ h'[Peer(e)] = h[Peer(e)]
           /\ h' \in [Ends -> Connections \cup {None, Closed}]
           /\ \A x \in Fields : h'[e][x] = IF x \in DOMAIN f THEN f[x] ELSE h[e][x]
<1>1. h[e] \in Connections
  BY LiveEnd
<1>2. h' = [h EXCEPT ![e] = With(f, h[e])] /\ h \in [Ends -> Connections \cup {None, Closed}]
  BY DEF Becomes, EndsInv
<1>3. With(f, h[e]) \in Connections
      /\ \A x \in Fields : With(f, h[e])[x] = IF x \in DOMAIN f THEN f[x] ELSE h[e][x]
  BY <1>1, WithFacts
<1>4. h'[e] = With(f, h[e]) /\ h'[Peer(e)] = h[Peer(e)]
  BY <1>2, EndsFacts
<1>5. h' \in [Ends -> Connections \cup {None, Closed}]
  BY <1>2, <1>3
<1> QED BY <1>3, <1>4, <1>5

\* An end keeps its buffers as it goes from state to state.
LEMMA EndChanges ==
    ASSUME EndsInv, NEW e \in Ends, Live(e), NEW f, Well(f), Becomes(e, f), pipe' \in [Ends -> ByteSeq],
           NEW v \in Events, event' = [event EXCEPT ![e] = v], Sound(With(f, h[e]), v)
    PROVE  EndsInv'
<1>1. /\ h'[e] = With(f, h[e]) /\ h'[Peer(e)] = h[Peer(e)]
      /\ h' \in [Ends -> Connections \cup {None, Closed}]
  BY BecomesFacts
<1>2. event' \in [Ends -> Events] /\ event'[e] = v /\ event'[Peer(e)] = event[Peer(e)]
  BY EndsFacts DEF EndsInv
<1>3. ASSUME NEW d \in Ends, Live(d)' PROVE Sound(h[d], event[d])'
  <2>1. CASE d = e
    BY <1>1, <1>2, <2>1 DEF Sound
  <2>2. CASE d = Peer(e)
    BY <1>1, <1>2, <1>3, <2>2 DEF EndsInv, Live, Sound
  <2> QED BY <2>1, <2>2, EndsFacts
<1> QED BY <1>1, <1>2, <1>3 DEF EndsInv

\* An end that fails keeps all else.
LEMMA EndFails ==
    ASSUME EndsInv, NEW e \in Ends, Live(e), h' = h, pipe' \in [Ends -> ByteSeq],
           NEW v \in Over, event' = [event EXCEPT ![e] = v]
    PROVE  EndsInv'
<1>1. event' \in [Ends -> Events] /\ event'[e] = v /\ event'[Peer(e)] = event[Peer(e)]
  BY EndsFacts DEF EndsInv, Events
<1>2. ASSUME NEW d \in Ends, Live(d)' PROVE Sound(h[d], event[d])'
  <2>1. CASE d = e
    BY <1>1, <2>1 DEF Sound
  <2>2. CASE d = Peer(e)
    BY <1>1, <1>2, <2>2 DEF EndsInv, Live, Sound
  <2> QED BY <2>1, <2>2, EndsFacts
<1> QED BY <1>1, <1>2 DEF EndsInv

\* An end that has no buffer goes to a state that needs none, or stays where it is.
LEMMA SoundPlain ==
    ASSUME NEW c \in Connections, NEW u, u \notin Over, NEW v, Sound(c, u), NEW f, Well(f),
           \/ c.state # "READING_FILE_HEADER" /\ "state" \in DOMAIN f /\ f.state \notin BufferStates
              /\ "allocated" \notin DOMAIN f
           \/ DOMAIN f \cap BufferFields = {} /\ v # "CALLBACK"
    PROVE  Sound(With(f, c), v)
<1> DEFINE d == With(f, c)
<1>1. \A x \in Fields : d[x] = IF x \in DOMAIN f THEN f[x] ELSE c[x]
  BY WithFacts
<1> HIDE DEF d
<1>2. CASE c.state # "READING_FILE_HEADER" /\ "state" \in DOMAIN f /\ f.state \notin BufferStates
              /\ "allocated" \notin DOMAIN f
  <2>1. d.state = f.state /\ d.allocated = c.allocated
    BY <1>1, <1>2 DEF Fields
  <2>2. ~c.allocated
    BY <1>2 DEF Sound
  <2>3. d.state \notin BufferStates
    BY <1>2, <2>1
  <2> QED BY <2>1, <2>2, <2>3 DEF Sound, BufferStates, d
<1>3. CASE DOMAIN f \cap BufferFields = {} /\ v # "CALLBACK"
  <2>1. /\ d.state = c.state /\ d.allocated = c.allocated /\ d.chunkBuf = c.chunkBuf
        /\ d.chunkOffset = c.chunkOffset /\ d.chunkSize = c.chunkSize /\ d.voiceBuf = c.voiceBuf
    BY <1>1, <1>3 DEF Fields, BufferFields
  <2> QED BY <1>3, <2>1 DEF Sound, d
<1> QED BY <1>2, <1>3

--------------------------------------------------------------------------------
\* A list that is given by what is in each place.
LEMMA MadeSeq ==
    ASSUME NEW S, NEW n \in Nat, NEW g, g = [i \in 1..n |-> g[i]], \A i \in 1..n : g[i] \in S
    PROVE  g \in Seq(S) /\ Len(g) = n
<1>1. g \in [1..n -> S]
  OBVIOUS
<1>2. g \in Seq(S)
  BY <1>1, SeqDef
<1>3. DOMAIN g = 1..n
  BY <1>1
<1> QED BY <1>2, <1>3, LenProperties

\* Packets, frames and pieces of the file are bytes.
Byte == Packet \X Nat

\* The bytes of packets, frames and files are sequences of bytes.
LEMMA BytesFacts ==
    /\ \A k \in PacketKinds, v \in Int : (k = "header" => v \in {Refused} \cup Number) =>
          /\ <<k, v>> \in Packet /\ Bytes(<<k, v>>) \in ByteSeq
          /\ Len(Bytes(<<k, v>>)) = Size(<<k, v>>)
          /\ \A i \in 1..Size(<<k, v>>) : Bytes(<<k, v>>)[i] = <<<<k, v>>, i>>
    /\ \A n \in Int, size \in Nat : FrameBytes(n, size) \in ByteSeq /\ Len(FrameBytes(n, size)) = size
          /\ \A i \in 1..size : FrameBytes(n, size)[i] = <<<<"voice", n>>, i>>
    /\ \A n \in Int, size \in Nat : FileBytes(n, size) \in ByteSeq /\ Len(FileBytes(n, size)) = size
          /\ \A i \in 1..size : FileBytes(n, size)[i] = <<<<"data", n + i>>, 1>>
<1>0. ByteSeq = Seq(Byte)
  BY DEF ByteSeq, Byte
<1>1. ASSUME NEW k \in PacketKinds, NEW v \in Int, k = "header" => v \in {Refused} \cup Number
      PROVE  /\ <<k, v>> \in Packet /\ Bytes(<<k, v>>) \in ByteSeq
             /\ Len(Bytes(<<k, v>>)) = Size(<<k, v>>)
             /\ \A i \in 1..Size(<<k, v>>) : Bytes(<<k, v>>)[i] = <<<<k, v>>, i>>
  <2> DEFINE p == <<k, v>>
             n == Size(p)
             g == Bytes(p)
  <2>1. n \in Nat
    BY DEF Size, Small
  <2>2. p \in Packet
    BY <1>1 DEF Packet
  <2> HIDE DEF n, p
  <2>3. g = [i \in 1..n |-> <<p, i>>]
    BY DEF Bytes, n
  <2> HIDE DEF g
  <2>4. g = [i \in 1..n |-> g[i]] /\ \A i \in 1..n : g[i] = <<p, i>>
    BY <2>3
  <2>5. \A i \in 1..n : g[i] \in Byte
    <3>1. ASSUME NEW i \in 1..n PROVE g[i] \in Packet \X Nat
      <4>1. i \in Nat /\ p \in Packet /\ g[i] = <<p, i>>
        BY <2>1, <2>2, <2>4
      <4> HIDE DEF g
      <4> QED BY <4>1
    <3> QED BY <3>1 DEF Byte
  <2>6. g \in Seq(Byte) /\ Len(g) = n
    BY <2>1, <2>4, <2>5, MadeSeq
  <2> QED BY <1>0, <2>2, <2>4, <2>6 DEF g, n, p
<1>2. ASSUME NEW n \in Int, NEW size \in Nat
      PROVE  /\ FrameBytes(n, size) \in ByteSeq /\ Len(FrameBytes(n, size)) = size
             /\ \A i \in 1..size : FrameBytes(n, size)[i] = <<<<"voice", n>>, i>>
  <2> DEFINE g == FrameBytes(n, size)
  <2>1. g = [i \in 1..size |-> <<<<"voice", n>>, i>>]
    BY DEF FrameBytes
  <2> HIDE DEF g
  <2>2. g = [i \in 1..size |-> g[i]] /\ \A i \in 1..size : g[i] = <<<<"voice", n>>, i>>
    BY <2>1
  <2>3. \A i \in 1..size : g[i] \in Byte
    <3>1. <<"voice", n>> \in Packet
      BY DEF Packet, PacketKinds
    <3>2. \A i \in 1..size : i \in Nat
      OBVIOUS
    <3> QED BY <2>2, <3>1, <3>2 DEF Byte
  <2>4. g \in Seq(Byte) /\ Len(g) = size
    BY <2>2, <2>3, MadeSeq
  <2> QED BY <1>0, <2>2, <2>4 DEF g
<1>3. ASSUME NEW n \in Int, NEW size \in Nat
      PROVE  /\ FileBytes(n, size) \in ByteSeq /\ Len(FileBytes(n, size)) = size
             /\ \A i \in 1..size : FileBytes(n, size)[i] = <<<<"data", n + i>>, 1>>
  <2> DEFINE g == FileBytes(n, size)
  <2>1. g = [i \in 1..size |-> <<<<"data", n + i>>, 1>>]
    BY DEF FileBytes
  <2> HIDE DEF g
  <2>2. g = [i \in 1..size |-> g[i]] /\ \A i \in 1..size : g[i] = <<<<"data", n + i>>, 1>>
    BY <2>1
  <2>3. \A i \in 1..size : g[i] \in Byte
    <3>1. ASSUME NEW i \in 1..size PROVE <<"data", n + i>> \in Packet
      <4>1. n + i \in Int
        OBVIOUS
      <4> QED BY <4>1 DEF Packet, PacketKinds
    <3>2. 1 \in Nat
      OBVIOUS
    <3> QED BY <2>2, <3>1, <3>2 DEF Byte
  <2>4. g \in Seq(Byte) /\ Len(g) = size
    BY <2>2, <2>3, MadeSeq
  <2> QED BY <1>0, <2>2, <2>4 DEF g
<1> QED BY <1>1, <1>2, <1>3

\* Bytes that are put together, and parts of them.
LEMMA SeqFacts ==
    ASSUME NEW S, NEW s \in Seq(S), NEW t \in Seq(S)
    PROVE  /\ s \o t \in Seq(S) /\ Len(s \o t) = Len(s) + Len(t)
           /\ \A n \in 0..Len(s) : /\ SubSeq(s, 1, n) \in Seq(S) /\ Len(SubSeq(s, 1, n)) = n
                                   /\ \A k \in 1..n : SubSeq(s, 1, n)[k] = s[k]
                                   /\ SubSeq(s, n + 1, Len(s)) \in Seq(S)
                                   /\ Len(SubSeq(s, n + 1, Len(s))) = Len(s) - n
                                   /\ \A k \in 1..Len(s) - n : SubSeq(s, n + 1, Len(s))[k] = s[n + k]
<1>1. s \o t \in Seq(S) /\ Len(s \o t) = Len(s) + Len(t)
  OBVIOUS
<1>2. ASSUME NEW n \in 0..Len(s)
      PROVE  /\ SubSeq(s, 1, n) \in Seq(S) /\ Len(SubSeq(s, 1, n)) = n
             /\ \A k \in 1..n : SubSeq(s, 1, n)[k] = s[k]
  <2>1. \A k \in 1..n : s[k] \in S
    OBVIOUS
  <2> QED BY <2>1
<1>3. ASSUME NEW n \in 0..Len(s)
      PROVE  /\ SubSeq(s, n + 1, Len(s)) \in Seq(S) /\ Len(SubSeq(s, n + 1, Len(s))) = Len(s) - n
             /\ \A k \in 1..Len(s) - n : SubSeq(s, n + 1, Len(s))[k] = s[n + k]
  <2>1. \A k \in n + 1..Len(s) : s[k] \in S
    OBVIOUS
  <2> QED BY <2>1
<1> QED BY <1>1, <1>2, <1>3

\* What is delivered and what is consumed leaves bytes.
LEMMA PipeType ==
    ASSUME EndsInv, NEW e \in Ends
    PROVE  /\ \A bytes \in ByteSeq : Delivered(e, bytes) \in [Ends -> ByteSeq]
           /\ \A n \in 0..Len(pipe[e]) : Consumed(e, n) \in [Ends -> ByteSeq]
<1>1. pipe \in [Ends -> ByteSeq] /\ Peer(e) \in Ends
  BY EndsFacts DEF EndsInv
<1>2. ASSUME NEW bytes \in ByteSeq PROVE Delivered(e, bytes) \in [Ends -> ByteSeq]
  <2>1. pipe[Peer(e)] \o bytes \in ByteSeq
    BY <1>1, SeqFacts DEF ByteSeq
  <2> QED BY <1>1, <2>1 DEF Delivered
<1>3. ASSUME NEW n \in 0..Len(pipe[e]) PROVE Consumed(e, n) \in [Ends -> ByteSeq]
  <2>1. SubSeq(pipe[e], n + 1, Len(pipe[e])) \in ByteSeq
    BY <1>1, SeqFacts DEF ByteSeq
  <2> QED BY <1>1, <2>1 DEF Consumed
<1> QED BY <1>2, <1>3

\* gg_write and what follows it keep the types.
LEMMA WritesType ==
    ASSUME EndsInv, NEW e \in Ends, Live(e), NEW bytes \in ByteSeq, NEW f, Well(f), NEW v \in Events,
           Sound(With(f, h[e]), v), Writes(e, bytes, f, v)
    PROVE  EndsInv'
<1>1. CASE pipe' = Delivered(e, bytes) /\ Becomes(e, f) /\ Returns(e, v)
  BY <1>1, PipeType, EndChanges DEF Returns
<1>2. CASE Returns(e, "ERROR_HANDSHAKE") /\ UNCHANGED <<h, pipe, faults>>
  BY <1>2, EndFails DEF Returns, Over, EndsInv
<1>3. ASSUME NEW n \in 0..Len(bytes) - 1, pipe' = Delivered(e, SubSeq(bytes, 1, n)),
             Returns(e, "ERROR_HANDSHAKE"), UNCHANGED h
      PROVE  EndsInv'
  <2>1. SubSeq(bytes, 1, n) \in ByteSeq
    <3>1. n \in 0..Len(bytes)
      BY DEF ByteSeq
    <3> QED BY <3>1, SeqFacts DEF ByteSeq
  <2> QED BY <1>3, <2>1, PipeType, EndFails DEF Returns, Over
<1> QED BY <1>1, <1>2, <1>3 DEF Writes

\* gg_read keeps the types.
LEMMA ReadsType ==
    ASSUME EndsInv, NEW e \in Ends, NEW kind, NEW value, Reads(e, kind, value)
    PROVE  /\ Live(e) /\ event[e] = "NONE" /\ link = "up" /\ pipe' \in [Ends -> ByteSeq] /\ UNCHANGED faults
           /\ h[e] \in Connections /\ Sound(h[e], event[e]) /\ "NONE" \notin Over
           /\ event = [event EXCEPT ![e] = "NONE"]
<1>1. Size(<<kind>>) \in 0..Len(pipe[e])
  <2>1. Len(pipe[e]) \in Nat
    BY DEF EndsInv, ByteSeq
  <2>2. Size(<<kind>>) \in Nat
    BY DEF Size, Small
  <2> QED BY <2>1, <2>2 DEF Reads
<1>2. event = [event EXCEPT ![e] = event[e]]
  BY DEF EndsInv
<1> QED BY <1>1, <1>2, PipeType, LiveEnd DEF Reads, Ready, Over

(***************************************************************************)
(* Everything is in range.                                                 *)
(***************************************************************************)

\* The states of a connection.
LEMMA StateNames ==
    States = {"READING_UIN_1", "READING_UIN_2", "READING_TYPE", "READING_REQUEST", "READING_FILE_INFO",
              "READING_ACK", "READING_FILE_ACK", "READING_VOICE_ACK", "READING_VOICE_HEADER",
              "READING_VOICE_SIZE", "SENDING_ACK", "CONNECTING", "SENDING_REQUEST", "SENDING_VOICE_REQUEST",
              "SENDING_FILE_INFO", "SENDING_FILE_ACK", "SENDING_VOICE_ACK", "SENDING_FILE_HEADER",
              "SENDING_FILE", "READING_FILE_HEADER", "GETTING_FILE", "READING_VOICE_DATA"}
  BY DEF States, Expected

\* A packet was read, and what it says is not what was expected.
LEMMA ReadFails ==
    ASSUME EndsInv, NEW e \in Ends, NEW kind, NEW value, Reads(e, kind, value), NEW v \in Over, Fails(e, v)
    PROVE  EndsInv'
  BY ReadsType, EndFails DEF Fails, Returns

\* A packet was read, and the next state has no buffer.
LEMMA ReadGoesOn ==
    ASSUME EndsInv, NEW e \in Ends, NEW kind, NEW value, Reads(e, kind, value),
           NEW f, Well(f), Becomes(e, f), NEW v \in Events, Returns(e, v) \/ (v = "NONE" /\ UNCHANGED event),
           h[e].state # "READING_FILE_HEADER", "state" \in DOMAIN f, f.state \notin BufferStates,
           "allocated" \notin DOMAIN f
    PROVE  EndsInv'
<1>1. /\ Live(e) /\ pipe' \in [Ends -> ByteSeq] /\ h[e] \in Connections /\ Sound(h[e], "NONE")
      /\ "NONE" \notin Over /\ event = [event EXCEPT ![e] = "NONE"] /\ event[e] = "NONE"
  BY ReadsType
<1>2. event' = [event EXCEPT ![e] = v]
  BY <1>1 DEF Returns
<1>3. Sound(With(f, h[e]), v)
  BY <1>1, SoundPlain
<1> QED BY <1>1, <1>2, <1>3, EndChanges

\* A packet was written, and the next state has no buffer.
LEMMA WriteGoesOn ==
    ASSUME EndsInv, NEW e \in Ends, Ready(e), NEW bytes \in ByteSeq, NEW f, Well(f), NEW v \in Events,
           Writes(e, bytes, f, v),
           h[e].state # "READING_FILE_HEADER", "state" \in DOMAIN f, f.state \notin BufferStates,
           "allocated" \notin DOMAIN f
    PROVE  EndsInv'
<1>1. Live(e) /\ event[e] = "NONE" /\ h[e] \in Connections /\ Sound(h[e], event[e]) /\ event[e] \notin Over
  BY LiveEnd DEF Ready, Over
<1>2. Sound(With(f, h[e]), v)
  BY <1>1, SoundPlain
<1> QED BY <1>1, <1>2, WritesType

\* Meeting leaves the connections in range, and what programs said and have alone.
LEMMA HandshakeType ==
    ASSUME TypeInv, NEW e \in Ends, WatchHandshake(e)
    PROVE  EndsInv' /\ UNCHANGED dataVars
<1> EndsInv
  BY DEF TypeInv
<1> USE StateNames, ConstantFacts
<1> DEFINE ok == EndsInv' /\ UNCHANGED dataVars
<1>1. CASE ReadsShort(e)
  <2>1. Live(e)
    BY <1>1 DEF ReadsShort, Ready
  <2>2. Len(pipe[e]) \in Nat
    BY DEF EndsInv, ByteSeq
  <2>3. pipe' \in [Ends -> ByteSeq]
    <3>1. CASE UNCHANGED pipe
      BY <3>1 DEF EndsInv
    <3>2. ASSUME NEW n \in 1..Size(<<Expected[h[e].state]>>) - 1, n <= Len(pipe[e]), pipe' = Consumed(e, n)
          PROVE  pipe' \in [Ends -> ByteSeq]
      <4>1. n \in 0..Len(pipe[e])
        BY <2>2, <3>2
      <4> QED BY <3>2, <4>1, PipeType
    <3> QED BY <1>1, <3>1, <3>2 DEF ReadsShort
  <2> QED BY <1>1, <2>1, <2>3, EndFails DEF ReadsShort, Fails, Returns, Over
<1>2. CASE ReadingUin(e)
  <2>1. PICK uin \in {Uin(x) : x \in Ends} \cup Garbage :
        /\ Reads(e, "uin", uin)
        /\ \/ /\ h[e].state = "READING_UIN_1"
              /\ Becomes(e, [state |-> "READING_UIN_2", check |-> "READ", peerUin |-> uin])
              /\ UNCHANGED event
           \/ /\ h[e].state = "READING_UIN_2"
              /\ Becomes(e, [state |-> "SENDING_ACK", check |-> "WRITE", uin |-> uin])
              /\ Returns(e, "CLIENT_ACCEPT")
    BY <1>2 DEF ReadingUin
  <2>2. uin \in Number
    BY DEF Uin
  <2>3. /\ Well([state |-> "READING_UIN_2", check |-> "READ", peerUin |-> uin])
        /\ Well([state |-> "SENDING_ACK", check |-> "WRITE", uin |-> uin])
    BY <2>2 DEF Well, Types, Fields
  <2>4. "NONE" \in Events /\ "CLIENT_ACCEPT" \in Events
    BY DEF Events
  <2> QED BY <1>2, <2>1, <2>3, <2>4, ReadGoesOn DEF ReadingUin, BufferStates
<1>3. CASE SendingAck(e)
  <2>1. Bytes(<<"ack", 1>>) \in ByteSeq /\ "NONE" \in Events
    BY BytesFacts DEF Events, PacketKinds
  <2>2. Well([state |-> "READING_TYPE", check |-> "READ"])
    BY DEF Well, Types, Fields
  <2> QED BY <1>3, <2>1, <2>2, WriteGoesOn DEF SendingAck, BufferStates
<1>4. CASE ReadingType(e)
  <2>1. PICK type \in Garbage :
        /\ Reads(e, "small", type)
        /\ \/ /\ type = 3
              /\ Becomes(e, [type |-> "SEND", state |-> "SENDING_FILE_INFO", check |-> "WRITE"])
              /\ Returns(e, "CALLBACK")
           \/ /\ type = 2
              /\ Becomes(e, [type |-> "GET", state |-> "READING_REQUEST", check |-> "READ"])
              /\ UNCHANGED event
           \/ type \notin {2, 3} /\ Fails(e, "ERROR_HANDSHAKE")
    BY <1>4 DEF ReadingType
  <2>2. /\ Well([type |-> "SEND", state |-> "SENDING_FILE_INFO", check |-> "WRITE"])
        /\ Well([type |-> "GET", state |-> "READING_REQUEST", check |-> "READ"])
    BY DEF Well, Types, Fields
  <2>3. "NONE" \in Events /\ "CALLBACK" \in Events /\ "ERROR_HANDSHAKE" \in Over
    BY DEF Events, Over
  <2>4. h[e].state = "READING_TYPE" /\ UNCHANGED dataVars
    BY <1>4 DEF ReadingType
  <2> QED BY <2>1, <2>2, <2>3, <2>4, ReadGoesOn, ReadFails DEF BufferStates
<1>5. CASE ReadingRequest(e)
  <2>1. PICK request \in Garbage :
        /\ Reads(e, "small", request)
        /\ \/ /\ request = 1
              /\ Becomes(e, [state |-> "READING_FILE_INFO", check |-> "READ"])
              /\ UNCHANGED event
           \/ /\ request = 3
              /\ Becomes(e, [state |-> "SENDING_VOICE_ACK", check |-> "WRITE", type |-> "VOICE"])
              /\ Returns(e, "NEED_VOICE_ACK")
           \/ request \notin {1, 3} /\ Fails(e, "ERROR_HANDSHAKE")
    BY <1>5 DEF ReadingRequest
  <2>2. /\ Well([state |-> "READING_FILE_INFO", check |-> "READ"])
        /\ Well([state |-> "SENDING_VOICE_ACK", check |-> "WRITE", type |-> "VOICE"])
    BY DEF Well, Types, Fields
  <2>3. "NONE" \in Events /\ "NEED_VOICE_ACK" \in Events /\ "ERROR_HANDSHAKE" \in Over
    BY DEF Events, Over
  <2>4. h[e].state = "READING_REQUEST" /\ UNCHANGED dataVars
    BY <1>5 DEF ReadingRequest
  <2> QED BY <2>1, <2>2, <2>3, <2>4, ReadGoesOn, ReadFails DEF BufferStates
<1>6. CASE Connecting(e)
  <2>1. Live(e) /\ h[e].state = "CONNECTING" /\ Ready(e) /\ UNCHANGED dataVars
    BY <1>6 DEF Connecting, Ready
  <2>2. CASE Reached
    <3>1. h[e].uin \in Int /\ h[e].peerUin \in Int
      BY <2>1, LiveEnd DEF Connections, Number
    <3>2. Bytes(<<"uin", h[e].uin>>) \o Bytes(<<"uin", h[e].peerUin>>) \in ByteSeq
      <4>1. Bytes(<<"uin", h[e].uin>>) \in ByteSeq /\ Bytes(<<"uin", h[e].peerUin>>) \in ByteSeq
        BY <3>1, BytesFacts DEF PacketKinds
      <4> QED BY <4>1, SeqFacts DEF ByteSeq
    <3>3. Well([state |-> "READING_ACK", check |-> "READ"]) /\ "NONE" \in Events
      BY DEF Well, Types, Fields, Events
    <3> QED BY <1>6, <2>1, <2>2, <3>2, <3>3, WriteGoesOn DEF Connecting, BufferStates
  <2>3. CASE ~Reached
    <3>1. pipe' \in [Ends -> ByteSeq] /\ Fails(e, "ERROR_HANDSHAKE")
      BY <1>6, <2>3 DEF Connecting, EndsInv
    <3> QED BY <2>1, <3>1, EndFails DEF Fails, Returns, Over
  <2> QED BY <2>2, <2>3
<1>7. CASE ReadingAck(e)
  <2>1. PICK ack \in Garbage :
        /\ Reads(e, "ack", ack)
        /\ IF ack = 1 THEN Becomes(e, [state |-> "SENDING_REQUEST", check |-> "WRITE"]) /\ UNCHANGED event
                      ELSE Fails(e, "ERROR_HANDSHAKE")
    BY <1>7 DEF ReadingAck
  <2>2. Well([state |-> "SENDING_REQUEST", check |-> "WRITE"])
    BY DEF Well, Types, Fields
  <2>3. "NONE" \in Events /\ "ERROR_HANDSHAKE" \in Over
    BY DEF Events, Over
  <2>4. h[e].state = "READING_ACK" /\ UNCHANGED dataVars
    BY <1>7 DEF ReadingAck
  <2> QED BY <2>1, <2>2, <2>3, <2>4, ReadGoesOn, ReadFails DEF BufferStates
<1>8. CASE SendingRequest(e)
  <2>1. /\ Bytes(<<"small", 3>>) \in ByteSeq /\ Bytes(<<"small", 2>>) \in ByteSeq
        /\ "NONE" \in Events /\ "NEED_FILE_INFO" \in Events
    BY BytesFacts DEF Events, PacketKinds
  <2>2. /\ Well([state |-> "READING_REQUEST", check |-> "READ"])
        /\ Well([state |-> "SENDING_FILE_INFO", check |-> "WRITE"])
        /\ Well([state |-> "SENDING_VOICE_REQUEST", check |-> "WRITE"])
    BY DEF Well, Types, Fields
  <2>3. Ready(e) /\ h[e].state = "SENDING_REQUEST" /\ UNCHANGED dataVars
    BY <1>8 DEF SendingRequest
  <2>4. PICK v \in {"NONE", "NEED_FILE_INFO"} :
        \/ Writes(e, Bytes(<<"small", 3>>), [state |-> "READING_REQUEST", check |-> "READ"], v)
        \/ Writes(e, Bytes(<<"small", 2>>), [state |-> "SENDING_FILE_INFO", check |-> "WRITE"], v)
        \/ Writes(e, Bytes(<<"small", 2>>), [state |-> "SENDING_VOICE_REQUEST", check |-> "WRITE"], v)
    BY <1>8 DEF SendingRequest
  <2> QED BY <2>1, <2>2, <2>3, <2>4, WriteGoesOn DEF BufferStates
<1> QED BY <1>1, <1>2, <1>3, <1>4, <1>5, <1>6, <1>7, <1>8 DEF WatchHandshake

\* What is left of a file or of a chunk, as far as a buffer holds it.
LEMMA PieceFacts ==
    ASSUME NEW e \in Ends, h[e] \in Connections
    PROVE  /\ HeaderSize(e) \in Number /\ HeaderSize(e) <= MaxChunk
           /\ h[e].offset <= h[e].size => HeaderSize(e) <= h[e].size - h[e].offset
           /\ Piece(e) \in Nat /\ Piece(e) <= BufSize
           /\ h[e].chunkOffset <= h[e].chunkSize => Piece(e) <= h[e].chunkSize - h[e].chunkOffset
           /\ \A m \in Nat : LET n == Min({Unsigned(h[e].chunkSize - h[e].chunkOffset), m})
                             IN  /\ n \in Nat /\ n <= m
                                 /\ h[e].chunkOffset <= h[e].chunkSize => n <= h[e].chunkSize - h[e].chunkOffset
<1> DEFINE left == h[e].chunkSize - h[e].chunkOffset
           rest == h[e].size - h[e].offset
<1>1. left \in Int /\ rest \in Int
  BY DEF Connections, Number
<1>2. /\ left >= 0 => left \in Number
      /\ rest >= 0 => rest \in Number
  <2>1. /\ h[e].chunkSize \in Number /\ h[e].chunkOffset \in Number
        /\ h[e].size \in Number /\ h[e].offset \in Number
    BY DEF Connections
  <2> QED BY <2>1, ConstantFacts DEF Number
<1>2a. /\ left >= 0 <=> h[e].chunkOffset <= h[e].chunkSize
       /\ rest >= 0 <=> h[e].offset <= h[e].size
  BY DEF Connections, Number
<1>3. /\ Unsigned(left) \in Nat /\ Unsigned(rest) \in Nat
      /\ left >= 0 => Unsigned(left) = left
      /\ rest >= 0 => Unsigned(rest) = rest
  BY <1>1, <1>2, UnsignedFacts DEF Number
<1> HIDE DEF left, rest
<1>4. \A m \in Nat : Min({Unsigned(left), m}) = IF Unsigned(left) <= m THEN Unsigned(left) ELSE m
  BY <1>3, MinFacts
<1>5. \A m \in Nat : Min({Unsigned(rest), m}) = IF Unsigned(rest) <= m THEN Unsigned(rest) ELSE m
  BY <1>3, MinFacts
<1>6. \A m \in Nat : /\ Min({Unsigned(left), m}) \in Nat /\ Min({Unsigned(left), m}) <= m
                     /\ left >= 0 => Min({Unsigned(left), m}) <= left
  BY <1>3, <1>4
<1>7. MaxChunk \in Nat /\ MaxChunk < Width /\ BufSize \in Nat /\ Width \in Nat
  BY ConstantFacts
<1>8. /\ HeaderSize(e) \in Number /\ HeaderSize(e) <= MaxChunk
      /\ rest >= 0 => HeaderSize(e) <= rest
  BY <1>3, <1>5, <1>7 DEF HeaderSize, Number, rest
<1>9. Piece(e) = Min({Unsigned(left), BufSize})
  BY DEF Piece, left
<1>10. /\ Piece(e) \in Nat /\ Piece(e) <= BufSize
       /\ left >= 0 => Piece(e) <= left
  BY <1>6, <1>7, <1>9
<1> QED BY <1>2a, <1>6, <1>8, <1>10 DEF left, rest

\* What is written of the file is a part of what is left of it and of the chunk.
LEMMA CutFacts ==
    ASSUME NEW e \in Ends, h[e] \in Connections, length \in Number
    PROVE  /\ FromFile(e) \in Nat /\ FromFile(e) <= Piece(e)
           /\ Cut(e) \in Int /\ Cut(e) <= FromFile(e) /\ Cut(e) <= h[e].size - h[e].offset
           /\ Cut(e) = FromFile(e) \/ Cut(e) = h[e].size - h[e].offset
<1>1. Piece(e) \in Nat
  BY PieceFacts
<1>2. length - h[e].offset \in Int /\ h[e].size - h[e].offset \in Int
  BY DEF Connections, Number
<1>3. Max({length - h[e].offset, 0}) \in Nat
  BY <1>2, MaxFacts
<1>4. FromFile(e) \in Nat /\ FromFile(e) <= Piece(e)
  BY <1>1, <1>3, MinFacts DEF FromFile
<1> QED BY <1>2, <1>4, MinFacts DEF Cut

\* A header has come, or a part of one.
LEMMA HeaderType ==
    ASSUME EndsInv, NEW e \in Ends, ReadingFileHeader(e)
    PROVE  EndsInv' /\ UNCHANGED dataVars
<1>1. /\ Live(e) /\ event[e] = "NONE" /\ h[e] \in Connections /\ h[e].state = "READING_FILE_HEADER"
      /\ pipe[e] \in ByteSeq /\ UNCHANGED dataVars /\ event[e] \notin Over /\ Sound(h[e], event[e])
  BY LiveEnd DEF ReadingFileHeader, Ready, Over
<1>2. /\ Len(h[e].chunkBuf) = h[e].chunkOffset /\ h[e].chunkOffset < h[e].chunkSize /\ h[e].chunkSize = Small
      /\ h[e].chunkBuf \in ByteSeq /\ h[e].chunkOffset \in Number /\ h[e].chunkSize \in Number
  BY <1>1 DEF Sound, Connections
<1>3. CASE Fails(e, "ERROR_NET") /\ UNCHANGED pipe
  BY <1>1, <1>3, EndFails DEF Fails, Returns, Over, EndsInv
<1>4. ASSUME NEW n \in 1..Min({Unsigned(h[e].chunkSize - h[e].chunkOffset), Len(pipe[e])}),
             pipe' = Consumed(e, n),
             \/ /\ ~(h[e].chunkOffset + n >= h[e].chunkSize)
                /\ Becomes(e, [chunkOffset |-> h[e].chunkOffset + n,
                               chunkBuf |-> h[e].chunkBuf \o SubSeq(pipe[e], 1, n)])
                /\ UNCHANGED event
             \/ \E size \in Values(h[e].chunkBuf \o SubSeq(pipe[e], 1, n), "header") :
                  LET read == [chunkBuf |-> <<>>, allocated |-> FALSE, chunkOffset |-> 0,
                               chunkSize |-> Unsigned(size)]
                  IN  \/ /\ size \in {Refused, 0}
                         /\ Becomes(e, read)
                         /\ Returns(e, IF size = 0 THEN "DONE" ELSE "REFUSED")
                      \/ /\ size \notin {Refused, 0}
                         /\ Becomes(e, With([state |-> "GETTING_FILE", check |-> "READ",
                                             established |-> TRUE], read))
                         /\ UNCHANGED event
      PROVE  EndsInv'
  <2>1. Len(pipe[e]) \in Nat
    BY <1>1 DEF ByteSeq
  <2>2. n \in 0..Len(pipe[e]) /\ n \in Nat /\ n >= 1 /\ n <= h[e].chunkSize - h[e].chunkOffset
    <3> DEFINE m == Min({Unsigned(h[e].chunkSize - h[e].chunkOffset), Len(pipe[e])})
    <3>1. h[e].chunkOffset \in Int /\ h[e].chunkSize \in Int
      BY <1>2 DEF Number
    <3>2. m \in Nat /\ m <= Len(pipe[e]) /\ m <= h[e].chunkSize - h[e].chunkOffset
      BY <1>1, <1>2, <2>1, <3>1, PieceFacts
    <3>3. n \in 1..m
      OBVIOUS
    <3> HIDE DEF m
    <3> QED BY <2>1, <3>1, <3>2, <3>3
  <2>3. pipe' \in [Ends -> ByteSeq]
    BY <1>4, <2>2, PipeType
  <2> DEFINE more == SubSeq(pipe[e], 1, n)
             buf == h[e].chunkBuf \o more
  <2>4. more \in ByteSeq /\ Len(more) = n
    BY <1>1, <2>2, SeqFacts DEF ByteSeq
  <2> HIDE DEF more
  <2>5. buf \in ByteSeq /\ Len(buf) = h[e].chunkOffset + n
    BY <1>2, <2>4, SeqFacts DEF ByteSeq
  <2> HIDE DEF buf
  <2>6. CASE /\ ~(h[e].chunkOffset + n >= h[e].chunkSize)
             /\ Becomes(e, [chunkOffset |-> h[e].chunkOffset + n, chunkBuf |-> buf])
             /\ UNCHANGED event
    <3> DEFINE f == [chunkOffset |-> h[e].chunkOffset + n, chunkBuf |-> buf]
    <3>1. Well(f)
      <4>1. h[e].chunkOffset + n \in Number
        BY <1>2, <2>2, <2>6, ConstantFacts DEF Number
      <4> QED BY <2>5, <4>1 DEF Well, Types, Fields
    <3>2. \A x \in Fields : With(f, h[e])[x] = IF x \in DOMAIN f THEN f[x] ELSE h[e][x]
      BY <1>1, <3>1, WithFacts
    <3>3. With(f, h[e]).state = "READING_FILE_HEADER" /\ With(f, h[e]).allocated = h[e].allocated
          /\ With(f, h[e]).chunkOffset = h[e].chunkOffset + n /\ With(f, h[e]).chunkBuf = buf
          /\ With(f, h[e]).chunkSize = h[e].chunkSize
      BY <1>1, <3>2 DEF Fields
    <3>4. Sound(With(f, h[e]), "NONE")
      <4> HIDE DEF f
      <4> QED BY <1>1, <1>2, <2>2, <2>5, <2>6, <3>3 DEF Sound, Number
    <3>5. event' = [event EXCEPT ![e] = "NONE"] /\ "NONE" \in Events
      BY <1>1, <2>6 DEF EndsInv, Events
    <3> QED BY <1>1, <2>3, <2>6, <3>1, <3>4, <3>5, EndChanges
  <2>7. ASSUME NEW size \in Values(buf, "header"),
               LET read == [chunkBuf |-> <<>>, allocated |-> FALSE, chunkOffset |-> 0,
                            chunkSize |-> Unsigned(size)]
               IN  \/ /\ size \in {Refused, 0}
                      /\ Becomes(e, read)
                      /\ Returns(e, IF size = 0 THEN "DONE" ELSE "REFUSED")
                   \/ /\ size \notin {Refused, 0}
                      /\ Becomes(e, With([state |-> "GETTING_FILE", check |-> "READ",
                                          established |-> TRUE], read))
                      /\ UNCHANGED event
        PROVE  EndsInv'
    <3>1. size \in {Refused} \cup Number
      <4>1. CASE size \in Garbage
        BY <4>1, ConstantFacts
      <4>2. CASE size \notin Garbage
        <5>1. Head(buf)[1][1] = "header" /\ size = Head(buf)[1][2]
          BY <2>7, <4>2 DEF Values
        <5>2. Head(buf) \in Packet \X Nat
          <6>1. buf \in Seq(Packet \X Nat) /\ buf # <<>>
            BY <1>2, <2>2, <2>5 DEF ByteSeq, Number
          <6> QED BY <6>1
        <5>3. Head(buf)[1] \in Packet
          BY <5>2
        <5> QED BY <5>1, <5>3 DEF Packet
      <4> QED BY <4>1, <4>2
    <3>2. size \in Int /\ Unsigned(size) \in Number /\ (size # Refused => Unsigned(size) = size)
      <4>1. size \in Int
        BY <3>1 DEF Refused, Number
      <4> QED BY <3>1, <4>1, UnsignedFacts
    <3> DEFINE read == [chunkBuf |-> <<>>, allocated |-> FALSE, chunkOffset |-> 0,
                        chunkSize |-> Unsigned(size)]
               more2 == [state |-> "GETTING_FILE", check |-> "READ", established |-> TRUE]
    <3>3. <<>> \in ByteSeq
      BY DEF ByteSeq
    <3>4. Well(read)
      <4>1. DOMAIN read = {"chunkBuf", "allocated", "chunkOffset", "chunkSize"}
            /\ read.chunkBuf \in ByteSeq /\ read.allocated \in BOOLEAN
            /\ read.chunkOffset \in Number /\ read.chunkSize \in Number
        BY <3>2, <3>3, ConstantFacts
      <4> HIDE DEF read
      <4> QED BY <4>1 DEF Well, Types, Fields
    <3>5. CASE size \in {Refused, 0} /\ Becomes(e, read) /\ Returns(e, IF size = 0 THEN "DONE" ELSE "REFUSED")
      <4>1. PICK v \in Over : event' = [event EXCEPT ![e] = v]
        BY <3>5 DEF Over, Returns
      <4>2. Sound(With(read, h[e]), v) /\ v \in Events
        BY <4>1 DEF Sound, Events
      <4> HIDE DEF read
      <4> QED BY <1>1, <2>3, <3>4, <3>5, <4>1, <4>2, EndChanges
    <3>6. CASE size \notin {Refused, 0} /\ Becomes(e, With(more2, read)) /\ UNCHANGED event
      <4> DEFINE f == With(more2, read)
      <4>1. DOMAIN f = {"state", "check", "established", "chunkBuf", "allocated", "chunkOffset", "chunkSize"}
        BY DEF With
      <4>2. /\ f.state = "GETTING_FILE" /\ f.check = "READ" /\ f.established = TRUE /\ f.chunkBuf = <<>>
            /\ f.allocated = FALSE /\ f.chunkOffset = 0 /\ f.chunkSize = Unsigned(size)
        BY DEF With
      <4> HIDE DEF f
      <4>3. "GETTING_FILE" \in States
        BY StateNames
      <4>4. Well(f)
        <5>1. /\ f.chunkBuf \in ByteSeq /\ f.allocated \in BOOLEAN /\ f.established \in BOOLEAN
              /\ f.chunkOffset \in Number /\ f.chunkSize \in Number /\ f.state \in States
              /\ f.check \in {"READ", "WRITE"}
          BY <3>2, <3>3, <4>2, <4>3, ConstantFacts
        <5> QED BY <4>1, <5>1 DEF Well, Types, Fields
      <4>5. \A x \in Fields : With(f, h[e])[x] = IF x \in DOMAIN f THEN f[x] ELSE h[e][x]
        BY <1>1, <4>4, WithFacts
      <4>6. With(f, h[e]).state = "GETTING_FILE" /\ ~With(f, h[e]).allocated
            /\ With(f, h[e]).chunkOffset = 0 /\ With(f, h[e]).chunkSize = size
        BY <3>2, <3>6, <4>1, <4>2, <4>5 DEF Fields
      <4>7. Sound(With(f, h[e]), "NONE")
        BY <3>1, <3>6, <4>6, ConstantFacts DEF Sound, Number
      <4>8. event' = [event EXCEPT ![e] = "NONE"] /\ "NONE" \in Events
        BY <1>1, <3>6 DEF EndsInv, Events
      <4>9. Becomes(e, f)
        BY <3>6 DEF f
      <4> QED BY <1>1, <2>3, <4>4, <4>7, <4>8, <4>9, EndChanges
    <3> QED BY <2>7, <3>5, <3>6
  <2> QED BY <1>4, <2>6, <2>7 DEF buf, more
<1> QED BY <1>1, <1>3, <1>4 DEF ReadingFileHeader

\* Fields that are assigned one by one.
LEMMA WellForm ==
    ASSUME NEW f, DOMAIN f \subseteq Fields,
           "state" \in DOMAIN f => f.state \in States,
           "type" \in DOMAIN f => f.type \in {"DCC", "SEND", "GET", "VOICE"},
           "check" \in DOMAIN f => f.check \in {"READ", "WRITE"},
           "uin" \in DOMAIN f => f.uin \in Number, "peerUin" \in DOMAIN f => f.peerUin \in Number,
           "offset" \in DOMAIN f => f.offset \in Number, "size" \in DOMAIN f => f.size \in Number,
           "file" \in DOMAIN f => f.file \in BOOLEAN, "established" \in DOMAIN f => f.established \in BOOLEAN,
           "chunkSize" \in DOMAIN f => f.chunkSize \in Number,
           "chunkOffset" \in DOMAIN f => f.chunkOffset \in Number,
           "chunkBuf" \in DOMAIN f => f.chunkBuf \in ByteSeq, "voiceBuf" \in DOMAIN f => f.voiceBuf \in ByteSeq,
           "allocated" \in DOMAIN f => f.allocated \in BOOLEAN
    PROVE  Well(f)
  BY DEF Well, Types, Fields

\* What SendingFile assigns: the offset, and the next state if there is more.
Sent(e, size) == [offset |-> h[e].offset + size, check |-> "WRITE"]
SentNext(e, size) ==
    With([state |-> IF h[e].chunkOffset + size >= h[e].chunkSize THEN "SENDING_FILE_HEADER" ELSE "SENDING_FILE",
          chunkOffset |-> h[e].chunkOffset + size], Sent(e, size))

\* What the sender assigns when a piece of the file is sent is in range.
LEMMA SentFacts ==
    ASSUME NEW e \in Ends, h[e] \in Connections, NEW size \in Nat, h[e].offset + size <= h[e].size,
           h[e].chunkOffset + size <= h[e].chunkSize
    PROVE  /\ Well(Sent(e, size)) /\ Well(SentNext(e, size))
           /\ DOMAIN Sent(e, size) = {"offset", "check"} /\ Sent(e, size).offset = h[e].offset + size
           /\ DOMAIN SentNext(e, size) = {"state", "chunkOffset", "offset", "check"}
           /\ SentNext(e, size).offset = h[e].offset + size
           /\ SentNext(e, size).chunkOffset = h[e].chunkOffset + size
           /\ SentNext(e, size).state = IF h[e].chunkOffset + size >= h[e].chunkSize
                                        THEN "SENDING_FILE_HEADER" ELSE "SENDING_FILE"
<1>1. h[e].offset + size \in Number /\ h[e].chunkOffset + size \in Number
  <2>1. /\ h[e].offset \in Number /\ h[e].chunkOffset \in Number /\ h[e].size \in Number
        /\ h[e].chunkSize \in Number
    BY DEF Connections
  <2> QED BY <2>1, ConstantFacts DEF Number
<1>2. /\ DOMAIN Sent(e, size) = {"offset", "check"} /\ Sent(e, size).offset = h[e].offset + size
      /\ Sent(e, size).check = "WRITE"
  BY DEF Sent
<1>3. /\ DOMAIN SentNext(e, size) = {"state", "chunkOffset", "offset", "check"}
      /\ SentNext(e, size).offset = h[e].offset + size /\ SentNext(e, size).check = "WRITE"
      /\ SentNext(e, size).chunkOffset = h[e].chunkOffset + size
      /\ SentNext(e, size).state = IF h[e].chunkOffset + size >= h[e].chunkSize
                                   THEN "SENDING_FILE_HEADER" ELSE "SENDING_FILE"
  BY <1>2 DEF SentNext, With
<1>4. SentNext(e, size).state \in States
  BY <1>3, StateNames
<1>5. Well(Sent(e, size))
  BY <1>1, <1>2, WellForm DEF Fields
<1>6. Well(SentNext(e, size))
  BY <1>1, <1>3, <1>4, WellForm DEF Fields
<1> QED BY <1>2, <1>3, <1>5, <1>6

\* Sending a piece of the file leaves the connections in range.
LEMMA SendingFileType ==
    ASSUME TypeInv, NEW e \in Ends, SendingFile(e)
    PROVE  EndsInv' /\ UNCHANGED dataVars
<1>1. /\ EndsInv /\ Live(e) /\ event[e] = "NONE" /\ h[e] \in Connections /\ h[e].state = "SENDING_FILE"
      /\ UNCHANGED dataVars /\ event[e] \notin Over /\ Sound(h[e], event[e]) /\ length \in FileSizes
  BY LiveEnd DEF SendingFile, Ready, Over, TypeInv, DataInv
<1>2. ASSUME NEW v \in {"DONE", "ERROR_EOF", "ERROR_NET"}, Fails(e, v), UNCHANGED pipe PROVE EndsInv'
  BY <1>1, <1>2, EndFails DEF Fails, Returns, Over, EndsInv
<1>3. ASSUME Cut(e) >= 1, NEW taken \in 1..Cut(e), pipe' = Delivered(e, FileBytes(h[e].offset, taken)),
             IF h[e].offset + Cut(e) >= h[e].size
             THEN Becomes(e, Sent(e, Cut(e))) /\ Returns(e, "DONE")
             ELSE Becomes(e, SentNext(e, Cut(e))) /\ UNCHANGED event
      PROVE  EndsInv'
  <2> DEFINE size == Cut(e)
  <2>1. length \in Number
    BY <1>1, ConstantFacts
  <2>2. /\ h[e].offset \in Int /\ h[e].size \in Int /\ h[e].chunkOffset \in Int /\ h[e].chunkSize \in Int
        /\ h[e].chunkOffset <= h[e].chunkSize /\ ~h[e].allocated
    BY <1>1 DEF Connections, Number, Sound
  <2>3. size \in Nat /\ size <= h[e].size - h[e].offset /\ size <= h[e].chunkSize - h[e].chunkOffset
    <3>1. FromFile(e) <= Piece(e) /\ FromFile(e) \in Nat /\ size <= FromFile(e) /\ size \in Int
          /\ size <= h[e].size - h[e].offset
      BY <1>1, <2>1, CutFacts
    <3>2. Piece(e) \in Nat /\ Piece(e) <= h[e].chunkSize - h[e].chunkOffset
      BY <1>1, <2>2, PieceFacts
    <3> QED BY <1>3, <2>2, <3>1, <3>2
  <2> HIDE DEF size
  <2>4. h[e].offset + size <= h[e].size /\ h[e].chunkOffset + size <= h[e].chunkSize
    BY <2>2, <2>3
  <2>5. /\ Well(Sent(e, size)) /\ Well(SentNext(e, size))
        /\ DOMAIN Sent(e, size) = {"offset", "check"}
        /\ DOMAIN SentNext(e, size) = {"state", "chunkOffset", "offset", "check"}
        /\ SentNext(e, size).chunkOffset = h[e].chunkOffset + size
        /\ SentNext(e, size).state = IF h[e].chunkOffset + size >= h[e].chunkSize
                                     THEN "SENDING_FILE_HEADER" ELSE "SENDING_FILE"
    BY <1>1, <2>3, <2>4, SentFacts
  <2>6. pipe' \in [Ends -> ByteSeq]
    <3>1. taken \in Nat
      BY <1>3
    <3>2. FileBytes(h[e].offset, taken) \in ByteSeq
      BY <2>2, <3>1, BytesFacts
    <3> QED BY <1>1, <1>3, <3>2, PipeType
  <2>7. "DONE" \in Over /\ "DONE" \in Events /\ "NONE" \in Events
    BY DEF Over, Events
  <2>8. CASE Becomes(e, Sent(e, size)) /\ Returns(e, "DONE")
    <3>1. Sound(With(Sent(e, size), h[e]), "DONE")
      BY <2>7 DEF Sound
    <3> QED BY <1>1, <2>5, <2>6, <2>7, <2>8, <3>1, EndChanges DEF Returns
  <2>9. CASE Becomes(e, SentNext(e, size)) /\ UNCHANGED event
    <3>1. \A x \in Fields : With(SentNext(e, size), h[e])[x] =
                IF x \in DOMAIN SentNext(e, size) THEN SentNext(e, size)[x] ELSE h[e][x]
      BY <1>1, <2>5, WithFacts
    <3>2. /\ With(SentNext(e, size), h[e]).state = SentNext(e, size).state
          /\ With(SentNext(e, size), h[e]).allocated = h[e].allocated
          /\ With(SentNext(e, size), h[e]).chunkOffset = h[e].chunkOffset + size
          /\ With(SentNext(e, size), h[e]).chunkSize = h[e].chunkSize
      BY <2>5, <3>1 DEF Fields
    <3>3. Sound(With(SentNext(e, size), h[e]), "NONE")
      BY <2>2, <2>4, <2>5, <3>2 DEF Sound
    <3>4. event' = [event EXCEPT ![e] = "NONE"]
      BY <1>1, <2>9 DEF EndsInv
    <3> QED BY <1>1, <2>5, <2>6, <2>7, <2>9, <3>3, <3>4, EndChanges
  <2> QED BY <1>3, <2>8, <2>9 DEF size
<1> QED BY <1>1, <1>2, <1>3 DEF SendingFile, Sent, SentNext

\* The fields of a receiver that waits for a header.
LEMMA HeaderComesFacts ==
    /\ DOMAIN HeaderComes = {"state", "check", "chunkSize", "chunkOffset", "chunkBuf", "allocated"}
    /\ HeaderComes.state = "READING_FILE_HEADER" /\ HeaderComes.check = "READ" /\ HeaderComes.chunkSize = Small
    /\ HeaderComes.chunkOffset = 0 /\ HeaderComes.chunkBuf = <<>> /\ HeaderComes.allocated = TRUE
    /\ Well(HeaderComes)
<1>1. /\ DOMAIN HeaderComes = {"state", "check", "chunkSize", "chunkOffset", "chunkBuf", "allocated"}
      /\ HeaderComes.state = "READING_FILE_HEADER" /\ HeaderComes.check = "READ" /\ HeaderComes.chunkSize = Small
      /\ HeaderComes.chunkOffset = 0 /\ HeaderComes.chunkBuf = <<>> /\ HeaderComes.allocated = TRUE
  BY DEF HeaderComes
<1>2. Well(HeaderComes)
  <2>1. <<>> \in ByteSeq
    BY DEF ByteSeq
  <2> QED BY <1>1, <2>1, StateNames, ConstantFacts, WellForm DEF Fields
<1> QED BY <1>1, <1>2

\* What GettingFile assigns.
GotAll(offset) == [offset |-> offset]
GotChunk(offset) == With([offset |-> offset], HeaderComes)
GotMore(offset, chunkOffset) == [offset |-> offset, chunkOffset |-> chunkOffset]

\* What the receiver assigns when a piece of the file has come is in range.
LEMMA GotFacts ==
    ASSUME NEW offset \in Number, NEW chunkOffset \in Number
    PROVE  /\ Well(GotAll(offset)) /\ Well(GotChunk(offset)) /\ Well(GotMore(offset, chunkOffset))
           /\ DOMAIN GotAll(offset) = {"offset"} /\ GotAll(offset).offset = offset
           /\ DOMAIN GotMore(offset, chunkOffset) = {"offset", "chunkOffset"}
           /\ GotMore(offset, chunkOffset).offset = offset
           /\ GotMore(offset, chunkOffset).chunkOffset = chunkOffset
           /\ DOMAIN GotChunk(offset) = {"offset"} \cup DOMAIN HeaderComes
           /\ GotChunk(offset).offset = offset
           /\ \A x \in DOMAIN HeaderComes : GotChunk(offset)[x] = HeaderComes[x]
<1>1. /\ DOMAIN GotAll(offset) = {"offset"} /\ GotAll(offset).offset = offset
      /\ DOMAIN GotMore(offset, chunkOffset) = {"offset", "chunkOffset"}
      /\ GotMore(offset, chunkOffset).offset = offset
      /\ GotMore(offset, chunkOffset).chunkOffset = chunkOffset
  BY DEF GotAll, GotMore
<1>2. /\ DOMAIN GotChunk(offset) = {"offset"} \cup DOMAIN HeaderComes
      /\ GotChunk(offset).offset = offset
      /\ \A x \in DOMAIN HeaderComes : GotChunk(offset)[x] = HeaderComes[x]
  BY HeaderComesFacts DEF GotChunk, With
<1>3. Well(GotAll(offset)) /\ Well(GotMore(offset, chunkOffset))
  BY <1>1, WellForm DEF Fields
<1>4. Well(GotChunk(offset))
  BY <1>2, HeaderComesFacts DEF Well, Types, Fields
<1> QED BY <1>1, <1>2, <1>3, <1>4

\* Receiving a piece of the file leaves the connections in range.
LEMMA GettingType ==
    ASSUME TypeInv, NEW e \in Ends, GettingFile(e)
    PROVE  EndsInv' /\ got' \in ByteSeq /\ UNCHANGED <<length, said, heard>>
<1>1. /\ EndsInv /\ Live(e) /\ event[e] = "NONE" /\ h[e] \in Connections /\ h[e].state = "GETTING_FILE"
      /\ UNCHANGED <<length, said, heard>> /\ event[e] \notin Over /\ Sound(h[e], event[e])
      /\ pipe[e] \in ByteSeq /\ got \in ByteSeq
  BY LiveEnd DEF GettingFile, Ready, Over, TypeInv, DataInv
<1>2. /\ h[e].chunkOffset < h[e].chunkSize /\ ~h[e].allocated
      /\ h[e].offset \in Number /\ h[e].chunkOffset \in Number /\ h[e].chunkSize \in Number
  BY <1>1 DEF Sound, Connections
<1>3. Len(pipe[e]) \in Nat /\ h[e].offset \in Int /\ h[e].chunkOffset \in Int /\ h[e].chunkSize \in Int
  BY <1>1, <1>2 DEF ByteSeq, Number
<1>4. Piece(e) \in Nat /\ Piece(e) <= h[e].chunkSize - h[e].chunkOffset
  BY <1>1, <1>2, <1>3, PieceFacts
<1> DEFINE m == Min({Piece(e), Len(pipe[e])})
<1>5. m \in Nat /\ m <= Piece(e) /\ m <= Len(pipe[e])
  BY <1>3, <1>4, MinFacts
<1>6. m \in 0..Len(pipe[e]) /\ 1..m \subseteq 0..Len(pipe[e])
      /\ \A n \in 1..m : n \in Nat /\ n >= 1 /\ n <= h[e].chunkSize - h[e].chunkOffset
  <2> HIDE DEF m
  <2> QED BY <1>3, <1>4, <1>5
<1> HIDE DEF m
<1>7. ASSUME NEW v \in {"ERROR_NET", "ERROR_EOF"}, Fails(e, v), UNCHANGED pipe \/ pipe' = Consumed(e, m)
      PROVE  EndsInv'
  <2>1. pipe' \in [Ends -> ByteSeq]
    BY <1>1, <1>6, <1>7, PipeType DEF EndsInv
  <2> QED BY <1>1, <1>7, <2>1, EndFails DEF Fails, Returns, Over
<1>8. ASSUME NEW n \in 1..m, pipe' = Consumed(e, n), got' = got \o SubSeq(pipe[e], 1, n),
             NEW offset, offset = Unsigned(h[e].offset + n),
             NEW chunkOffset, chunkOffset = h[e].chunkOffset + n,
             IF Complete(e, offset)
             THEN Becomes(e, GotAll(offset)) /\ Returns(e, "DONE")
             ELSE /\ UNCHANGED event
                  /\ IF chunkOffset >= h[e].chunkSize
                     THEN Becomes(e, GotChunk(offset))
                     ELSE Becomes(e, GotMore(offset, chunkOffset))
      PROVE  EndsInv' /\ got' \in ByteSeq
  <2>1. n \in 0..Len(pipe[e]) /\ n \in Nat /\ n >= 1 /\ n <= h[e].chunkSize - h[e].chunkOffset
    BY <1>6
  <2>2. pipe' \in [Ends -> ByteSeq]
    BY <1>1, <1>8, <2>1, PipeType
  <2>3. got' \in ByteSeq
    <3>1. SubSeq(pipe[e], 1, n) \in ByteSeq
      BY <1>1, <2>1, SeqFacts DEF ByteSeq
    <3> QED BY <1>1, <1>8, <3>1, SeqFacts DEF ByteSeq
  <2>4. offset \in Number /\ chunkOffset \in Number /\ chunkOffset <= h[e].chunkSize
    <3>1. h[e].offset + n \in Int
      BY <1>3, <2>1
    <3>2. offset \in Number
      BY <1>8, <3>1, UnsignedFacts
    <3>3. chunkOffset \in Int /\ chunkOffset >= 0 /\ chunkOffset <= h[e].chunkSize
      <4> DEFINE a == h[e].chunkOffset
                 z == h[e].chunkSize
      <4>1. a \in Int /\ a >= 0 /\ z \in Int
        BY <1>2, <1>3, ConstantFacts DEF Number
      <4>2. n \in Int /\ n >= 1 /\ n <= z - a
        BY <2>1
      <4>3. chunkOffset = a + n
        BY <1>8
      <4> HIDE DEF a, z
      <4>4. chunkOffset \in Int /\ chunkOffset >= 0 /\ chunkOffset <= z
        BY <4>1, <4>2, <4>3
      <4> QED BY <4>4 DEF z
    <3>4. h[e].chunkSize \in Int /\ h[e].chunkSize <= Width - 1 /\ Width \in Int
      BY <1>2, ConstantFacts DEF Number
    <3>5. chunkOffset \in 0..Width - 1
      BY <3>3, <3>4
    <3> QED BY <3>2, <3>3, <3>5 DEF Number
  <2>5. /\ Well(GotAll(offset)) /\ Well(GotChunk(offset)) /\ Well(GotMore(offset, chunkOffset))
        /\ DOMAIN GotMore(offset, chunkOffset) = {"offset", "chunkOffset"}
        /\ GotMore(offset, chunkOffset).chunkOffset = chunkOffset
        /\ DOMAIN GotChunk(offset) = {"offset"} \cup DOMAIN HeaderComes
        /\ \A x \in DOMAIN HeaderComes : GotChunk(offset)[x] = HeaderComes[x]
    BY <2>4, GotFacts
  <2>6. "DONE" \in Over /\ "DONE" \in Events /\ "NONE" \in Events
    BY DEF Over, Events
  <2>7. event = [event EXCEPT ![e] = "NONE"]
    BY <1>1 DEF EndsInv
  <2>8. CASE Becomes(e, GotAll(offset)) /\ Returns(e, "DONE")
    <3>1. Sound(With(GotAll(offset), h[e]), "DONE")
      BY <2>6 DEF Sound
    <3> QED BY <1>1, <2>2, <2>3, <2>5, <2>6, <2>8, <3>1, EndChanges DEF Returns
  <2>9. CASE Becomes(e, GotChunk(offset)) /\ UNCHANGED event
    <3>1. \A x \in Fields : With(GotChunk(offset), h[e])[x] =
                IF x \in DOMAIN GotChunk(offset) THEN GotChunk(offset)[x] ELSE h[e][x]
      BY <1>1, <2>5, WithFacts
    <3>2. /\ With(GotChunk(offset), h[e]).state = "READING_FILE_HEADER"
          /\ With(GotChunk(offset), h[e]).allocated = TRUE
          /\ With(GotChunk(offset), h[e]).chunkOffset = 0
          /\ With(GotChunk(offset), h[e]).chunkSize = Small
          /\ With(GotChunk(offset), h[e]).chunkBuf = <<>>
      BY <2>5, <3>1, HeaderComesFacts DEF Fields
    <3>3. Sound(With(GotChunk(offset), h[e]), "NONE")
      BY <3>2 DEF Sound, Small
    <3> QED BY <1>1, <2>2, <2>3, <2>5, <2>6, <2>7, <2>9, <3>3, EndChanges
  <2>10. CASE Becomes(e, GotMore(offset, chunkOffset)) /\ UNCHANGED event /\ ~(chunkOffset >= h[e].chunkSize)
    <3>1. \A x \in Fields : With(GotMore(offset, chunkOffset), h[e])[x] =
                IF x \in DOMAIN GotMore(offset, chunkOffset) THEN GotMore(offset, chunkOffset)[x] ELSE h[e][x]
      BY <1>1, <2>5, WithFacts
    <3>2. /\ With(GotMore(offset, chunkOffset), h[e]).state = "GETTING_FILE"
          /\ With(GotMore(offset, chunkOffset), h[e]).allocated = h[e].allocated
          /\ With(GotMore(offset, chunkOffset), h[e]).chunkOffset = chunkOffset
          /\ With(GotMore(offset, chunkOffset), h[e]).chunkSize = h[e].chunkSize
      BY <1>1, <2>5, <3>1 DEF Fields
    <3>3. Sound(With(GotMore(offset, chunkOffset), h[e]), "NONE")
      BY <1>2, <1>3, <2>4, <2>10, <3>2 DEF Sound, Number
    <3> QED BY <1>1, <2>2, <2>3, <2>5, <2>6, <2>7, <2>10, <3>3, EndChanges
  <2> QED BY <1>8, <2>3, <2>8, <2>9, <2>10
<1>9. CASE \/ link = "broken" /\ Fails(e, "ERROR_NET") /\ UNCHANGED <<pipe, got, faults>>
           \/ link = "up" /\ AtEnd(e) /\ Fails(e, "ERROR_EOF") /\ UNCHANGED <<pipe, got, faults>>
           \/ Fails(e, "ERROR_NET") /\ UNCHANGED got /\ pipe' = Consumed(e, m)
  BY <1>1, <1>7, <1>9
<1> QED BY <1>1, <1>8, <1>9 DEF GettingFile, GotAll, GotChunk, GotMore, m

\* Every step with a file leaves the connections in range.
LEMMA FileType ==
    ASSUME TypeInv, NEW e \in Ends, WatchFile(e)
    PROVE  EndsInv' /\ got' \in ByteSeq /\ UNCHANGED <<length, said, heard>>
<1> EndsInv /\ got \in ByteSeq
  BY DEF TypeInv, DataInv
<1> USE StateNames, ConstantFacts
<1>1. CASE SendingFileInfo(e)
  <2>1. Live(e) /\ h[e].state = "SENDING_FILE_INFO" /\ Ready(e) /\ UNCHANGED dataVars
    BY <1>1 DEF SendingFileInfo, Ready
  <2>2. CASE h[e].file
    <3>1. h[e].size \in Int
      BY <2>1, LiveEnd DEF Connections, Number
    <3>2. Bytes(<<"small", 1>>) \o Bytes(<<"info", h[e].size>>) \in ByteSeq
      <4>1. Bytes(<<"small", 1>>) \in ByteSeq /\ Bytes(<<"info", h[e].size>>) \in ByteSeq
        <5>1. Bytes(<<"small", 1>>) \in ByteSeq
          BY BytesFacts DEF PacketKinds
        <5>2. Bytes(<<"info", h[e].size>>) \in ByteSeq
          BY <3>1, BytesFacts DEF PacketKinds
        <5> QED BY <5>1, <5>2
      <4> QED BY <4>1, SeqFacts DEF ByteSeq
    <3>3. Well([state |-> "READING_FILE_ACK", check |-> "READ"]) /\ "NONE" \in Events
      BY DEF Well, Types, Fields, Events
    <3>4. Writes(e, Bytes(<<"small", 1>>) \o Bytes(<<"info", h[e].size>>),
                 [state |-> "READING_FILE_ACK", check |-> "READ"], "NONE")
      BY <1>1, <2>2 DEF SendingFileInfo
    <3>5. EndsInv'
      BY <2>1, <3>2, <3>3, <3>4, WriteGoesOn DEF BufferStates
    <3> QED BY <2>1, <3>5 DEF dataVars
  <2>3. CASE ~h[e].file
    <3>1. pipe' \in [Ends -> ByteSeq] /\ h' = h /\ event' = [event EXCEPT ![e] = "NEED_FILE_INFO"]
      BY <1>1, <2>3 DEF SendingFileInfo, EndsInv, Fails, Returns
    <3>2. event' \in [Ends -> Events] /\ event'[e] = "NEED_FILE_INFO" /\ event'[Peer(e)] = event[Peer(e)]
      BY <3>1, EndsFacts DEF EndsInv, Events
    <3>3. Sound(h[e], event[e]) /\ event[e] \notin Over
      BY <2>1, LiveEnd DEF Ready, Over
    <3>4. ASSUME NEW d \in Ends, Live(d)' PROVE Sound(h[d], event[d])'
      <4>1. CASE d = e
        BY <3>1, <3>2, <3>3, <4>1 DEF Sound
      <4>2. CASE d = Peer(e)
        BY <3>1, <3>2, <3>4, <4>2 DEF EndsInv, Live, Sound
      <4> QED BY <4>1, <4>2, EndsFacts
    <3>5. EndsInv'
      BY <3>1, <3>2, <3>4 DEF EndsInv
    <3> QED BY <2>1, <3>5 DEF dataVars
  <2> QED BY <2>2, <2>3
<1>2. CASE ReadingFileInfo(e)
  <2>1. PICK size \in FileSizes \cup Garbage :
        /\ Reads(e, "info", size)
        /\ Becomes(e, [state |-> "SENDING_FILE_ACK", check |-> "WRITE", size |-> size])
    BY <1>2 DEF ReadingFileInfo
  <2>2. Well([state |-> "SENDING_FILE_ACK", check |-> "WRITE", size |-> size]) /\ "NEED_FILE_ACK" \in Events
    BY DEF Well, Types, Fields, Events
  <2>3. Returns(e, "NEED_FILE_ACK") /\ h[e].state = "READING_FILE_INFO" /\ UNCHANGED dataVars
    BY <1>2 DEF ReadingFileInfo
  <2>4. EndsInv'
    BY <2>1, <2>2, <2>3, ReadGoesOn DEF BufferStates
  <2> QED BY <2>3, <2>4 DEF dataVars
<1>3. CASE SendingFileAck(e)
  <2>1. /\ Live(e) /\ h[e].state = "SENDING_FILE_ACK" /\ UNCHANGED dataVars /\ h[e] \in Connections
        /\ Writes(e, Bytes(<<"file_ack", h[e].offset>>), HeaderComes, "NONE")
    BY <1>3, LiveEnd DEF SendingFileAck, Ready
  <2>2. Bytes(<<"file_ack", h[e].offset>>) \in ByteSeq
    <3>1. h[e].offset \in Int
      BY <2>1 DEF Connections, Number
    <3> QED BY <3>1, BytesFacts DEF PacketKinds
  <2>3. \A x \in Fields : With(HeaderComes, h[e])[x] =
                IF x \in DOMAIN HeaderComes THEN HeaderComes[x] ELSE h[e][x]
    BY <2>1, HeaderComesFacts, WithFacts
  <2>4. /\ With(HeaderComes, h[e]).state = "READING_FILE_HEADER" /\ With(HeaderComes, h[e]).allocated = TRUE
        /\ With(HeaderComes, h[e]).chunkOffset = 0 /\ With(HeaderComes, h[e]).chunkSize = Small
        /\ With(HeaderComes, h[e]).chunkBuf = <<>>
    BY <2>3, HeaderComesFacts DEF Fields
  <2>5. Sound(With(HeaderComes, h[e]), "NONE") /\ "NONE" \in Events
    BY <2>4 DEF Sound, Small, Events
  <2>6. EndsInv'
    BY <2>1, <2>2, <2>5, HeaderComesFacts, WritesType
  <2> QED BY <2>1, <2>6 DEF dataVars
<1>4. CASE ReadingFileAck(e)
  <2>1. PICK offset \in Resumes \cup Garbage :
        /\ Reads(e, "file_ack", offset)
        /\ Becomes(e, [state |-> "SENDING_FILE_HEADER", check |-> "WRITE", offset |-> offset])
    BY <1>4 DEF ReadingFileAck
  <2>2. Well([state |-> "SENDING_FILE_HEADER", check |-> "WRITE", offset |-> offset]) /\ "ACK" \in Events
    BY DEF Well, Types, Fields, Events
  <2>3. Returns(e, "ACK") /\ h[e].state = "READING_FILE_ACK" /\ UNCHANGED dataVars
    BY <1>4 DEF ReadingFileAck
  <2>4. EndsInv'
    BY <2>1, <2>2, <2>3, ReadGoesOn DEF BufferStates
  <2> QED BY <2>3, <2>4 DEF dataVars
<1>5. CASE SendingFileHeader(e)
  <2> DEFINE size == HeaderSize(e)
             f == [state |-> "SENDING_FILE", check |-> "WRITE", chunkSize |-> size,
                   chunkOffset |-> 0, established |-> TRUE]
  <2>1. /\ Live(e) /\ h[e].state = "SENDING_FILE_HEADER" /\ UNCHANGED dataVars /\ h[e] \in Connections
        /\ Writes(e, Bytes(<<"header", size>>), f, "NONE") /\ Sound(h[e], event[e]) /\ event[e] \notin Over
    BY <1>5, LiveEnd DEF SendingFileHeader, Ready, Over
  <2>2. size \in Number /\ size \in Int
    <3>1. size \in Number
      BY <2>1, PieceFacts
    <3> QED BY <3>1 DEF Number
  <2> HIDE DEF size
  <2>3. Bytes(<<"header", size>>) \in ByteSeq
    BY <2>2, BytesFacts DEF PacketKinds
  <2>4. DOMAIN f = {"state", "check", "chunkSize", "chunkOffset", "established"}
        /\ f.state = "SENDING_FILE" /\ f.check = "WRITE" /\ f.chunkSize = size
        /\ f.chunkOffset = 0 /\ f.established = TRUE
    OBVIOUS
  <2> HIDE DEF f
  <2>5. Well(f) /\ "NONE" \in Events
    BY <2>2, <2>4, WellForm DEF Fields, Events
  <2>6. \A x \in Fields : With(f, h[e])[x] = IF x \in DOMAIN f THEN f[x] ELSE h[e][x]
    BY <2>1, <2>5, WithFacts
  <2>7. /\ With(f, h[e]).state = "SENDING_FILE" /\ With(f, h[e]).allocated = h[e].allocated
        /\ With(f, h[e]).chunkOffset = 0 /\ With(f, h[e]).chunkSize = size
    BY <2>4, <2>6 DEF Fields
  <2>8. Sound(With(f, h[e]), "NONE")
    BY <2>1, <2>2, <2>7 DEF Sound, Number
  <2>9. EndsInv'
    BY <2>1, <2>3, <2>5, <2>8, WritesType
  <2> QED BY <2>1, <2>9 DEF dataVars
<1>6. CASE ReadingFileHeader(e)
  BY <1>6, HeaderType DEF dataVars
<1>7. CASE SendingFile(e)
  BY <1>7, SendingFileType DEF dataVars
<1>8. CASE GettingFile(e)
  BY <1>8, GettingType
<1> QED BY <1>1, <1>2, <1>3, <1>4, <1>5, <1>6, <1>7, <1>8 DEF WatchFile

\* The fields of an end that waits for a frame.
LEMMA VoiceComesFacts ==
    ASSUME NEW f, DOMAIN f \subseteq Fields \ {"state", "check"}, Well(f)
    PROVE  LET g == With(f, VoiceComes)
           IN  /\ DOMAIN g = DOMAIN f \cup {"state", "check"} /\ Well(g)
               /\ g.state = "READING_VOICE_HEADER" /\ g.check = "READ"
               /\ \A x \in DOMAIN f : g[x] = f[x]
<1> DEFINE g == With(f, VoiceComes)
<1>1. DOMAIN VoiceComes = {"state", "check"} /\ VoiceComes.state = "READING_VOICE_HEADER"
      /\ VoiceComes.check = "READ"
  BY DEF VoiceComes
<1>2. /\ DOMAIN g = DOMAIN f \cup {"state", "check"}
      /\ g.state = "READING_VOICE_HEADER" /\ g.check = "READ"
      /\ \A x \in DOMAIN f : g[x] = f[x]
  BY <1>1 DEF With
<1> HIDE DEF g
<1>3. g.state \in Types["state"] /\ g.check \in Types["check"]
  BY <1>2, StateNames DEF Types
<1>4. Well(g)
  <2>1. DOMAIN g \subseteq Fields
    BY <1>2 DEF Fields
  <2>2. ASSUME NEW x \in DOMAIN g PROVE g[x] \in Types[x]
    <3>1. CASE x \in DOMAIN f
      BY <1>2, <3>1 DEF Well
    <3>2. CASE x \in {"state", "check"}
      BY <1>3, <3>2
    <3> QED BY <1>2, <3>1, <3>2
  <2> QED BY <2>1, <2>2 DEF Well
<1> QED BY <1>2, <1>4 DEF g

\* So do the steps of a voice chat that only read or write a packet.
LEMMA VoicePlainType ==
    ASSUME TypeInv, NEW e \in Ends,
           SendingVoiceRequest(e) \/ SendingVoiceAck(e) \/ ReadingVoiceAck(e) \/ ReadingVoiceHeader(e)
    PROVE  EndsInv' /\ UNCHANGED dataVars
<1> EndsInv
  BY DEF TypeInv
<1> USE StateNames, ConstantFacts
<1>1. CASE SendingVoiceRequest(e)
  <2>1. Bytes(<<"small", 3>>) \in ByteSeq /\ "NONE" \in Events
    BY BytesFacts DEF Events, PacketKinds
  <2>2. Well([state |-> "READING_VOICE_ACK", check |-> "READ"])
    BY DEF Well, Types, Fields
  <2> QED BY <1>1, <2>1, <2>2, WriteGoesOn DEF SendingVoiceRequest, BufferStates
<1>2. CASE SendingVoiceAck(e)
  <2>1. Bytes(<<"tiny", 1>>) \in ByteSeq /\ "NONE" \in Events
    BY BytesFacts DEF Events, PacketKinds
  <2> DEFINE g == [offset |-> 0]
             f == With(g, VoiceComes)
  <2>2. DOMAIN g = {"offset"} /\ g.offset = 0
    OBVIOUS
  <2> HIDE DEF g
  <2>3. Well(g) /\ DOMAIN g \subseteq Fields \ {"state", "check"}
    BY <2>2, WellForm DEF Fields
  <2>4. /\ DOMAIN f = {"offset", "state", "check"} /\ Well(f) /\ f.state = "READING_VOICE_HEADER"
    BY <2>2, <2>3, VoiceComesFacts
  <2>5. /\ Ready(e) /\ h[e].state = "SENDING_VOICE_ACK" /\ UNCHANGED dataVars
        /\ Writes(e, Bytes(<<"tiny", 1>>), f, "NONE")
    BY <1>2 DEF SendingVoiceAck, g
  <2> HIDE DEF f
  <2> QED BY <2>1, <2>4, <2>5, WriteGoesOn DEF BufferStates
<1>3. CASE ReadingVoiceAck(e)
  <2>1. PICK ack \in {Refused} \cup Garbage :
        /\ Reads(e, "tiny", ack)
        /\ IF ack = 1 THEN Becomes(e, VoiceComes) /\ Returns(e, "ACK") ELSE Fails(e, "REFUSED")
    BY <1>3 DEF ReadingVoiceAck
  <2>2. Well(VoiceComes) /\ VoiceComes.state = "READING_VOICE_HEADER" /\ DOMAIN VoiceComes = {"state", "check"}
    BY DEF Well, Types, Fields, VoiceComes
  <2>3. "ACK" \in Events /\ "REFUSED" \in Over
    BY DEF Events, Over
  <2>4. h[e].state = "READING_VOICE_ACK" /\ UNCHANGED dataVars
    BY <1>3 DEF ReadingVoiceAck
  <2> QED BY <2>1, <2>2, <2>3, <2>4, ReadGoesOn, ReadFails DEF BufferStates
<1>4. CASE ReadingVoiceHeader(e)
  <2>1. PICK type \in Garbage :
        /\ Reads(e, "tiny", type)
        /\ IF type = 3
           THEN /\ Becomes(e, [state |-> "READING_VOICE_SIZE", check |-> "READ", established |-> TRUE])
                /\ UNCHANGED event
           ELSE Fails(e, "ERROR_HANDSHAKE")
    BY <1>4 DEF ReadingVoiceHeader
  <2> DEFINE f == [state |-> "READING_VOICE_SIZE", check |-> "READ", established |-> TRUE]
  <2>2. DOMAIN f = {"state", "check", "established"} /\ f.state = "READING_VOICE_SIZE"
        /\ f.check = "READ" /\ f.established = TRUE
    OBVIOUS
  <2> HIDE DEF f
  <2>3. Well(f)
    BY <2>2, WellForm DEF Fields
  <2>4. "NONE" \in Events /\ "ERROR_HANDSHAKE" \in Over
    BY DEF Events, Over
  <2>5. h[e].state = "READING_VOICE_HEADER" /\ UNCHANGED dataVars
    BY <1>4 DEF ReadingVoiceHeader
  <2>6. CASE Becomes(e, f) /\ UNCHANGED event
    BY <2>1, <2>2, <2>3, <2>4, <2>5, <2>6, ReadGoesOn DEF BufferStates
  <2>7. CASE Fails(e, "ERROR_HANDSHAKE")
    BY <2>1, <2>4, <2>5, <2>7, ReadFails
  <2> QED BY <2>1, <2>6, <2>7 DEF f
<1> QED BY <1>1, <1>2, <1>3, <1>4

\* A frame that is announced fits the buffer and has bytes left.
LEMMA VoiceSizeType ==
    ASSUME TypeInv, NEW e \in Ends, ReadingVoiceSize(e)
    PROVE  EndsInv' /\ UNCHANGED dataVars
<1> EndsInv
  BY DEF TypeInv
<1>1. PICK size \in Frames \cup Garbage :
        /\ Reads(e, "small", size)
        /\ IF size \in MinFrame..MaxFrame
           THEN /\ Becomes(e, [state |-> "READING_VOICE_DATA", check |-> "READ",
                               chunkSize |-> size, chunkOffset |-> 0, voiceBuf |-> <<>>])
                /\ UNCHANGED event
           ELSE Fails(e, "ERROR_NET")
  BY DEF ReadingVoiceSize
<1>2. "ERROR_NET" \in Over /\ "NONE" \in Events
  BY DEF Over, Events
<1>3. h[e].state = "READING_VOICE_SIZE" /\ UNCHANGED dataVars
  BY DEF ReadingVoiceSize
<1>4. CASE Fails(e, "ERROR_NET")
  BY <1>1, <1>2, <1>3, <1>4, ReadFails
<1> DEFINE f == [state |-> "READING_VOICE_DATA", check |-> "READ",
                 chunkSize |-> size, chunkOffset |-> 0, voiceBuf |-> <<>>]
<1>5. CASE size \in MinFrame..MaxFrame /\ Becomes(e, f) /\ UNCHANGED event
  <2>1. /\ DOMAIN f = {"state", "check", "chunkSize", "chunkOffset", "voiceBuf"} /\ f.state = "READING_VOICE_DATA"
        /\ f.check = "READ" /\ f.chunkSize = size /\ f.chunkOffset = 0 /\ f.voiceBuf = <<>>
    OBVIOUS
  <2> HIDE DEF f
  <2>2. <<>> \in ByteSeq /\ size \in Number /\ size > 0 /\ size <= MaxFrame
    <3>1. size \in Number
      BY <1>5, ConstantFacts
    <3>2. MinFrame \in Nat \ {0} /\ MaxFrame \in Int
      BY DccAssumption
    <3>3. size > 0 /\ size <= MaxFrame
      BY <1>5, <3>2
    <3> QED BY <3>1, <3>3 DEF ByteSeq
  <2>3. Well(f)
    BY <2>1, <2>2, WellForm, StateNames, ConstantFacts DEF Fields
  <2>4. /\ Live(e) /\ pipe' \in [Ends -> ByteSeq] /\ h[e] \in Connections /\ Sound(h[e], "NONE")
        /\ "NONE" \notin Over /\ event = [event EXCEPT ![e] = "NONE"]
    BY <1>1, ReadsType
  <2>5. \A x \in Fields : With(f, h[e])[x] = IF x \in DOMAIN f THEN f[x] ELSE h[e][x]
    BY <2>3, <2>4, WithFacts
  <2>6. /\ With(f, h[e]).state = "READING_VOICE_DATA" /\ With(f, h[e]).allocated = h[e].allocated
        /\ With(f, h[e]).chunkOffset = 0 /\ With(f, h[e]).chunkSize = size /\ With(f, h[e]).voiceBuf = <<>>
    BY <2>1, <2>5 DEF Fields
  <2>7. Sound(With(f, h[e]), "NONE")
    BY <1>3, <2>2, <2>4, <2>6 DEF Sound
  <2> QED BY <1>2, <1>3, <1>5, <2>3, <2>4, <2>7, EndChanges
<1> QED BY <1>1, <1>4, <1>5

\* What ReadingVoiceData assigns when a frame is whole, and when it is not.
HeardAll(offset) == With([chunkOffset |-> offset, voiceBuf |-> <<>>], VoiceComes)
HeardMore(offset, buf) == [chunkOffset |-> offset, voiceBuf |-> buf]

\* What is assigned when a part of a frame has come is in range.
LEMMA HeardFacts ==
    ASSUME NEW offset \in Number, NEW buf \in ByteSeq
    PROVE  /\ Well(HeardAll(offset)) /\ Well(HeardMore(offset, buf))
           /\ DOMAIN HeardAll(offset) = {"chunkOffset", "voiceBuf", "state", "check"}
           /\ HeardAll(offset).state = "READING_VOICE_HEADER"
           /\ DOMAIN HeardMore(offset, buf) = {"chunkOffset", "voiceBuf"}
           /\ HeardMore(offset, buf).chunkOffset = offset /\ HeardMore(offset, buf).voiceBuf = buf
<1> DEFINE f == [chunkOffset |-> offset, voiceBuf |-> <<>>]
<1>1. DOMAIN f = {"chunkOffset", "voiceBuf"} /\ f.chunkOffset = offset /\ f.voiceBuf = <<>>
  OBVIOUS
<1> HIDE DEF f
<1>2. Well(f)
  <2>1. <<>> \in ByteSeq
    BY DEF ByteSeq
  <2> QED BY <1>1, <2>1, WellForm DEF Fields
<1>3. /\ DOMAIN HeardMore(offset, buf) = {"chunkOffset", "voiceBuf"}
      /\ HeardMore(offset, buf).chunkOffset = offset /\ HeardMore(offset, buf).voiceBuf = buf
  BY DEF HeardMore
<1>4. Well(HeardMore(offset, buf))
  BY <1>3, WellForm DEF Fields
<1>5. DOMAIN f \subseteq Fields \ {"state", "check"}
  BY <1>1 DEF Fields
<1>6. /\ DOMAIN With(f, VoiceComes) = {"chunkOffset", "voiceBuf", "state", "check"}
      /\ Well(With(f, VoiceComes)) /\ With(f, VoiceComes).state = "READING_VOICE_HEADER"
  BY <1>1, <1>2, <1>5, VoiceComesFacts
<1> QED BY <1>3, <1>4, <1>6 DEF HeardAll, f

\* Bytes of a frame leave the connections in range.
LEMMA VoiceDataType ==
    ASSUME TypeInv, NEW e \in Ends, ReadingVoiceData(e)
    PROVE  EndsInv' /\ heard' \in [Ends -> Seq(ByteSeq)] /\ UNCHANGED <<length, got, said>>
<1>1. /\ EndsInv /\ Live(e) /\ event[e] = "NONE" /\ h[e] \in Connections /\ h[e].state = "READING_VOICE_DATA"
      /\ UNCHANGED <<length, got, said>> /\ event[e] \notin Over /\ Sound(h[e], event[e])
      /\ pipe[e] \in ByteSeq /\ heard \in [Ends -> Seq(ByteSeq)]
  BY LiveEnd DEF ReadingVoiceData, Ready, Over, TypeInv, DataInv
<1>2. /\ h[e].chunkOffset < h[e].chunkSize /\ ~h[e].allocated /\ Len(h[e].voiceBuf) = h[e].chunkOffset
      /\ h[e].chunkOffset \in Number /\ h[e].chunkSize \in Number /\ h[e].chunkSize <= MaxFrame
      /\ h[e].voiceBuf \in ByteSeq
  BY <1>1 DEF Sound, Connections
<1>3. Len(pipe[e]) \in Nat /\ h[e].chunkOffset \in Int /\ h[e].chunkSize \in Int /\ h[e].chunkOffset >= 0
  BY <1>1, <1>2, ConstantFacts DEF ByteSeq, Number
<1> DEFINE m == Min({Unsigned(h[e].chunkSize - h[e].chunkOffset), Len(pipe[e])})
<1>4. m \in Nat /\ m <= Len(pipe[e]) /\ m <= h[e].chunkSize - h[e].chunkOffset
  BY <1>1, <1>2, <1>3, PieceFacts
<1> HIDE DEF m
<1>5. CASE Fails(e, "ERROR_NET") /\ UNCHANGED <<pipe, heard>>
  BY <1>1, <1>5, EndFails DEF Fails, Returns, Over, EndsInv
<1>6. ASSUME NEW n \in 1..m, pipe' = Consumed(e, n), NEW buf, buf = h[e].voiceBuf \o SubSeq(pipe[e], 1, n),
             NEW offset, offset = h[e].chunkOffset + n,
             IF offset >= h[e].chunkSize
             THEN /\ Becomes(e, HeardAll(offset))
                  /\ heard' = [heard EXCEPT ![e] = Append(@, buf)]
                  /\ Returns(e, "VOICE_DATA")
             ELSE Becomes(e, HeardMore(offset, buf)) /\ UNCHANGED <<heard, event>>
      PROVE  EndsInv' /\ heard' \in [Ends -> Seq(ByteSeq)]
  <2>1. n \in 0..Len(pipe[e]) /\ n \in Nat /\ n >= 1 /\ n <= h[e].chunkSize - h[e].chunkOffset
    BY <1>3, <1>4
  <2>2. pipe' \in [Ends -> ByteSeq]
    BY <1>1, <1>6, <2>1, PipeType
  <2>3. buf \in ByteSeq /\ Len(buf) = offset
    <3>1. SubSeq(pipe[e], 1, n) \in ByteSeq /\ Len(SubSeq(pipe[e], 1, n)) = n
      BY <1>1, <2>1, SeqFacts DEF ByteSeq
    <3> QED BY <1>2, <1>6, <3>1, SeqFacts DEF ByteSeq
  <2>4. offset \in Number /\ offset \in Int
    <3>1. offset \in Int /\ offset >= 0 /\ offset <= h[e].chunkSize
      BY <1>3, <1>6, <2>1
    <3> QED BY <1>2, <3>1, ConstantFacts DEF Number
  <2>5. /\ Well(HeardAll(offset)) /\ Well(HeardMore(offset, buf))
        /\ DOMAIN HeardAll(offset) = {"chunkOffset", "voiceBuf", "state", "check"}
        /\ HeardAll(offset).state = "READING_VOICE_HEADER"
        /\ DOMAIN HeardMore(offset, buf) = {"chunkOffset", "voiceBuf"}
        /\ HeardMore(offset, buf).chunkOffset = offset /\ HeardMore(offset, buf).voiceBuf = buf
    BY <2>3, <2>4, HeardFacts
  <2>6. "VOICE_DATA" \in Events /\ "NONE" \in Events /\ event = [event EXCEPT ![e] = "NONE"]
    BY <1>1 DEF Events, EndsInv
  <2>7. CASE /\ Becomes(e, HeardAll(offset)) /\ Returns(e, "VOICE_DATA")
             /\ heard' = [heard EXCEPT ![e] = Append(@, buf)]
    <3>1. Sound(With(HeardAll(offset), h[e]), "VOICE_DATA")
      BY <1>1, <2>5, SoundPlain DEF BufferStates
    <3>2. heard' \in [Ends -> Seq(ByteSeq)]
      <4>1. Append(heard[e], buf) \in Seq(ByteSeq)
        BY <1>1, <2>3
      <4> QED BY <1>1, <2>7, <4>1
    <3> QED BY <1>1, <2>2, <2>5, <2>6, <2>7, <3>1, <3>2, EndChanges DEF Returns
  <2>8. CASE /\ ~(offset >= h[e].chunkSize)
             /\ Becomes(e, HeardMore(offset, buf)) /\ UNCHANGED <<heard, event>>
    <3> DEFINE f == HeardMore(offset, buf)
    <3>1. \A x \in Fields : With(f, h[e])[x] = IF x \in DOMAIN f THEN f[x] ELSE h[e][x]
      BY <1>1, <2>5, WithFacts
    <3>2. /\ With(f, h[e]).state = "READING_VOICE_DATA" /\ With(f, h[e]).allocated = h[e].allocated
          /\ With(f, h[e]).chunkOffset = offset /\ With(f, h[e]).chunkSize = h[e].chunkSize
          /\ With(f, h[e]).voiceBuf = buf
      BY <1>1, <2>5, <3>1 DEF Fields
    <3>3. Sound(With(f, h[e]), "NONE")
      BY <1>2, <1>3, <2>3, <2>4, <2>8, <3>2 DEF Sound
    <3> QED BY <1>1, <2>2, <2>5, <2>6, <2>8, <3>3, EndChanges
  <2> QED BY <1>6, <2>7, <2>8
<1> QED BY <1>1, <1>5, <1>6 DEF ReadingVoiceData, m, HeardAll, HeardMore

\* The packets of a frame are bytes.
LEMMA PacketsFacts ==
    ASSUME NEW n \in Nat, NEW size \in Frames
    PROVE  Packets(n, size) \in ByteSeq
<1>1. Bytes(<<"tiny", 3>>) \in ByteSeq
  BY BytesFacts DEF PacketKinds
<1>2. size \in Nat
  BY ConstantFacts
<1>3. Bytes(<<"small", size>>) \in ByteSeq
  BY <1>2, BytesFacts DEF PacketKinds
<1>4. FrameBytes(n, size) \in ByteSeq
  BY <1>2, BytesFacts
<1> HIDE DEF Packets
<1>5. Bytes(<<"tiny", 3>>) \o Bytes(<<"small", size>>) \in ByteSeq
  BY <1>1, <1>3, SeqFacts DEF ByteSeq
<1> QED BY <1>4, <1>5, SeqFacts DEF ByteSeq, Packets

\* gg_dcc_voice_send leaves the connections in range.
LEMMA VoiceSendType ==
    ASSUME TypeInv, NEW e \in Ends, VoiceSend(e)
    PROVE  EndsInv' /\ said' \in [Ends -> Seq(Frames)] /\ UNCHANGED <<length, got, heard>>
<1>1. /\ EndsInv /\ said \in [Ends -> Seq(Frames)] /\ UNCHANGED <<h, event, length, got, heard>>
  BY DEF VoiceSend, TypeInv, DataInv
<1>2. PICK size \in Frames :
        LET all == Packets(Len(said[e]) + 1, size)
        IN  /\ said' = [said EXCEPT ![e] = Append(@, size)]
            /\ \/ pipe' = Delivered(e, all) /\ UNCHANGED faults
               \/ \E n \in 0..Len(all) - 1 :
                    pipe' = Delivered(e, SubSeq(all, 1, n)) /\ Fault("short write")
  BY DEF VoiceSend
<1> DEFINE all == Packets(Len(said[e]) + 1, size)
<1>3. all \in ByteSeq
  <2>1. Len(said[e]) + 1 \in Nat
    BY <1>1
  <2> QED BY <2>1, PacketsFacts
<1>4. said' \in [Ends -> Seq(Frames)]
  <2>1. said' = [said EXCEPT ![e] = Append(said[e], size)]
    BY <1>2
  <2>2. Append(said[e], size) \in Seq(Frames)
    BY <1>1
  <2> QED BY <1>1, <2>1, <2>2
<1> HIDE DEF all
<1>5. pipe' \in [Ends -> ByteSeq]
  <2>1. CASE pipe' = Delivered(e, all)
    BY <1>1, <1>3, <2>1, PipeType
  <2>2. ASSUME NEW n \in 0..Len(all) - 1, pipe' = Delivered(e, SubSeq(all, 1, n)) PROVE pipe' \in [Ends -> ByteSeq]
    <3>1. n \in 0..Len(all)
      BY <1>3 DEF ByteSeq
    <3>2. SubSeq(all, 1, n) \in ByteSeq
      BY <1>3, <3>1, SeqFacts DEF ByteSeq
    <3> QED BY <1>1, <2>2, <3>2, PipeType
  <2> QED BY <1>2, <2>1, <2>2 DEF all
<1>6. EndsInv'
  BY <1>1, <1>5 DEF EndsInv, Live
<1> QED BY <1>1, <1>4, <1>6

\* Every step of a voice chat leaves the connections in range.
LEMMA VoiceType ==
    ASSUME TypeInv, NEW e \in Ends, WatchVoice(e)
    PROVE  EndsInv' /\ heard' \in [Ends -> Seq(ByteSeq)] /\ UNCHANGED <<length, got, said>>
<1>1. heard \in [Ends -> Seq(ByteSeq)]
  BY DEF TypeInv, DataInv
<1>2. CASE ReadingVoiceData(e)
  BY <1>2, VoiceDataType
<1>3. CASE ~ReadingVoiceData(e)
  <2>1. EndsInv' /\ UNCHANGED dataVars
    BY <1>3, VoicePlainType, VoiceSizeType DEF WatchVoice
  <2> QED BY <1>1, <2>1 DEF dataVars
<1> QED BY <1>2, <1>3

\* A call of gg_dcc_watch_fd leaves everything in range.
LEMMA WatchType ==
    ASSUME TypeInv, NEW e \in Ends, Watch(e)
    PROVE  TypeInv'
<1>1. CASE WatchHandshake(e)
  BY <1>1, HandshakeType DEF TypeInv, DataInv, dataVars, Watch
<1>2. CASE WatchFile(e)
  BY <1>2, FileType DEF TypeInv, DataInv, Watch
<1>3. CASE WatchVoice(e)
  BY <1>3, VoiceType DEF TypeInv, DataInv, Watch
<1> QED BY <1>1, <1>2, <1>3 DEF Watch

\* A connection that has just begun.
LEMMA BeginFacts ==
    ASSUME NEW f, Well(f), DOMAIN f = {"state", "type", "check", "uin", "peerUin"},
           f.state \in States \ BufferStates
    PROVE  LET c == With(f, Fresh)
           IN  /\ c \in Connections /\ c.state = f.state /\ c.type = f.type /\ c.uin = f.uin
               /\ c.peerUin = f.peerUin /\ c.offset = 0 /\ c.file = FALSE /\ c.check = f.check
               /\ Sound(c, "NONE")
<1> DEFINE c == With(f, Fresh)
<1>1. /\ DOMAIN Fresh = Fields \ DOMAIN f
      /\ Fresh.offset = 0 /\ Fresh.size = 0 /\ Fresh.file = FALSE /\ Fresh.chunkSize = 0
      /\ Fresh.chunkOffset = 0 /\ Fresh.chunkBuf = <<>> /\ Fresh.allocated = FALSE
      /\ Fresh.voiceBuf = <<>> /\ Fresh.established = FALSE
  BY DEF Fresh, Fields
<1>2. c = [x \in Fields |-> IF x \in DOMAIN f THEN f[x] ELSE Fresh[x]]
  <2>1. DOMAIN f \cup DOMAIN Fresh = Fields
    BY <1>1 DEF Fields
  <2> QED BY <2>1 DEF With
<1> HIDE DEF c
<1>3. c = [x \in Fields |-> c[x]] /\ \A x \in Fields : c[x] = IF x \in DOMAIN f THEN f[x] ELSE Fresh[x]
  BY <1>2
<1>4. \A x \in Fields : c[x] \in Types[x]
  <2>1. <<>> \in ByteSeq
    BY DEF ByteSeq
  <2>2. \A x \in Fields \ DOMAIN f : Fresh[x] \in Types[x]
    <3>1. /\ Fresh.offset \in Number /\ Fresh.size \in Number /\ Fresh.file \in BOOLEAN
          /\ Fresh.chunkSize \in Number /\ Fresh.chunkOffset \in Number /\ Fresh.chunkBuf \in ByteSeq
          /\ Fresh.allocated \in BOOLEAN /\ Fresh.voiceBuf \in ByteSeq /\ Fresh.established \in BOOLEAN
      BY <1>1, <2>1, ConstantFacts
    <3> QED BY <3>1 DEF Types, Fields
  <2> QED BY <1>3, <2>2 DEF Well
<1>5. c \in Connections
  BY <1>3, <1>4, ConnectionForm
<1>6. /\ c.state = f.state /\ c.type = f.type /\ c.uin = f.uin /\ c.peerUin = f.peerUin
      /\ c.check = f.check /\ c.offset = 0 /\ c.file = FALSE /\ c.allocated = FALSE
  BY <1>1, <1>3 DEF Fields
<1>7. Sound(c, "NONE")
  BY <1>6 DEF Sound, BufferStates
<1> QED BY <1>5, <1>6, <1>7 DEF c

\* One end is replaced.
LEMMA EndReplaced ==
    ASSUME EndsInv, NEW e \in Ends, NEW c \in Connections \cup {None, Closed}, h' = [h EXCEPT ![e] = c],
           pipe' \in [Ends -> ByteSeq], NEW v \in Events, event' = [event EXCEPT ![e] = v],
           c \in Connections => Sound(c, v)
    PROVE  EndsInv'
<1>1. /\ h'[e] = c /\ h'[Peer(e)] = h[Peer(e)] /\ event'[e] = v /\ event'[Peer(e)] = event[Peer(e)]
      /\ h' \in [Ends -> Connections \cup {None, Closed}] /\ event' \in [Ends -> Events]
  BY EndsFacts DEF EndsInv
<1>2. ASSUME NEW d \in Ends, Live(d)' PROVE Sound(h[d], event[d])'
  <2>1. CASE d = e
    <3>1. c \in Connections
      BY <1>1, <1>2, <2>1 DEF Live, None, Closed
    <3> QED BY <1>1, <2>1, <3>1
  <2>2. CASE d = Peer(e)
    BY <1>1, <1>2, <2>2 DEF EndsInv, Live, Sound
  <2> QED BY <2>1, <2>2, EndsFacts
<1> QED BY <1>1, <1>2 DEF EndsInv

\* A connection that begins is in range.
LEMMA BeginsType ==
    ASSUME TypeInv, Accepts \/ Transfer
    PROVE  TypeInv'
<1>1. EndsInv /\ DataInv /\ pipe \in [Ends -> ByteSeq] /\ Ends = {"caller", "listener"}
      /\ "NONE" \in Events
  BY DEF TypeInv, EndsInv, Ends, Events
<1>2. CASE Accepts
  <2> DEFINE f == [state |-> "READING_UIN_1", type |-> "DCC", check |-> "READ", uin |-> 0, peerUin |-> 0]
             c == With(f, Fresh)
  <2>1. /\ h.listener = None /\ h' = [h EXCEPT !.listener = c]
        /\ UNCHANGED <<event, pipe, dataVars, plan, link, outcome>>
    BY <1>2 DEF Accepts, Accept
  <2>2. /\ DOMAIN f = {"state", "type", "check", "uin", "peerUin"} /\ f.state = "READING_UIN_1"
        /\ f.type = "DCC" /\ f.check = "READ" /\ f.uin = 0 /\ f.peerUin = 0
    OBVIOUS
  <2> HIDE DEF f
  <2>3. Well(f) /\ f.state \in States \ BufferStates
    BY <2>2, StateNames, ConstantFacts, WellForm DEF Fields, BufferStates
  <2>4. c \in Connections /\ Sound(c, "NONE") /\ c.state = "READING_UIN_1"
    BY <2>2, <2>3, BeginFacts
  <2>5. Sound(c, event["listener"])
    BY <2>4 DEF Sound, BufferStates, Over
  <2> HIDE DEF c
  <2>6. event' = [event EXCEPT !["listener"] = event["listener"]] /\ event["listener"] \in Events
    BY <1>1, <2>1 DEF EndsInv
  <2>7. EndsInv'
    <3>1. "listener" \in Ends /\ h' = [h EXCEPT !["listener"] = c] /\ pipe' \in [Ends -> ByteSeq]
      BY <1>1, <2>1
    <3> QED BY <1>1, <2>4, <2>5, <2>6, <3>1, EndReplaced
  <2> QED BY <1>1, <2>1, <2>7 DEF TypeInv, DataInv, dataVars
<1>3. CASE Transfer
  <2> DEFINE f == [state |-> "CONNECTING", check |-> "WRITE", uin |-> Uin("caller"),
                      peerUin |-> Uin("listener"),
                      type |-> IF plan.callback THEN "GET" ELSE IF plan.voice THEN "VOICE" ELSE "SEND"]
             c == With(f, Fresh)
  <2>1. /\ h.caller = None /\ h' = [h EXCEPT !.caller = c]
        /\ UNCHANGED <<event, pipe, dataVars, plan, link, outcome>>
    BY <1>3 DEF Transfer
  <2>2. /\ DOMAIN f = {"state", "type", "check", "uin", "peerUin"} /\ f.state = "CONNECTING"
        /\ f.type \in {"GET", "VOICE", "SEND"} /\ f.check = "WRITE" /\ f.uin = 1 /\ f.peerUin = 2
    BY DEF Uin
  <2> HIDE DEF f
  <2>3. Well(f) /\ f.state \in States \ BufferStates
    BY <2>2, StateNames, ConstantFacts, WellForm DEF Fields, BufferStates
  <2>4. c \in Connections /\ Sound(c, "NONE") /\ c.state = "CONNECTING"
    BY <2>2, <2>3, BeginFacts
  <2>5. Sound(c, event["caller"])
    BY <2>2, <2>3, <2>4, BeginFacts DEF Sound, BufferStates, Over
  <2> HIDE DEF c
  <2>6. event' = [event EXCEPT !["caller"] = event["caller"]] /\ event["caller"] \in Events
    BY <1>1, <2>1 DEF EndsInv
  <2>7. EndsInv'
    <3>1. "caller" \in Ends /\ h' = [h EXCEPT !["caller"] = c] /\ pipe' \in [Ends -> ByteSeq]
      BY <1>1, <2>1
    <3> QED BY <1>1, <2>4, <2>5, <2>6, <3>1, EndReplaced
  <2> QED BY <1>1, <2>1, <2>7 DEF TypeInv, DataInv, dataVars
<1> QED BY <1>2, <1>3

\* The program gives an end some fields.
LEMMA GivenType ==
    ASSUME TypeInv, NEW e \in Ends, NEW f, Well(f), NEW events, Given(e, f, events), events \cap Over = {},
           got' \in ByteSeq,
           \/ DOMAIN f \cap BufferFields = {}
           \/ /\ events = {"CALLBACK"} /\ "state" \in DOMAIN f /\ f.state \notin BufferStates
              /\ "allocated" \notin DOMAIN f
    PROVE  TypeInv'
<1>1. /\ EndsInv /\ DataInv /\ Live(e) /\ Becomes(e, f) /\ event' = [event EXCEPT ![e] = "NONE"]
      /\ UNCHANGED <<plan, sock, pipe, faults, length, said, heard, link, outcome>> /\ event[e] \notin Over
      /\ event[e] \in events /\ "NONE" \in Events /\ pipe' \in [Ends -> ByteSeq]
  BY DEF TypeInv, Given, Returns, Events, EndsInv
<1>2. h[e] \in Connections /\ Sound(h[e], event[e])
  BY <1>1, LiveEnd
<1>3. events = {"CALLBACK"} => h[e].state # "READING_FILE_HEADER"
  BY <1>1, <1>2 DEF Sound, BufferStates
<1>4. Sound(With(f, h[e]), "NONE")
  BY <1>1, <1>2, <1>3, SoundPlain
<1>5. EndsInv'
  BY <1>1, <1>4, EndChanges
<1> QED BY <1>1, <1>5 DEF TypeInv, DataInv

\* What the programs assign is in range.
LEMMA HandlesType ==
    ASSUME TypeInv, NEW e \in Ends, SetType(e) \/ AcceptFile(e) \/ GoesOn(e) \/ FillFileInfo(e)
    PROVE  TypeInv'
<1>0. got \in ByteSeq /\ length \in FileSizes /\ plan.resume \in Resumes
  BY DEF TypeInv, DataInv
<1>1. CASE SetType(e)
  <2> DEFINE a == [type |-> "VOICE", state |-> "SENDING_VOICE_REQUEST"]
             b == [type |-> "SEND", state |-> "SENDING_FILE_INFO"]
  <2>1. Given(e, IF plan.voice THEN a ELSE b, {"CALLBACK"}) /\ UNCHANGED got
    BY <1>1 DEF SetType
  <2>2. Well(a) /\ Well(b) /\ a.state \notin BufferStates /\ b.state \notin BufferStates
        /\ DOMAIN a = {"type", "state"} /\ DOMAIN b = {"type", "state"}
    BY StateNames DEF Well, Types, Fields, BufferStates
  <2>3. {"CALLBACK"} \cap Over = {}
    BY DEF Over
  <2> HIDE DEF a, b
  <2> QED BY <1>0, <2>1, <2>2, <2>3, GivenType
<1>2. CASE AcceptFile(e)
  <2> DEFINE f == [file |-> TRUE, offset |-> plan.resume]
  <2>1. Given(e, f, {"NEED_FILE_ACK"}) /\ got' = FileBytes(0, plan.resume)
    BY <1>2 DEF AcceptFile
  <2>2. DOMAIN f = {"file", "offset"} /\ f.file = TRUE /\ f.offset = plan.resume
    OBVIOUS
  <2> HIDE DEF f
  <2>3. plan.resume \in Number
    BY <1>0, ConstantFacts
  <2>4. Well(f) /\ DOMAIN f \cap BufferFields = {}
    BY <2>2, <2>3, WellForm DEF Fields, BufferFields
  <2>5. {"NEED_FILE_ACK"} \cap Over = {}
    BY DEF Over
  <2>6. got' \in ByteSeq
    <3>1. plan.resume \in Nat
      BY <2>3, ConstantFacts DEF Number
    <3>2. \A n \in Nat : FileBytes(0, n) \in ByteSeq
      BY BytesFacts
    <3> QED BY <2>1, <3>1, <3>2
  <2> QED BY <2>1, <2>4, <2>5, <2>6, GivenType
<1>3. CASE GoesOn(e)
  <2>1. Given(e, <<>>, {"CLIENT_ACCEPT", "ACK", "NEED_VOICE_ACK", "VOICE_DATA"}) /\ UNCHANGED got
    BY <1>3 DEF GoesOn
  <2>2. Well(<<>>) /\ DOMAIN <<>> \cap BufferFields = {}
    BY DEF Well
  <2>3. {"CLIENT_ACCEPT", "ACK", "NEED_VOICE_ACK", "VOICE_DATA"} \cap Over = {}
    BY DEF Over
  <2> QED BY <1>0, <2>1, <2>2, <2>3, GivenType
<1>4. CASE FillFileInfo(e)
  <2> DEFINE f == [size |-> length, file |-> TRUE]
  <2>1. Given(e, f, {"NONE", "NEED_FILE_INFO"}) /\ UNCHANGED got
    BY <1>4 DEF FillFileInfo
  <2>2. DOMAIN f = {"size", "file"} /\ f.file = TRUE /\ f.size = length
    OBVIOUS
  <2> HIDE DEF f
  <2>3. length \in Number
    BY <1>0, ConstantFacts
  <2>4. Well(f) /\ DOMAIN f \cap BufferFields = {}
    BY <2>2, <2>3, WellForm DEF Fields, BufferFields
  <2>5. {"NONE", "NEED_FILE_INFO"} \cap Over = {}
    BY DEF Over
  <2> QED BY <1>0, <2>1, <2>4, <2>5, GivenType
<1> QED BY <1>1, <1>2, <1>3, <1>4

\* A connection that is freed leaves the rest in range.
LEMMA FreesType ==
    ASSUME TypeInv, NEW e \in Ends, NEW why \in Over \cup {"NONE", "GIVEN_UP"}, Frees(e, why)
    PROVE  TypeInv'
<1>1. /\ EndsInv /\ DataInv /\ h' = [h EXCEPT ![e] = Closed] /\ event' = [event EXCEPT ![e] = "NONE"]
      /\ pipe' = [pipe EXCEPT ![e] = <<>>] /\ outcome' = [outcome EXCEPT ![e] = why]
      /\ UNCHANGED <<plan, sock, dataVars, link>> /\ "NONE" \in Events
  BY DEF TypeInv, Frees, Events
<1>2. Closed \notin Connections
  BY LiveFacts
<1>3. pipe' \in [Ends -> ByteSeq]
  <2>1. <<>> \in ByteSeq
    BY DEF ByteSeq
  <2> QED BY <1>1, <2>1 DEF EndsInv
<1>4. EndsInv'
  BY <1>1, <1>2, <1>3, EndReplaced
<1> QED BY <1>1, <1>4 DEF TypeInv, DataInv, dataVars

\* What happens to the connection and the file.
LEMMA WorldType ==
    ASSUME TypeInv, Breaks \/ FileChanges \/ (\E asked \in Asked : SocketCreate(asked))
                    \/ (\E e \in Ends : Refuses(e))
    PROVE  TypeInv'
<1>1. EndsInv /\ DataInv /\ pipe \in [Ends -> ByteSeq]
  BY DEF TypeInv, EndsInv
<1>2. CASE Breaks
  <2>1. link' = "broken" /\ pipe' = [e \in Ends |-> <<>>] /\ UNCHANGED <<plan, sock, h, event, dataVars, outcome>>
    BY <1>2 DEF Breaks
  <2>2. <<>> \in ByteSeq
    BY DEF ByteSeq
  <2>3. pipe' \in [Ends -> ByteSeq]
    BY <2>1, <2>2
  <2>4. EndsInv'
    BY <1>1, <2>1, <2>3 DEF EndsInv, Live
  <2> QED BY <1>1, <2>1, <2>4 DEF TypeInv, DataInv, dataVars
<1>3. CASE FileChanges
  <2>1. length' \in FileSizes /\ UNCHANGED <<plan, sock, h, event, pipe, got, said, heard, link, outcome>>
    BY <1>3 DEF FileChanges
  <2>2. EndsInv'
    BY <1>1, <2>1 DEF EndsInv, Live
  <2> QED BY <1>1, <2>1, <2>2 DEF TypeInv, DataInv
<1>4. CASE \E asked \in Asked : SocketCreate(asked)
  <2>1. UNCHANGED <<plan, h, event, pipe, dataVars, link, outcome>>
    BY <1>4 DEF SocketCreate, endVars
  <2>2. EndsInv'
    BY <1>1, <2>1 DEF EndsInv, Live
  <2> QED BY <1>1, <2>1, <2>2 DEF TypeInv, DataInv, dataVars
<1>5. ASSUME NEW e \in Ends, Refuses(e) PROVE TypeInv'
  <2>1. PICK packet \in {<<"header", Refused>>, <<"tiny", Refused>>} : pipe' = Delivered(e, Bytes(packet))
    BY <1>5 DEF Refuses, RefusesFile, RefusesVoice
  <2>2. UNCHANGED <<plan, h, event, dataVars, link, outcome>>
    BY <1>5 DEF Refuses, RefusesFile, RefusesVoice
  <2>3. Bytes(packet) \in ByteSeq
    <3>1. Refused \in Int /\ Refused \in {Refused} \cup Number
      BY DEF Refused
    <3>2. Bytes(<<"header", Refused>>) \in ByteSeq
      BY <3>1, BytesFacts DEF PacketKinds
    <3>3. Bytes(<<"tiny", Refused>>) \in ByteSeq
      BY <3>1, BytesFacts DEF PacketKinds
    <3> QED BY <3>2, <3>3
  <2>4. pipe' \in [Ends -> ByteSeq]
    BY <1>1, <2>1, <2>3, PipeType
  <2>5. EndsInv'
    BY <1>1, <2>2, <2>4 DEF EndsInv, Live
  <2> QED BY <1>1, <2>2, <2>5 DEF TypeInv, DataInv, dataVars
<1> QED BY <1>2, <1>3, <1>4, <1>5

\* Everything is in range at the start.
LEMMA TypeInit ==
    ASSUME Init
    PROVE  TypeInv
<1>1. /\ plan \in [voice : BOOLEAN, callback : BOOLEAN, resume : Resumes, size : FileSizes]
      /\ h = [e \in Ends |-> None] /\ event = [e \in Ends |-> "NONE"]
      /\ link = "up" /\ pipe = [e \in Ends |-> <<>>] /\ length = plan.size /\ got = <<>>
      /\ said = [e \in Ends |-> <<>>] /\ heard = [e \in Ends |-> <<>>] /\ outcome = [e \in Ends |-> "NONE"]
  BY DEF Init
<1>2. <<>> \in ByteSeq /\ <<>> \in Seq(Frames) /\ <<>> \in Seq(ByteSeq) /\ "NONE" \in Events
  BY DEF ByteSeq, Events
<1>3. EndsInv
  BY <1>1, <1>2 DEF EndsInv, Live, None
<1>4. DataInv
  BY <1>1, <1>2 DEF DataInv
<1> QED BY <1>3, <1>4 DEF TypeInv

\* Every step leaves everything in range.
LEMMA TypeNext ==
    ASSUME TypeInv, [Next]_vars
    PROVE  TypeInv'
<1>1. CASE UNCHANGED vars
  BY <1>1 DEF vars, TypeInv, EndsInv, DataInv, Live
<1>2. CASE Next
  <2>1. CASE \E asked \in Asked : SocketCreate(asked)
    BY <2>1, WorldType
  <2>2. CASE Transfer \/ Accepts
    BY <2>2, BeginsType
  <2>3. CASE Breaks \/ FileChanges
    BY <2>3, WorldType
  <2>4. ASSUME NEW e \in Ends, Watch(e) \/ Handles(e) \/ Says(e) \/ GivesUp(e) \/ Refuses(e) PROVE TypeInv'
    <3>1. CASE Watch(e)
      BY <3>1, WatchType
    <3>2. CASE SetType(e) \/ AcceptFile(e) \/ GoesOn(e) \/ FillFileInfo(e)
      BY <3>2, HandlesType
    <3>3. CASE DccFree(e)
      BY <3>3, FreesType DEF DccFree
    <3>4. CASE GivesUp(e)
      BY <3>4, FreesType DEF GivesUp
    <3>5. CASE Says(e)
      BY <3>5, VoiceSendType DEF Says, TypeInv, DataInv
    <3>6. CASE Refuses(e)
      BY <3>6, WorldType
    <3> QED BY <2>4, <3>1, <3>2, <3>3, <3>4, <3>5, <3>6 DEF Handles
  <2> QED BY <1>2, <2>1, <2>2, <2>3, <2>4 DEF Next
<1> QED BY <1>1, <1>2

\* Everything is in range all the time.
LEMMA TypeInvariance == Spec => []TypeInv
<1>1. Init => TypeInv
  BY TypeInit
<1>2. TypeInv /\ [Next]_vars => TypeInv'
  BY TypeNext
<1> QED BY <1>1, <1>2, PTL DEF Spec

\* The fields of both connections are in range, and no state reads into a
\* buffer that is not there or has no room (libgadu's gg_dcc_watch_fd).
THEOREM TypeCorrect == Spec => []TypeOK
<1>1. TypeInv => TypeOK
  <2>1. "NONE" \notin Over
    BY DEF Over
  <2>2. ASSUME TypeInv, NEW e \in Ends, Live(e), event[e] = "NONE" PROVE Sound(h[e], "NONE")
    BY <2>2, LiveEnd DEF TypeInv
  <2>3. TypeInv => BuffersFit
    BY <2>1, <2>2 DEF BuffersFit, Sound
  <2> QED BY <2>3 DEF TypeInv, EndsInv, DataInv, TypeOK
<1> QED BY <1>1, TypeInvariance, PTL

(***************************************************************************)
(* The stream: places in it, and bytes that lead between them.             *)
(***************************************************************************)

\* Where a stream is: what is written or read next.
Place(at, n, left, size) == [at |-> at, n |-> n, left |-> left, size |-> size]
At(stage) == Place(stage, 0, 0, 0)
Header(n, size) == Place("header", n, 0, size)
Data(n, left, size) == Place("data", n, left, size)
Frame(n) == Place("frame", n, 0, 0)
FrameSize(n) == Place("frame_size", n, 0, 0)
Voice(n, left, size) == Place("voice", n, left, size)
Inside(rest, next) == [at |-> "inside", rest |-> rest, next |-> next]
Lost == At("lost")

\* What is said to an end, and what it waits for when both have met.
Script(e) == [voice |-> plan.voice, callback |-> plan.callback, resume |-> plan.resume, said |-> said[Peer(e)]]
Expects(x, e) ==
    IF (e = "listener") = x.callback THEN At(IF x.voice THEN "voice_ack" ELSE "file_ack") ELSE At("request")

\* The packets that may come at a place.
Fixed(x) ==
    [uin1 |-> <<"uin", 1>>, uin2 |-> <<"uin", 2>>, type |-> <<"small", IF x.callback THEN 3 ELSE 2>>,
     ack |-> <<"ack", 1>>, request |-> <<"small", IF x.voice THEN 3 ELSE 1>>,
     file_ack |-> <<"file_ack", x.resume>>, frame |-> <<"tiny", 3>>]
Announced(n, size) == Min({Unsigned(size - n), MaxChunk})
Comes(x, p, packet) ==
    \/ p.at \in DOMAIN Fixed(x) /\ packet = Fixed(x)[p.at]
    \/ p.at = "info" /\ packet[1] = "info" /\ packet[2] \in Number
    \/ p.at = "header" /\ packet \in {<<"header", Announced(p.n, p.size)>>, <<"header", Refused>>}
    \/ p.at = "voice_ack" /\ packet \in {<<"tiny", 1>>, <<"tiny", Refused>>}
    \/ p.at = "data" /\ p.left > 0 /\ p.n < p.size /\ packet = <<"data", p.n + 1>>
    \/ p.at = "frame_size" /\ p.n \in 0..Len(x.said) - 1 /\ packet = <<"small", x.said[p.n + 1]>>
Then(x, p, packet) ==
    CASE p.at = "uin1" -> At("uin2")
      [] p.at = "uin2" -> At("type")
      [] p.at = "type" -> Expects(x, "listener")
      [] p.at = "ack" -> Expects(x, "caller")
      [] p.at = "request" -> IF x.voice THEN Frame(0) ELSE At("info")
      [] p.at = "info" -> Header(x.resume, packet[2])
      [] p.at = "file_ack" -> At("end")
      [] p.at = "voice_ack" -> IF packet[2] = 1 THEN Frame(0) ELSE Lost
      [] p.at = "header" -> IF packet[2] = Refused THEN Lost ELSE Data(p.n, packet[2], p.size)
      [] p.at = "data" -> IF p.left = 1 THEN Header(p.n + 1, p.size) ELSE Data(p.n + 1, p.left - 1, p.size)
      [] p.at = "frame" -> FrameSize(p.n)
      [] p.at = "frame_size" -> IF packet[2] = 0 THEN Frame(p.n + 1) ELSE Voice(p.n, packet[2], packet[2])

\* The bytes that may come, and where each leads.
Fits(x, p, y) ==
    CASE p.at = "lost" -> TRUE
      [] p.at = "inside" -> y = p.rest
      [] p.at = "voice" -> p.left > 0 /\ y = <<<<"voice", p.n + 1>>, p.size - p.left + 1>>
      [] OTHER -> y[2] = 1 /\ Comes(x, p, y[1])
After(x, p, y) ==
    CASE p.at = "lost" -> p
      [] p.at = "inside" -> p.next
      [] p.at = "voice" -> IF p.left = 1 THEN Frame(p.n + 1) ELSE Voice(p.n, p.left - 1, p.size)
      [] OTHER -> IF Size(y[1]) = 1 THEN Then(x, p, y[1]) ELSE Inside(<<y[1], 2>>, Then(x, p, y[1]))

\* Bytes lead from one place to another.
Leads(x, a, s, b) ==
    \E w : /\ w[0] = a /\ w[Len(s)] = b
           /\ \A k \in 1..Len(s) : Fits(x, w[k - 1], s[k]) /\ w[k] = After(x, w[k - 1], s[k])

\* A non-empty set of naturals has a least element.
LEMMA LeastOf ==
    ASSUME NEW S \in SUBSET Nat, S # {}
    PROVE  \E x \in S : \A y \in S : x <= y
<1>1. PICK x \in S : \A y \in S : ~(<<y, x>> \in OpToRel(<, Nat))
  BY NatLessThanWellFounded, WFMin
<1>2. ASSUME NEW y \in S, ~(x <= y)
      PROVE  FALSE
  <2>1. <<y, x>> \in Nat \X Nat /\ y < x
    BY <1>2
  <2> QED BY <1>1, <2>1 DEF OpToRel
<1> QED BY <1>2

\* Two ways that go the same way from every place they share.
LEMMA SameWay ==
    ASSUME NEW n \in Nat, NEW v, NEW w, v[0] = w[0],
           \A k \in 1..n : v[k - 1] = w[k - 1] => v[k] = w[k]
    PROVE  \A k \in 0..n : v[k] = w[k]
<1> DEFINE S == {k \in 0..n : v[k] # w[k]}
<1>1. SUFFICES ASSUME S # {} PROVE FALSE
  OBVIOUS
<1>2. PICK x \in S : \A y \in S : x <= y
  <2>1. S \in SUBSET Nat
    OBVIOUS
  <2> HIDE DEF S
  <2> QED BY <1>1, <2>1, LeastOf
<1>3. x \in 1..n /\ x - 1 \in 0..n /\ ~(x <= x - 1)
  BY <1>2
<1>4. v[x - 1] = w[x - 1]
  BY <1>2, <1>3
<1> QED BY <1>2, <1>3, <1>4

\* No bytes lead nowhere.
LEMMA LeadsNone ==
    ASSUME NEW x, NEW a, NEW b
    PROVE  Leads(x, a, <<>>, b) <=> a = b
<1>1. ASSUME a = b PROVE Leads(x, a, <<>>, b)
  <2> DEFINE w == [k \in {0} |-> a]
  <2>1. w[0] = a /\ w[Len(<<>>)] = b /\ \A k \in 1..Len(<<>>) : FALSE
    BY <1>1
  <2> QED BY <2>1 DEF Leads
<1> QED BY <1>1 DEF Leads

\* A byte that fits leads to the place after it.
LEMMA LeadsOne ==
    ASSUME NEW x, NEW a, NEW y, Fits(x, a, y)
    PROVE  Leads(x, a, <<y>>, After(x, a, y))
<1> DEFINE w == [k \in {0, 1} |-> IF k = 0 THEN a ELSE After(x, a, y)]
<1>1. w[0] = a /\ w[1] = After(x, a, y)
  OBVIOUS
<1> HIDE DEF w
<1>2. Len(<<y>>) = 1 /\ <<y>>[1] = y /\ \A k \in 1..1 : k = 1 /\ k - 1 = 0
  OBVIOUS
<1> QED BY <1>1, <1>2 DEF Leads

\* What is sent after something leads on from where that led.
LEMMA LeadsJoin ==
    ASSUME NEW x, NEW a, NEW b, NEW c, NEW S, NEW s \in Seq(S), NEW t \in Seq(S),
           Leads(x, a, s, b), Leads(x, b, t, c)
    PROVE  Leads(x, a, s \o t, c)
<1>1. PICK v : /\ v[0] = a /\ v[Len(s)] = b
               /\ \A k \in 1..Len(s) : Fits(x, v[k - 1], s[k]) /\ v[k] = After(x, v[k - 1], s[k])
  BY DEF Leads
<1>2. PICK w : /\ w[0] = b /\ w[Len(t)] = c
               /\ \A k \in 1..Len(t) : Fits(x, w[k - 1], t[k]) /\ w[k] = After(x, w[k - 1], t[k])
  BY DEF Leads
<1> DEFINE n == Len(s)
           m == Len(t)
           j == s \o t
           u == [k \in 0..n + m |-> IF k <= n THEN v[k] ELSE w[k - n]]
<1>3. n \in Nat /\ m \in Nat /\ Len(j) = n + m
      /\ \A k \in 1..n : j[k] = s[k]
  BY ConcatProperties, LenProperties
<1>3a. \A k \in 1..n + m : ~(k <= n) => j[k] = t[k - n]
  BY ConcatProperties, LenProperties
<1> HIDE DEF n, m, j
<1>4. /\ \A k \in 0..n : u[k] = v[k]
      /\ \A k \in n + 1..n + m : u[k] = w[k - n]
  BY <1>3
<1> HIDE DEF u
<1>5. u[n] = b /\ w[0] = b /\ u[0] = a
  BY <1>1, <1>2, <1>3, <1>4 DEF n
<1>6. \A k \in n..n + m : u[k] = w[k - n]
  <2> TAKE k \in n..n + m
  <2>1. CASE k = n
    <3>1. k - n = 0
      BY <1>3, <2>1
    <3> QED BY <1>5, <2>1, <3>1
  <2>2. CASE k # n
    <3>1. k \in n + 1..n + m
      BY <1>3, <2>2
    <3> QED BY <1>4, <3>1
  <2> QED BY <2>1, <2>2
<1>7. u[n + m] = c
  <2>1. n + m \in n..n + m /\ (n + m) - n = m
    BY <1>3
  <2> QED BY <1>2, <1>6, <2>1 DEF m
<1>8. ASSUME NEW k \in 1..n + m
      PROVE  Fits(x, u[k - 1], j[k]) /\ u[k] = After(x, u[k - 1], j[k])
  <2>1. CASE k <= n
    <3>1. k \in 1..n /\ k \in 0..n /\ k - 1 \in 0..n
      BY <1>3, <2>1
    <3> QED BY <1>1, <1>3, <1>4, <3>1 DEF n
  <2>2. CASE ~(k <= n)
    <3>1. k \in n + 1..n + m /\ k - n \in 1..m /\ k - 1 \in n..n + m /\ k \in n..n + m
          /\ (k - 1) - n = (k - n) - 1
      BY <1>3, <2>2
    <3>2. u[k] = w[k - n] /\ j[k] = t[k - n]
      <4>1. j[k] = t[k - n]
        BY <1>3a, <2>2
      <4>2. u[k] = w[k - n]
        BY <1>4, <3>1
      <4> QED BY <4>1, <4>2
    <3>3. u[k - 1] = w[(k - n) - 1]
      BY <1>6, <3>1
    <3> QED BY <1>2, <3>1, <3>2, <3>3 DEF m
  <2> QED BY <2>1, <2>2
<1>9. Leads(x, a, j, c)
  BY <1>3, <1>5, <1>7, <1>8 DEF Leads
<1> QED BY <1>9 DEF j

\* However a stream is divided, there is a place between its parts.
LEMMA LeadsSplit ==
    ASSUME NEW x, NEW a, NEW b, NEW S, NEW s \in Seq(S), Leads(x, a, s, b), NEW n \in 0..Len(s)
    PROVE  \E c : Leads(x, a, SubSeq(s, 1, n), c) /\ Leads(x, c, SubSeq(s, n + 1, Len(s)), b)
<1>1. PICK w : /\ w[0] = a /\ w[Len(s)] = b
               /\ \A k \in 1..Len(s) : Fits(x, w[k - 1], s[k]) /\ w[k] = After(x, w[k - 1], s[k])
  BY DEF Leads
<1> DEFINE p == SubSeq(s, 1, n)
           q == SubSeq(s, n + 1, Len(s))
           m == Len(s) - n
           v == [k \in 0..m |-> w[n + k]]
<1>2. /\ Len(p) = n /\ (\A k \in 1..n : p[k] = s[k])
      /\ Len(q) = m /\ \A k \in 1..m : q[k] = s[n + k]
  BY SeqFacts
<1>3. Len(s) \in Nat /\ n \in Nat /\ m \in Nat /\ n + m = Len(s)
  OBVIOUS
<1>4. \A k \in 0..m : v[k] = w[n + k]
  OBVIOUS
<1> HIDE DEF p, q, m, v
<1>5. Leads(x, a, p, w[n])
  <2>1. \A k \in 1..n : k \in 1..Len(s)
    BY <1>3
  <2> QED BY <1>1, <1>2, <2>1 DEF Leads
<1>6. Leads(x, w[n], q, b)
  <2>1. v[0] = w[n] /\ v[m] = b
    <3>1. 0 \in 0..m /\ m \in 0..m /\ n + 0 = n /\ n + m = Len(s)
      BY <1>3
    <3>2. v[0] = w[n + 0] /\ v[m] = w[n + m]
      BY <1>4, <3>1
    <3> QED BY <1>1, <3>1, <3>2
  <2>2. ASSUME NEW k \in 1..m PROVE Fits(x, v[k - 1], q[k]) /\ v[k] = After(x, v[k - 1], q[k])
    <3>1. n + k \in 1..Len(s) /\ k \in 0..m /\ k - 1 \in 0..m /\ n + (k - 1) = (n + k) - 1
      BY <1>3
    <3>2. v[k] = w[n + k] /\ v[k - 1] = w[(n + k) - 1] /\ q[k] = s[n + k]
      BY <1>2, <1>4, <3>1
    <3> QED BY <1>1, <3>1, <3>2
  <2> QED BY <1>2, <2>1, <2>2 DEF Leads
<1> QED BY <1>5, <1>6 DEF p, q

\* Bytes lead to one place only.
LEMMA LeadsOnce ==
    ASSUME NEW x, NEW a, NEW b, NEW c, NEW S, NEW s \in Seq(S), Leads(x, a, s, b), Leads(x, a, s, c)
    PROVE  b = c
<1>1. PICK v : /\ v[0] = a /\ v[Len(s)] = b
               /\ \A k \in 1..Len(s) : Fits(x, v[k - 1], s[k]) /\ v[k] = After(x, v[k - 1], s[k])
  BY DEF Leads
<1>2. PICK w : /\ w[0] = a /\ w[Len(s)] = c
               /\ \A k \in 1..Len(s) : Fits(x, w[k - 1], s[k]) /\ w[k] = After(x, w[k - 1], s[k])
  BY DEF Leads
<1>3. Len(s) \in Nat /\ Len(s) \in 0..Len(s)
  OBVIOUS
<1>4. \A k \in 1..Len(s) : v[k - 1] = w[k - 1] => v[k] = w[k]
  BY <1>1, <1>2
<1>5. \A k \in 0..Len(s) : v[k] = w[k]
  <2>1. v[0] = w[0] /\ Len(s) \in Nat
    BY <1>1, <1>2, <1>3
  <2> QED BY <1>4, <2>1, SameWay
<1> QED BY <1>1, <1>2, <1>3, <1>5

\* When the first bytes are read, the rest leads on.
LEMMA LeadsDrop ==
    ASSUME NEW x, NEW a, NEW b, NEW c, NEW S, NEW s \in Seq(S), Leads(x, a, s, b), NEW n \in 0..Len(s),
           Leads(x, a, SubSeq(s, 1, n), c)
    PROVE  Leads(x, c, SubSeq(s, n + 1, Len(s)), b)
<1>1. PICK d : Leads(x, a, SubSeq(s, 1, n), d) /\ Leads(x, d, SubSeq(s, n + 1, Len(s)), b)
  BY LeadsSplit
<1>2. SubSeq(s, 1, n) \in Seq(S)
  BY SeqFacts
<1> QED BY <1>1, <1>2, LeadsOnce

\* Nothing is known of what comes after a refusal.
LEMMA LostLeads ==
    ASSUME NEW x, NEW S, NEW s \in Seq(S)
    PROVE  Leads(x, Lost, s, Lost)
<1> DEFINE w == [k \in 0..Len(s) |-> Lost]
<1>1. Len(s) \in Nat /\ \A k \in 0..Len(s) : w[k] = Lost
  OBVIOUS
<1> HIDE DEF w
<1>2. Lost.at = "lost"
  BY DEF Lost, At, Place
<1>3. \A y : Fits(x, Lost, y) /\ After(x, Lost, y) = Lost
  BY <1>2 DEF Fits, After
<1>4. w[0] = Lost /\ w[Len(s)] = Lost /\ \A k \in 1..Len(s) : w[k - 1] = Lost /\ w[k] = Lost
  BY <1>1
<1> QED BY <1>3, <1>4 DEF Leads

\* Places where a packet begins.
Plain(p) == p.at \notin {"lost", "inside", "voice"}

\* Where a packet begins, its first byte fits and leads into it.
LEMMA PlainFacts ==
    ASSUME NEW x, NEW p, Plain(p), NEW y
    PROVE  /\ Fits(x, p, y) <=> y[2] = 1 /\ Comes(x, p, y[1])
           /\ After(x, p, y) = IF Size(y[1]) = 1 THEN Then(x, p, y[1]) ELSE Inside(<<y[1], 2>>, Then(x, p, y[1]))
  BY DEF Plain, Fits, After

\* Inside a packet only its second byte fits.
LEMMA InsideFacts ==
    ASSUME NEW x, NEW rest, NEW next, NEW y
    PROVE  /\ Fits(x, Inside(rest, next), y) <=> y = rest
           /\ After(x, Inside(rest, next), y) = next
<1>1. Inside(rest, next).at = "inside" /\ Inside(rest, next).rest = rest /\ Inside(rest, next).next = next
  BY DEF Inside
<1> HIDE DEF Inside
<1> QED BY <1>1 DEF Fits, After

\* A packet that comes leads to what is then.
LEMMA PacketLeads ==
    ASSUME NEW x, NEW p, Plain(p), NEW packet, Comes(x, p, packet)
    PROVE  Leads(x, p, Bytes(packet), Then(x, p, packet))
<1> DEFINE n == Size(packet)
           s == Bytes(packet)
           w == [k \in 0..n |-> IF k = 0 THEN p ELSE IF k = n THEN Then(x, p, packet)
                                ELSE Inside(<<packet, 2>>, Then(x, p, packet))]
<1>1. n = 1 \/ n = 2
  BY DEF Size, Small
<1> HIDE DEF n
<1>2. s = [i \in 1..n |-> <<packet, i>>]
  BY DEF Bytes, n
<1>3. Len(s) = n /\ \A i \in 1..n : s[i] = <<packet, i>>
  <2>1. \A i \in 1..n : s[i] = <<packet, i>>
    BY <1>2
  <2>2. \A i \in 1..n : s[i] \in {<<packet, 1>>, <<packet, 2>>}
    BY <1>1, <1>2
  <2>3. s = [i \in 1..n |-> s[i]] /\ n \in Nat
    BY <1>1, <1>2
  <2> HIDE DEF s
  <2> QED BY <2>1, <2>2, <2>3, MadeSeq
<1> HIDE DEF s
<1>4. w[0] = p /\ w[n] = Then(x, p, packet)
  BY <1>1
<1>5. n = 2 => w[1] = Inside(<<packet, 2>>, Then(x, p, packet))
  BY <1>1
<1> HIDE DEF w
<1>6. Fits(x, p, <<packet, 1>>)
      /\ After(x, p, <<packet, 1>>) = IF n = 1 THEN Then(x, p, packet) ELSE Inside(<<packet, 2>>, Then(x, p, packet))
  <2>1. <<packet, 1>>[1] = packet /\ <<packet, 1>>[2] = 1
    OBVIOUS
  <2> QED BY <2>1, PlainFacts DEF n
<1>7. CASE n = 1
  <2>1. \A k \in 1..1 : k = 1 /\ k - 1 = 0
    OBVIOUS
  <2>2. s[1] = <<packet, 1>>
    BY <1>3, <1>7
  <2>3. \A k \in 1..Len(s) : Fits(x, w[k - 1], s[k]) /\ w[k] = After(x, w[k - 1], s[k])
    BY <1>3, <1>4, <1>6, <1>7, <2>1, <2>2
  <2> QED BY <1>3, <1>4, <2>3 DEF Leads, s
<1>8. CASE n = 2
  <2>1. \A k \in 1..2 : (k = 1 /\ k - 1 = 0) \/ (k = 2 /\ k - 1 = 1)
    OBVIOUS
  <2>2. s[1] = <<packet, 1>> /\ s[2] = <<packet, 2>>
    BY <1>3, <1>8
  <2>3. Fits(x, w[0], s[1]) /\ w[1] = After(x, w[0], s[1])
    BY <1>4, <1>5, <1>6, <1>8, <2>2
  <2>4. Fits(x, w[1], s[2]) /\ w[2] = After(x, w[1], s[2])
    BY <1>4, <1>5, <1>8, <2>2, InsideFacts
  <2>5. \A k \in 1..Len(s) : Fits(x, w[k - 1], s[k]) /\ w[k] = After(x, w[k - 1], s[k])
    BY <1>3, <1>8, <2>1, <2>3, <2>4
  <2> QED BY <1>3, <1>4, <2>5 DEF Leads, s
<1> QED BY <1>1, <1>7, <1>8

\* The first packet, when all of it is there.
LEMMA FirstPacket ==
    ASSUME NEW x, NEW p, Plain(p), NEW b, NEW s \in ByteSeq, Leads(x, p, s, b), NEW kind,
           \A packet \in Packet : Comes(x, p, packet) => packet[1] = kind, Len(s) >= Size(<<kind>>)
    PROVE  \E packet \in Packet :
              /\ Comes(x, p, packet) /\ packet[1] = kind /\ SubSeq(s, 1, Size(<<kind>>)) = Bytes(packet)
              /\ Leads(x, Then(x, p, packet), SubSeq(s, Size(<<kind>>) + 1, Len(s)), b)
<1> DEFINE n == Size(<<kind>>)
           packet == s[1][1]
<1>1. n \in {1, 2}
  BY DEF Size, Small
<1>2. PICK w : /\ w[0] = p /\ w[Len(s)] = b
               /\ \A k \in 1..Len(s) : Fits(x, w[k - 1], s[k]) /\ w[k] = After(x, w[k - 1], s[k])
  BY DEF Leads
<1>3. Len(s) \in Nat /\ n \in 0..Len(s) /\ 1 \in 1..Len(s) /\ s \in Seq(Byte)
  BY <1>1 DEF ByteSeq, Byte
<1>4. Fits(x, p, s[1]) /\ w[1] = After(x, p, s[1])
  <2>1. 1 - 1 = 0
    OBVIOUS
  <2> QED BY <1>2, <1>3, <2>1
<1>5. s[1] \in Byte /\ packet \in Packet /\ s[1] = <<packet, s[1][2]>>
  BY <1>3 DEF Byte
<1>6. s[1] = <<packet, 1>> /\ Comes(x, p, packet) /\ packet[1] = kind
  BY <1>4, <1>5, PlainFacts
<1>7. Size(packet) = n
  BY <1>6 DEF Size
<1>8. \A i \in 1..n : s[i] = <<packet, i>>
  <2>1. CASE n = 1
    <3>1. \A i \in 1..1 : i = 1
      OBVIOUS
    <3> QED BY <1>6, <2>1, <3>1
  <2>2. CASE n = 2
    <3>1. w[1] = Inside(<<packet, 2>>, Then(x, p, packet))
      BY <1>4, <1>5, <1>6, <1>7, <2>2, PlainFacts
    <3>2. 2 \in 1..Len(s) /\ 2 - 1 = 1
      BY <1>3, <2>2
    <3>3. s[2] = <<packet, 2>>
      BY <1>2, <3>1, <3>2, InsideFacts
    <3>4. \A i \in 1..2 : i = 1 \/ i = 2
      OBVIOUS
    <3> QED BY <1>6, <2>2, <3>3, <3>4
  <2> QED BY <1>1, <2>1, <2>2
<1> HIDE DEF n, packet
<1>9. SubSeq(s, 1, n) = Bytes(packet)
  <2> DEFINE u == SubSeq(s, 1, n)
             v == Bytes(packet)
  <2>1. v = [i \in 1..n |-> <<packet, i>>]
    BY <1>7 DEF Bytes
  <2>2. u \in Seq(Byte) /\ Len(u) = n /\ \A k \in 1..n : u[k] = s[k]
    BY <1>3, SeqFacts
  <2> HIDE DEF u, v
  <2>3. u = [i \in 1..n |-> u[i]]
    BY <2>2
  <2>4. \A i \in 1..n : u[i] = v[i]
    BY <1>8, <2>1, <2>2
  <2>5. u = [i \in 1..n |-> <<packet, i>>]
    BY <2>1, <2>3, <2>4
  <2> QED BY <2>1, <2>5 DEF u, v
<1>10. Leads(x, p, SubSeq(s, 1, n), Then(x, p, packet))
  BY <1>6, <1>9, PacketLeads
<1>11. Leads(x, Then(x, p, packet), SubSeq(s, n + 1, Len(s)), b)
  BY <1>3, <1>10, LeadsDrop
<1> QED BY <1>5, <1>6, <1>9, <1>11 DEF n

\* A piece of the file leads on in its chunk, and from its end to the next header.
InChunk(m, left, size, n) == IF n < left THEN Data(m + n, left - n, size) ELSE Header(m + n, size)

\* In a chunk only the next byte of the file fits, while bytes are left.
LEMMA DataFacts ==
    ASSUME NEW x, NEW m \in Int, NEW left \in Int, NEW size \in Int, NEW y
    PROVE  /\ Fits(x, Data(m, left, size), y) <=>
                y[2] = 1 /\ left > 0 /\ m < size /\ y[1] = <<"data", m + 1>>
           /\ y[1] = <<"data", m + 1>> =>
                After(x, Data(m, left, size), y) =
                    IF left = 1 THEN Header(m + 1, size) ELSE Data(m + 1, left - 1, size)
<1> DEFINE p == Data(m, left, size)
<1>1. p.at = "data" /\ p.n = m /\ p.left = left /\ p.size = size
  BY DEF Data, Place
<1> HIDE DEF p
<1>2. Plain(p)
  BY <1>1 DEF Plain
<1>3. Comes(x, p, y[1]) <=> left > 0 /\ m < size /\ y[1] = <<"data", m + 1>>
  BY <1>1 DEF Comes, Fixed
<1>4. y[1] = <<"data", m + 1>> => Size(y[1]) = 1
  BY DEF Size
<1>5. Then(x, p, y[1]) = IF left = 1 THEN Header(m + 1, size) ELSE Data(m + 1, left - 1, size)
  BY <1>1 DEF Then
<1> QED BY <1>2, <1>3, <1>4, <1>5, PlainFacts DEF p

\* A piece of the file leads on in its chunk.
LEMMA DataLeads ==
    ASSUME NEW x, NEW m \in Int, NEW left \in Int, NEW size \in Int, NEW n \in Nat, n > 0, n <= left, m + n <= size
    PROVE  Leads(x, Data(m, left, size), FileBytes(m, n), InChunk(m, left, size, n))
<1> DEFINE w == [k \in 0..n |-> InChunk(m, left, size, k)]
           s == FileBytes(m, n)
<1>1. \A k \in 0..n : w[k] = InChunk(m, left, size, k)
  OBVIOUS
<1>2. Len(s) = n /\ \A i \in 1..n : s[i] = <<<<"data", m + i>>, 1>>
  BY BytesFacts
<1> HIDE DEF w, s
<1>3. w[0] = Data(m, left, size)
  <2>1. 0 \in 0..n /\ 0 < left /\ m + 0 = m /\ left - 0 = left
    OBVIOUS
  <2> QED BY <1>1, <2>1 DEF InChunk
<1>4. w[n] = InChunk(m, left, size, n)
  BY <1>1
<1>5. ASSUME NEW k \in 1..n PROVE Fits(x, w[k - 1], s[k]) /\ w[k] = After(x, w[k - 1], s[k])
  <2> DEFINE i == m + (k - 1)
             rest == left - (k - 1)
  <2>1. k - 1 \in 0..n /\ k \in 0..n /\ k - 1 < left /\ i \in Int /\ rest \in Int
        /\ rest > 0 /\ i < size /\ i + 1 = m + k /\ rest - 1 = left - k /\ (rest = 1 <=> ~(k < left))
    OBVIOUS
  <2>2. w[k - 1] = Data(i, rest, size) /\ w[k] = InChunk(m, left, size, k)
    BY <1>1, <2>1 DEF InChunk
  <2>3. s[k] = <<<<"data", m + k>>, 1>>
    BY <1>2
  <2> HIDE DEF i, rest
  <2>4. s[k][1] = <<"data", i + 1>> /\ s[k][2] = 1
    BY <2>1, <2>3
  <2>5. Fits(x, Data(i, rest, size), s[k])
    BY <2>1, <2>4, DataFacts
  <2>6. After(x, Data(i, rest, size), s[k]) = IF rest = 1 THEN Header(i + 1, size) ELSE Data(i + 1, rest - 1, size)
    BY <2>1, <2>4, DataFacts
  <2>7. After(x, Data(i, rest, size), s[k]) = InChunk(m, left, size, k)
    BY <2>1, <2>6 DEF InChunk
  <2> QED BY <2>2, <2>5, <2>7
<1> QED BY <1>2, <1>3, <1>4, <1>5 DEF Leads, s

\* What comes of a chunk is the next piece of the file.
LEMMA DataRun ==
    ASSUME NEW x, NEW m \in Int, NEW left \in Int, NEW size \in Int, NEW s \in ByteSeq, NEW b,
           Leads(x, Data(m, left, size), s, b), Len(s) > 0, Len(s) <= left
    PROVE  m + Len(s) <= size /\ s = FileBytes(m, Len(s)) /\ b = InChunk(m, left, size, Len(s))
<1> DEFINE n == Len(s)
<1>1. n \in Nat /\ s = [i \in 1..n |-> s[i]] /\ s \in Seq(Byte)
  <2>1. s \in Seq(Byte)
    BY DEF ByteSeq, Byte
  <2> QED BY <2>1
<1>2. PICK w : /\ w[0] = Data(m, left, size) /\ w[Len(s)] = b
               /\ \A k \in 1..Len(s) : Fits(x, w[k - 1], s[k]) /\ w[k] = After(x, w[k - 1], s[k])
  BY DEF Leads
<1> DEFINE v == [k \in 0..n |-> InChunk(m, left, size, k)]
<1>3. \A k \in 0..n : v[k] = InChunk(m, left, size, k)
  OBVIOUS
<1> HIDE DEF n, v
<1>4. w[0] = v[0]
  <2>1. 0 \in 0..n /\ 0 < left /\ m + 0 = m /\ left - 0 = left
    BY <1>1 DEF n
  <2> QED BY <1>2, <1>3, <2>1 DEF InChunk
<1>5. ASSUME NEW k \in 1..n, w[k - 1] = v[k - 1]
      PROVE  w[k] = v[k] /\ m + k <= size /\ s[k] = <<<<"data", m + k>>, 1>>
  <2>1. k - 1 \in 0..n /\ k \in 0..n /\ k - 1 < left /\ m + (k - 1) \in Int /\ left - (k - 1) \in Int
        /\ (m + (k - 1)) + 1 = m + k
        /\ (left - (k - 1)) - 1 = left - k /\ (left - (k - 1) = 1 <=> ~(k < left))
    BY <1>1 DEF n
  <2>2. w[k - 1] = Data(m + (k - 1), left - (k - 1), size) /\ v[k] = InChunk(m, left, size, k)
    BY <1>3, <1>5, <2>1 DEF InChunk
  <2>3. Fits(x, w[k - 1], s[k]) /\ w[k] = After(x, w[k - 1], s[k])
    BY <1>2 DEF n
  <2>4. s[k][2] = 1 /\ m + (k - 1) < size /\ s[k][1] = <<"data", (m + (k - 1)) + 1>>
    BY <2>1, <2>2, <2>3, DataFacts
  <2>5. After(x, w[k - 1], s[k]) = IF left - (k - 1) = 1 THEN Header((m + (k - 1)) + 1, size)
                                   ELSE Data((m + (k - 1)) + 1, (left - (k - 1)) - 1, size)
    BY <2>1, <2>2, <2>4, DataFacts
  <2>6. w[k] = InChunk(m, left, size, k)
    BY <2>1, <2>3, <2>5 DEF InChunk
  <2>7. s[k] = <<s[k][1], s[k][2]>>
    <3>1. s[k] \in Byte
      BY <1>1 DEF n
    <3> QED BY <3>1 DEF Byte
  <2>8. s[k] = <<<<"data", m + k>>, 1>> /\ m + k <= size
    BY <2>1, <2>4, <2>7
  <2> QED BY <2>2, <2>6, <2>8
<1>6. \A k \in 0..n : w[k] = v[k]
  <2>1. n \in Nat /\ \A k \in 1..n : w[k - 1] = v[k - 1] => w[k] = v[k]
    BY <1>1, <1>5 DEF n
  <2> QED BY <1>4, <2>1, SameWay
<1>7. \A k \in 1..n : m + k <= size /\ s[k] = <<<<"data", m + k>>, 1>>
  <2> TAKE k \in 1..n
  <2>1. k - 1 \in 0..n
    BY <1>1 DEF n
  <2> QED BY <1>5, <1>6, <2>1
<1>8. n \in 1..n /\ n \in 0..n
  BY <1>1 DEF n
<1>9. b = InChunk(m, left, size, n)
  BY <1>2, <1>3, <1>6, <1>8 DEF n
<1>10. s = FileBytes(m, n)
  <2>1. s = [i \in 1..n |-> s[i]]
    BY <1>1 DEF n
  <2> QED BY <1>7, <2>1 DEF FileBytes
<1> QED BY <1>7, <1>8, <1>9, <1>10 DEF n

\* A piece of a frame leads on in the frame, and from its end to the next.
InFrame(m, left, size, n) == IF n < left THEN Voice(m, left - n, size) ELSE Frame(m + 1)

\* In a frame only its next byte fits, while bytes are left.
LEMMA VoiceFacts ==
    ASSUME NEW x, NEW m \in Int, NEW left \in Int, NEW size \in Int, NEW y
    PROVE  /\ Fits(x, Voice(m, left, size), y) <=> left > 0 /\ y = <<<<"voice", m + 1>>, size - left + 1>>
           /\ After(x, Voice(m, left, size), y) = IF left = 1 THEN Frame(m + 1) ELSE Voice(m, left - 1, size)
<1> DEFINE p == Voice(m, left, size)
<1>1. p.at = "voice" /\ p.n = m /\ p.left = left /\ p.size = size
  BY DEF Voice, Place
<1> HIDE DEF p
<1>2. /\ Fits(x, p, y) <=> left > 0 /\ y = <<<<"voice", m + 1>>, size - left + 1>>
      /\ After(x, p, y) = IF left = 1 THEN Frame(m + 1) ELSE Voice(m, left - 1, size)
  BY <1>1 DEF Fits, After
<1> QED BY <1>2 DEF p

\* All the bytes of a frame lead to the next frame.
LEMMA VoiceLeads ==
    ASSUME NEW x, NEW m \in Int, NEW size \in Nat, size > 0
    PROVE  Leads(x, Voice(m, size, size), FrameBytes(m + 1, size), Frame(m + 1))
<1> DEFINE w == [k \in 0..size |-> InFrame(m, size, size, k)]
           s == FrameBytes(m + 1, size)
<1>1. \A k \in 0..size : w[k] = InFrame(m, size, size, k)
  OBVIOUS
<1>2. Len(s) = size /\ \A i \in 1..size : s[i] = <<<<"voice", m + 1>>, i>>
  <2>1. m + 1 \in Int
    OBVIOUS
  <2> HIDE DEF w
  <2> QED BY <2>1, BytesFacts
<1> HIDE DEF w, s
<1>3. w[0] = Voice(m, size, size)
  <2>1. 0 \in 0..size /\ 0 < size /\ size - 0 = size
    OBVIOUS
  <2> QED BY <1>1, <2>1 DEF InFrame
<1>4. w[size] = Frame(m + 1)
  <2>1. size \in 0..size /\ ~(size < size)
    OBVIOUS
  <2> QED BY <1>1, <2>1 DEF InFrame
<1>5. ASSUME NEW k \in 1..size PROVE Fits(x, w[k - 1], s[k]) /\ w[k] = After(x, w[k - 1], s[k])
  <2> DEFINE rest == size - (k - 1)
  <2>1. k - 1 \in 0..size /\ k \in 0..size /\ k - 1 < size /\ rest \in Int /\ rest > 0
        /\ size - rest + 1 = k /\ rest - 1 = size - k /\ (rest = 1 <=> ~(k < size))
    OBVIOUS
  <2>2. w[k - 1] = Voice(m, rest, size) /\ w[k] = InFrame(m, size, size, k)
    BY <1>1, <2>1 DEF InFrame
  <2>3. s[k] = <<<<"voice", m + 1>>, k>>
    BY <1>2
  <2> HIDE DEF rest
  <2>4. Fits(x, Voice(m, rest, size), s[k])
    BY <2>1, <2>3, VoiceFacts
  <2>5. After(x, Voice(m, rest, size), s[k]) = IF rest = 1 THEN Frame(m + 1) ELSE Voice(m, rest - 1, size)
    BY <2>1, VoiceFacts
  <2>6. After(x, Voice(m, rest, size), s[k]) = InFrame(m, size, size, k)
    BY <2>1, <2>5 DEF InFrame
  <2> QED BY <2>2, <2>4, <2>6
<1> QED BY <1>2, <1>3, <1>4, <1>5 DEF Leads, s

\* The bytes of a frame from some place on.
FrameRun(m, a, s) == \A k \in 1..Len(s) : s[k] = <<<<"voice", m>>, a + k>>

\* What comes of a frame is the next piece of it.
LEMMA VoiceRun ==
    ASSUME NEW x, NEW m \in Int, NEW left \in Int, NEW size \in Int, NEW s \in ByteSeq, NEW b,
           Leads(x, Voice(m, left, size), s, b), Len(s) > 0, Len(s) <= left
    PROVE  FrameRun(m + 1, size - left, s) /\ b = InFrame(m, left, size, Len(s))
<1> DEFINE n == Len(s)
<1>1. n \in Nat
  BY DEF ByteSeq
<1>2. PICK w : /\ w[0] = Voice(m, left, size) /\ w[Len(s)] = b
               /\ \A k \in 1..Len(s) : Fits(x, w[k - 1], s[k]) /\ w[k] = After(x, w[k - 1], s[k])
  BY DEF Leads
<1> DEFINE v == [k \in 0..n |-> InFrame(m, left, size, k)]
<1>3. \A k \in 0..n : v[k] = InFrame(m, left, size, k)
  OBVIOUS
<1> HIDE DEF n, v
<1>4. w[0] = v[0]
  <2>1. 0 \in 0..n /\ 0 < left /\ left - 0 = left
    BY <1>1 DEF n
  <2> QED BY <1>2, <1>3, <2>1 DEF InFrame
<1>5. ASSUME NEW k \in 1..n, w[k - 1] = v[k - 1]
      PROVE  w[k] = v[k] /\ s[k] = <<<<"voice", m + 1>>, size - left + k>>
  <2> DEFINE rest == left - (k - 1)
  <2>1. k - 1 \in 0..n /\ k \in 0..n /\ k - 1 < left /\ rest \in Int
        /\ size - rest + 1 = size - left + k
        /\ rest - 1 = left - k /\ (rest = 1 <=> ~(k < left))
    BY <1>1 DEF n
  <2> HIDE DEF rest
  <2>2. w[k - 1] = Voice(m, rest, size) /\ v[k] = InFrame(m, left, size, k)
    BY <1>3, <1>5, <2>1 DEF InFrame, rest
  <2>3. Fits(x, Voice(m, rest, size), s[k]) /\ w[k] = After(x, Voice(m, rest, size), s[k])
    BY <1>2, <2>2 DEF n
  <2>4. s[k] = <<<<"voice", m + 1>>, size - rest + 1>>
    BY <2>1, <2>3, VoiceFacts
  <2>5. w[k] = IF rest = 1 THEN Frame(m + 1) ELSE Voice(m, rest - 1, size)
    BY <2>1, <2>3, VoiceFacts
  <2>6. w[k] = InFrame(m, left, size, k)
    BY <2>1, <2>5 DEF InFrame
  <2> QED BY <2>1, <2>2, <2>4, <2>6
<1>6. \A k \in 0..n : w[k] = v[k]
  <2>1. n \in Nat /\ \A k \in 1..n : w[k - 1] = v[k - 1] => w[k] = v[k]
    BY <1>1, <1>5 DEF n
  <2> QED BY <1>4, <2>1, SameWay
<1>7. \A k \in 1..n : s[k] = <<<<"voice", m + 1>>, size - left + k>>
  <2> TAKE k \in 1..n
  <2>1. k - 1 \in 0..n
    BY <1>1 DEF n
  <2> QED BY <1>5, <1>6, <2>1
<1>8. n \in 0..n
  BY <1>1 DEF n
<1>9. b = InFrame(m, left, size, n)
  BY <1>2, <1>3, <1>6, <1>8 DEF n
<1>10. FrameRun(m + 1, size - left, s)
  BY <1>7 DEF FrameRun, n
<1> QED BY <1>9, <1>10 DEF n

\* The parts of a frame, and of the file, that come one after another.
LEMMA FrameGrows ==
    ASSUME NEW m \in Int, NEW a \in Nat, NEW s \in ByteSeq, FrameRun(m, a, s)
    PROVE  FrameBytes(m, a) \o s = FrameBytes(m, a + Len(s))
<1> DEFINE f == FrameBytes(m, a)
           n == Len(s)
           j == f \o s
<1>1. n \in Nat /\ s \in Seq(Byte)
  BY DEF ByteSeq, Byte
<1>2. f \in Seq(Byte) /\ Len(f) = a /\ \A i \in 1..a : f[i] = <<<<"voice", m>>, i>>
  BY BytesFacts DEF ByteSeq, Byte
<1> HIDE DEF f
<1>3. /\ j \in Seq(Byte) /\ Len(j) = a + n
      /\ \A k \in 1..a + n : j[k] = IF k <= a THEN f[k] ELSE s[k - a]
  BY <1>1, <1>2, ConcatProperties
<1> HIDE DEF n, j
<1>4. ASSUME NEW k \in 1..a + n PROVE j[k] = <<<<"voice", m>>, k>>
  <2>1. CASE k <= a
    <3>1. k \in 1..a
      BY <2>1
    <3> QED BY <1>2, <1>3, <2>1, <3>1
  <2>2. CASE ~(k <= a)
    <3>1. k - a \in 1..n /\ a + (k - a) = k
      BY <1>1, <2>2
    <3>2. s[k - a] = <<<<"voice", m>>, a + (k - a)>>
      BY <3>1 DEF n, FrameRun
    <3> QED BY <1>3, <2>2, <3>1, <3>2
  <2> QED BY <2>1, <2>2
<1>5. j = [k \in 1..a + n |-> j[k]]
  BY <1>3
<1>6. j = [k \in 1..a + n |-> <<<<"voice", m>>, k>>]
  BY <1>4, <1>5
<1> QED BY <1>6 DEF FrameBytes, j, f, n

\* A piece of the file is a sequence of its bytes.
LEMMA FileFacts ==
    ASSUME NEW m \in Nat, NEW n \in Nat
    PROVE  FileBytes(m, n) \in Seq(Byte) /\ Len(FileBytes(m, n)) = n
           /\ \A i \in 1..n : FileBytes(m, n)[i] = <<<<"data", m + i>>, 1>>
<1>1. m \in Int
  OBVIOUS
<1>2. FileBytes(m, n) \in ByteSeq /\ Len(FileBytes(m, n)) = n
      /\ \A i \in 1..n : FileBytes(m, n)[i] = <<<<"data", m + i>>, 1>>
  BY <1>1, BytesFacts
<1> QED BY <1>2 DEF ByteSeq, Byte

\* Two pieces of the file that follow one another are one piece.
LEMMA FileGrows ==
    ASSUME NEW a \in Nat, NEW n \in Nat
    PROVE  FileBytes(0, a) \o FileBytes(a, n) = FileBytes(0, a + n)
<1> DEFINE f == FileBytes(0, a)
           s == FileBytes(a, n)
           j == f \o s
<1>1. s \in Seq(Byte) /\ Len(s) = n /\ \A i \in 1..n : s[i] = <<<<"data", a + i>>, 1>>
  BY FileFacts
<1>2. f \in Seq(Byte) /\ Len(f) = a /\ \A i \in 1..a : f[i] = <<<<"data", 0 + i>>, 1>>
  BY FileFacts
<1> HIDE DEF f, s
<1>3. /\ j \in Seq(Byte) /\ Len(j) = a + n
      /\ \A k \in 1..a + n : j[k] = IF k <= a THEN f[k] ELSE s[k - a]
  BY <1>1, <1>2, ConcatProperties
<1> HIDE DEF j
<1>4. ASSUME NEW k \in 1..a + n PROVE j[k] = <<<<"data", 0 + k>>, 1>>
  <2>1. CASE k <= a
    <3>1. k \in 1..a
      BY <2>1
    <3> QED BY <1>2, <1>3, <2>1, <3>1
  <2>2. CASE ~(k <= a)
    <3>1. k - a \in 1..n /\ a + (k - a) = 0 + k
      BY <1>1, <2>2
    <3>2. s[k - a] = <<<<"data", a + (k - a)>>, 1>>
      BY <1>1, <3>1
    <3> QED BY <1>3, <2>2, <3>1, <3>2
  <2> QED BY <2>1, <2>2
<1>5. j = [k \in 1..a + n |-> j[k]]
  BY <1>3
<1>6. j = [k \in 1..a + n |-> <<<<"data", 0 + k>>, 1>>]
  BY <1>4, <1>5
<1> QED BY <1>6 DEF FileBytes, j, f, s

\* How many bytes of the file are on their way.
DataIn(s) == Cardinality({i \in DOMAIN s : s[i][1][1] = "data"})
Where(s) == {i \in DOMAIN s : s[i][1][1] = "data"}

\* There are finitely many places of bytes of the file in a stream.
LEMMA WhereFinite ==
    ASSUME NEW S, NEW s \in Seq(S)
    PROVE  IsFiniteSet(Where(s)) /\ Where(s) \subseteq 1..Len(s) /\ DataIn(s) \in Nat
           /\ DataIn(s) = Cardinality(Where(s))
<1>1. Len(s) \in Nat /\ DOMAIN s = 1..Len(s)
  BY LenProperties
<1>2. IsFiniteSet(1..Len(s))
  BY <1>1, FS_Interval
<1>3. Where(s) \in SUBSET (1..Len(s))
  BY <1>1 DEF Where
<1>4. IsFiniteSet(Where(s))
  BY <1>2, <1>3, FS_Subset
<1>5. Cardinality(Where(s)) \in Nat
  BY <1>4, FS_CardinalityType
<1> QED BY <1>3, <1>4, <1>5 DEF Where, DataIn

\* Bytes that come after others add what they have.
LEMMA DataJoin ==
    ASSUME NEW S, NEW s \in Seq(S), NEW t \in Seq(S)
    PROVE  DataIn(s \o t) = DataIn(s) + DataIn(t)
<1> DEFINE A == Where(s)
           B == Where(t)
           n == Len(s)
           C == {k + n : k \in B}
           f == [k \in B |-> k + n]
<1>1. n \in Nat /\ DOMAIN s = 1..n /\ Len(t) \in Nat /\ DOMAIN t = 1..Len(t)
  BY LenProperties
<1>2. /\ s \o t \in Seq(S) /\ DOMAIN (s \o t) = 1..(n + Len(t))
      /\ \A i \in 1..(n + Len(t)) : (s \o t)[i] = IF i <= n THEN s[i] ELSE t[i - n]
  BY <1>1, ConcatProperties, LenProperties
<1>3. /\ IsFiniteSet(A) /\ A \subseteq 1..n /\ IsFiniteSet(B) /\ B \subseteq 1..Len(t)
  BY WhereFinite
<1>4. Where(s \o t) = A \cup C
  <2>1. ASSUME NEW k \in Where(s \o t) PROVE k \in A \cup C
    <3>1. k \in 1..(n + Len(t)) /\ (s \o t)[k][1][1] = "data"
      BY <1>2 DEF Where
    <3>2. CASE k <= n
      BY <1>1, <1>2, <3>1, <3>2 DEF Where
    <3>3. CASE k > n
      <4>1. k - n \in 1..Len(t) /\ t[k - n][1][1] = "data" /\ k = (k - n) + n
        BY <1>1, <1>2, <3>1, <3>3
      <4> QED BY <1>1, <4>1 DEF Where
    <3> QED BY <1>1, <3>1, <3>2, <3>3
  <2>2. ASSUME NEW k \in A PROVE k \in Where(s \o t)
    <3>1. k \in 1..n /\ s[k][1][1] = "data"
      BY <1>1 DEF Where
    <3>2. k \in 1..(n + Len(t)) /\ (s \o t)[k] = s[k]
      BY <1>1, <1>2, <3>1
    <3> QED BY <1>2, <3>1, <3>2 DEF Where
  <2>3. ASSUME NEW k \in C PROVE k \in Where(s \o t)
    <3>1. PICK j \in B : k = j + n
      OBVIOUS
    <3>2. j \in 1..Len(t) /\ t[j][1][1] = "data"
      BY <1>1 DEF Where
    <3>3. k \in 1..(n + Len(t)) /\ (s \o t)[k] = t[j]
      BY <1>1, <1>2, <3>1, <3>2
    <3> QED BY <1>2, <3>2, <3>3 DEF Where
  <2> QED BY <2>1, <2>2, <2>3
<1>5. f \in Bijection(B, C)
  <2>1. \A j \in B : j \in Nat
    BY <1>1, <1>3
  <2>2. f \in [B -> C] /\ \A c \in C : \E j \in B : f[j] = c
    OBVIOUS
  <2>3. \A i, j \in B : f[i] = f[j] => i = j
    BY <1>1, <2>1
  <2> HIDE DEF f, C
  <2> QED BY <2>2, <2>3 DEF Bijection, Injection, Surjection, IsInjective
<1>6. IsFiniteSet(C) /\ Cardinality(C) = Cardinality(B)
  BY <1>3, <1>5, FS_Bijection DEF ExistsBijection
<1>7. A \cap C = {}
  <2>1. \A k \in C : k > n
    BY <1>1, <1>3
  <2>2. \A k \in A : k <= n
    BY <1>1, <1>3
  <2> QED BY <2>1, <2>2, <1>1, <1>3
<1>8. Cardinality(A) \in Nat /\ Cardinality(B) \in Nat
  BY <1>3, FS_CardinalityType
<1> HIDE DEF A, B, C
<1>9. Cardinality(A \cup C) = Cardinality(A) + Cardinality(C) - Cardinality(A \cap C)
  BY <1>3, <1>6, FS_Union
<1>10. Cardinality(A \cup C) = Cardinality(A) + Cardinality(B)
  <2>1. Cardinality(A \cap C) = 0
    BY <1>7, FS_EmptySet
  <2> QED BY <1>6, <1>8, <1>9, <2>1
<1>11. /\ DataIn(s \o t) = Cardinality(Where(s \o t))
       /\ DataIn(s) = Cardinality(A) /\ DataIn(t) = Cardinality(B)
  BY <1>2, WhereFinite DEF A, B
<1> QED BY <1>4, <1>10, <1>11

\* Bytes all of which are of the file, or none.
LEMMA DataAll ==
    ASSUME NEW S, NEW s \in Seq(S)
    PROVE  /\ (\A i \in 1..Len(s) : s[i][1][1] # "data") => DataIn(s) = 0
           /\ (\A i \in 1..Len(s) : s[i][1][1] = "data") => DataIn(s) = Len(s)
<1>1. Len(s) \in Nat /\ DOMAIN s = 1..Len(s)
  BY LenProperties
<1>2. ASSUME \A i \in 1..Len(s) : s[i][1][1] # "data" PROVE DataIn(s) = 0
  <2>1. Where(s) = {}
    BY <1>1, <1>2 DEF Where
  <2> QED BY <2>1, FS_EmptySet, WhereFinite
<1>3. ASSUME \A i \in 1..Len(s) : s[i][1][1] = "data" PROVE DataIn(s) = Len(s)
  <2>1. Where(s) = 1..Len(s)
    BY <1>1, <1>3 DEF Where
  <2>2. Cardinality(1..Len(s)) = Len(s)
    BY <1>1, FS_Interval
  <2> QED BY <2>1, <2>2, WhereFinite
<1> QED BY <1>2, <1>3

\* What is read is taken away.
LEMMA DataSplit ==
    ASSUME NEW S, NEW s \in Seq(S), NEW n \in 0..Len(s)
    PROVE  DataIn(s) = DataIn(SubSeq(s, 1, n)) + DataIn(SubSeq(s, n + 1, Len(s)))
<1> DEFINE p == SubSeq(s, 1, n)
           q == SubSeq(s, n + 1, Len(s))
<1>1. p \in Seq(S) /\ q \in Seq(S)
  BY SeqFacts
<1>2. /\ Len(p) = n /\ (\A k \in 1..n : p[k] = s[k])
      /\ Len(q) = Len(s) - n /\ \A k \in 1..Len(s) - n : q[k] = s[n + k]
  BY SeqFacts
<1>3. Len(s) \in Nat /\ n \in Nat /\ n <= Len(s)
  OBVIOUS
<1> DEFINE j == p \o q
<1> HIDE DEF p, q
<1>4. /\ j \in Seq(S) /\ Len(j) = Len(s)
      /\ \A k \in 1..Len(s) : j[k] = IF k <= n THEN p[k] ELSE q[k - n]
  BY <1>1, <1>2, <1>3, ConcatProperties
<1>5. DataIn(j) = DataIn(p) + DataIn(q)
  BY <1>1, DataJoin
<1> HIDE DEF j
<1>6. ASSUME NEW k \in 1..Len(s) PROVE j[k] = s[k]
  <2>1. CASE k <= n
    <3>1. k \in 1..n
      BY <2>1
    <3> QED BY <1>2, <1>4, <2>1, <3>1
  <2>2. CASE ~(k <= n)
    <3>1. k - n \in 1..Len(s) - n /\ n + (k - n) = k
      BY <1>3, <2>2
    <3> QED BY <1>2, <1>4, <2>2, <3>1
  <2> QED BY <2>1, <2>2
<1>7. j = s
  BY <1>4, <1>6, SeqEqual
<1> QED BY <1>5, <1>7 DEF p, q

\* A packet has nothing of the file, unless it is a piece of it.
LEMMA DataPackets ==
    /\ \A k \in PacketKinds, v \in Int : (k = "header" => v \in {Refused} \cup Number) /\ k # "data" =>
          DataIn(Bytes(<<k, v>>)) = 0
    /\ \A m, n \in Nat : DataIn(FileBytes(m, n)) = n
<1>1. ASSUME NEW k \in PacketKinds, NEW v \in Int, k = "header" => v \in {Refused} \cup Number, k # "data"
      PROVE  DataIn(Bytes(<<k, v>>)) = 0
  <2> DEFINE s == Bytes(<<k, v>>)
  <2>1. s \in Seq(Byte) /\ Len(s) = Size(<<k, v>>) /\ \A i \in 1..Size(<<k, v>>) : s[i] = <<<<k, v>>, i>>
    BY <1>1, BytesFacts DEF ByteSeq, Byte
  <2> HIDE DEF s
  <2>2. \A i \in 1..Len(s) : s[i][1][1] # "data"
    BY <1>1, <2>1
  <2> QED BY <2>1, <2>2, DataAll DEF s
<1>2. ASSUME NEW m \in Nat, NEW n \in Nat PROVE DataIn(FileBytes(m, n)) = n
  <2> DEFINE s == FileBytes(m, n)
  <2>1. s \in Seq(Byte) /\ Len(s) = n /\ \A i \in 1..n : s[i] = <<<<"data", m + i>>, 1>>
    BY FileFacts
  <2> HIDE DEF s
  <2>2. \A i \in 1..Len(s) : s[i][1][1] = "data"
    BY <2>1
  <2> QED BY <2>1, <2>2, DataAll DEF s
<1> QED BY <1>1, <1>2

(***************************************************************************)
(* The invariant, and what an end that moves must keep.                    *)
(***************************************************************************)

\* The place of the next byte that an end reads: c is its struct, n the frames
\* that it has.  The place of the next byte that it writes to a peer of script x.
AwaitedBy(x, e, c, n) ==
    CASE c.state = "none" -> At(IF e = "caller" THEN "ack" ELSE "uin1")
      [] c.state = "READING_UIN_1" -> At("uin1")
      [] c.state = "READING_UIN_2" -> At("uin2")
      [] c.state \in {"SENDING_ACK", "READING_TYPE"} -> At("type")
      [] c.state \in {"CONNECTING", "READING_ACK"} -> At("ack")
      [] c.state \in {"SENDING_REQUEST", "READING_REQUEST", "SENDING_FILE_INFO", "READING_FILE_ACK",
                      "SENDING_VOICE_REQUEST", "READING_VOICE_ACK"} -> Expects(x, e)
      [] c.state = "READING_FILE_INFO" -> At("info")
      [] c.state \in {"SENDING_FILE_HEADER", "SENDING_FILE"} -> At("end")
      [] c.state = "SENDING_FILE_ACK" -> Header(x.resume, c.size)
      [] c.state = "READING_FILE_HEADER" ->
            IF c.chunkOffset = 0 THEN Header(c.offset, c.size)
            ELSE After(x, Header(c.offset, c.size), c.chunkBuf[1])
      [] c.state = "GETTING_FILE" -> Data(c.offset, c.chunkSize - c.chunkOffset, c.size)
      [] c.state \in {"SENDING_VOICE_ACK", "READING_VOICE_HEADER"} -> Frame(n)
      [] c.state = "READING_VOICE_SIZE" -> FrameSize(n)
      [] c.state = "READING_VOICE_DATA" -> Voice(n, c.chunkSize - c.chunkOffset, c.chunkSize)
WrittenBy(x, e, c) ==
    CASE c.state \in {"none", "CONNECTING", "READING_UIN_1", "READING_UIN_2", "SENDING_ACK"} ->
            At(IF e = "caller" THEN "uin1" ELSE "ack")
      [] c.state \in {"READING_ACK", "SENDING_REQUEST"} -> At("type")
      [] c.state \in {"READING_TYPE", "READING_REQUEST", "SENDING_FILE_INFO", "SENDING_VOICE_REQUEST",
                      "READING_FILE_INFO", "SENDING_FILE_ACK", "SENDING_VOICE_ACK"} -> Expects(x, Peer(e))
      [] c.state = "READING_FILE_ACK" -> Header(x.resume, c.size)
      [] c.state \in {"READING_FILE_HEADER", "GETTING_FILE"} -> At("end")
      [] c.state = "SENDING_FILE_HEADER" -> Header(c.offset, c.size)
      [] c.state = "SENDING_FILE" -> Data(c.offset, c.chunkSize - c.chunkOffset, c.size)
      [] c.state \in {"READING_VOICE_ACK", "READING_VOICE_HEADER", "READING_VOICE_SIZE",
                      "READING_VOICE_DATA"} -> Frame(Len(x.said))
Awaited(e) == AwaitedBy(Script(e), e, h[e], Len(heard[e]))
Written(e) == WrittenBy(Script(Peer(e)), e, h[e])

\* What is on its way leads from what an end awaits to what its peer has
\* written, unless the peer has refused or is done.
Listens(e) == link = "up" /\ Open(e) /\ event[e] \notin Over
ExactIn(c, v) == c.state # "closed" /\ ~(c.state = "SENDING_FILE" /\ v = "DONE")
Exact(e) == ExactIn(h[e], event[e])
StreamOK(e) ==
    Listens(e) => \E b : /\ Leads(Script(e), Awaited(e), pipe[e], b)
                         /\ Exact(Peer(e)) => b \in {Lost, Written(Peer(e))}

\* The states, types and numbers of each end, when p is the plan, c its struct
\* and v its event.
SenderIn(p) == IF p.callback THEN "listener" ELSE "caller"
ReceiverIn(p) == Peer(SenderIn(p))
LiveIn(c) == c.state \notin {"none", "closed"}
MeetStates(e) ==
    IF e = "caller" THEN {"CONNECTING", "READING_ACK", "SENDING_REQUEST"}
    ELSE {"READING_UIN_1", "READING_UIN_2", "SENDING_ACK", "READING_TYPE"}
SenderStates(p) ==
    IF p.voice THEN {"SENDING_VOICE_REQUEST", "READING_VOICE_ACK"} \cup Chats
    ELSE {"SENDING_FILE_INFO", "READING_FILE_ACK"} \cup Sends
ReceiverStates(p) ==
    {"READING_REQUEST"} \cup IF p.voice THEN {"SENDING_VOICE_ACK"} \cup Chats
                             ELSE {"READING_FILE_INFO", "SENDING_FILE_ACK"} \cup Gets
TypeIn(p, e, c, v) ==
    CASE c.state \in MeetStates("listener") -> "DCC"
      [] c.state \in MeetStates("caller") -> IF p.callback THEN "GET" ELSE IF p.voice THEN "VOICE" ELSE "SEND"
      [] OTHER -> IF p.voice /\ v # "CALLBACK" /\ c.state # "READING_REQUEST" THEN "VOICE"
                  ELSE IF e = SenderIn(p) THEN "SEND" ELSE "GET"
KindOK(p, e, c, v) ==
    /\ c.state = "none" => v = "NONE"
    /\ LiveIn(c) =>
        /\ v = "CALLBACK" => e = "listener" /\ p.callback /\ c.state = "SENDING_FILE_INFO"
        /\ v # "CALLBACK" => c.state \in MeetStates(e) \cup
                                  IF e = SenderIn(p) THEN SenderStates(p) ELSE ReceiverStates(p)
        /\ v = "NEED_FILE_ACK" => c.state = "SENDING_FILE_ACK"
        /\ c.type = TypeIn(p, e, c, v)
        /\ e = "caller" => c.uin = 1 /\ c.peerUin = 2
        /\ e = "listener" /\ c.state # "READING_UIN_1" => c.peerUin = 1
        /\ e = "listener" /\ c.state \notin {"READING_UIN_1", "READING_UIN_2"} => c.uin = 2

\* The file: the sender has it; the receiver has opened its own, g, and has as
\* much of it as its offset says.
OpenedIn(c, v) == c.state \in Gets \cup {"SENDING_FILE_ACK"} /\ v # "NEED_FILE_ACK"
HasFile(p, c, v, g) ==
    /\ OpenedIn(c, v) => Len(g) = c.offset
    /\ ~OpenedIn(c, v) /\ c.state # "closed" => g = <<>> /\ (LiveIn(c) => c.offset = 0)
    /\ OpenedIn(c, v) /\ c.state = "SENDING_FILE_ACK" => c.offset = p.resume
    /\ LiveIn(c) /\ v = "DONE" => Len(g) = c.size
    /\ c.state = "READING_FILE_HEADER" /\ v \notin Over /\ c.chunkOffset = 1 =>
        c.chunkBuf[1] \in {<<<<"header", s>>, 1>> : s \in {Announced(c.offset, c.size), Refused}}
FileOK(p, e, c, v, g) ==
    /\ c.state \in {"READING_FILE_ACK"} \cup Sends => c.file
    /\ e = ReceiverIn(p) => HasFile(p, c, v, g)

\* Voice: nothing was said before the chat began, frames came as they were
\* said, and so does what has come of the next.
VoiceOK(c, v, frames, mine, theirs) ==
    /\ c.state \notin Chats \cup {"closed"} => mine = <<>> /\ frames = <<>>
    /\ \A n \in DOMAIN frames : n <= Len(theirs) /\ frames[n] = FrameBytes(n, theirs[n])
    /\ c.state = "READING_VOICE_DATA" =>
        LET n == Len(frames) + 1
        IN  /\ n <= Len(theirs) /\ c.chunkSize = theirs[n]
            /\ v \notin Over => c.voiceBuf = FrameBytes(n, c.chunkOffset)

\* How far each end is in the file: what the sender has sent is what the
\* receiver has and what is on its way.
GoneIn(p, c) == IF c.state \in Sends \cup Gets THEN c.offset ELSE p.resume
Counts ==
    /\ link = "up" /\ faults \cap {"disk", "refused"} = {} /\ ~plan.voice
    /\ \A e \in Ends : Open(e)
    /\ event[Receiver] \notin Over \/ h[Receiver].state \in Gets
CountOK == Counts => GoneIn(plan, h[Sender]) = GoneIn(plan, h[Receiver]) + DataIn(pipe[Receiver])

EndOK(e) ==
    /\ StreamOK(e) /\ KindOK(plan, e, h[e], event[e]) /\ FileOK(plan, e, h[e], event[e], got)
    /\ VoiceOK(h[e], event[e], heard[e], said[e], said[Peer(e)])
Main == (\A e \in Ends : EndOK(e)) /\ got = FileBytes(0, Len(got)) /\ CountOK

--------------------------------------------------------------------------------
\* Bytes of a file are counted in numbers.
LEMMA GoneType ==
    ASSUME NEW c \in Connections \cup {None, Closed},
           NEW p \in [voice : BOOLEAN, callback : BOOLEAN, resume : Resumes, size : FileSizes]
    PROVE  GoneIn(p, c) \in Int
<1>1. p.resume \in Int
  <2>1. p.resume \in Resumes
    OBVIOUS
  <2>2. p.resume \in Number /\ Width \in Int
    BY <2>1, ConstantFacts
  <2> QED BY <2>2 DEF Number
<1>2. c.state \in Sends \cup Gets => c \in Connections
  BY DEF Sends, Gets, None, Closed
<1>3. c \in Connections => c.offset \in Int
  BY ConstantFacts DEF Connections, Number
<1> QED BY <1>1, <1>2, <1>3 DEF GoneIn

\* One end moves: what is on its way to both still leads from what is awaited to
\* what is written.
LEMMA MoveMain ==
    ASSUME TypeInv, TypeInv', Main, NEW e \in Ends, Open(e), event[e] \notin Over,
           UNCHANGED <<plan, link, said>>, faults \subseteq faults',
           h'[Peer(e)] = h[Peer(e)], event'[Peer(e)] = event[Peer(e)], heard'[Peer(e)] = heard[Peer(e)],
           got' = got \/ e = Receiver, got' = FileBytes(0, Len(got')),
           KindOK(plan, e, h'[e], event'[e]), FileOK(plan, e, h'[e], event'[e], got'),
           VoiceOK(h'[e], event'[e], heard'[e], said[e], said[Peer(e)]),
           Counts /\ Counts' =>
               IF e = Sender
               THEN GoneIn(plan, h'[e]) + DataIn(pipe[Peer(e)]) = GoneIn(plan, h[e]) + DataIn(pipe'[Peer(e)])
               ELSE GoneIn(plan, h'[e]) + DataIn(pipe'[e]) = GoneIn(plan, h[e]) + DataIn(pipe[e]),
           Listens(e)' => \A b : Leads(Script(e), Awaited(e), pipe[e], b) =>
               Leads(Script(e), AwaitedBy(Script(e), e, h'[e], Len(heard'[e])), pipe'[e], b),
           Listens(Peer(e))' => \A b :
               /\ Leads(Script(Peer(e)), Awaited(Peer(e)), pipe[Peer(e)], b)
               /\ Exact(e) => b \in {Lost, Written(e)}
               => \E c : /\ Leads(Script(Peer(e)), Awaited(Peer(e)), pipe'[Peer(e)], c)
                         /\ ExactIn(h'[e], event'[e]) => c \in {Lost, WrittenBy(Script(Peer(e)), e, h'[e])}
    PROVE  Main'
<1> DEFINE d == Peer(e)
<1>1. d \in Ends /\ d # e /\ Peer(d) = e /\ Ends = {e, d}
  BY EndsFacts
<1>2. EndOK(e) /\ EndOK(d)
  BY <1>1 DEF Main
<1>3. /\ Script(e)' = Script(e) /\ Script(d)' = Script(d)
      /\ Awaited(d)' = Awaited(d) /\ Written(d)' = Written(d) /\ Exact(d)' = Exact(d)
      /\ Listens(d)' = Listens(d)
  BY <1>1 DEF Script, Awaited, Written, Exact, Listens, Open
<1>4. /\ Awaited(e)' = AwaitedBy(Script(e), e, h'[e], Len(heard'[e]))
      /\ Written(e)' = WrittenBy(Script(d), e, h'[e]) /\ Exact(e)' = ExactIn(h'[e], event'[e])
      /\ Listens(e)' => Listens(e)
  BY <1>3 DEF Awaited, Written, Exact, Listens
<1>5. StreamOK(e)'
  <2>1. SUFFICES ASSUME Listens(e)'
        PROVE \E b : /\ Leads(Script(e), Awaited(e)', pipe'[e], b)
                     /\ Exact(d) => b \in {Lost, Written(d)}
    BY <1>1, <1>3 DEF StreamOK
  <2>2. PICK b : /\ Leads(Script(e), Awaited(e), pipe[e], b)
                 /\ Exact(d) => b \in {Lost, Written(d)}
    BY <1>2, <1>4, <2>1 DEF EndOK, StreamOK
  <2>3. Leads(Script(e), Awaited(e)', pipe'[e], b)
    BY <1>4, <2>1, <2>2
  <2> QED BY <2>2, <2>3
<1>6. StreamOK(d)'
  <2>1. SUFFICES ASSUME Listens(d)'
        PROVE \E c : /\ Leads(Script(d), Awaited(d), pipe'[d], c)
                     /\ ExactIn(h'[e], event'[e]) => c \in {Lost, WrittenBy(Script(d), e, h'[e])}
    BY <1>1, <1>3, <1>4 DEF StreamOK
  <2>2. PICK b : /\ Leads(Script(d), Awaited(d), pipe[d], b)
                 /\ Exact(e) => b \in {Lost, Written(e)}
    BY <1>1, <1>2, <1>3, <2>1 DEF EndOK, StreamOK
  <2> QED BY <2>1, <2>2
<1>7. EndOK(e)'
  BY <1>5 DEF EndOK
<1>8. EndOK(d)'
  <2>1. KindOK(plan', d, h'[d], event'[d])
    BY <1>2 DEF EndOK
  <2>2. FileOK(plan', d, h'[d], event'[d], got')
    <3>1. FileOK(plan, d, h[d], event[d], got)
      BY <1>2 DEF EndOK
    <3>2. CASE got' = got
      BY <3>1, <3>2
    <3>3. CASE e = Receiver
      <4>1. d # ReceiverIn(plan)
        BY <1>1, <3>3 DEF Receiver, ReceiverIn, Sender, SenderIn
      <4> QED BY <3>1, <4>1 DEF FileOK
    <3> QED BY <3>2, <3>3
  <2>3. VoiceOK(h'[d], event'[d], heard'[d], said'[d], said'[Peer(d)])
    BY <1>1, <1>2 DEF EndOK
  <2> QED BY <1>6, <2>1, <2>2, <2>3 DEF EndOK
<1>9. CountOK'
  <2>1. SUFFICES ASSUME Counts'
        PROVE  GoneIn(plan, h'[Sender]) = GoneIn(plan, h'[Receiver]) + DataIn(pipe'[Receiver])
    BY DEF CountOK, Sender, Receiver
  <2>2. Counts
    <3>1. \A x \in Ends : Open(x)
      <4>1. Open(d)
        BY <1>1, <2>1 DEF Counts, Open
      <4> QED BY <1>1, <4>1
    <3>2. event[Receiver] \notin Over \/ h[Receiver].state \in Gets
      <4>1. Receiver \in {e, d} /\ Receiver' = Receiver
        BY <1>1 DEF Receiver, Sender, Peer, Ends
      <4> QED BY <2>1, <4>1 DEF Counts
    <3> QED BY <2>1, <3>1, <3>2 DEF Counts
  <2>3. GoneIn(plan, h[Sender]) = GoneIn(plan, h[Receiver]) + DataIn(pipe[Receiver])
    BY <2>2 DEF Main, CountOK
  <2>4. \A x \in Ends : GoneIn(plan, h[x]) \in Int /\ GoneIn(plan, h'[x]) \in Int
                        /\ DataIn(pipe[x]) \in Int /\ DataIn(pipe'[x]) \in Int
    <3> TAKE x \in Ends
    <3>1. /\ h[x] \in Connections \cup {None, Closed} /\ h'[x] \in Connections \cup {None, Closed}
          /\ plan \in [voice : BOOLEAN, callback : BOOLEAN, resume : Resumes, size : FileSizes]
      BY DEF TypeInv, EndsInv, DataInv
    <3>2. pipe[x] \in ByteSeq /\ pipe'[x] \in ByteSeq
      BY DEF TypeInv, EndsInv
    <3>3. DataIn(pipe[x]) \in Nat /\ DataIn(pipe'[x]) \in Nat
      BY <3>2, WhereFinite DEF ByteSeq
    <3>4. GoneIn(plan, h[x]) \in Int
      BY <3>1, GoneType
    <3>5. GoneIn(plan, h'[x]) \in Int
      BY <3>1, GoneType
    <3> QED BY <3>3, <3>4, <3>5
  <2>5. CASE e = Sender
    <3>1. Receiver = d
      BY <2>5 DEF Receiver
    <3>2. GoneIn(plan, h'[e]) + DataIn(pipe[d]) = GoneIn(plan, h[e]) + DataIn(pipe'[d])
      BY <2>1, <2>2, <2>5
    <3>3. GoneIn(plan, h[e]) = GoneIn(plan, h[d]) + DataIn(pipe[d]) /\ h'[d] = h[d]
      BY <2>3, <2>5, <3>1
    <3>4. GoneIn(plan, h'[e]) = GoneIn(plan, h'[d]) + DataIn(pipe'[d])
      BY <1>1, <2>4, <3>2, <3>3
    <3> QED BY <2>5, <3>1, <3>4
  <2>6. CASE e # Sender
    <3>1. Receiver = e /\ Sender = d
      BY <1>1, <2>6 DEF Receiver, Sender, Peer, Ends
    <3> QED BY <2>1, <2>2, <2>3, <2>4, <2>6, <3>1
  <2> QED BY <2>5, <2>6
<1> QED BY <1>1, <1>7, <1>8, <1>9 DEF Main

\* What an end has that is not over.
LEMMA TurnFacts ==
    ASSUME TypeInv, Main, NEW e \in Ends, Live(e)
    PROVE  /\ h[e] \in Connections /\ event[e] \in Events /\ pipe[e] \in ByteSeq /\ Open(e)
           /\ plan.voice \in BOOLEAN /\ plan.callback \in BOOLEAN /\ plan.resume \in Number
           /\ h[e].state \in States /\ LiveIn(h[e])
           /\ StreamOK(e) /\ KindOK(plan, e, h[e], event[e]) /\ FileOK(plan, e, h[e], event[e], got)
           /\ VoiceOK(h[e], event[e], heard[e], said[e], said[Peer(e)])
<1>1. h[e] \in Connections /\ event[e] \in Events /\ pipe[e] \in ByteSeq /\ EndsInv
  BY LiveEnd DEF TypeInv
<1>2. plan \in [voice : BOOLEAN, callback : BOOLEAN, resume : Resumes, size : FileSizes]
  BY DEF TypeInv, DataInv
<1>3. plan.voice \in BOOLEAN /\ plan.callback \in BOOLEAN /\ plan.resume \in Resumes
  BY <1>2
<1>4. plan.resume \in Number
  BY <1>3, ConstantFacts
<1>5. h[e].state \in States
  BY <1>1, LiveFacts
<1> QED BY <1>1, <1>3, <1>4, <1>5 DEF Main, EndOK, LiveIn, Live, Open

\* An end fails: nobody awaits what it does not read.
LEMMA FailMain ==
    ASSUME TypeInv, TypeInv', Main, NEW e \in Ends, Live(e), event[e] = "NONE", NEW v \in Over, Fails(e, v),
           v = "DONE" => h[e].state = "SENDING_FILE",
           UNCHANGED <<plan, link, dataVars>>, faults \subseteq faults', pipe'[Peer(e)] = pipe[Peer(e)],
           h[e].state \in Gets /\ Counts' => DataIn(pipe'[e]) = DataIn(pipe[e])
    PROVE  Main'
<1> DEFINE d == Peer(e)
<1>1. d \in Ends /\ d # e /\ event'[e] = v /\ event'[d] = event[d] /\ h' = h
  BY EndsFacts DEF TypeInv, EndsInv, Fails, Returns
<1>2. "NONE" \notin Over /\ "CALLBACK" \notin Over /\ "NEED_FILE_ACK" \notin Over
  BY DEF Over
<1>3. Open(e) /\ LiveIn(h[e])
  BY TurnFacts
<1>4. KindOK(plan, e, h[e], v)
  <2>1. KindOK(plan, e, h[e], "NONE")
    BY TurnFacts
  <2>2. TypeIn(plan, e, h[e], v) = TypeIn(plan, e, h[e], "NONE")
    BY <1>2 DEF TypeIn
  <2> QED BY <1>2, <1>3, <2>1, <2>2 DEF KindOK, LiveIn
<1>5. FileOK(plan, e, h[e], v, got)
  <2>1. FileOK(plan, e, h[e], "NONE", got) /\ KindOK(plan, e, h[e], "NONE")
    BY TurnFacts
  <2>2. e = ReceiverIn(plan) /\ e # SenderIn(plan) => h[e].state # "SENDING_FILE"
    BY <1>3, <2>1 DEF KindOK, ReceiverStates, MeetStates, Chats, Gets
  <2>3. e = ReceiverIn(plan) => e # SenderIn(plan)
    BY DEF ReceiverIn, SenderIn, Peer
  <2>4. OpenedIn(h[e], v) = OpenedIn(h[e], "NONE")
    BY <1>2 DEF OpenedIn
  <2>5. ASSUME e = ReceiverIn(plan) PROVE HasFile(plan, h[e], v, got)
    <3>1. HasFile(plan, h[e], "NONE", got) /\ v # "DONE"
      BY <2>1, <2>2, <2>3, <2>5 DEF FileOK
    <3> QED BY <1>2, <2>4, <3>1 DEF HasFile
  <2> QED BY <2>1, <2>5 DEF FileOK
<1>6. VoiceOK(h[e], v, heard[e], said[e], said[d])
  <2>1. VoiceOK(h[e], "NONE", heard[e], said[e], said[d])
    BY TurnFacts
  <2> QED BY <1>2, <2>1 DEF VoiceOK
<1>7. got = FileBytes(0, Len(got))
  BY DEF Main
<1>8. ~Listens(e)'
  BY <1>1 DEF Listens
<1>9. ExactIn(h[e], v) => Exact(e)
  BY DEF ExactIn, Exact
<1>10. WrittenBy(Script(d), e, h[e]) = Written(e)
  BY DEF Written
<1>11. Counts /\ Counts' =>
           IF e = Sender
           THEN GoneIn(plan, h'[e]) + DataIn(pipe[d]) = GoneIn(plan, h[e]) + DataIn(pipe'[d])
           ELSE GoneIn(plan, h'[e]) + DataIn(pipe'[e]) = GoneIn(plan, h[e]) + DataIn(pipe[e])
  <2>1. ASSUME e # Sender, Counts' PROVE h[e].state \in Gets
    <3>1. Receiver' = e
      BY <2>1, EndsFacts DEF Receiver, Sender, Peer, Ends
    <3> QED BY <1>1, <2>1, <3>1 DEF Counts
  <2> QED BY <1>1, <2>1
<1>12. event[e] \notin Over
  BY <1>2
<1>13. heard' = heard /\ got' = got /\ said' = said
  BY DEF dataVars
<1> QED BY <1>1, <1>3, <1>4, <1>5, <1>6, <1>7, <1>8, <1>9, <1>10, <1>11, <1>12, <1>13, MoveMain

\* An end becomes c with event v, and has what it had.
Moves(e, c, v) ==
    /\ KindOK(plan, e, c, v) /\ FileOK(plan, e, c, v, got)
    /\ VoiceOK(c, v, heard[e], said[e], said[Peer(e)])
    /\ GoneIn(plan, c) = GoneIn(plan, h[e])

\* A packet that was read is the one that may come.
LEMMA ReadsFacts ==
    ASSUME TypeInv, Main, NEW e \in Ends, NEW kind, NEW value, Reads(e, kind, value), Plain(Awaited(e)),
           kind # "data",
           \A packet \in Packet : Comes(Script(e), Awaited(e), packet) => packet[1] = kind
    PROVE  /\ Comes(Script(e), Awaited(e), <<kind, value>>)
           /\ \A b : Leads(Script(e), Awaited(e), pipe[e], b) =>
                Leads(Script(e), Then(Script(e), Awaited(e), <<kind, value>>), pipe'[e], b)
           /\ pipe'[Peer(e)] = pipe[Peer(e)] /\ DataIn(pipe'[e]) = DataIn(pipe[e])
<1> DEFINE n == Size(<<kind>>)
           s == pipe[e]
           x == Script(e)
           a == Awaited(e)
           p == <<kind, value>>
<1>1. /\ Live(e) /\ event[e] = "NONE" /\ link = "up" /\ Len(s) >= n
      /\ value \in Values(SubSeq(s, 1, n), kind) /\ pipe' = Consumed(e, n)
  BY DEF Reads, Ready
<1>2. s \in ByteSeq /\ Open(e) /\ StreamOK(e) /\ "NONE" \notin Over /\ pipe \in [Ends -> ByteSeq]
  BY <1>1, TurnFacts DEF Over, TypeInv, EndsInv
<1>3. n \in 1..2 /\ Len(s) \in Nat /\ n \in 0..Len(s)
  BY <1>1, <1>2 DEF Size, Small, ByteSeq
<1>4. ASSUME NEW b, Leads(x, a, s, b)
      PROVE  /\ Comes(x, a, p) /\ p \in Packet /\ SubSeq(s, 1, n) = Bytes(p)
             /\ Leads(x, Then(x, a, p), SubSeq(s, n + 1, Len(s)), b)
  <2>1. PICK packet \in Packet :
              /\ Comes(x, a, packet) /\ packet[1] = kind /\ SubSeq(s, 1, n) = Bytes(packet)
              /\ Leads(x, Then(x, a, packet), SubSeq(s, n + 1, Len(s)), b)
    BY <1>1, <1>2, <1>4, FirstPacket
  <2>2. packet = <<packet[1], packet[2]>> /\ packet[1] \in PacketKinds /\ packet[2] \in Int
        /\ (packet[1] = "header" => packet[2] \in {Refused} \cup Number)
    BY DEF Packet
  <2>3. Size(packet) = n
    BY <2>1 DEF Size
  <2>4. Bytes(packet) \in ByteSeq /\ Len(Bytes(packet)) = n /\ Bytes(packet)[1] = <<packet, 1>>
    <3> DEFINE k == packet[1]
               v == packet[2]
    <3>1. /\ Bytes(<<k, v>>) \in ByteSeq /\ Len(Bytes(<<k, v>>)) = Size(<<k, v>>)
          /\ \A i \in 1..Size(<<k, v>>) : Bytes(<<k, v>>)[i] = <<<<k, v>>, i>>
      BY <2>2, BytesFacts
    <3> HIDE DEF k, v
    <3>2. packet = <<k, v>>
      BY <2>2 DEF k, v
    <3>3. 1 \in 1..Size(<<k, v>>)
      BY <1>3, <2>3, <3>2
    <3> QED BY <2>3, <3>1, <3>2, <3>3
  <2>5. Head(SubSeq(s, 1, n))[1] = packet
    <3> DEFINE t == Bytes(packet)
    <3>1. Head(t) = t[1]
      BY <1>3, <2>4 DEF ByteSeq
    <3>2. SubSeq(s, 1, n) = t /\ t[1] = <<packet, 1>>
      BY <2>1, <2>4
    <3> HIDE DEF t
    <3>3. Head(t)[1] = packet
      BY <3>1, <3>2
    <3> QED BY <3>2, <3>3
  <2>6. Values(SubSeq(s, 1, n), kind) = {packet[2]}
    BY <2>1, <2>5 DEF Values
  <2>7. value = packet[2]
    BY <1>1, <2>6
  <2>8. packet = p
    BY <2>1, <2>2, <2>7
  <2> QED BY <2>1, <2>8
<1>5. PICK b : Leads(x, a, s, b)
  BY <1>1, <1>2 DEF StreamOK, Listens
<1>6. Comes(x, a, p) /\ p \in Packet /\ SubSeq(s, 1, n) = Bytes(p)
  BY <1>4, <1>5
<1>7. pipe'[e] = SubSeq(s, n + 1, Len(s)) /\ pipe'[Peer(e)] = pipe[Peer(e)]
  BY <1>1, <1>2, EndsFacts DEF Consumed
<1>8. \A y : Leads(x, a, s, y) => Leads(x, Then(x, a, p), pipe'[e], y)
  BY <1>4, <1>7
<1>9. DataIn(pipe'[e]) = DataIn(s)
  <2>1. DataIn(s) = DataIn(SubSeq(s, 1, n)) + DataIn(SubSeq(s, n + 1, Len(s)))
    BY <1>2, <1>3, DataSplit DEF ByteSeq
  <2>2. kind \in PacketKinds /\ value \in Int /\ (kind = "header" => value \in {Refused} \cup Number)
    BY <1>6 DEF Packet
  <2>3. DataIn(Bytes(p)) = 0
    BY <2>2, DataPackets
  <2>4. SubSeq(s, n + 1, Len(s)) \in ByteSeq
    BY <1>2, <1>3, SeqFacts DEF ByteSeq
  <2>5. DataIn(SubSeq(s, n + 1, Len(s))) \in Nat
    BY <2>4, WhereFinite DEF ByteSeq
  <2>6. DataIn(s) = DataIn(SubSeq(s, n + 1, Len(s)))
    <3> DEFINE t == SubSeq(s, n + 1, Len(s))
               u == SubSeq(s, 1, n)
    <3>1. DataIn(u) = 0
      BY <1>6, <2>3
    <3>2. DataIn(s) = DataIn(u) + DataIn(t) /\ DataIn(t) \in Nat
      BY <2>1, <2>5
    <3> HIDE DEF t, u, n, s
    <3> QED BY <3>1, <3>2 DEF t
  <2> QED BY <1>7, <2>6
<1> QED BY <1>6, <1>7, <1>8, <1>9

\* An end goes on when it has read a packet.
LEMMA ReadsMain ==
    ASSUME TypeInv, TypeInv', Main, NEW e \in Ends, NEW kind, NEW value, Reads(e, kind, value),
           Plain(Awaited(e)), kind # "data",
           \A packet \in Packet : Comes(Script(e), Awaited(e), packet) => packet[1] = kind,
           NEW f, Well(f), Becomes(e, f), NEW v \in Events \ Over,
           Returns(e, v) \/ (v = "NONE" /\ UNCHANGED event),
           UNCHANGED <<plan, link, dataVars>>,
           Moves(e, With(f, h[e]), v),
           AwaitedBy(Script(e), e, With(f, h[e]), Len(heard[e])) = Then(Script(e), Awaited(e), <<kind, value>>),
           WrittenBy(Script(Peer(e)), e, With(f, h[e])) = Written(e)
    PROVE  Main'
<1> DEFINE d == Peer(e)
           c == With(f, h[e])
<1>1. Live(e) /\ event[e] = "NONE" /\ Open(e) /\ UNCHANGED faults
  BY TurnFacts DEF Reads, Ready
<1>2. EndsInv /\ event \in [Ends -> Events]
  BY DEF TypeInv, EndsInv
<1>3. h'[e] = c /\ h'[d] = h[d]
  BY <1>1, <1>2, BecomesFacts
<1>4. event'[e] = v /\ event'[d] = event[d] /\ "NONE" \notin Over
  BY <1>1, <1>2, EndsFacts DEF Returns, Over
<1>5. /\ \A b : Leads(Script(e), Awaited(e), pipe[e], b) =>
                Leads(Script(e), Then(Script(e), Awaited(e), <<kind, value>>), pipe'[e], b)
      /\ pipe'[d] = pipe[d] /\ DataIn(pipe'[e]) = DataIn(pipe[e])
  BY ReadsFacts
<1>6. got = FileBytes(0, Len(got))
  BY DEF Main
<1>7. heard' = heard /\ got' = got /\ said' = said
  BY DEF dataVars
<1>8. ExactIn(h'[e], event'[e]) => Exact(e)
  BY <1>1, <1>3, <1>4 DEF ExactIn, Exact, Open
<1>9. KindOK(plan, e, h'[e], event'[e]) /\ FileOK(plan, e, h'[e], event'[e], got')
      /\ VoiceOK(h'[e], event'[e], heard'[e], said[e], said[d]) /\ GoneIn(plan, h'[e]) = GoneIn(plan, h[e])
  BY <1>3, <1>4, <1>7 DEF Moves
<1>10. \A b : Leads(Script(e), Awaited(e), pipe[e], b) =>
              Leads(Script(e), AwaitedBy(Script(e), e, h'[e], Len(heard'[e])), pipe'[e], b)
  BY <1>3, <1>5, <1>7
<1>11. WrittenBy(Script(d), e, h'[e]) = Written(e)
  BY <1>3
<1>12. Counts /\ Counts' =>
           IF e = Sender
           THEN GoneIn(plan, h'[e]) + DataIn(pipe[d]) = GoneIn(plan, h[e]) + DataIn(pipe'[d])
           ELSE GoneIn(plan, h'[e]) + DataIn(pipe'[e]) = GoneIn(plan, h[e]) + DataIn(pipe[e])
  BY <1>5, <1>9
<1> HIDE DEF d, c
<1> QED BY <1>1, <1>3, <1>4, <1>5, <1>6, <1>7, <1>8, <1>9, <1>10, <1>11, <1>12, MoveMain DEF d

\* An end goes on when it has written a packet, or fails.
LEMMA WritesMain ==
    ASSUME TypeInv, TypeInv', Main, Uncut', NEW e \in Ends, Ready(e), NEW bytes \in ByteSeq,
           NEW f, Well(f), NEW v \in Events \ Over, Writes(e, bytes, f, v),
           UNCHANGED <<plan, link, dataVars>>, DataIn(bytes) = 0,
           Moves(e, With(f, h[e]), v),
           AwaitedBy(Script(e), e, With(f, h[e]), Len(heard[e])) = Awaited(e),
           Leads(Script(Peer(e)), Written(e), bytes, WrittenBy(Script(Peer(e)), e, With(f, h[e])))
    PROVE  Main'
<1> DEFINE d == Peer(e)
           c == With(f, h[e])
<1>1. Live(e) /\ event[e] = "NONE" /\ Open(e)
  BY TurnFacts DEF Ready
<1>2. EndsInv /\ event \in [Ends -> Events] /\ pipe \in [Ends -> ByteSeq]
  BY DEF TypeInv, EndsInv
<1>3. CASE /\ link = "broken" \/ ~Open(d)
           /\ Returns(e, "ERROR_HANDSHAKE") /\ UNCHANGED <<h, pipe, faults>>
  <2>1. "ERROR_HANDSHAKE" \in Over /\ "ERROR_HANDSHAKE" # "DONE" /\ Fails(e, "ERROR_HANDSHAKE")
    BY <1>3 DEF Over, Fails
  <2> QED BY <1>1, <1>3, <2>1, FailMain
<1>4. CASE \E n \in 0..Len(bytes) - 1 :
              /\ link = "up" /\ pipe' = Delivered(e, SubSeq(bytes, 1, n))
              /\ Returns(e, "ERROR_HANDSHAKE") /\ Fault("short write") /\ UNCHANGED h
  BY <1>4 DEF Fault, Uncut
<1>5. CASE link = "up" /\ pipe' = Delivered(e, bytes) /\ Becomes(e, f) /\ Returns(e, v) /\ UNCHANGED faults
  <2>1. h'[e] = c /\ h'[d] = h[d]
    BY <1>1, <1>2, <1>5, BecomesFacts
  <2>2. event'[e] = v /\ event'[d] = event[d] /\ "NONE" \notin Over
    BY <1>2, <1>5, EndsFacts DEF Returns, Over
  <2>3. pipe'[e] = pipe[e] /\ (Open(d) => pipe'[d] = pipe[d] \o bytes)
    BY <1>2, <1>5, EndsFacts DEF Delivered
  <2>4. got = FileBytes(0, Len(got))
    BY DEF Main
  <2>5. heard' = heard /\ got' = got /\ said' = said
    BY DEF dataVars
  <2>6. Exact(e)
    BY <1>1 DEF ExactIn, Exact, Open
  <2>7. KindOK(plan, e, h'[e], event'[e]) /\ FileOK(plan, e, h'[e], event'[e], got')
        /\ VoiceOK(h'[e], event'[e], heard'[e], said[e], said[d]) /\ GoneIn(plan, h'[e]) = GoneIn(plan, h[e])
    BY <2>1, <2>2, <2>5 DEF Moves
  <2>8. pipe[d] \in Seq(Byte) /\ bytes \in Seq(Byte)
    BY <1>2, EndsFacts DEF ByteSeq, Byte
  <2>9. Counts => DataIn(pipe'[d]) = DataIn(pipe[d])
    <3>1. DataIn(pipe[d] \o bytes) = DataIn(pipe[d]) + DataIn(bytes)
      BY <2>8, DataJoin
    <3>2. DataIn(pipe[d]) \in Nat
      BY <2>8, WhereFinite
    <3>3. Counts => Open(d)
      BY EndsFacts DEF Counts
    <3>4. DataIn(pipe[d] \o bytes) = DataIn(pipe[d])
      <4> HIDE DEF d
      <4> QED BY <3>1, <3>2
    <3> QED BY <2>3, <3>3, <3>4
  <2>10. Counts /\ Counts' =>
           IF e = Sender
           THEN GoneIn(plan, h'[e]) + DataIn(pipe[d]) = GoneIn(plan, h[e]) + DataIn(pipe'[d])
           ELSE GoneIn(plan, h'[e]) + DataIn(pipe'[e]) = GoneIn(plan, h[e]) + DataIn(pipe[e])
    BY <2>3, <2>7, <2>9
  <2>11. ASSUME Listens(d)', NEW b, Leads(Script(d), Awaited(d), pipe[d], b),
                Exact(e) => b \in {Lost, Written(e)}
         PROVE  \E a : /\ Leads(Script(d), Awaited(d), pipe'[d], a)
                       /\ ExactIn(h'[e], event'[e]) => a \in {Lost, WrittenBy(Script(d), e, h'[e])}
    <3>1. Open(d)
      BY <2>1, <2>11 DEF Listens, Open
    <3>2. CASE b = Lost
      <4>1. Leads(Script(d), Lost, bytes, Lost)
        BY <2>8, LostLeads
      <4>2. Leads(Script(d), Awaited(d), pipe[d] \o bytes, Lost)
        BY <2>8, <2>11, <3>2, <4>1, LeadsJoin
      <4> QED BY <2>3, <3>1, <4>2
    <3>3. CASE b = Written(e)
      <4>1. Leads(Script(d), Awaited(d), pipe[d] \o bytes, WrittenBy(Script(d), e, c))
        BY <2>8, <2>11, <3>3, LeadsJoin
      <4> QED BY <2>1, <2>3, <3>1, <4>1
    <3> QED BY <2>6, <2>11, <3>2, <3>3
  <2>12. AwaitedBy(Script(e), e, h'[e], Len(heard'[e])) = Awaited(e)
    BY <2>1, <2>5
  <2>13. event[e] \notin Over /\ faults \subseteq faults'
    BY <1>1, <1>5, <2>2
  <2> HIDE DEF d, c
  <2> QED BY <1>1, <2>1, <2>2, <2>3, <2>4, <2>5, <2>7, <2>10, <2>11, <2>12, <2>13, MoveMain DEF d
<1> QED BY <1>3, <1>4, <1>5 DEF Writes

\* The program gives an end what its event asks for.
LEMMA GivenMain ==
    ASSUME TypeInv, TypeInv', Main, NEW e \in Ends, NEW f, Well(f), NEW events, Given(e, f, events),
           events \cap Over = {}, UNCHANGED got,
           Moves(e, With(f, h[e]), "NONE"),
           AwaitedBy(Script(e), e, With(f, h[e]), Len(heard[e])) = Awaited(e),
           WrittenBy(Script(Peer(e)), e, With(f, h[e])) = Written(e)
    PROVE  Main'
<1> DEFINE d == Peer(e)
           c == With(f, h[e])
<1>1. Live(e) /\ event[e] \notin Over /\ Open(e) /\ UNCHANGED <<plan, link, said, heard, pipe, faults>>
  BY TurnFacts DEF Given
<1>2. EndsInv /\ event \in [Ends -> Events]
  BY DEF TypeInv, EndsInv
<1>3. h'[e] = c /\ h'[d] = h[d]
  BY <1>1, <1>2, BecomesFacts DEF Given
<1>4. event'[e] = "NONE" /\ event'[d] = event[d] /\ "DONE" \in Over
  BY <1>2, EndsFacts DEF Given, Returns, Over
<1>5. got = FileBytes(0, Len(got))
  BY DEF Main
<1>6. Exact(e)
  BY <1>1, <1>4 DEF ExactIn, Exact, Open
<1>7. KindOK(plan, e, h'[e], event'[e]) /\ FileOK(plan, e, h'[e], event'[e], got')
      /\ VoiceOK(h'[e], event'[e], heard'[e], said[e], said[d]) /\ GoneIn(plan, h'[e]) = GoneIn(plan, h[e])
  BY <1>1, <1>3, <1>4 DEF Moves
<1>8. AwaitedBy(Script(e), e, h'[e], Len(heard'[e])) = Awaited(e) /\ WrittenBy(Script(d), e, h'[e]) = Written(e)
  BY <1>1, <1>3
<1> HIDE DEF d, c
<1> QED BY <1>1, <1>3, <1>4, <1>5, <1>6, <1>7, <1>8, MoveMain DEF d

\* What may come at each place, and where it leads.
LEMMA PlaceFacts ==
    ASSUME NEW x, NEW packet
    PROVE  /\ \A stage \in {"uin1", "uin2", "type", "ack", "request", "info", "file_ack", "voice_ack"} :
                Plain(At(stage))
           /\ \A n, size : Plain(Header(n, size)) /\ Plain(Frame(n)) /\ Plain(FrameSize(n))
           /\ Comes(x, At("uin1"), packet) <=> packet = <<"uin", 1>>
           /\ Comes(x, At("uin2"), packet) <=> packet = <<"uin", 2>>
           /\ Comes(x, At("type"), packet) <=> packet = <<"small", IF x.callback THEN 3 ELSE 2>>
           /\ Comes(x, At("ack"), packet) <=> packet = <<"ack", 1>>
           /\ Comes(x, At("request"), packet) <=> packet = <<"small", IF x.voice THEN 3 ELSE 1>>
           /\ Comes(x, At("info"), packet) <=> packet[1] = "info" /\ packet[2] \in Number
           /\ Comes(x, At("file_ack"), packet) <=> packet = <<"file_ack", x.resume>>
           /\ Comes(x, At("voice_ack"), packet) <=> packet \in {<<"tiny", 1>>, <<"tiny", Refused>>}
           /\ \A n, size : Comes(x, Header(n, size), packet) <=>
                packet \in {<<"header", Announced(n, size)>>, <<"header", Refused>>}
           /\ \A n : Comes(x, Frame(n), packet) <=> packet = <<"tiny", 3>>
           /\ \A n : Comes(x, FrameSize(n), packet) <=>
                n \in 0..Len(x.said) - 1 /\ packet = <<"small", x.said[n + 1]>>
           /\ Then(x, At("uin1"), packet) = At("uin2") /\ Then(x, At("uin2"), packet) = At("type")
           /\ Then(x, At("type"), packet) = Expects(x, "listener") /\ Then(x, At("ack"), packet) = Expects(x, "caller")
           /\ Then(x, At("request"), packet) = IF x.voice THEN Frame(0) ELSE At("info")
           /\ Then(x, At("info"), packet) = Header(x.resume, packet[2])
           /\ Then(x, At("file_ack"), packet) = At("end")
           /\ Then(x, At("voice_ack"), packet) = IF packet[2] = 1 THEN Frame(0) ELSE Lost
           /\ \A n, size : Then(x, Header(n, size), packet) =
                IF packet[2] = Refused THEN Lost ELSE Data(n, packet[2], size)
           /\ \A n : Then(x, Frame(n), packet) = FrameSize(n)
           /\ \A n : Then(x, FrameSize(n), packet) =
                IF packet[2] = 0 THEN Frame(n + 1) ELSE Voice(n, packet[2], packet[2])
<1>1. \A stage \in {"uin1", "uin2", "type", "ack", "request", "info", "file_ack", "voice_ack"} :
          Plain(At(stage))
  BY DEF Plain, At, Place
<1>2. \A n, size : Plain(Header(n, size)) /\ Plain(Frame(n)) /\ Plain(FrameSize(n))
  BY DEF Plain, Header, Frame, FrameSize, Place
<1>3. DOMAIN Fixed(x) = {"uin1", "uin2", "type", "ack", "request", "file_ack", "frame"}
      /\ Fixed(x).uin1 = <<"uin", 1>> /\ Fixed(x).uin2 = <<"uin", 2>> /\ Fixed(x).ack = <<"ack", 1>>
      /\ Fixed(x).type = <<"small", IF x.callback THEN 3 ELSE 2>>
      /\ Fixed(x).request = <<"small", IF x.voice THEN 3 ELSE 1>>
      /\ Fixed(x).file_ack = <<"file_ack", x.resume>> /\ Fixed(x).frame = <<"tiny", 3>>
  BY DEF Fixed
<1>4. /\ Comes(x, At("uin1"), packet) <=> packet = <<"uin", 1>>
      /\ Comes(x, At("uin2"), packet) <=> packet = <<"uin", 2>>
      /\ Comes(x, At("type"), packet) <=> packet = <<"small", IF x.callback THEN 3 ELSE 2>>
      /\ Comes(x, At("ack"), packet) <=> packet = <<"ack", 1>>
      /\ Comes(x, At("request"), packet) <=> packet = <<"small", IF x.voice THEN 3 ELSE 1>>
      /\ Comes(x, At("file_ack"), packet) <=> packet = <<"file_ack", x.resume>>
  BY <1>3 DEF Comes, At, Place
<1>5. /\ Comes(x, At("info"), packet) <=> packet[1] = "info" /\ packet[2] \in Number
      /\ Comes(x, At("voice_ack"), packet) <=> packet \in {<<"tiny", 1>>, <<"tiny", Refused>>}
  BY <1>3 DEF Comes, At, Place
<1>6. \A n, size : Comes(x, Header(n, size), packet) <=>
          packet \in {<<"header", Announced(n, size)>>, <<"header", Refused>>}
  BY <1>3 DEF Comes, Header, Place
<1>7. \A n : Comes(x, Frame(n), packet) <=> packet = <<"tiny", 3>>
  BY <1>3 DEF Comes, Frame, Place
<1>8. \A n : Comes(x, FrameSize(n), packet) <=>
          n \in 0..Len(x.said) - 1 /\ packet = <<"small", x.said[n + 1]>>
  BY <1>3 DEF Comes, FrameSize, Place
<1>9. /\ Then(x, At("uin1"), packet) = At("uin2") /\ Then(x, At("uin2"), packet) = At("type")
      /\ Then(x, At("type"), packet) = Expects(x, "listener") /\ Then(x, At("ack"), packet) = Expects(x, "caller")
      /\ Then(x, At("request"), packet) = IF x.voice THEN Frame(0) ELSE At("info")
      /\ Then(x, At("info"), packet) = Header(x.resume, packet[2])
      /\ Then(x, At("file_ack"), packet) = At("end")
      /\ Then(x, At("voice_ack"), packet) = IF packet[2] = 1 THEN Frame(0) ELSE Lost
  BY DEF Then, At, Place
<1>10. \A n, size : Then(x, Header(n, size), packet) =
          IF packet[2] = Refused THEN Lost ELSE Data(n, packet[2], size)
  BY DEF Then, Header, Place
<1>11. \A n : Then(x, Frame(n), packet) = FrameSize(n)
  BY DEF Then, Frame, Place
<1>12. \A n : Then(x, FrameSize(n), packet) =
          IF packet[2] = 0 THEN Frame(n + 1) ELSE Voice(n, packet[2], packet[2])
  BY DEF Then, FrameSize, Place
<1> QED BY <1>1, <1>2, <1>4, <1>5, <1>6, <1>7, <1>8, <1>9, <1>10, <1>11, <1>12

\* States of an end that has nothing of the file or the chat yet.
EarlyStates == MeetStates("caller") \cup MeetStates("listener") \cup
    {"READING_REQUEST", "SENDING_FILE_INFO", "SENDING_VOICE_REQUEST", "READING_VOICE_ACK",
     "READING_FILE_INFO", "SENDING_VOICE_ACK"}

\* An end that moves between early states has what it had.
LEMMA EarlyMoves ==
    ASSUME TypeInv, Main, NEW e \in Ends, Live(e), event[e] \notin Over,
           NEW c \in Connections, NEW v \in Events \ Over, KindOK(plan, e, c, v),
           h[e].state \in EarlyStates, c.state \in EarlyStates, c.offset = h[e].offset
    PROVE  Moves(e, c, v)
<1>1. /\ FileOK(plan, e, h[e], event[e], got) /\ VoiceOK(h[e], event[e], heard[e], said[e], said[Peer(e)])
      /\ LiveIn(h[e])
  BY TurnFacts
<1>2. \A s \in EarlyStates : /\ s \notin Sends \cup Gets \cup Chats \cup {"SENDING_FILE_ACK", "READING_FILE_ACK"}
                             /\ s \notin {"none", "closed"}
  BY DEF EarlyStates, MeetStates, Sends, Gets, Chats
<1>3. ASSUME HasFile(plan, h[e], event[e], got) PROVE HasFile(plan, c, v, got)
  <2>1. "DONE" \in Over
    BY DEF Over
  <2>2. ~OpenedIn(h[e], event[e]) /\ ~OpenedIn(c, v) /\ LiveIn(c) /\ c.state # "READING_FILE_HEADER"
        /\ h[e].state # "closed"
    BY <1>2 DEF OpenedIn, LiveIn, Gets
  <2> QED BY <1>1, <1>3, <2>1, <2>2 DEF HasFile
<1>4. FileOK(plan, e, c, v, got)
  BY <1>1, <1>2, <1>3 DEF FileOK
<1>5. VoiceOK(c, v, heard[e], said[e], said[Peer(e)])
  <2>1. c.state \notin Chats \cup {"closed"} /\ h[e].state \notin Chats \cup {"closed"}
        /\ c.state # "READING_VOICE_DATA"
    BY <1>2 DEF Chats
  <2> QED BY <1>1, <2>1 DEF VoiceOK
<1>6. GoneIn(plan, c) = GoneIn(plan, h[e])
  BY <1>2 DEF GoneIn
<1> QED BY <1>4, <1>5, <1>6 DEF Moves

(***************************************************************************)
(* The steps of gg_dcc_watch_fd.                                           *)
(***************************************************************************)

\* What an end that reads a packet is.
LEMMA ReaderFacts ==
    ASSUME TypeInv, Main, NEW e \in Ends, NEW kind, NEW value, Reads(e, kind, value)
    PROVE  /\ Live(e) /\ event[e] = "NONE" /\ "NONE" \in Events \ Over /\ h[e] \in Connections
           /\ h[e].state \in States /\ KindOK(plan, e, h[e], "NONE") /\ LiveIn(h[e]) /\ UNCHANGED faults
           /\ pipe'[Peer(e)] = pipe[Peer(e)]
<1>1. Live(e) /\ event[e] = "NONE" /\ UNCHANGED faults /\ pipe' = Consumed(e, Size(<<kind>>))
  BY DEF Reads, Ready
<1>2. "NONE" \in Events \ Over
  BY DEF Events, Over
<1>3. pipe'[Peer(e)] = pipe[Peer(e)]
  BY <1>1, EndsFacts DEF TypeInv, EndsInv, Consumed
<1> QED BY <1>1, <1>2, <1>3, TurnFacts

\* A packet was read that is not a consent.
LEMMA ReadFailsMain ==
    ASSUME TypeInv, TypeInv', Main, NEW e \in Ends, NEW kind, NEW value, Reads(e, kind, value),
           NEW v \in Over \ {"DONE"}, Fails(e, v), UNCHANGED <<plan, link, dataVars>>, h[e].state \notin Gets
    PROVE  Main'
  BY ReaderFacts, FailMain

\* The listener reads both numbers.
LEMMA UinMain ==
    ASSUME TypeInv, TypeInv', Main, NEW e \in Ends, ReadingUin(e), UNCHANGED <<plan, link>>
    PROVE  Main'
<1>1. PICK uin \in {Uin(x) : x \in Ends} \cup Garbage :
        /\ Reads(e, "uin", uin)
        /\ \/ /\ h[e].state = "READING_UIN_1"
              /\ Becomes(e, [state |-> "READING_UIN_2", check |-> "READ", peerUin |-> uin])
              /\ UNCHANGED event
           \/ /\ h[e].state = "READING_UIN_2"
              /\ Becomes(e, [state |-> "SENDING_ACK", check |-> "WRITE", uin |-> uin])
              /\ Returns(e, "CLIENT_ACCEPT")
        /\ UNCHANGED dataVars
  BY DEF ReadingUin
<1>2. uin \in Number
  BY ConstantFacts DEF Uin
<1>3. /\ Live(e) /\ event[e] = "NONE" /\ "NONE" \in Events \ Over /\ h[e] \in Connections
      /\ KindOK(plan, e, h[e], "NONE") /\ LiveIn(h[e])
  BY <1>1, ReaderFacts
<1>4. ASSUME h[e].state \in {"READING_UIN_1", "READING_UIN_2"} PROVE e = "listener"
  BY <1>3, <1>4 DEF KindOK, MeetStates, SenderStates, ReceiverStates, Chats, Sends, Gets, Ends
<1>5. CASE /\ h[e].state = "READING_UIN_1"
           /\ Becomes(e, [state |-> "READING_UIN_2", check |-> "READ", peerUin |-> uin])
           /\ UNCHANGED event
  <2> DEFINE f == [state |-> "READING_UIN_2", check |-> "READ", peerUin |-> uin]
             c == With(f, h[e])
  <2>1. Well(f) /\ DOMAIN f = {"state", "check", "peerUin"}
    BY <1>2, StateNames DEF Well, Fields, Types
  <2>2. c \in Connections /\ c.state = "READING_UIN_2" /\ c.peerUin = uin /\ c.uin = h[e].uin
        /\ c.type = h[e].type /\ c.offset = h[e].offset
    BY <1>3, <2>1, WithFacts DEF Fields
  <2>3. Awaited(e) = At("uin1") /\ Written(e) = At("ack")
    BY <1>4, <1>5 DEF Awaited, AwaitedBy, Written, WrittenBy
  <2>4. /\ AwaitedBy(Script(e), e, c, Len(heard[e])) = At("uin2")
        /\ WrittenBy(Script(Peer(e)), e, c) = At("ack")
    BY <1>4, <1>5, <2>2 DEF AwaitedBy, WrittenBy
  <2>5. \A packet : Comes(Script(e), At("uin1"), packet) <=> packet = <<"uin", 1>>
    BY PlaceFacts
  <2>6. Plain(At("uin1")) /\ Then(Script(e), At("uin1"), <<"uin", uin>>) = At("uin2")
    BY PlaceFacts
  <2>7. \A packet \in Packet : Comes(Script(e), Awaited(e), packet) => packet[1] = "uin"
    BY <2>3, <2>5
  <2>8. uin = 1
    BY <1>1, <2>3, <2>5, <2>6, <2>7, ReadsFacts
  <2>9. KindOK(plan, e, c, "NONE")
    BY <1>3, <1>4, <1>5, <2>2, <2>8 DEF KindOK, TypeIn, MeetStates, LiveIn
  <2>10. Moves(e, c, "NONE")
    BY <1>3, <1>5, <2>2, <2>9, EarlyMoves DEF EarlyStates, MeetStates
  <2> HIDE DEF f
  <2> QED BY <1>1, <1>3, <1>5, <2>1, <2>3, <2>4, <2>6, <2>7, <2>10, ReadsMain DEF f
<1>6. CASE /\ h[e].state = "READING_UIN_2"
           /\ Becomes(e, [state |-> "SENDING_ACK", check |-> "WRITE", uin |-> uin])
           /\ Returns(e, "CLIENT_ACCEPT")
  <2> DEFINE f == [state |-> "SENDING_ACK", check |-> "WRITE", uin |-> uin]
             c == With(f, h[e])
  <2>1. Well(f) /\ DOMAIN f = {"state", "check", "uin"} /\ "CLIENT_ACCEPT" \in Events \ Over
    BY <1>2, StateNames DEF Well, Fields, Types, Events, Over
  <2>2. c \in Connections /\ c.state = "SENDING_ACK" /\ c.peerUin = h[e].peerUin /\ c.uin = uin
        /\ c.type = h[e].type /\ c.offset = h[e].offset
    BY <1>3, <2>1, WithFacts DEF Fields
  <2>3. Awaited(e) = At("uin2") /\ Written(e) = At("ack")
    BY <1>4, <1>6 DEF Awaited, AwaitedBy, Written, WrittenBy
  <2>4. /\ AwaitedBy(Script(e), e, c, Len(heard[e])) = At("type")
        /\ WrittenBy(Script(Peer(e)), e, c) = At("ack")
    BY <1>4, <1>6, <2>2 DEF AwaitedBy, WrittenBy
  <2>5. \A packet : Comes(Script(e), At("uin2"), packet) <=> packet = <<"uin", 2>>
    BY PlaceFacts
  <2>6. Plain(At("uin2")) /\ Then(Script(e), At("uin2"), <<"uin", uin>>) = At("type")
    BY PlaceFacts
  <2>7. \A packet \in Packet : Comes(Script(e), Awaited(e), packet) => packet[1] = "uin"
    BY <2>3, <2>5
  <2>8. uin = 2
    BY <1>1, <2>3, <2>5, <2>6, <2>7, ReadsFacts
  <2>9. KindOK(plan, e, c, "CLIENT_ACCEPT")
    BY <1>3, <1>4, <1>6, <2>2, <2>8 DEF KindOK, TypeIn, MeetStates, LiveIn
  <2>10. Moves(e, c, "CLIENT_ACCEPT")
    BY <1>3, <1>6, <2>1, <2>2, <2>9, EarlyMoves DEF EarlyStates, MeetStates
  <2> HIDE DEF f
  <2> QED BY <1>1, <1>3, <1>6, <2>1, <2>3, <2>4, <2>6, <2>7, <2>10, ReadsMain DEF f
<1> QED BY <1>1, <1>5, <1>6

\* Who is in which state, and what an end expects.
LEMMA KindStates ==
    ASSUME NEW p, p.voice \in BOOLEAN, p.callback \in BOOLEAN, NEW e \in Ends, NEW c, NEW v,
           KindOK(p, e, c, v), LiveIn(c)
    PROVE  /\ c.type = TypeIn(p, e, c, v)
           /\ c.state \in MeetStates("listener") => e = "listener"
           /\ c.state \in MeetStates("caller") => e = "caller"
           /\ c.state \in {"SENDING_VOICE_REQUEST", "READING_VOICE_ACK"} => e = SenderIn(p) /\ p.voice
           /\ c.state \in {"READING_FILE_ACK"} \cup Sends => e = SenderIn(p) /\ ~p.voice
           /\ c.state = "SENDING_FILE_INFO" => e = SenderIn(p) /\ (v # "CALLBACK" => ~p.voice)
           /\ c.state = "READING_REQUEST" => e = ReceiverIn(p)
           /\ c.state = "SENDING_VOICE_ACK" => e = ReceiverIn(p) /\ p.voice
           /\ c.state \in {"READING_FILE_INFO", "SENDING_FILE_ACK"} \cup Gets => e = ReceiverIn(p) /\ ~p.voice
           /\ c.state \in Chats => p.voice
           /\ v = "CALLBACK" => e = "listener" /\ p.callback /\ c.state = "SENDING_FILE_INFO"
<1>1. c.type = TypeIn(p, e, c, v)
  BY DEF KindOK
<1>2. v = "CALLBACK" => e = "listener" /\ p.callback /\ c.state = "SENDING_FILE_INFO"
  BY DEF KindOK
<1>3. CASE v = "CALLBACK"
  BY <1>1, <1>2, <1>3 DEF SenderIn, MeetStates, Sends, Gets, Chats
<1>4. CASE v # "CALLBACK"
  <2>1. c.state \in MeetStates(e) \cup IF e = SenderIn(p) THEN SenderStates(p) ELSE ReceiverStates(p)
    BY <1>4 DEF KindOK
  <2>2. e # SenderIn(p) <=> e = ReceiverIn(p)
    BY DEF SenderIn, ReceiverIn, Peer, Ends
  <2>3. e \in {"caller", "listener"}
    BY DEF Ends
  <2>4. CASE c.state \in MeetStates(e)
    BY <1>1, <1>4, <2>3, <2>4 DEF MeetStates, Sends, Gets, Chats
  <2>5. CASE e = SenderIn(p) /\ c.state \in SenderStates(p)
    BY <1>1, <1>4, <2>3, <2>5 DEF MeetStates, SenderStates, Sends, Gets, Chats
  <2>6. CASE e # SenderIn(p) /\ c.state \in ReceiverStates(p)
    BY <1>1, <1>4, <2>2, <2>3, <2>6 DEF MeetStates, ReceiverStates, Sends, Gets, Chats
  <2> QED BY <2>1, <2>4, <2>5, <2>6
<1> QED BY <1>3, <1>4

\* The plan is what it is in every script, and what an end expects follows.
LEMMA ScriptFacts ==
    ASSUME TypeInv, NEW e \in Ends
    PROVE  /\ Script(e).voice = plan.voice /\ Script(e).callback = plan.callback
           /\ Script(e).resume = plan.resume /\ Script(e).said = said[Peer(e)]
           /\ e = SenderIn(plan) => \A x : x.callback = plan.callback /\ x.voice = plan.voice =>
                /\ Expects(x, e) = At(IF plan.voice THEN "voice_ack" ELSE "file_ack")
                /\ Expects(x, Peer(e)) = At("request")
           /\ e = ReceiverIn(plan) => \A x : x.callback = plan.callback /\ x.voice = plan.voice =>
                /\ Expects(x, Peer(e)) = At(IF plan.voice THEN "voice_ack" ELSE "file_ack")
                /\ Expects(x, e) = At("request")
<1>1. plan.voice \in BOOLEAN /\ plan.callback \in BOOLEAN
  BY DEF TypeInv, DataInv
<1> QED BY <1>1 DEF Script, SenderIn, ReceiverIn, Expects, Peer, Ends

\* The listener answers that it is there.
LEMMA AckMain ==
    ASSUME TypeInv, TypeInv', Main, Uncut', NEW e \in Ends, SendingAck(e), UNCHANGED <<plan, link>>
    PROVE  Main'
<1> DEFINE f == [state |-> "READING_TYPE", check |-> "READ"]
           c == With(f, h[e])
           bytes == Bytes(<<"ack", 1>>)
<1>1. /\ Ready(e) /\ h[e].state = "SENDING_ACK" /\ Writes(e, bytes, f, "NONE") /\ UNCHANGED dataVars
      /\ Live(e) /\ event[e] = "NONE" /\ "NONE" \in Events \ Over
  BY DEF SendingAck, Ready, Events, Over
<1>2. /\ KindOK(plan, e, h[e], "NONE") /\ LiveIn(h[e]) /\ h[e] \in Connections
      /\ plan.voice \in BOOLEAN /\ plan.callback \in BOOLEAN
  BY <1>1, TurnFacts
<1>3. e = "listener" /\ Peer(e) = "caller"
  BY <1>1, <1>2, KindStates DEF MeetStates, Peer
<1>4. Well(f) /\ DOMAIN f = {"state", "check"}
  BY StateNames DEF Well, Fields, Types
<1>5. c \in Connections /\ c.state = "READING_TYPE" /\ c.peerUin = h[e].peerUin /\ c.uin = h[e].uin
      /\ c.type = h[e].type /\ c.offset = h[e].offset
  BY <1>2, <1>4, WithFacts DEF Fields
<1>6. KindOK(plan, e, c, "NONE")
  BY <1>1, <1>2, <1>3, <1>5 DEF KindOK, TypeIn, MeetStates, LiveIn
<1>7. Moves(e, c, "NONE")
  BY <1>1, <1>5, <1>6, EarlyMoves DEF EarlyStates, MeetStates
<1>8. AwaitedBy(Script(e), e, c, Len(heard[e])) = Awaited(e)
  BY <1>1, <1>5 DEF Awaited, AwaitedBy
<1>9. Written(e) = At("ack") /\ WrittenBy(Script(Peer(e)), e, c) = Expects(Script(Peer(e)), "caller")
  BY <1>1, <1>3, <1>5 DEF Written, WrittenBy
<1>10. Leads(Script(Peer(e)), At("ack"), bytes, Expects(Script(Peer(e)), "caller"))
  <2> DEFINE x == Script(Peer(e))
  <2>1. /\ Plain(At("ack")) /\ Comes(x, At("ack"), <<"ack", 1>>)
        /\ Then(x, At("ack"), <<"ack", 1>>) = Expects(x, "caller")
    BY PlaceFacts
  <2> QED BY <2>1, PacketLeads
<1>11. bytes \in ByteSeq /\ DataIn(bytes) = 0
  BY BytesFacts, DataPackets DEF PacketKinds
<1> HIDE DEF f, bytes
<1> QED BY <1>1, <1>4, <1>7, <1>8, <1>9, <1>10, <1>11, WritesMain

\* The listener reads what the caller wants: to send, or to be called back.
LEMMA TypeMain ==
    ASSUME TypeInv, TypeInv', Main, NEW e \in Ends, ReadingType(e), UNCHANGED <<plan, link>>
    PROVE  Main'
<1> DEFINE x == Script(e)
<1>1. PICK type \in Garbage :
        /\ Reads(e, "small", type) /\ h[e].state = "READING_TYPE" /\ UNCHANGED dataVars
        /\ \/ /\ type = 3
              /\ Becomes(e, [type |-> "SEND", state |-> "SENDING_FILE_INFO", check |-> "WRITE"])
              /\ Returns(e, "CALLBACK")
           \/ /\ type = 2
              /\ Becomes(e, [type |-> "GET", state |-> "READING_REQUEST", check |-> "READ"])
              /\ UNCHANGED event
           \/ type \notin {2, 3} /\ Fails(e, "ERROR_HANDSHAKE")
  BY DEF ReadingType
<1>2. /\ Live(e) /\ event[e] = "NONE" /\ "NONE" \in Events \ Over /\ h[e] \in Connections
      /\ KindOK(plan, e, h[e], "NONE") /\ LiveIn(h[e])
      /\ plan.voice \in BOOLEAN /\ plan.callback \in BOOLEAN
  BY <1>1, ReaderFacts, TurnFacts
<1>3. e = "listener" /\ Peer(e) = "caller"
  BY <1>1, <1>2, KindStates DEF MeetStates, Peer
<1>4. Awaited(e) = At("type") /\ Written(e) = Expects(Script(Peer(e)), Peer(e))
  BY <1>1 DEF Awaited, AwaitedBy, Written, WrittenBy
<1>5. /\ \A packet : Comes(x, At("type"), packet) <=> packet = <<"small", IF plan.callback THEN 3 ELSE 2>>
      /\ Plain(At("type")) /\ Then(x, At("type"), <<"small", type>>) = Expects(x, e)
  BY <1>3, PlaceFacts, ScriptFacts
<1>6. \A packet \in Packet : Comes(x, Awaited(e), packet) => packet[1] = "small"
  BY <1>4, <1>5
<1>7. type = IF plan.callback THEN 3 ELSE 2
  BY <1>1, <1>4, <1>5, <1>6, ReadsFacts
<1>8. CASE type \notin {2, 3} /\ Fails(e, "ERROR_HANDSHAKE")
  BY <1>7, <1>8
<1>9. CASE /\ type = 3
           /\ Becomes(e, [type |-> "SEND", state |-> "SENDING_FILE_INFO", check |-> "WRITE"])
           /\ Returns(e, "CALLBACK")
  <2> DEFINE f == [type |-> "SEND", state |-> "SENDING_FILE_INFO", check |-> "WRITE"]
             c == With(f, h[e])
  <2>1. Well(f) /\ DOMAIN f = {"type", "state", "check"} /\ "CALLBACK" \in Events \ Over
    BY StateNames DEF Well, Fields, Types, Events, Over
  <2>2. c \in Connections /\ c.state = "SENDING_FILE_INFO" /\ c.peerUin = h[e].peerUin /\ c.uin = h[e].uin
        /\ c.type = "SEND" /\ c.offset = h[e].offset
    BY <1>2, <2>1, WithFacts DEF Fields
  <2>3. plan.callback
    BY <1>7, <1>9
  <2>4. KindOK(plan, e, c, "CALLBACK")
    BY <1>1, <1>2, <1>3, <2>2, <2>3 DEF KindOK, TypeIn, MeetStates, LiveIn, SenderIn
  <2>5. Moves(e, c, "CALLBACK")
    BY <1>1, <1>2, <2>1, <2>2, <2>4, EarlyMoves DEF EarlyStates, MeetStates
  <2>6. /\ AwaitedBy(x, e, c, Len(heard[e])) = Expects(x, e)
        /\ WrittenBy(Script(Peer(e)), e, c) = Written(e)
    BY <1>4, <2>2 DEF AwaitedBy, WrittenBy
  <2> HIDE DEF f
  <2> QED BY <1>1, <1>4, <1>5, <1>6, <1>9, <2>1, <2>5, <2>6, ReadsMain DEF f
<1>10. CASE /\ type = 2
            /\ Becomes(e, [type |-> "GET", state |-> "READING_REQUEST", check |-> "READ"])
            /\ UNCHANGED event
  <2> DEFINE f == [type |-> "GET", state |-> "READING_REQUEST", check |-> "READ"]
             c == With(f, h[e])
  <2>1. Well(f) /\ DOMAIN f = {"type", "state", "check"}
    BY StateNames DEF Well, Fields, Types
  <2>2. c \in Connections /\ c.state = "READING_REQUEST" /\ c.peerUin = h[e].peerUin /\ c.uin = h[e].uin
        /\ c.type = "GET" /\ c.offset = h[e].offset
    BY <1>2, <2>1, WithFacts DEF Fields
  <2>3. ~plan.callback
    BY <1>7, <1>10
  <2>4. KindOK(plan, e, c, "NONE")
    BY <1>1, <1>2, <1>3, <2>2, <2>3 DEF KindOK, TypeIn, MeetStates, LiveIn, SenderIn, ReceiverStates
  <2>5. Moves(e, c, "NONE")
    BY <1>1, <1>2, <2>2, <2>4, EarlyMoves DEF EarlyStates, MeetStates
  <2>6. /\ AwaitedBy(x, e, c, Len(heard[e])) = Expects(x, e)
        /\ WrittenBy(Script(Peer(e)), e, c) = Written(e)
    BY <1>4, <2>2 DEF AwaitedBy, WrittenBy
  <2> HIDE DEF f
  <2> QED BY <1>1, <1>2, <1>4, <1>5, <1>6, <1>10, <2>1, <2>5, <2>6, ReadsMain DEF f
<1> QED BY <1>1, <1>8, <1>9, <1>10

\* An end reads what it is offered: a file or a voice chat.
LEMMA RequestMain ==
    ASSUME TypeInv, TypeInv', Main, NEW e \in Ends, ReadingRequest(e), UNCHANGED <<plan, link>>
    PROVE  Main'
<1> DEFINE x == Script(e)
<1>1. PICK request \in Garbage :
        /\ Reads(e, "small", request) /\ h[e].state = "READING_REQUEST" /\ UNCHANGED dataVars
        /\ \/ /\ request = 1
              /\ Becomes(e, [state |-> "READING_FILE_INFO", check |-> "READ"])
              /\ UNCHANGED event
           \/ /\ request = 3
              /\ Becomes(e, [state |-> "SENDING_VOICE_ACK", check |-> "WRITE", type |-> "VOICE"])
              /\ Returns(e, "NEED_VOICE_ACK")
           \/ request \notin {1, 3} /\ Fails(e, "ERROR_HANDSHAKE")
  BY DEF ReadingRequest
<1>2. /\ Live(e) /\ event[e] = "NONE" /\ "NONE" \in Events \ Over /\ h[e] \in Connections
      /\ KindOK(plan, e, h[e], "NONE") /\ LiveIn(h[e])
      /\ plan.voice \in BOOLEAN /\ plan.callback \in BOOLEAN
      /\ VoiceOK(h[e], event[e], heard[e], said[e], said[Peer(e)])
  BY <1>1, ReaderFacts, TurnFacts
<1>3. e = ReceiverIn(plan) /\ e # SenderIn(plan) /\ h[e].type = "GET"
  <2>1. e = ReceiverIn(plan) /\ h[e].type = TypeIn(plan, e, h[e], "NONE")
    BY <1>1, <1>2, KindStates
  <2>2. e # SenderIn(plan)
    BY <2>1 DEF ReceiverIn, SenderIn, Peer
  <2> QED BY <1>1, <2>1, <2>2 DEF TypeIn, MeetStates
<1>4. Awaited(e) = At("request") /\ Written(e) = Expects(Script(Peer(e)), Peer(e))
  <2>1. Awaited(e) = Expects(x, e)
    BY <1>1 DEF Awaited, AwaitedBy
  <2> QED BY <1>1, <1>3, <2>1, ScriptFacts DEF Written, WrittenBy
<1>5. /\ \A packet : Comes(x, At("request"), packet) <=> packet = <<"small", IF plan.voice THEN 3 ELSE 1>>
      /\ Plain(At("request"))
      /\ Then(x, At("request"), <<"small", request>>) = IF plan.voice THEN Frame(0) ELSE At("info")
  BY PlaceFacts, ScriptFacts
<1>6. \A packet \in Packet : Comes(x, Awaited(e), packet) => packet[1] = "small"
  BY <1>4, <1>5
<1>7. request = IF plan.voice THEN 3 ELSE 1
  BY <1>1, <1>4, <1>5, <1>6, ReadsFacts
<1>8. CASE request \notin {1, 3} /\ Fails(e, "ERROR_HANDSHAKE")
  BY <1>7, <1>8
<1>9. CASE /\ request = 1
           /\ Becomes(e, [state |-> "READING_FILE_INFO", check |-> "READ"])
           /\ UNCHANGED event
  <2> DEFINE f == [state |-> "READING_FILE_INFO", check |-> "READ"]
             c == With(f, h[e])
  <2>1. Well(f) /\ DOMAIN f = {"state", "check"}
    BY StateNames DEF Well, Fields, Types
  <2>2. c \in Connections /\ c.state = "READING_FILE_INFO" /\ c.peerUin = h[e].peerUin /\ c.uin = h[e].uin
        /\ c.type = "GET" /\ c.offset = h[e].offset
    BY <1>2, <1>3, <2>1, WithFacts DEF Fields
  <2>3. ~plan.voice
    BY <1>7, <1>9
  <2>4. KindOK(plan, e, c, "NONE")
    BY <1>1, <1>2, <1>3, <2>2, <2>3 DEF KindOK, TypeIn, MeetStates, LiveIn, ReceiverStates
  <2>5. Moves(e, c, "NONE")
    BY <1>1, <1>2, <2>2, <2>4, EarlyMoves DEF EarlyStates
  <2>6. /\ AwaitedBy(x, e, c, Len(heard[e])) = At("info")
        /\ WrittenBy(Script(Peer(e)), e, c) = Written(e)
    BY <1>4, <2>2 DEF AwaitedBy, WrittenBy
  <2> HIDE DEF f
  <2> QED BY <1>1, <1>2, <1>4, <1>5, <1>6, <1>9, <2>1, <2>3, <2>5, <2>6, ReadsMain DEF f
<1>10. CASE /\ request = 3
            /\ Becomes(e, [state |-> "SENDING_VOICE_ACK", check |-> "WRITE", type |-> "VOICE"])
            /\ Returns(e, "NEED_VOICE_ACK")
  <2> DEFINE f == [state |-> "SENDING_VOICE_ACK", check |-> "WRITE", type |-> "VOICE"]
             c == With(f, h[e])
  <2>1. Well(f) /\ DOMAIN f = {"state", "check", "type"} /\ "NEED_VOICE_ACK" \in Events \ Over
    BY StateNames DEF Well, Fields, Types, Events, Over
  <2>2. c \in Connections /\ c.state = "SENDING_VOICE_ACK" /\ c.peerUin = h[e].peerUin /\ c.uin = h[e].uin
        /\ c.type = "VOICE" /\ c.offset = h[e].offset
    BY <1>2, <2>1, WithFacts DEF Fields
  <2>3. plan.voice
    BY <1>7, <1>10
  <2>4. KindOK(plan, e, c, "NEED_VOICE_ACK")
    BY <1>1, <1>2, <1>3, <2>2, <2>3 DEF KindOK, TypeIn, MeetStates, LiveIn, ReceiverStates
  <2>5. Moves(e, c, "NEED_VOICE_ACK")
    BY <1>1, <1>2, <2>1, <2>2, <2>4, EarlyMoves DEF EarlyStates
  <2>6. Len(heard[e]) = 0
    BY <1>1, <1>2 DEF VoiceOK, Chats
  <2>7. /\ AwaitedBy(x, e, c, Len(heard[e])) = Frame(0)
        /\ WrittenBy(Script(Peer(e)), e, c) = Written(e)
    BY <1>4, <2>2, <2>6 DEF AwaitedBy, WrittenBy
  <2> HIDE DEF f
  <2> QED BY <1>1, <1>4, <1>5, <1>6, <1>10, <2>1, <2>3, <2>5, <2>7, ReadsMain DEF f
<1> QED BY <1>1, <1>8, <1>9, <1>10

\* The caller reads that the listener is there.
LEMMA AckReadMain ==
    ASSUME TypeInv, TypeInv', Main, NEW e \in Ends, ReadingAck(e), UNCHANGED <<plan, link>>
    PROVE  Main'
<1> DEFINE x == Script(e)
           f == [state |-> "SENDING_REQUEST", check |-> "WRITE"]
           c == With(f, h[e])
<1>1. PICK ack \in Garbage :
        /\ Reads(e, "ack", ack) /\ h[e].state = "READING_ACK" /\ UNCHANGED dataVars
        /\ IF ack = 1 THEN Becomes(e, f) /\ UNCHANGED event ELSE Fails(e, "ERROR_HANDSHAKE")
  BY DEF ReadingAck
<1>2. /\ Live(e) /\ event[e] = "NONE" /\ "NONE" \in Events \ Over /\ h[e] \in Connections
      /\ KindOK(plan, e, h[e], "NONE") /\ LiveIn(h[e])
      /\ plan.voice \in BOOLEAN /\ plan.callback \in BOOLEAN
  BY <1>1, ReaderFacts, TurnFacts
<1>3. e = "caller"
  BY <1>1, <1>2, KindStates DEF MeetStates
<1>4. Awaited(e) = At("ack") /\ Written(e) = At("type")
  BY <1>1 DEF Awaited, AwaitedBy, Written, WrittenBy
<1>5. /\ \A packet : Comes(x, At("ack"), packet) <=> packet = <<"ack", 1>>
      /\ Plain(At("ack")) /\ Then(x, At("ack"), <<"ack", ack>>) = Expects(x, e)
  BY <1>3, PlaceFacts
<1>6. \A packet \in Packet : Comes(x, Awaited(e), packet) => packet[1] = "ack"
  BY <1>4, <1>5
<1>7. ack = 1
  BY <1>1, <1>4, <1>5, <1>6, ReadsFacts
<1>8. Well(f) /\ DOMAIN f = {"state", "check"}
  BY StateNames DEF Well, Fields, Types
<1>9. c \in Connections /\ c.state = "SENDING_REQUEST" /\ c.peerUin = h[e].peerUin /\ c.uin = h[e].uin
      /\ c.type = h[e].type /\ c.offset = h[e].offset
  BY <1>2, <1>8, WithFacts DEF Fields
<1>10. KindOK(plan, e, c, "NONE")
  BY <1>1, <1>2, <1>3, <1>9 DEF KindOK, TypeIn, MeetStates, LiveIn
<1>11. Moves(e, c, "NONE")
  BY <1>1, <1>2, <1>9, <1>10, EarlyMoves DEF EarlyStates, MeetStates
<1>12. /\ AwaitedBy(x, e, c, Len(heard[e])) = Expects(x, e)
       /\ WrittenBy(Script(Peer(e)), e, c) = Written(e)
  BY <1>4, <1>9 DEF AwaitedBy, WrittenBy
<1> HIDE DEF f
<1> QED BY <1>1, <1>2, <1>4, <1>5, <1>6, <1>7, <1>8, <1>11, <1>12, ReadsMain

\* A packet that is cut short ends the handshake.
LEMMA ShortMain ==
    ASSUME TypeInv, TypeInv', Main, NEW e \in Ends, ReadsShort(e), UNCHANGED <<plan, link>>
    PROVE  Main'
<1>1. Live(e) /\ event[e] = "NONE" /\ Fails(e, "ERROR_HANDSHAKE") /\ UNCHANGED dataVars
  BY DEF ReadsShort, Ready
<1>2. h[e].state \notin Gets
  BY DEF ReadsShort, Expected, Gets
<1>3. faults \subseteq faults' /\ pipe'[Peer(e)] = pipe[Peer(e)]
  <2>1. \A n : pipe' = Consumed(e, n) => pipe'[Peer(e)] = pipe[Peer(e)]
    BY EndsFacts DEF TypeInv, EndsInv, Consumed
  <2> QED BY <2>1 DEF ReadsShort, Fault
<1>4. "ERROR_HANDSHAKE" \in Over
  BY DEF Over
<1> QED BY <1>1, <1>2, <1>3, <1>4, FailMain

\* Two packets one after another.
LEMMA TwoPackets ==
    ASSUME NEW x, NEW a, NEW b, NEW c,
           NEW k \in PacketKinds \ {"header", "data"}, NEW v \in Int,
           NEW l \in PacketKinds \ {"header", "data"}, NEW w \in Int,
           Plain(a), Comes(x, a, <<k, v>>), Then(x, a, <<k, v>>) = b,
           Plain(b), Comes(x, b, <<l, w>>), Then(x, b, <<l, w>>) = c
    PROVE  LET bytes == Bytes(<<k, v>>) \o Bytes(<<l, w>>)
           IN  Leads(x, a, bytes, c) /\ bytes \in ByteSeq /\ DataIn(bytes) = 0
<1> DEFINE s == Bytes(<<k, v>>)
           t == Bytes(<<l, w>>)
<1>1. Leads(x, a, s, b) /\ Leads(x, b, t, c)
  BY PacketLeads
<1>2. s \in ByteSeq /\ t \in ByteSeq
  BY BytesFacts
<1>3. DataIn(s) = 0 /\ DataIn(t) = 0
  BY DataPackets
<1> HIDE DEF s, t
<1>4. s \in Seq(Byte) /\ t \in Seq(Byte)
  BY <1>2 DEF ByteSeq, Byte
<1>5. Leads(x, a, s \o t, c)
  BY <1>1, <1>4, LeadsJoin
<1>6. DataIn(s \o t) = DataIn(s) + DataIn(t)
  BY <1>4, DataJoin
<1>7. DataIn(s \o t) = 0
  BY <1>3, <1>6
<1>8. s \o t \in ByteSeq
  BY <1>4, SeqFacts DEF ByteSeq, Byte
<1> QED BY <1>5, <1>7, <1>8 DEF s, t

\* The caller sends both numbers.
LEMMA ConnectMain ==
    ASSUME TypeInv, TypeInv', Main, Uncut', NEW e \in Ends, Connecting(e), UNCHANGED <<plan, link>>
    PROVE  Main'
<1> DEFINE f == [state |-> "READING_ACK", check |-> "READ"]
           c == With(f, h[e])
           x == Script(Peer(e))
           bytes == Bytes(<<"uin", h[e].uin>>) \o Bytes(<<"uin", h[e].peerUin>>)
<1>1. /\ Ready(e) /\ h[e].state = "CONNECTING" /\ UNCHANGED dataVars
      /\ Live(e) /\ event[e] = "NONE" /\ "NONE" \in Events \ Over
      /\ \/ Writes(e, bytes, f, "NONE")
         \/ Fails(e, "ERROR_HANDSHAKE") /\ UNCHANGED <<pipe, faults>>
  BY DEF Connecting, Ready, Events, Over
<1>2. /\ KindOK(plan, e, h[e], "NONE") /\ LiveIn(h[e]) /\ h[e] \in Connections
      /\ plan.voice \in BOOLEAN /\ plan.callback \in BOOLEAN
  BY <1>1, TurnFacts
<1>3. e = "caller" /\ h[e].uin = 1 /\ h[e].peerUin = 2
  BY <1>1, <1>2, KindStates DEF MeetStates, KindOK
<1>4. CASE Fails(e, "ERROR_HANDSHAKE") /\ UNCHANGED <<pipe, faults>>
  <2>1. "ERROR_HANDSHAKE" \in Over
    BY DEF Over
  <2> QED BY <1>1, <1>4, <2>1, FailMain
<1>5. CASE Writes(e, bytes, f, "NONE")
  <2>1. Well(f) /\ DOMAIN f = {"state", "check"}
    BY StateNames DEF Well, Fields, Types
  <2>2. c \in Connections /\ c.state = "READING_ACK" /\ c.peerUin = h[e].peerUin /\ c.uin = h[e].uin
        /\ c.type = h[e].type /\ c.offset = h[e].offset
    BY <1>2, <2>1, WithFacts DEF Fields
  <2>3. KindOK(plan, e, c, "NONE")
    BY <1>1, <1>2, <1>3, <2>2 DEF KindOK, TypeIn, MeetStates, LiveIn
  <2>4. Moves(e, c, "NONE")
    BY <1>1, <2>2, <2>3, EarlyMoves DEF EarlyStates, MeetStates
  <2>5. AwaitedBy(Script(e), e, c, Len(heard[e])) = Awaited(e)
    BY <1>1, <2>2 DEF Awaited, AwaitedBy
  <2>6. Written(e) = At("uin1") /\ WrittenBy(x, e, c) = At("type")
    BY <1>1, <1>3, <2>2 DEF Written, WrittenBy
  <2>7. /\ Plain(At("uin1")) /\ Comes(x, At("uin1"), <<"uin", 1>>) /\ Then(x, At("uin1"), <<"uin", 1>>) = At("uin2")
        /\ Plain(At("uin2")) /\ Comes(x, At("uin2"), <<"uin", 2>>) /\ Then(x, At("uin2"), <<"uin", 2>>) = At("type")
    BY PlaceFacts
  <2>8. "uin" \in PacketKinds \ {"header", "data"}
    BY DEF PacketKinds
  <2>9. Leads(x, At("uin1"), bytes, At("type")) /\ bytes \in ByteSeq /\ DataIn(bytes) = 0
    BY <1>3, <2>7, <2>8, TwoPackets
  <2> HIDE DEF f, bytes
  <2> QED BY <1>1, <1>5, <2>1, <2>4, <2>5, <2>6, <2>9, WritesMain
<1> QED BY <1>1, <1>4, <1>5

\* The caller sends what it wants.
LEMMA CallMain ==
    ASSUME TypeInv, TypeInv', Main, Uncut', NEW e \in Ends, SendingRequest(e), UNCHANGED <<plan, link>>
    PROVE  Main'
<1> DEFINE x == Script(Peer(e))
<1>1. /\ Ready(e) /\ h[e].state = "SENDING_REQUEST" /\ UNCHANGED dataVars
      /\ Live(e) /\ event[e] = "NONE" /\ {"NONE", "NEED_FILE_INFO"} \subseteq Events \ Over
  BY DEF SendingRequest, Ready, Events, Over
<1>2. /\ KindOK(plan, e, h[e], "NONE") /\ LiveIn(h[e]) /\ h[e] \in Connections
      /\ plan.voice \in BOOLEAN /\ plan.callback \in BOOLEAN
  BY <1>1, TurnFacts
<1>3. e = "caller" /\ Peer(e) = "listener"
      /\ h[e].type = IF plan.callback THEN "GET" ELSE IF plan.voice THEN "VOICE" ELSE "SEND"
  BY <1>1, <1>2, KindStates DEF MeetStates, TypeIn, Peer
<1>4. Awaited(e) = Expects(Script(e), e) /\ Written(e) = At("type")
  BY <1>1 DEF Awaited, AwaitedBy, Written, WrittenBy
<1>5. ASSUME NEW f, Well(f), {"state", "check"} = DOMAIN f, NEW v \in {"NONE", "NEED_FILE_INFO"}, NEW type \in {2, 3},
             Writes(e, Bytes(<<"small", type>>), f, v), type = IF plan.callback THEN 3 ELSE 2,
             f.state \in {"READING_REQUEST", "SENDING_FILE_INFO", "SENDING_VOICE_REQUEST"},
             f.state = IF plan.callback THEN "READING_REQUEST"
                       ELSE IF plan.voice THEN "SENDING_VOICE_REQUEST" ELSE "SENDING_FILE_INFO"
      PROVE  Main'
  <2> DEFINE c == With(f, h[e])
             bytes == Bytes(<<"small", type>>)
  <2>1. c \in Connections /\ c.state = f.state /\ c.peerUin = h[e].peerUin /\ c.uin = h[e].uin
        /\ c.type = h[e].type /\ c.offset = h[e].offset
    BY <1>2, <1>5, WithFacts DEF Fields
  <2>2. KindOK(plan, e, c, v)
    <3>1. e = SenderIn(plan) <=> ~plan.callback
      BY <1>3 DEF SenderIn
    <3> QED BY <1>1, <1>2, <1>3, <1>5, <2>1, <3>1 DEF KindOK, TypeIn, MeetStates, LiveIn, SenderStates, ReceiverStates
  <2>3. Moves(e, c, v)
    BY <1>1, <1>5, <2>1, <2>2, EarlyMoves DEF EarlyStates, MeetStates
  <2>4. AwaitedBy(Script(e), e, c, Len(heard[e])) = Awaited(e)
    BY <1>4, <1>5, <2>1 DEF AwaitedBy
  <2>5. WrittenBy(x, e, c) = Expects(x, "listener")
    BY <1>3, <1>5, <2>1 DEF WrittenBy
  <2>6. Plain(At("type")) /\ Comes(x, At("type"), <<"small", type>>)
        /\ Then(x, At("type"), <<"small", type>>) = Expects(x, "listener")
    <3>1. x.callback = plan.callback
      BY DEF Script
    <3> QED BY <1>5, <3>1, PlaceFacts
  <2>7. Leads(x, At("type"), bytes, Expects(x, "listener"))
    BY <2>6, PacketLeads
  <2>8. bytes \in ByteSeq /\ DataIn(bytes) = 0
    BY BytesFacts, DataPackets DEF PacketKinds
  <2> HIDE DEF bytes
  <2> QED BY <1>1, <1>4, <1>5, <2>3, <2>4, <2>5, <2>7, <2>8, WritesMain DEF bytes
<1>6. CASE plan.callback
  <2> DEFINE f == [state |-> "READING_REQUEST", check |-> "READ"]
  <2>1. Writes(e, Bytes(<<"small", 3>>), f, "NONE")
    BY <1>3, <1>6 DEF SendingRequest
  <2>2. Well(f) /\ DOMAIN f = {"state", "check"} /\ f.state = "READING_REQUEST"
    BY StateNames DEF Well, Fields, Types
  <2> HIDE DEF f
  <2> QED BY <1>5, <1>6, <2>1, <2>2
<1>7. CASE ~plan.callback /\ plan.voice
  <2> DEFINE f == [state |-> "SENDING_VOICE_REQUEST", check |-> "WRITE"]
  <2>1. Writes(e, Bytes(<<"small", 2>>), f, "NONE")
    BY <1>3, <1>7 DEF SendingRequest
  <2>2. Well(f) /\ DOMAIN f = {"state", "check"} /\ f.state = "SENDING_VOICE_REQUEST"
    BY StateNames DEF Well, Fields, Types
  <2> HIDE DEF f
  <2> QED BY <1>5, <1>7, <2>1, <2>2
<1>8. CASE ~plan.callback /\ ~plan.voice
  <2> DEFINE f == [state |-> "SENDING_FILE_INFO", check |-> "WRITE"]
             v == IF h[e].file THEN "NONE" ELSE "NEED_FILE_INFO"
  <2>1. Writes(e, Bytes(<<"small", 2>>), f, v)
    BY <1>3, <1>8 DEF SendingRequest
  <2>2. Well(f) /\ DOMAIN f = {"state", "check"} /\ f.state = "SENDING_FILE_INFO"
    BY StateNames DEF Well, Fields, Types
  <2>3. v \in {"NONE", "NEED_FILE_INFO"}
    OBVIOUS
  <2> HIDE DEF f, v
  <2> QED BY <1>5, <1>8, <2>1, <2>2, <2>3
<1> QED BY <1>6, <1>7, <1>8

\* An end asks its program for something and waits.
LEMMA StayMain ==
    ASSUME TypeInv, TypeInv', Main, NEW e \in Ends, Live(e), event[e] = "NONE", NEW v \in Events \ Over,
           Fails(e, v), UNCHANGED <<plan, link, pipe, faults, dataVars>>, Moves(e, h[e], v)
    PROVE  Main'
<1>1. Peer(e) # e /\ event'[e] = v /\ event'[Peer(e)] = event[Peer(e)] /\ h' = h /\ "NONE" \notin Over
  BY EndsFacts DEF TypeInv, EndsInv, Fails, Returns, Over
<1>2. Open(e) /\ Exact(e) /\ heard' = heard /\ got' = got /\ said' = said /\ pipe' = pipe
  BY TurnFacts DEF Exact, ExactIn, Open, dataVars
<1>3. got = FileBytes(0, Len(got))
  BY DEF Main
<1>4. /\ AwaitedBy(Script(e), e, h'[e], Len(heard'[e])) = Awaited(e)
      /\ WrittenBy(Script(Peer(e)), e, h'[e]) = Written(e)
  BY <1>1, <1>2 DEF Awaited, Written
<1>5. KindOK(plan, e, h'[e], event'[e]) /\ FileOK(plan, e, h'[e], event'[e], got')
      /\ VoiceOK(h'[e], event'[e], heard'[e], said[e], said[Peer(e)])
  BY <1>1, <1>2 DEF Moves
<1> QED BY <1>1, <1>2, <1>3, <1>4, <1>5, MoveMain

\* The end that has something to say offers a chat.
LEMMA VoiceRequestMain ==
    ASSUME TypeInv, TypeInv', Main, Uncut', NEW e \in Ends, SendingVoiceRequest(e), UNCHANGED <<plan, link>>
    PROVE  Main'
<1> DEFINE f == [state |-> "READING_VOICE_ACK", check |-> "READ"]
           c == With(f, h[e])
           x == Script(Peer(e))
           bytes == Bytes(<<"small", 3>>)
<1>1. /\ Ready(e) /\ h[e].state = "SENDING_VOICE_REQUEST" /\ UNCHANGED dataVars
      /\ Live(e) /\ event[e] = "NONE" /\ "NONE" \in Events \ Over
      /\ Writes(e, bytes, f, "NONE")
  BY DEF SendingVoiceRequest, Ready, Events, Over
<1>2. /\ KindOK(plan, e, h[e], "NONE") /\ LiveIn(h[e]) /\ h[e] \in Connections
      /\ plan.voice \in BOOLEAN /\ plan.callback \in BOOLEAN
      /\ VoiceOK(h[e], "NONE", heard[e], said[e], said[Peer(e)])
  BY <1>1, TurnFacts
<1>3. e = SenderIn(plan) /\ plan.voice /\ said[e] = <<>>
  <2>1. h[e].state \notin Chats \cup {"closed"}
    BY <1>1 DEF Chats
  <2> QED BY <1>1, <1>2, <2>1, KindStates DEF VoiceOK
<1>4. Well(f) /\ DOMAIN f = {"state", "check"}
  BY StateNames DEF Well, Fields, Types
<1>5. c \in Connections /\ c.state = "READING_VOICE_ACK" /\ c.peerUin = h[e].peerUin /\ c.uin = h[e].uin
      /\ c.type = h[e].type /\ c.offset = h[e].offset
  BY <1>2, <1>4, WithFacts DEF Fields
<1>6. KindOK(plan, e, c, "NONE")
  BY <1>1, <1>2, <1>3, <1>5 DEF KindOK, TypeIn, MeetStates, LiveIn, SenderStates
<1>7. Moves(e, c, "NONE")
  BY <1>1, <1>5, <1>6, EarlyMoves DEF EarlyStates
<1>8. AwaitedBy(Script(e), e, c, Len(heard[e])) = Awaited(e)
  BY <1>1, <1>5 DEF Awaited, AwaitedBy
<1>9. x.voice = plan.voice /\ x.callback = plan.callback /\ x.said = <<>>
  BY <1>3, EndsFacts DEF Script
<1>10. Written(e) = At("request") /\ WrittenBy(x, e, c) = Frame(0)
  <2>1. Written(e) = Expects(x, Peer(e)) /\ Expects(x, Peer(e)) = At("request")
    BY <1>1, <1>3, <1>9, ScriptFacts DEF Written, WrittenBy
  <2>2. WrittenBy(x, e, c) = Frame(Len(x.said))
    BY <1>5 DEF WrittenBy
  <2> QED BY <1>9, <2>1, <2>2
<1>11. Plain(At("request")) /\ Comes(x, At("request"), <<"small", 3>>)
       /\ Then(x, At("request"), <<"small", 3>>) = Frame(0)
  <2>1. /\ Plain(At("request"))
        /\ Comes(x, At("request"), <<"small", 3>>) <=> <<"small", 3>> = <<"small", IF x.voice THEN 3 ELSE 1>>
        /\ Then(x, At("request"), <<"small", 3>>) = IF x.voice THEN Frame(0) ELSE At("info")
    BY PlaceFacts
  <2> QED BY <1>3, <1>9, <2>1
<1>12. Leads(x, At("request"), bytes, Frame(0))
  BY <1>11, PacketLeads
<1>13. bytes \in ByteSeq /\ DataIn(bytes) = 0
  BY BytesFacts, DataPackets DEF PacketKinds
<1> HIDE DEF f, bytes
<1> QED BY <1>1, <1>4, <1>7, <1>8, <1>10, <1>12, <1>13, WritesMain

\* The sender offers its file, or asks the program for it.
LEMMA InfoMain ==
    ASSUME TypeInv, TypeInv', Main, Uncut', NEW e \in Ends, SendingFileInfo(e), UNCHANGED <<plan, link>>
    PROVE  Main'
<1> DEFINE f == [state |-> "READING_FILE_ACK", check |-> "READ"]
           c == With(f, h[e])
           x == Script(Peer(e))
           bytes == Bytes(<<"small", 1>>) \o Bytes(<<"info", h[e].size>>)
<1>1. /\ Ready(e) /\ h[e].state = "SENDING_FILE_INFO" /\ UNCHANGED dataVars
      /\ Live(e) /\ event[e] = "NONE" /\ {"NONE", "NEED_FILE_INFO"} \subseteq Events \ Over
      /\ \/ h[e].file /\ Writes(e, bytes, f, "NONE")
         \/ ~h[e].file /\ Fails(e, "NEED_FILE_INFO") /\ UNCHANGED <<pipe, faults>>
  BY DEF SendingFileInfo, Ready, Events, Over
<1>2. /\ KindOK(plan, e, h[e], "NONE") /\ LiveIn(h[e]) /\ h[e] \in Connections
      /\ plan.voice \in BOOLEAN /\ plan.callback \in BOOLEAN
      /\ VoiceOK(h[e], "NONE", heard[e], said[e], said[Peer(e)])
  BY <1>1, TurnFacts
<1>3. e = SenderIn(plan) /\ ~plan.voice /\ e # ReceiverIn(plan)
  BY <1>1, <1>2, KindStates DEF ReceiverIn, SenderIn, Peer
<1>4. CASE ~h[e].file /\ Fails(e, "NEED_FILE_INFO") /\ UNCHANGED <<pipe, faults>>
  <2>1. KindOK(plan, e, h[e], "NEED_FILE_INFO")
    <3>1. TypeIn(plan, e, h[e], "NEED_FILE_INFO") = TypeIn(plan, e, h[e], "NONE")
      BY DEF TypeIn
    <3> QED BY <1>1, <1>2, <3>1 DEF KindOK, LiveIn
  <2>2. Moves(e, h[e], "NEED_FILE_INFO")
    BY <1>1, <1>2, <2>1, EarlyMoves DEF EarlyStates
  <2> QED BY <1>1, <1>4, <2>2, StayMain
<1>5. CASE h[e].file /\ Writes(e, bytes, f, "NONE")
  <2>1. Well(f) /\ DOMAIN f = {"state", "check"}
    BY StateNames DEF Well, Fields, Types
  <2>2. c \in Connections /\ c.state = "READING_FILE_ACK" /\ c.peerUin = h[e].peerUin /\ c.uin = h[e].uin
        /\ c.type = h[e].type /\ c.offset = h[e].offset /\ c.file = h[e].file /\ c.size = h[e].size
    BY <1>2, <2>1, WithFacts DEF Fields
  <2>3. KindOK(plan, e, c, "NONE")
    BY <1>1, <1>2, <1>3, <2>2 DEF KindOK, TypeIn, MeetStates, LiveIn, SenderStates
  <2>4. Moves(e, c, "NONE")
    <3>1. FileOK(plan, e, c, "NONE", got)
      BY <1>3, <1>5, <2>2 DEF FileOK
    <3>2. VoiceOK(c, "NONE", heard[e], said[e], said[Peer(e)])
      BY <1>1, <1>2, <2>2 DEF VoiceOK, Chats
    <3>3. GoneIn(plan, c) = GoneIn(plan, h[e])
      BY <1>1, <2>2 DEF GoneIn, Sends, Gets
    <3> QED BY <2>3, <3>1, <3>2, <3>3 DEF Moves
  <2>5. AwaitedBy(Script(e), e, c, Len(heard[e])) = Awaited(e)
    BY <1>1, <2>2 DEF Awaited, AwaitedBy
  <2>6. x.voice = plan.voice /\ x.callback = plan.callback /\ x.resume = plan.resume
    BY DEF Script
  <2>7. Written(e) = At("request") /\ WrittenBy(x, e, c) = Header(x.resume, h[e].size)
    <3>1. Written(e) = Expects(x, Peer(e)) /\ Expects(x, Peer(e)) = At("request")
      BY <1>1, <1>3, <2>6, ScriptFacts DEF Written, WrittenBy
    <3> QED BY <2>2, <3>1 DEF WrittenBy
  <2>8. h[e].size \in Number /\ h[e].size \in Int
    <3>1. h[e].size \in Number
      BY <1>2 DEF Connections
    <3> QED BY <3>1, ConstantFacts DEF Number
  <2>9. Plain(At("request")) /\ Comes(x, At("request"), <<"small", 1>>)
        /\ Then(x, At("request"), <<"small", 1>>) = At("info")
    BY <1>3, <2>6, PlaceFacts
  <2>10. Plain(At("info")) /\ Comes(x, At("info"), <<"info", h[e].size>>)
         /\ Then(x, At("info"), <<"info", h[e].size>>) = Header(x.resume, h[e].size)
    BY <2>8, PlaceFacts
  <2>11. "small" \in PacketKinds \ {"header", "data"} /\ "info" \in PacketKinds \ {"header", "data"}
    BY DEF PacketKinds
  <2>12. Leads(x, At("request"), bytes, Header(x.resume, h[e].size)) /\ bytes \in ByteSeq /\ DataIn(bytes) = 0
    BY <2>8, <2>9, <2>10, <2>11, TwoPackets
  <2> HIDE DEF f, bytes
  <2> QED BY <1>1, <1>5, <2>1, <2>4, <2>5, <2>7, <2>12, WritesMain
<1> QED BY <1>1, <1>4, <1>5

\* What the receiver has.
LEMMA ReceiverHas ==
    ASSUME TypeInv, Main, NEW e \in Ends, Live(e), e = ReceiverIn(plan)
    PROVE  HasFile(plan, h[e], event[e], got)
  BY TurnFacts DEF FileOK

\* The receiver reads the name and the size of the file.
LEMMA InfoReadMain ==
    ASSUME TypeInv, TypeInv', Main, NEW e \in Ends, ReadingFileInfo(e), UNCHANGED <<plan, link>>
    PROVE  Main'
<1> DEFINE x == Script(e)
<1>1. PICK size \in FileSizes \cup Garbage :
        /\ Reads(e, "info", size) /\ h[e].state = "READING_FILE_INFO" /\ UNCHANGED dataVars
        /\ Becomes(e, [state |-> "SENDING_FILE_ACK", check |-> "WRITE", size |-> size])
        /\ Returns(e, "NEED_FILE_ACK")
  BY DEF ReadingFileInfo
<1> DEFINE f == [state |-> "SENDING_FILE_ACK", check |-> "WRITE", size |-> size]
           c == With(f, h[e])
<1>2. /\ Live(e) /\ event[e] = "NONE" /\ "NEED_FILE_ACK" \in Events \ Over /\ h[e] \in Connections
      /\ KindOK(plan, e, h[e], "NONE") /\ LiveIn(h[e])
      /\ plan.voice \in BOOLEAN /\ plan.callback \in BOOLEAN
      /\ VoiceOK(h[e], "NONE", heard[e], said[e], said[Peer(e)])
  BY <1>1, ReaderFacts, TurnFacts DEF Events, Over
<1>3. e = ReceiverIn(plan) /\ e # SenderIn(plan) /\ ~plan.voice
  BY <1>1, <1>2, KindStates DEF ReceiverIn, SenderIn, Peer
<1>4. Awaited(e) = At("info") /\ Written(e) = Expects(Script(Peer(e)), Peer(e))
  BY <1>1 DEF Awaited, AwaitedBy, Written, WrittenBy
<1>5. /\ \A packet : Comes(x, At("info"), packet) => packet[1] = "info"
      /\ Plain(At("info")) /\ Then(x, At("info"), <<"info", size>>) = Header(x.resume, size)
  BY PlaceFacts
<1>6. \A packet \in Packet : Comes(x, Awaited(e), packet) => packet[1] = "info"
  BY <1>4, <1>5
<1>7. Well(f) /\ DOMAIN f = {"state", "check", "size"}
  <2>1. size \in Number
    BY ConstantFacts
  <2> QED BY <2>1, StateNames DEF Well, Fields, Types
<1>8. c \in Connections /\ c.state = "SENDING_FILE_ACK" /\ c.peerUin = h[e].peerUin /\ c.uin = h[e].uin
      /\ c.type = h[e].type /\ c.offset = h[e].offset /\ c.size = size
  BY <1>2, <1>7, WithFacts DEF Fields
<1>9. Moves(e, c, "NEED_FILE_ACK")
  <2>1. KindOK(plan, e, c, "NEED_FILE_ACK")
    BY <1>1, <1>2, <1>3, <1>8 DEF KindOK, TypeIn, MeetStates, LiveIn, ReceiverStates
  <2>2. HasFile(plan, h[e], "NONE", got)
    BY <1>2, <1>3, ReceiverHas
  <2>3. FileOK(plan, e, c, "NEED_FILE_ACK", got)
    BY <1>1, <1>2, <1>8, <2>2 DEF FileOK, HasFile, OpenedIn, Sends, Gets, LiveIn
  <2>4. VoiceOK(c, "NEED_FILE_ACK", heard[e], said[e], said[Peer(e)])
    BY <1>1, <1>2, <1>8 DEF VoiceOK, Chats
  <2>5. GoneIn(plan, c) = GoneIn(plan, h[e])
    BY <1>1, <1>8 DEF GoneIn, Sends, Gets
  <2> QED BY <2>1, <2>3, <2>4, <2>5 DEF Moves
<1>10. /\ AwaitedBy(x, e, c, Len(heard[e])) = Header(x.resume, size)
       /\ WrittenBy(Script(Peer(e)), e, c) = Written(e)
  BY <1>4, <1>8 DEF AwaitedBy, WrittenBy
<1> HIDE DEF f
<1> QED BY <1>1, <1>2, <1>4, <1>5, <1>6, <1>7, <1>9, <1>10, ReadsMain DEF f

\* The receiver says where the file is to begin, and awaits a header.
LEMMA FileAckMain ==
    ASSUME TypeInv, TypeInv', Main, Uncut', NEW e \in Ends, SendingFileAck(e), UNCHANGED <<plan, link>>
    PROVE  Main'
<1> DEFINE f == HeaderComes
           c == With(f, h[e])
           x == Script(Peer(e))
           bytes == Bytes(<<"file_ack", h[e].offset>>)
<1>1. /\ Ready(e) /\ h[e].state = "SENDING_FILE_ACK" /\ UNCHANGED dataVars
      /\ Live(e) /\ event[e] = "NONE" /\ "NONE" \in Events \ Over
      /\ Writes(e, bytes, f, "NONE")
  BY DEF SendingFileAck, Ready, Events, Over
<1>2. /\ KindOK(plan, e, h[e], "NONE") /\ LiveIn(h[e]) /\ h[e] \in Connections
      /\ plan.voice \in BOOLEAN /\ plan.callback \in BOOLEAN
      /\ VoiceOK(h[e], "NONE", heard[e], said[e], said[Peer(e)])
  BY <1>1, TurnFacts
<1>3. e = ReceiverIn(plan) /\ e # SenderIn(plan) /\ ~plan.voice
  BY <1>1, <1>2, KindStates DEF ReceiverIn, SenderIn, Peer
<1>4. Well(f) /\ DOMAIN f = {"state", "check", "chunkSize", "chunkOffset", "chunkBuf", "allocated"}
      /\ f.state = "READING_FILE_HEADER" /\ f.chunkOffset = 0
  BY HeaderComesFacts
<1>5. c \in Connections /\ c.state = "READING_FILE_HEADER" /\ c.peerUin = h[e].peerUin /\ c.uin = h[e].uin
      /\ c.type = h[e].type /\ c.offset = h[e].offset /\ c.size = h[e].size /\ c.chunkOffset = 0
  BY <1>2, <1>4, WithFacts DEF Fields
<1>6. HasFile(plan, h[e], "NONE", got) /\ h[e].offset = plan.resume /\ Len(got) = h[e].offset
  BY <1>1, <1>3, ReceiverHas DEF HasFile, OpenedIn
<1>7. Moves(e, c, "NONE")
  <2>1. KindOK(plan, e, c, "NONE")
    BY <1>1, <1>2, <1>3, <1>5 DEF KindOK, TypeIn, MeetStates, LiveIn, ReceiverStates, Gets
  <2>2. FileOK(plan, e, c, "NONE", got)
    BY <1>5, <1>6 DEF FileOK, HasFile, OpenedIn, Sends, Gets
  <2>3. VoiceOK(c, "NONE", heard[e], said[e], said[Peer(e)])
    BY <1>1, <1>2, <1>5 DEF VoiceOK, Chats
  <2>4. GoneIn(plan, c) = GoneIn(plan, h[e])
    BY <1>1, <1>5, <1>6 DEF GoneIn, Sends, Gets
  <2> QED BY <2>1, <2>2, <2>3, <2>4 DEF Moves
<1>8. AwaitedBy(Script(e), e, c, Len(heard[e])) = Awaited(e)
  <2>1. Script(e).resume = plan.resume
    BY ScriptFacts
  <2> QED BY <1>1, <1>5, <1>6, <2>1 DEF Awaited, AwaitedBy
<1>9. x.voice = plan.voice /\ x.callback = plan.callback /\ x.resume = plan.resume
  BY DEF Script
<1>10. Written(e) = At("file_ack") /\ WrittenBy(x, e, c) = At("end")
  <2>1. Written(e) = Expects(x, Peer(e)) /\ Expects(x, Peer(e)) = At("file_ack")
    BY <1>1, <1>3, <1>9, ScriptFacts DEF Written, WrittenBy
  <2> QED BY <1>5, <2>1 DEF WrittenBy
<1>11. Leads(x, At("file_ack"), bytes, At("end"))
  <2>1. Plain(At("file_ack")) /\ Comes(x, At("file_ack"), <<"file_ack", x.resume>>)
        /\ Then(x, At("file_ack"), <<"file_ack", x.resume>>) = At("end")
    BY PlaceFacts
  <2> QED BY <1>6, <1>9, <2>1, PacketLeads
<1>12. bytes \in ByteSeq /\ DataIn(bytes) = 0
  <2>1. h[e].offset \in Number
    BY <1>2 DEF Connections
  <2>2. h[e].offset \in Int
    BY <2>1, ConstantFacts DEF Number
  <2>3. "file_ack" \in PacketKinds /\ "file_ack" # "header" /\ "file_ack" # "data"
    BY DEF PacketKinds
  <2> QED BY <2>2, <2>3, BytesFacts, DataPackets
<1> HIDE DEF f, bytes
<1> QED BY <1>1, <1>4, <1>7, <1>8, <1>10, <1>11, <1>12, WritesMain

\* The sender reads where the file is to begin.
LEMMA FileAckReadMain ==
    ASSUME TypeInv, TypeInv', Main, NEW e \in Ends, ReadingFileAck(e), UNCHANGED <<plan, link>>
    PROVE  Main'
<1> DEFINE x == Script(e)
<1>1. PICK offset \in Resumes \cup Garbage :
        /\ Reads(e, "file_ack", offset) /\ h[e].state = "READING_FILE_ACK" /\ UNCHANGED dataVars
        /\ Becomes(e, [state |-> "SENDING_FILE_HEADER", check |-> "WRITE", offset |-> offset])
        /\ Returns(e, "ACK")
  BY DEF ReadingFileAck
<1> DEFINE f == [state |-> "SENDING_FILE_HEADER", check |-> "WRITE", offset |-> offset]
           c == With(f, h[e])
<1>2. /\ Live(e) /\ event[e] = "NONE" /\ "ACK" \in Events \ Over /\ h[e] \in Connections
      /\ KindOK(plan, e, h[e], "NONE") /\ LiveIn(h[e])
      /\ plan.voice \in BOOLEAN /\ plan.callback \in BOOLEAN
      /\ VoiceOK(h[e], "NONE", heard[e], said[e], said[Peer(e)])
      /\ FileOK(plan, e, h[e], "NONE", got)
  BY <1>1, ReaderFacts, TurnFacts DEF Events, Over
<1>3. e = SenderIn(plan) /\ e # ReceiverIn(plan) /\ ~plan.voice
  BY <1>1, <1>2, KindStates DEF ReceiverIn, SenderIn, Peer
<1>4. Awaited(e) = At("file_ack") /\ Written(e) = Header(plan.resume, h[e].size)
  <2>1. Awaited(e) = Expects(x, e) /\ Expects(x, e) = At("file_ack")
    BY <1>1, <1>3, ScriptFacts DEF Awaited, AwaitedBy
  <2>2. Script(Peer(e)).resume = plan.resume
    BY DEF Script
  <2> QED BY <1>1, <2>1, <2>2 DEF Written, WrittenBy
<1>5. /\ \A packet : Comes(x, At("file_ack"), packet) <=> packet = <<"file_ack", plan.resume>>
      /\ Plain(At("file_ack")) /\ Then(x, At("file_ack"), <<"file_ack", offset>>) = At("end")
  BY PlaceFacts, ScriptFacts
<1>6. \A packet \in Packet : Comes(x, Awaited(e), packet) => packet[1] = "file_ack"
  BY <1>4, <1>5
<1>7. offset = plan.resume
  BY <1>1, <1>4, <1>5, <1>6, ReadsFacts
<1>8. Well(f) /\ DOMAIN f = {"state", "check", "offset"}
  <2>1. offset \in Number
    BY ConstantFacts
  <2> QED BY <2>1, StateNames DEF Well, Fields, Types
<1>9. c \in Connections /\ c.state = "SENDING_FILE_HEADER" /\ c.peerUin = h[e].peerUin /\ c.uin = h[e].uin
      /\ c.type = h[e].type /\ c.offset = offset /\ c.size = h[e].size /\ c.file = h[e].file
  BY <1>2, <1>8, WithFacts DEF Fields
<1>10. Moves(e, c, "ACK")
  <2>1. KindOK(plan, e, c, "ACK")
    BY <1>1, <1>2, <1>3, <1>9 DEF KindOK, TypeIn, MeetStates, LiveIn, SenderStates, Sends
  <2>2. FileOK(plan, e, c, "ACK", got)
    BY <1>1, <1>2, <1>3, <1>9 DEF FileOK
  <2>3. VoiceOK(c, "ACK", heard[e], said[e], said[Peer(e)])
    BY <1>1, <1>2, <1>9 DEF VoiceOK, Chats
  <2>4. GoneIn(plan, c) = GoneIn(plan, h[e])
    BY <1>1, <1>7, <1>9 DEF GoneIn, Sends, Gets
  <2> QED BY <2>1, <2>2, <2>3, <2>4 DEF Moves
<1>11. /\ AwaitedBy(x, e, c, Len(heard[e])) = At("end")
       /\ WrittenBy(Script(Peer(e)), e, c) = Written(e)
  BY <1>4, <1>7, <1>9 DEF AwaitedBy, WrittenBy
<1> HIDE DEF f
<1> QED BY <1>1, <1>2, <1>4, <1>5, <1>6, <1>8, <1>10, <1>11, ReadsMain DEF f

\* A list of one or two bytes is what they are.
LEMMA FewBytes ==
    ASSUME NEW S, NEW s \in Seq(S)
    PROVE  /\ Len(s) = 1 => s = <<s[1]>>
           /\ \A t \in Seq(S) : Len(s) = 1 /\ Len(t) = 1 => s \o t = <<s[1], t[1]>>
<1>1. ASSUME Len(s) = 1 PROVE s = <<s[1]>>
  <2> DEFINE t == <<s[1]>>
  <2>1. s[1] \in S
    BY <1>1
  <2>2. t \in Seq(S) /\ Len(t) = 1 /\ t[1] = s[1]
    BY <2>1
  <2> HIDE DEF t
  <2>3. \A i \in 1..Len(s) : s[i] = t[i]
    BY <1>1, <2>2
  <2> QED BY <1>1, <2>2, <2>3, SeqEqual DEF t
<1>2. ASSUME NEW t \in Seq(S), Len(s) = 1, Len(t) = 1 PROVE s \o t = <<s[1], t[1]>>
  <2> DEFINE c == <<s[1], t[1]>>
  <2>1. s[1] \in S /\ t[1] \in S
    BY <1>2
  <2>2. c \in Seq(S) /\ Len(c) = 2 /\ c[1] = s[1] /\ c[2] = t[1]
    BY <2>1
  <2>3. s \o t \in Seq(S) /\ Len(s \o t) = 2 /\ (s \o t)[1] = s[1] /\ (s \o t)[2] = t[1]
    BY <1>2, ConcatProperties
  <2> HIDE DEF c
  <2>4. \A i \in 1..2 : (s \o t)[i] = c[i]
    <3>1. \A i \in 1..2 : i = 1 \/ i = 2
      OBVIOUS
    <3> QED BY <2>2, <2>3, <3>1
  <2> QED BY <2>2, <2>3, <2>4, SeqEqual DEF c
<1> QED BY <1>1, <1>2

\* The first byte, and where the rest leads from.
LEMMA LeadsFirst ==
    ASSUME NEW x, NEW a, NEW b, NEW S, NEW s \in Seq(S), Leads(x, a, s, b), Len(s) > 0
    PROVE  /\ Fits(x, a, s[1])
           /\ \A d : Leads(x, a, s, d) => Leads(x, After(x, a, s[1]), SubSeq(s, 2, Len(s)), d)
<1>1. PICK w : /\ w[0] = a /\ w[Len(s)] = b
               /\ \A k \in 1..Len(s) : Fits(x, w[k - 1], s[k]) /\ w[k] = After(x, w[k - 1], s[k])
  BY DEF Leads
<1>2. 1 \in 1..Len(s) /\ 1 \in 0..Len(s) /\ 1 - 1 = 0 /\ 1 + 1 = 2
  OBVIOUS
<1>3. Fits(x, a, s[1])
  BY <1>1, <1>2
<1>4. SubSeq(s, 1, 1) = <<s[1]>>
  <2> DEFINE u == SubSeq(s, 1, 1)
  <2>1. u \in Seq(S) /\ Len(u) = 1 /\ u[1] = s[1]
    BY <1>2, SeqFacts
  <2> HIDE DEF u
  <2> QED BY <2>1, FewBytes DEF u
<1>5. Leads(x, a, SubSeq(s, 1, 1), After(x, a, s[1]))
  BY <1>3, <1>4, LeadsOne
<1>6. \A d : Leads(x, a, s, d) => Leads(x, After(x, a, s[1]), SubSeq(s, 1 + 1, Len(s)), d)
  BY <1>2, <1>5, LeadsDrop
<1> QED BY <1>2, <1>3, <1>6

\* The sender announces a chunk.
LEMMA HeaderMain ==
    ASSUME TypeInv, TypeInv', Main, Uncut', NEW e \in Ends, SendingFileHeader(e), UNCHANGED <<plan, link>>
    PROVE  Main'
<1> DEFINE size == HeaderSize(e)
           f == [state |-> "SENDING_FILE", check |-> "WRITE", chunkSize |-> size,
                 chunkOffset |-> 0, established |-> TRUE]
           c == With(f, h[e])
           x == Script(Peer(e))
           bytes == Bytes(<<"header", size>>)
<1>1. /\ Ready(e) /\ h[e].state = "SENDING_FILE_HEADER" /\ UNCHANGED dataVars
      /\ Live(e) /\ event[e] = "NONE" /\ "NONE" \in Events \ Over
      /\ Writes(e, bytes, f, "NONE")
  BY DEF SendingFileHeader, Ready, Events, Over
<1>2. /\ KindOK(plan, e, h[e], "NONE") /\ LiveIn(h[e]) /\ h[e] \in Connections
      /\ plan.voice \in BOOLEAN /\ plan.callback \in BOOLEAN
      /\ VoiceOK(h[e], "NONE", heard[e], said[e], said[Peer(e)])
      /\ FileOK(plan, e, h[e], "NONE", got)
  BY <1>1, TurnFacts
<1>3. e = SenderIn(plan) /\ e # ReceiverIn(plan) /\ ~plan.voice
  BY <1>1, <1>2, KindStates DEF ReceiverIn, SenderIn, Peer, Sends
<1>4. size \in Number /\ size = Announced(h[e].offset, h[e].size)
  BY <1>2, PieceFacts DEF HeaderSize, Announced
<1>5. size \in Int /\ size # Refused
  BY <1>4, ConstantFacts DEF Number, Refused
<1> HIDE DEF size
<1>6. Well(f) /\ DOMAIN f = {"state", "check", "chunkSize", "chunkOffset", "established"}
  <2>1. DOMAIN f = {"state", "check", "chunkSize", "chunkOffset", "established"} /\ f.check = "WRITE"
        /\ f.state = "SENDING_FILE" /\ f.chunkSize = size /\ f.chunkOffset = 0 /\ f.established = TRUE
    OBVIOUS
  <2>2. 0 \in Number /\ "SENDING_FILE" \in States
    BY ConstantFacts, StateNames
  <2> HIDE DEF f
  <2>3. Well(f)
    BY <1>4, <2>1, <2>2, WellForm DEF Fields
  <2> QED BY <2>1, <2>3
<1>7. c \in Connections /\ c.state = "SENDING_FILE" /\ c.peerUin = h[e].peerUin /\ c.uin = h[e].uin
      /\ c.type = h[e].type /\ c.offset = h[e].offset /\ c.size = h[e].size /\ c.file = h[e].file
      /\ c.chunkSize = size /\ c.chunkOffset = 0
  BY <1>2, <1>6, WithFacts DEF Fields
<1>8. Moves(e, c, "NONE")
  <2>1. KindOK(plan, e, c, "NONE")
    BY <1>1, <1>2, <1>3, <1>7 DEF KindOK, TypeIn, MeetStates, LiveIn, SenderStates, Sends
  <2>2. FileOK(plan, e, c, "NONE", got)
    BY <1>1, <1>2, <1>3, <1>7 DEF FileOK, Sends
  <2>3. VoiceOK(c, "NONE", heard[e], said[e], said[Peer(e)])
    BY <1>1, <1>2, <1>7 DEF VoiceOK, Chats
  <2>4. GoneIn(plan, c) = GoneIn(plan, h[e])
    BY <1>1, <1>7 DEF GoneIn, Sends, Gets
  <2> QED BY <2>1, <2>2, <2>3, <2>4 DEF Moves
<1>9. AwaitedBy(Script(e), e, c, Len(heard[e])) = Awaited(e)
  BY <1>1, <1>7 DEF Awaited, AwaitedBy
<1>10. Written(e) = Header(h[e].offset, h[e].size) /\ WrittenBy(x, e, c) = Data(h[e].offset, size, h[e].size)
  <2>1. WrittenBy(x, e, c) = Data(c.offset, c.chunkSize - c.chunkOffset, c.size)
    BY <1>7 DEF WrittenBy
  <2>2. c.chunkSize - c.chunkOffset = size
    BY <1>5, <1>7
  <2> QED BY <1>1, <1>7, <2>1, <2>2 DEF Written, WrittenBy
<1>11. Leads(x, Header(h[e].offset, h[e].size), bytes, Data(h[e].offset, size, h[e].size))
  <2> DEFINE a == Header(h[e].offset, h[e].size)
  <2>1. /\ Plain(a) /\ Comes(x, a, <<"header", size>>)
        /\ Then(x, a, <<"header", size>>) = IF size = Refused THEN Lost ELSE Data(h[e].offset, size, h[e].size)
    <3>1. \A packet :
            /\ Comes(x, a, packet) <=>
                 packet \in {<<"header", Announced(h[e].offset, h[e].size)>>, <<"header", Refused>>}
            /\ Then(x, a, packet) = IF packet[2] = Refused THEN Lost ELSE Data(h[e].offset, packet[2], h[e].size)
      <4> TAKE packet
      <4>1. \A n, m : Comes(x, Header(n, m), packet) <=>
                            packet \in {<<"header", Announced(n, m)>>, <<"header", Refused>>}
        BY PlaceFacts
      <4>2. \A n, m : Then(x, Header(n, m), packet) =
                            IF packet[2] = Refused THEN Lost ELSE Data(n, packet[2], m)
        BY DEF Then, Header, Place
      <4> QED BY <4>1, <4>2
    <3>2. Plain(a)
      BY PlaceFacts
    <3> HIDE DEF a, x
    <3> QED BY <1>4, <3>1, <3>2 DEF a
  <2> QED BY <1>5, <2>1, PacketLeads
<1>12. bytes \in ByteSeq /\ DataIn(bytes) = 0
  <2>1. "header" \in PacketKinds /\ "header" # "data"
    BY DEF PacketKinds
  <2> QED BY <1>4, <1>5, <2>1, BytesFacts, DataPackets
<1> HIDE DEF f, bytes
<1> QED BY <1>1, <1>6, <1>8, <1>9, <1>10, <1>11, <1>12, WritesMain

\* A header that is whole is one that was announced, or a refusal.
LEMMA HeaderWhole ==
    ASSUME TypeInv, Main, NEW e \in Ends, Live(e), event[e] = "NONE", link = "up",
           h[e].state = "READING_FILE_HEADER", e = ReceiverIn(plan),
           NEW n \in 1..Len(pipe[e]), h[e].chunkOffset + n = Small
    PROVE  \E size \in {Announced(h[e].offset, h[e].size), Refused} :
              /\ h[e].chunkBuf \o SubSeq(pipe[e], 1, n) = Bytes(<<"header", size>>)
              /\ \A b : Leads(Script(e), Awaited(e), pipe[e], b) =>
                    Leads(Script(e), Then(Script(e), Header(h[e].offset, h[e].size), <<"header", size>>),
                          SubSeq(pipe[e], n + 1, Len(pipe[e])), b)
              /\ DataIn(SubSeq(pipe[e], n + 1, Len(pipe[e]))) = DataIn(pipe[e])
<1> DEFINE s == pipe[e]
           x == Script(e)
           a == Header(h[e].offset, h[e].size)
           t == SubSeq(s, n + 1, Len(s))
<1>1. /\ h[e] \in Connections /\ s \in ByteSeq /\ StreamOK(e) /\ Open(e) /\ "NONE" \notin Over
      /\ Sound(h[e], event[e])
  BY TurnFacts, LiveEnd DEF Over, TypeInv
<1>2. Len(h[e].chunkBuf) = h[e].chunkOffset /\ h[e].chunkBuf \in ByteSeq /\ h[e].chunkOffset \in Nat
  BY <1>1 DEF Sound, Connections, ByteSeq
<1>3. PICK b : Leads(x, Awaited(e), s, b)
  BY <1>1 DEF StreamOK, Listens
<1>4. Len(s) \in Nat /\ n \in 0..Len(s) /\ n \in Nat /\ n >= 1 /\ n <= Len(s)
  BY <1>1 DEF ByteSeq
<1>5. s \in Seq(Byte)
  BY <1>1 DEF ByteSeq, Byte
<1>6. DataIn(s) = DataIn(SubSeq(s, 1, n)) + DataIn(t) /\ DataIn(t) \in Nat
  <2>1. t \in Seq(Byte)
    BY <1>4, <1>5, SeqFacts
  <2> QED BY <1>4, <1>5, <2>1, DataSplit, WhereFinite
<1>7. CASE h[e].chunkOffset = 0
  <2>1. Awaited(e) = a /\ n = 2 /\ h[e].chunkBuf = <<>> /\ Size(<<"header">>) = 2
    BY <1>2, <1>4, <1>7 DEF Awaited, AwaitedBy, Small, Size, ByteSeq
  <2>2. Plain(a) /\ \A packet : Comes(x, a, packet) <=>
              packet \in {<<"header", Announced(h[e].offset, h[e].size)>>, <<"header", Refused>>}
    BY PlaceFacts
  <2>3. \E packet \in Packet :
              /\ Comes(x, a, packet) /\ packet[1] = "header" /\ SubSeq(s, 1, 2) = Bytes(packet)
              /\ Leads(x, Then(x, a, packet), SubSeq(s, 2 + 1, Len(s)), b)
    <3>1. \A packet \in Packet : Comes(x, a, packet) => packet[1] = "header"
      BY <2>2
    <3>2. Leads(x, a, s, b) /\ Len(s) >= Size(<<"header">>)
      BY <1>3, <1>4, <2>1
    <3>3. s \in ByteSeq /\ Plain(a)
      BY <1>1, <2>2
    <3> HIDE DEF s, a, x
    <3>4. \E packet \in Packet :
              /\ Comes(x, a, packet) /\ packet[1] = "header"
              /\ SubSeq(s, 1, Size(<<"header">>)) = Bytes(packet)
              /\ Leads(x, Then(x, a, packet), SubSeq(s, Size(<<"header">>) + 1, Len(s)), b)
      BY <3>1, <3>2, <3>3, FirstPacket
    <3> QED BY <2>1, <3>4
  <2>4. PICK size \in {Announced(h[e].offset, h[e].size), Refused} :
              /\ <<"header", size>> \in Packet
              /\ Comes(x, a, <<"header", size>>) /\ SubSeq(s, 1, 2) = Bytes(<<"header", size>>)
    BY <2>2, <2>3
  <2>5. h[e].chunkBuf \o SubSeq(s, 1, n) = Bytes(<<"header", size>>)
    <3> DEFINE u == SubSeq(s, 1, n)
    <3>1. u \in Seq(Byte)
      BY <1>4, <1>5, SeqFacts
    <3> HIDE DEF u
    <3>2. <<>> \o u = u
      BY <3>1
    <3> QED BY <2>1, <2>4, <3>2 DEF u
  <2>6. Leads(x, a, Bytes(<<"header", size>>), Then(x, a, <<"header", size>>))
    BY <2>2, <2>4, PacketLeads
  <2>7. \A d : Leads(x, a, s, d) => Leads(x, Then(x, a, <<"header", size>>), t, d)
    BY <1>4, <1>5, <2>1, <2>4, <2>6, LeadsDrop
  <2>8. DataIn(SubSeq(s, 1, n)) = 0
    <3>1. size \in Int /\ (size \in {Refused} \cup Number) /\ "header" \in PacketKinds
      BY <2>4 DEF Packet
    <3>2. DataIn(Bytes(<<"header", size>>)) = 0
      BY <3>1, DataPackets
    <3> QED BY <2>1, <2>4, <3>2
  <2>9. DataIn(t) = DataIn(s)
    BY <1>6, <2>8
  <2> QED BY <2>1, <2>5, <2>7, <2>9
<1>8. CASE h[e].chunkOffset # 0
  <2>1. h[e].chunkOffset = 1 /\ n = 1
    BY <1>2, <1>4, <1>8 DEF Small
  <2>2. PICK size \in {Announced(h[e].offset, h[e].size), Refused} : h[e].chunkBuf[1] = <<<<"header", size>>, 1>>
    BY <1>1, <2>1, ReceiverHas DEF HasFile
  <2> DEFINE p == <<"header", size>>
  <2>3. Awaited(e) = Inside(<<p, 2>>, Then(x, a, p))
    <3>1. Awaited(e) = After(x, a, <<p, 1>>)
      BY <2>1, <2>2 DEF Awaited, AwaitedBy
    <3>2. Plain(a)
      BY PlaceFacts
    <3>3. <<p, 1>>[1] = p /\ Size(p) = 2
      BY DEF Size, Small
    <3> QED BY <3>1, <3>2, <3>3, PlainFacts
  <2>4. Fits(x, Awaited(e), s[1])
        /\ \A d : Leads(x, Awaited(e), s, d) => Leads(x, After(x, Awaited(e), s[1]), SubSeq(s, 2, Len(s)), d)
    BY <1>3, <1>4, <1>5, LeadsFirst
  <2>5. s[1] = <<p, 2>> /\ After(x, Awaited(e), s[1]) = Then(x, a, p)
    BY <2>3, <2>4, InsideFacts
  <2>6. \A d : Leads(x, Awaited(e), s, d) => Leads(x, Then(x, a, p), t, d)
    BY <2>1, <2>4, <2>5
  <2>7. SubSeq(s, 1, n) = <<<<p, 2>>>>
    <3> DEFINE u == SubSeq(s, 1, n)
    <3>1. u \in Seq(Byte) /\ Len(u) = 1 /\ u[1] = <<p, 2>>
      BY <1>4, <1>5, <2>1, <2>5, SeqFacts
    <3> HIDE DEF u, p
    <3> QED BY <3>1, FewBytes DEF u
  <2>8. h[e].chunkBuf \o SubSeq(s, 1, n) = Bytes(p)
    <3>1. h[e].chunkBuf = <<<<p, 1>>>>
      <4> DEFINE u == h[e].chunkBuf
      <4>1. u \in Seq(Byte) /\ Len(u) = 1 /\ u[1] = <<p, 1>>
        BY <1>2, <2>1, <2>2 DEF ByteSeq, Byte
      <4> HIDE DEF u, p
      <4>2. u = <<<<p, 1>>>>
        BY <4>1, FewBytes
      <4> QED BY <4>2 DEF u, p
    <3>2. Bytes(p) = <<<<p, 1>>, <<p, 2>>>>
      <4>1. Bytes(p) = [i \in 1..2 |-> <<p, i>>]
        BY DEF Bytes, Size, Small
      <4> HIDE DEF p
      <4> QED BY <4>1
    <3> DEFINE u == h[e].chunkBuf
               w == SubSeq(s, 1, n)
    <3>3. u \in Seq(Byte) /\ Len(u) = 1 /\ u[1] = <<p, 1>>
      BY <1>2, <2>1, <2>2 DEF ByteSeq, Byte
    <3>4. w \in Seq(Byte) /\ Len(w) = 1 /\ w[1] = <<p, 2>>
      BY <1>4, <1>5, <2>1, <2>5, SeqFacts
    <3> HIDE DEF p, u, w
    <3>5. u \o w = <<<<p, 1>>, <<p, 2>>>>
      BY <3>3, <3>4, FewBytes
    <3> QED BY <3>2, <3>5 DEF u, w
  <2>9. DataIn(SubSeq(s, 1, n)) = 0
    <3>1. SubSeq(s, 1, n) \in Seq(Byte)
      BY <1>4, <1>5, SeqFacts
    <3>2. \A i \in 1..Len(SubSeq(s, 1, n)) : SubSeq(s, 1, n)[i][1][1] = "header"
      <4> DEFINE y == <<p, 2>>
      <4>1. y[1][1] = "header"
        OBVIOUS
      <4> HIDE DEF y
      <4>2. \A i \in 1..Len(<<y>>) : <<y>>[i] = y
        OBVIOUS
      <4>3. SubSeq(s, 1, n) = <<y>>
        BY <2>7 DEF y
      <4> QED BY <4>1, <4>2, <4>3
    <3> QED BY <3>1, <3>2, DataAll
  <2>10. DataIn(t) = DataIn(s)
    BY <1>6, <2>9
  <2> QED BY <2>6, <2>8, <2>10
<1> QED BY <1>7, <1>8

\* What was read is some of what is left and of what came.
LEMMA TakenFacts ==
    ASSUME NEW a \in Number, NEW b \in Number, a <= b, NEW m \in Nat,
           NEW n \in 1..Min({Unsigned(b - a), m})
    PROVE  n \in Nat /\ n >= 1 /\ n <= m /\ n <= b - a /\ n \in 1..m /\ n \in 0..m
<1>1. a \in Int /\ b \in Int /\ b - a \in Number /\ b - a \in Int
  BY ConstantFacts DEF Number
<1>2. Unsigned(b - a) = b - a
  BY <1>1, UnsignedFacts
<1>3. Min({b - a, m}) = IF b - a <= m THEN b - a ELSE m
  BY <1>1, MinFacts
<1> QED BY <1>1, <1>2, <1>3

\* A difference of numbers that is zero without a sign is zero.
LEMMA SameNumber ==
    ASSUME NEW a \in Number, NEW b \in Number, Unsigned(b - a) = 0
    PROVE  a = b
<1>1. a \in Int /\ b \in Int /\ Width \in Int /\ a < Width /\ b < Width /\ 0 <= a /\ 0 <= b
  BY ConstantFacts DEF Number
<1>2. CASE a <= b
  <2>1. b - a \in Number /\ b - a \in Int
    BY <1>1, <1>2 DEF Number
  <2>2. Unsigned(b - a) = b - a
    BY <2>1, UnsignedFacts
  <2> QED BY <1>1, <2>2
<1>3. CASE b < a
  <2>1. b - a < 0 /\ -(b - a) \in Number /\ b - a \in Int
    BY <1>1, <1>3 DEF Number
  <2>2. Unsigned(b - a) = b - a + Width
    BY <2>1, UnsignedFacts
  <2> QED BY <1>1, <2>2
<1> QED BY <1>1, <1>2, <1>3

\* An end takes some bytes that are not of the file.
LEMMA TakesMain ==
    ASSUME TypeInv, TypeInv', Main, NEW e \in Ends, Live(e), event[e] = "NONE",
           NEW f, Well(f), Becomes(e, f), NEW v \in Events, event' = [event EXCEPT ![e] = v],
           UNCHANGED <<plan, link, faults, dataVars>>, NEW n \in 0..Len(pipe[e]), pipe' = Consumed(e, n),
           DataIn(SubSeq(pipe[e], n + 1, Len(pipe[e]))) = DataIn(pipe[e]),
           Moves(e, With(f, h[e]), v), h[e].state # "SENDING_FILE",
           v \notin Over => \A b : Leads(Script(e), Awaited(e), pipe[e], b) =>
               Leads(Script(e), AwaitedBy(Script(e), e, With(f, h[e]), Len(heard[e])),
                     SubSeq(pipe[e], n + 1, Len(pipe[e])), b),
           WrittenBy(Script(Peer(e)), e, With(f, h[e])) = Written(e)
    PROVE  Main'
<1> DEFINE d == Peer(e)
           c == With(f, h[e])
           t == SubSeq(pipe[e], n + 1, Len(pipe[e]))
<1>1. EndsInv /\ event \in [Ends -> Events] /\ pipe \in [Ends -> ByteSeq] /\ d # e /\ d \in Ends
  BY EndsFacts DEF TypeInv, EndsInv
<1>2. h'[e] = c /\ h'[d] = h[d]
  BY <1>1, BecomesFacts
<1>3. event'[e] = v /\ event'[d] = event[d] /\ "NONE" \notin Over
  BY <1>1 DEF Over
<1>4. pipe'[e] = t /\ pipe'[d] = pipe[d]
  BY <1>1 DEF Consumed
<1>5. Open(e) /\ heard' = heard /\ got' = got /\ said' = said /\ got = FileBytes(0, Len(got))
  BY TurnFacts DEF dataVars, Main
<1>6. Exact(e)
  BY <1>5 DEF Exact, ExactIn, Open
<1>7. KindOK(plan, e, h'[e], event'[e]) /\ FileOK(plan, e, h'[e], event'[e], got')
      /\ VoiceOK(h'[e], event'[e], heard'[e], said[e], said[d]) /\ GoneIn(plan, h'[e]) = GoneIn(plan, h[e])
  BY <1>2, <1>3, <1>5 DEF Moves
<1>8. ASSUME Listens(e)', NEW b, Leads(Script(e), Awaited(e), pipe[e], b)
      PROVE  Leads(Script(e), AwaitedBy(Script(e), e, h'[e], Len(heard'[e])), pipe'[e], b)
  BY <1>2, <1>3, <1>4, <1>5, <1>8 DEF Listens
<1>9. WrittenBy(Script(d), e, h'[e]) = Written(e)
  BY <1>2
<1>10. DataIn(pipe'[e]) = DataIn(pipe[e])
  BY <1>4
<1>11. Counts /\ Counts' =>
           IF e = Sender
           THEN GoneIn(plan, h'[e]) + DataIn(pipe[d]) = GoneIn(plan, h[e]) + DataIn(pipe'[d])
           ELSE GoneIn(plan, h'[e]) + DataIn(pipe'[e]) = GoneIn(plan, h[e]) + DataIn(pipe[e])
  BY <1>4, <1>7, <1>10
<1>12. event[e] \notin Over
  BY <1>3
<1> HIDE DEF d, c, t
<1> QED BY <1>2, <1>3, <1>4, <1>5, <1>6, <1>7, <1>8, <1>9, <1>11, <1>12, MoveMain DEF d

\* The receiver reads a file header, in whatever parts it comes.
LEMMA HeaderReadMain ==
    ASSUME TypeInv, TypeInv', Main, NEW e \in Ends, ReadingFileHeader(e), UNCHANGED <<plan, link>>
    PROVE  Main'
<1>1. /\ Ready(e) /\ h[e].state = "READING_FILE_HEADER" /\ UNCHANGED dataVars /\ UNCHANGED faults
      /\ Live(e) /\ event[e] = "NONE" /\ "NONE" \in Events \ Over
  BY DEF ReadingFileHeader, Ready, Events, Over
<1>2. /\ KindOK(plan, e, h[e], "NONE") /\ LiveIn(h[e]) /\ h[e] \in Connections /\ pipe[e] \in ByteSeq
      /\ plan.voice \in BOOLEAN /\ plan.callback \in BOOLEAN
      /\ VoiceOK(h[e], "NONE", heard[e], said[e], said[Peer(e)])
  BY <1>1, TurnFacts
<1>3. e = ReceiverIn(plan) /\ e # SenderIn(plan) /\ ~plan.voice
  BY <1>1, <1>2, KindStates DEF ReceiverIn, SenderIn, Peer, Gets
<1>4. HasFile(plan, h[e], "NONE", got) /\ Len(got) = h[e].offset
  BY <1>1, <1>3, ReceiverHas DEF HasFile, OpenedIn, Gets
<1>5. /\ Len(h[e].chunkBuf) = h[e].chunkOffset /\ h[e].chunkOffset < h[e].chunkSize /\ h[e].chunkSize = Small
      /\ h[e].chunkBuf \in ByteSeq /\ h[e].chunkOffset \in Number /\ h[e].chunkSize \in Number
      /\ h[e].offset \in Number /\ h[e].size \in Number
  BY <1>1, LiveEnd DEF Sound, Connections, TypeInv
<1>6. h[e].chunkOffset \in Nat /\ h[e].offset \in Int /\ h[e].size \in Int /\ Small = 2
  BY <1>5, ConstantFacts DEF Number, Small
<1>7. CASE link = "broken" /\ Fails(e, "ERROR_NET") /\ UNCHANGED pipe
  BY <1>1, <1>7, FailMain DEF Over
<1>8. ASSUME NEW n \in 1..Min({Unsigned(h[e].chunkSize - h[e].chunkOffset), Len(pipe[e])}),
             link = "up", pipe' = Consumed(e, n),
             \/ /\ ~(h[e].chunkOffset + n >= h[e].chunkSize)
                /\ Becomes(e, [chunkOffset |-> h[e].chunkOffset + n,
                               chunkBuf |-> h[e].chunkBuf \o SubSeq(pipe[e], 1, n)])
                /\ UNCHANGED event
             \/ \E size \in Values(h[e].chunkBuf \o SubSeq(pipe[e], 1, n), "header") :
                  LET read == [chunkBuf |-> <<>>, allocated |-> FALSE, chunkOffset |-> 0,
                               chunkSize |-> Unsigned(size)]
                  IN  /\ h[e].chunkOffset + n >= h[e].chunkSize
                      /\ \/ /\ size \in {Refused, 0}
                            /\ Becomes(e, read)
                            /\ Returns(e, IF size = 0 THEN "DONE" ELSE "REFUSED")
                         \/ /\ size \notin {Refused, 0}
                            /\ Becomes(e, With([state |-> "GETTING_FILE", check |-> "READ",
                                                established |-> TRUE], read))
                            /\ UNCHANGED event
      PROVE  Main'
  <2> DEFINE s == pipe[e]
             x == Script(e)
             a == Header(h[e].offset, h[e].size)
             t == SubSeq(s, n + 1, Len(s))
             buf == h[e].chunkBuf \o SubSeq(s, 1, n)
  <2>1. Len(s) \in Nat /\ s \in Seq(Byte)
    BY <1>2 DEF ByteSeq, Byte
  <2>2. n \in 1..Len(s) /\ n \in 0..Len(s) /\ n \in Nat /\ n >= 1 /\ n <= h[e].chunkSize - h[e].chunkOffset
    <3>1. h[e].chunkOffset <= h[e].chunkSize
      BY <1>5, <1>6
    <3> QED BY <1>5, <2>1, <3>1, TakenFacts
  <2> HIDE DEF s, t, buf, a, x
  <2>3. CASE /\ ~(h[e].chunkOffset + n >= h[e].chunkSize)
             /\ Becomes(e, [chunkOffset |-> h[e].chunkOffset + n, chunkBuf |-> buf])
             /\ UNCHANGED event
    <3> DEFINE f == [chunkOffset |-> h[e].chunkOffset + n, chunkBuf |-> buf]
               c == With(f, h[e])
    <3>1. h[e].chunkOffset = 0 /\ n = 1 /\ h[e].chunkBuf = <<>>
      BY <1>5, <1>6, <2>2, <2>3 DEF ByteSeq
    <3>2. buf = SubSeq(s, 1, 1) /\ buf \in ByteSeq /\ Len(buf) = 1 /\ buf[1] = s[1]
      <4> DEFINE u == SubSeq(s, 1, n)
      <4>1. u \in Seq(Byte) /\ Len(u) = n /\ u[1] = s[1]
        BY <2>1, <2>2, <3>1, SeqFacts
      <4> HIDE DEF u
      <4>2. <<>> \o u = u
        BY <4>1
      <4> QED BY <3>1, <4>1, <4>2 DEF u, buf, s, ByteSeq, Byte
    <3>3. DOMAIN f = {"chunkOffset", "chunkBuf"} /\ f.chunkOffset = 1 /\ f.chunkBuf = buf
      BY <3>1, <1>6
    <3>3a. Becomes(e, f)
      BY <2>3
    <3> HIDE DEF f
    <3>3b. Well(f)
      BY <3>2, <3>3, ConstantFacts, WellForm DEF Fields
    <3>4. c \in Connections /\ c.state = "READING_FILE_HEADER" /\ c.peerUin = h[e].peerUin /\ c.uin = h[e].uin
          /\ c.type = h[e].type /\ c.offset = h[e].offset /\ c.size = h[e].size
          /\ c.chunkOffset = 1 /\ c.chunkBuf = buf
      BY <1>1, <1>2, <3>3, <3>3b, WithFacts DEF Fields
    <3>5. Awaited(e) = a
      BY <1>1, <3>1 DEF Awaited, AwaitedBy, a
    <3>6. PICK b : Leads(x, a, s, b)
      BY <1>1, <1>8, <3>5, TurnFacts DEF StreamOK, Listens, s, x
    <3>7. Fits(x, a, s[1])
          /\ \A d : Leads(x, a, s, d) => Leads(x, After(x, a, s[1]), SubSeq(s, 2, Len(s)), d)
      BY <2>1, <2>2, <3>6, LeadsFirst
    <3>8. s[1] \in {<<<<"header", size>>, 1>> : size \in {Announced(h[e].offset, h[e].size), Refused}}
      <4>1. s[1] \in Byte
        BY <2>1, <2>2, <3>1
      <4>2. s[1] = <<s[1][1], s[1][2]>>
        BY <4>1 DEF Byte
      <4>3. s[1][2] = 1 /\ Comes(x, a, s[1][1])
        <5>1. Plain(a)
          BY PlaceFacts DEF a
        <5> QED BY <3>7, <5>1, PlainFacts
      <4>4. s[1][1] \in {<<"header", Announced(h[e].offset, h[e].size)>>, <<"header", Refused>>}
        BY <4>3, PlaceFacts DEF a
      <4> QED BY <4>2, <4>3, <4>4
    <3>9. DataIn(t) = DataIn(s)
      <4> DEFINE u == SubSeq(s, 1, 1)
      <4>1. DataIn(s) = DataIn(u) + DataIn(t)
        BY <2>1, <2>2, <3>1, DataSplit DEF t
      <4>2. t \in Seq(Byte) /\ u \in Seq(Byte) /\ Len(u) = 1 /\ u[1] = s[1]
        BY <2>1, <2>2, <3>1, SeqFacts DEF t
      <4>3. s[1][1][1] # "data"
        BY <3>8
      <4> HIDE DEF u
      <4>4. \A i \in 1..Len(u) : u[i][1][1] # "data"
        BY <4>2, <4>3
      <4>5. DataIn(u) = 0 /\ DataIn(t) \in Nat
        BY <4>2, <4>4, DataAll, WhereFinite
      <4> QED BY <4>1, <4>5
    <3>10. AwaitedBy(x, e, c, Len(heard[e])) = After(x, a, s[1]) /\ WrittenBy(Script(Peer(e)), e, c) = Written(e)
      BY <1>1, <3>2, <3>4 DEF AwaitedBy, Written, WrittenBy, a
    <3>11. Moves(e, c, "NONE")
      <4>1. KindOK(plan, e, c, "NONE")
        BY <1>1, <1>2, <1>3, <3>4 DEF KindOK, TypeIn, MeetStates, LiveIn, ReceiverStates, Gets
      <4>2. c.chunkBuf[1] \in {<<<<"header", size>>, 1>> : size \in {Announced(c.offset, c.size), Refused}}
        BY <3>2, <3>4, <3>8
      <4>3. FileOK(plan, e, c, "NONE", got)
        BY <1>4, <3>4, <4>2 DEF FileOK, HasFile, OpenedIn, Sends, Gets
      <4>4. VoiceOK(c, "NONE", heard[e], said[e], said[Peer(e)])
        BY <1>1, <1>2, <3>4 DEF VoiceOK, Chats
      <4>5. GoneIn(plan, c) = GoneIn(plan, h[e])
        BY <1>1, <3>4 DEF GoneIn
      <4> QED BY <4>1, <4>3, <4>4, <4>5 DEF Moves
    <3>12. \A d : Leads(x, a, s, d) => Leads(x, AwaitedBy(x, e, c, Len(heard[e])), t, d)
      BY <3>1, <3>7, <3>10 DEF t
    <3>13. event' = [event EXCEPT ![e] = "NONE"]
      BY <1>1, <2>3 DEF TypeInv, EndsInv
    <3> QED BY <1>1, <1>8, <2>2, <3>3a, <3>3b, <3>5, <3>9, <3>10, <3>11, <3>12, <3>13, TakesMain DEF s, t, x
  <2>4. ASSUME NEW size \in Values(buf, "header"),
               LET read == [chunkBuf |-> <<>>, allocated |-> FALSE, chunkOffset |-> 0,
                            chunkSize |-> Unsigned(size)]
               IN  /\ h[e].chunkOffset + n >= h[e].chunkSize
                   /\ \/ /\ size \in {Refused, 0}
                         /\ Becomes(e, read)
                         /\ Returns(e, IF size = 0 THEN "DONE" ELSE "REFUSED")
                      \/ /\ size \notin {Refused, 0}
                         /\ Becomes(e, With([state |-> "GETTING_FILE", check |-> "READ",
                                             established |-> TRUE], read))
                         /\ UNCHANGED event
        PROVE  Main'
    <3>1. h[e].chunkOffset + n = Small
      BY <1>5, <1>6, <2>2, <2>4
    <3>2. PICK z \in {Announced(h[e].offset, h[e].size), Refused} :
              /\ buf = Bytes(<<"header", z>>)
              /\ \A b : Leads(x, Awaited(e), s, b) => Leads(x, Then(x, a, <<"header", z>>), t, b)
              /\ DataIn(t) = DataIn(s)
      BY <1>1, <1>3, <1>8, <2>2, <3>1, HeaderWhole DEF buf, s, t, a, x
    <3>3. Announced(h[e].offset, h[e].size) \in Number
      BY <1>2, PieceFacts DEF HeaderSize, Announced
    <3>4. z \in {Refused} \cup Number /\ z \in Int
      BY <3>2, <3>3, ConstantFacts DEF Number, Refused
    <3>5. size = z
      <4>1. Bytes(<<"header", z>>) \in ByteSeq /\ Len(Bytes(<<"header", z>>)) = 2
            /\ Bytes(<<"header", z>>)[1] = <<<<"header", z>>, 1>>
        <5>1. "header" \in PacketKinds /\ Size(<<"header", z>>) = 2 /\ 1 \in 1..2
          BY DEF PacketKinds, Size, Small
        <5>2. Bytes(<<"header", z>>) \in ByteSeq /\ Len(Bytes(<<"header", z>>)) = Size(<<"header", z>>)
              /\ \A i \in 1..Size(<<"header", z>>) : Bytes(<<"header", z>>)[i] = <<<<"header", z>>, i>>
          BY <3>4, <5>1, BytesFacts
        <5> QED BY <5>1, <5>2
      <4>2. Head(buf)[1] = <<"header", z>>
        <5> DEFINE u == Bytes(<<"header", z>>)
        <5>1. u \in Seq(Byte) /\ Len(u) = 2 /\ u[1] = <<<<"header", z>>, 1>> /\ buf = u
          BY <3>2, <4>1 DEF ByteSeq, Byte
        <5> HIDE DEF u
        <5>2. Head(u) = u[1]
          BY <5>1
        <5> QED BY <5>1, <5>2
      <4>3. Values(buf, "header") = {z}
        BY <3>2, <4>2 DEF Values
      <4> QED BY <2>4, <4>3
    <3>6. Unsigned(size) \in Number /\ (size # Refused => Unsigned(size) = size)
      BY <3>4, <3>5, UnsignedFacts
    <3> DEFINE read == [chunkBuf |-> <<>>, allocated |-> FALSE, chunkOffset |-> 0,
                        chunkSize |-> Unsigned(size)]
               next == [state |-> "GETTING_FILE", check |-> "READ", established |-> TRUE]
    <3>7. DOMAIN read = {"chunkBuf", "allocated", "chunkOffset", "chunkSize"}
          /\ read.chunkBuf = <<>> /\ read.allocated = FALSE
          /\ read.chunkOffset = 0 /\ read.chunkSize = Unsigned(size)
      OBVIOUS
    <3>8. <<>> \in ByteSeq
      BY DEF ByteSeq
    <3>9. CASE size \in {Refused, 0} /\ Becomes(e, read) /\ Returns(e, IF size = 0 THEN "DONE" ELSE "REFUSED")
      <4> DEFINE c == With(read, h[e])
                 v == IF size = 0 THEN "DONE" ELSE "REFUSED"
      <4>1. v \in Events /\ v \in Over /\ v \notin {"CALLBACK", "NEED_FILE_ACK"} /\ (v = "DONE" <=> size = 0)
        BY DEF Events, Over
      <4>2. Well(read)
        <5> HIDE DEF read
        <5> QED BY <3>6, <3>7, <3>8, ConstantFacts, WellForm DEF Fields
      <4>3. c \in Connections /\ c.state = "READING_FILE_HEADER" /\ c.peerUin = h[e].peerUin
            /\ c.uin = h[e].uin /\ c.type = h[e].type /\ c.offset = h[e].offset /\ c.size = h[e].size
            /\ c.chunkOffset = 0
        <5> HIDE DEF read
        <5> QED BY <1>1, <1>2, <3>7, <4>2, WithFacts DEF Fields
      <4> HIDE DEF v, read
      <4>4. v = "DONE" => h[e].offset = h[e].size
        <5>1. SUFFICES ASSUME size = 0 PROVE h[e].offset = h[e].size
          BY <4>1
        <5>2. Announced(h[e].offset, h[e].size) = 0
          BY <3>2, <3>5, <5>1 DEF Refused
        <5> DEFINE u == Unsigned(h[e].size - h[e].offset)
        <5>3. u \in Number /\ MaxChunk \in Nat \ {0}
          BY <1>6, UnsignedFacts, ConstantFacts
        <5>4. u = 0
          BY <5>2, <5>3, MinFacts, ConstantFacts DEF Announced, Number
        <5> QED BY <1>5, <5>4, SameNumber
      <4>5. Moves(e, c, v)
        <5>1. KindOK(plan, e, c, v)
          BY <1>1, <1>2, <1>3, <4>1, <4>3 DEF KindOK, TypeIn, MeetStates, LiveIn, ReceiverStates, Gets
        <5>2. FileOK(plan, e, c, v, got)
          BY <1>4, <4>1, <4>3, <4>4 DEF FileOK, HasFile, OpenedIn, Sends, Gets
        <5>3. VoiceOK(c, v, heard[e], said[e], said[Peer(e)])
          BY <1>1, <1>2, <4>3 DEF VoiceOK, Chats
        <5>4. GoneIn(plan, c) = GoneIn(plan, h[e])
          BY <1>1, <4>3 DEF GoneIn
        <5> QED BY <5>1, <5>2, <5>3, <5>4 DEF Moves
      <4>6. WrittenBy(Script(Peer(e)), e, c) = Written(e)
        BY <1>1, <4>3 DEF Written, WrittenBy
      <4>7. event' = [event EXCEPT ![e] = v]
        BY <3>9 DEF Returns, v
      <4> QED BY <1>1, <1>8, <2>2, <3>2, <3>9, <4>1, <4>2, <4>5, <4>6, <4>7, TakesMain DEF s, t
    <3>10. CASE size \notin {Refused, 0} /\ Becomes(e, With(next, read)) /\ UNCHANGED event
      <4> DEFINE f == With(next, read)
                 c == With(f, h[e])
      <4>1. DOMAIN f = {"state", "check", "established", "chunkBuf", "allocated", "chunkOffset", "chunkSize"}
        BY DEF With
      <4>2. /\ f.state = "GETTING_FILE" /\ f.check = "READ" /\ f.established = TRUE /\ f.chunkBuf = <<>>
            /\ f.allocated = FALSE /\ f.chunkOffset = 0 /\ f.chunkSize = Unsigned(size)
        BY DEF With
      <4>3. Becomes(e, f)
        BY <3>10
      <4> HIDE DEF f
      <4>4. Well(f)
        <5>1. "GETTING_FILE" \in States
          BY StateNames
        <5> QED BY <3>6, <3>8, <4>1, <4>2, <5>1, ConstantFacts, WellForm DEF Fields
      <4>5. c \in Connections /\ c.state = "GETTING_FILE" /\ c.peerUin = h[e].peerUin
            /\ c.uin = h[e].uin /\ c.type = h[e].type /\ c.offset = h[e].offset /\ c.size = h[e].size
            /\ c.chunkOffset = 0 /\ c.chunkSize = size
        BY <1>2, <3>6, <3>10, <4>1, <4>2, <4>4, WithFacts DEF Fields
      <4>6. Moves(e, c, "NONE")
        <5>1. KindOK(plan, e, c, "NONE")
          BY <1>1, <1>2, <1>3, <4>5 DEF KindOK, TypeIn, MeetStates, LiveIn, ReceiverStates, Gets
        <5>2. FileOK(plan, e, c, "NONE", got)
          BY <1>4, <4>5 DEF FileOK, HasFile, OpenedIn, Sends, Gets
        <5>3. VoiceOK(c, "NONE", heard[e], said[e], said[Peer(e)])
          BY <1>1, <1>2, <4>5 DEF VoiceOK, Chats
        <5>4. GoneIn(plan, c) = GoneIn(plan, h[e])
          BY <1>1, <4>5 DEF GoneIn, Gets
        <5> QED BY <5>1, <5>2, <5>3, <5>4 DEF Moves
      <4>7. WrittenBy(Script(Peer(e)), e, c) = Written(e)
        BY <1>1, <4>5 DEF Written, WrittenBy
      <4>8. AwaitedBy(x, e, c, Len(heard[e])) = Then(x, a, <<"header", z>>)
        <5>1. AwaitedBy(x, e, c, Len(heard[e])) = Data(c.offset, c.chunkSize - c.chunkOffset, c.size)
          BY <4>5 DEF AwaitedBy
        <5>2. c.chunkSize - c.chunkOffset = z
          BY <3>4, <3>5, <4>5
        <5>3. Then(x, a, <<"header", z>>) = Data(h[e].offset, z, h[e].size)
          BY <3>5, <3>10 DEF Then, a, Header, Place
        <5> QED BY <4>5, <5>1, <5>2, <5>3
      <4>9. event' = [event EXCEPT ![e] = "NONE"]
        BY <1>1, <3>10 DEF TypeInv, EndsInv
      <4> QED BY <1>1, <1>8, <2>2, <3>2, <4>3, <4>4, <4>6, <4>7, <4>8, <4>9, TakesMain DEF s, t, x
    <3> QED BY <2>4, <3>9, <3>10
  <2> QED BY <1>8, <2>3, <2>4 DEF buf, s
<1> QED BY <1>1, <1>7, <1>8 DEF ReadingFileHeader

\* The sender sends some of a chunk: what comes is how its file goes on.
LEMMA SendingMain ==
    ASSUME TypeInv, TypeInv', Main, Uncut', NEW e \in Ends, SendingFile(e), UNCHANGED <<plan, link>>
    PROVE  Main'
<1> DEFINE d == Peer(e)
           x == Script(d)
           m == h[e].offset
           left == h[e].chunkSize - h[e].chunkOffset
           size == h[e].size
           n == Cut(e)
<1>1. /\ Ready(e) /\ h[e].state = "SENDING_FILE" /\ UNCHANGED dataVars
      /\ Live(e) /\ event[e] = "NONE" /\ "NONE" \in Events \ Over
  BY DEF SendingFile, Ready, Events, Over
<1>2. /\ KindOK(plan, e, h[e], "NONE") /\ LiveIn(h[e]) /\ h[e] \in Connections /\ Open(e)
      /\ plan.voice \in BOOLEAN /\ plan.callback \in BOOLEAN
      /\ VoiceOK(h[e], "NONE", heard[e], said[e], said[d])
      /\ FileOK(plan, e, h[e], "NONE", got)
  BY <1>1, TurnFacts
<1>3. e = SenderIn(plan) /\ e # ReceiverIn(plan) /\ ~plan.voice
  BY <1>1, <1>2, KindStates DEF ReceiverIn, SenderIn, Peer, Sends
<1>4. ASSUME NEW v \in {"DONE", "ERROR_EOF", "ERROR_NET"}, Fails(e, v), UNCHANGED <<pipe, faults>>
      PROVE  Main'
  <2>1. v \in Over /\ h[e].state \notin Gets /\ faults \subseteq faults'
    BY <1>1, <1>4 DEF Over, Gets
  <2> QED BY <1>1, <1>4, <2>1, FailMain
<1>5. ASSUME n >= 1, NEW taken \in 1..n, link = "up",
             IF taken < n THEN Fault("short write") ELSE UNCHANGED faults,
             pipe' = Delivered(e, FileBytes(m, taken)),
             IF m + n >= size
             THEN Becomes(e, Sent(e, n)) /\ Returns(e, "DONE")
             ELSE Becomes(e, SentNext(e, n)) /\ UNCHANGED event
      PROVE  Main'
  <2>0. n >= 1 /\ taken \in 1..n
    BY <1>5
  <2>0a. IF taken < n THEN Fault("short write") ELSE UNCHANGED faults
    BY <1>5
  <2>1. length \in Number /\ Sound(h[e], event[e]) /\ EndsInv
        /\ event \in [Ends -> Events] /\ pipe \in [Ends -> ByteSeq]
    BY <1>1, LiveEnd, ConstantFacts DEF TypeInv, DataInv, EndsInv
  <2>2. /\ m \in Nat /\ size \in Int /\ h[e].chunkOffset \in Int /\ h[e].chunkSize \in Int
        /\ h[e].chunkOffset <= h[e].chunkSize
    BY <1>1, <1>2, <2>1 DEF Connections, Number, Sound
  <2>3. n \in Nat /\ n <= size - m /\ n <= left
    <3>1. FromFile(e) <= Piece(e) /\ FromFile(e) \in Nat /\ n <= FromFile(e) /\ n \in Int /\ n <= size - m
      BY <1>2, <2>1, CutFacts
    <3>2. Piece(e) \in Nat /\ Piece(e) <= left
      BY <1>2, <2>2, PieceFacts
    <3> HIDE DEF n
    <3>3. left \in Int
      BY <2>2
    <3> HIDE DEF left, m, size
    <3> QED BY <2>0, <3>1, <3>2, <3>3
  <2> HIDE DEF n, d, m, left, size
  <2>4. left \in Int /\ m + n <= size /\ h[e].chunkOffset + n <= h[e].chunkSize
    BY <2>2, <2>3 DEF left
  <2>5. /\ Well(Sent(e, n)) /\ Well(SentNext(e, n))
        /\ DOMAIN Sent(e, n) = {"offset", "check"} /\ Sent(e, n).offset = m + n
        /\ DOMAIN SentNext(e, n) = {"state", "chunkOffset", "offset", "check"}
        /\ SentNext(e, n).offset = m + n
        /\ SentNext(e, n).chunkOffset = h[e].chunkOffset + n
        /\ SentNext(e, n).state = IF h[e].chunkOffset + n >= h[e].chunkSize
                                     THEN "SENDING_FILE_HEADER" ELSE "SENDING_FILE"
    <3>1. h[e].offset + n <= h[e].size
      BY <2>4 DEF m, size
    <3> QED BY <1>2, <2>3, <2>4, <3>1, SentFacts DEF m
  <2>6. taken = n /\ UNCHANGED faults
    <3>1. ~Fault("short write")
      BY DEF Fault, Uncut
    <3>2. ~(taken < n) => taken = n
      BY <2>0, <2>3
    <3> QED BY <2>0, <2>0a, <3>1, <3>2
  <2> DEFINE bytes == FileBytes(m, n)
  <2>7. bytes \in ByteSeq /\ DataIn(bytes) = n
    <3>1. m \in Int
      BY <2>2
    <3>2. bytes \in ByteSeq
      BY <2>3, <3>1, BytesFacts
    <3>3. DataIn(bytes) = n
      BY <2>2, <2>3, DataPackets
    <3> QED BY <3>2, <3>3
  <2>8. Leads(x, Written(e), bytes, InChunk(m, left, size, n))
    <3>1. Written(e) = Data(m, left, size)
      BY <1>1 DEF Written, WrittenBy, m, left, size
    <3>2. n > 0
      BY <2>0, <2>3
    <3>3. m \in Int
      BY <2>2
    <3> QED BY <2>2, <2>3, <2>4, <3>1, <3>2, <3>3, DataLeads
  <2> HIDE DEF bytes, x
  <2>9. PICK f, v : /\ Well(f) /\ Becomes(e, f) /\ v \in Events /\ event' = [event EXCEPT ![e] = v]
                    /\ DOMAIN f \subseteq {"offset", "check", "state", "chunkOffset"}
                    /\ "offset" \in DOMAIN f /\ f.offset = m + n
                    /\ With(f, h[e]).state \in Sends
                    /\ \/ v = "DONE" /\ With(f, h[e]).state = "SENDING_FILE"
                       \/ v = "NONE" /\ WrittenBy(x, e, With(f, h[e])) = InChunk(m, left, size, n)
    <3>1. CASE m + n >= size
      <4>1. With(Sent(e, n), h[e]).state = "SENDING_FILE"
        BY <1>1, <1>2, <2>5, WithFacts DEF Fields
      <4>2. "DONE" \in Events /\ "SENDING_FILE" \in Sends
        BY DEF Events, Over, Sends
      <4> QED BY <1>5, <2>5, <3>1, <4>1, <4>2 DEF Returns
    <3>2. CASE ~(m + n >= size)
      <4> DEFINE c == With(SentNext(e, n), h[e])
      <4>1. c.state = SentNext(e, n).state /\ c.offset = m + n /\ c.chunkOffset = h[e].chunkOffset + n
            /\ c.size = size /\ c.chunkSize = h[e].chunkSize
        BY <1>2, <2>5, WithFacts DEF Fields, size
      <4>2. WrittenBy(x, e, c) = InChunk(m, left, size, n)
        <5> HIDE DEF c
        <5>1. CASE h[e].chunkOffset + n >= h[e].chunkSize
          <6>1. c.state = "SENDING_FILE_HEADER" /\ ~(n < left)
            BY <2>2, <2>3, <2>5, <4>1, <5>1 DEF left
          <6> QED BY <4>1, <6>1 DEF WrittenBy, InChunk
        <5>2. CASE ~(h[e].chunkOffset + n >= h[e].chunkSize)
          <6>1. c.state = "SENDING_FILE" /\ n < left
            BY <2>2, <2>3, <2>5, <4>1, <5>2 DEF left
          <6>2. h[e].chunkSize - (h[e].chunkOffset + n) = left - n
            BY <2>2, <2>3 DEF left
          <6> QED BY <4>1, <6>1, <6>2 DEF WrittenBy, InChunk
        <5> QED BY <5>1, <5>2
      <4>3. c.state \in Sends
        BY <2>5, <4>1 DEF Sends
      <4>4. event' = [event EXCEPT ![e] = "NONE"]
        BY <1>1, <1>5, <2>1, <3>2
      <4> QED BY <1>1, <1>5, <2>5, <3>2, <4>2, <4>3, <4>4
    <3> QED BY <3>1, <3>2
  <2> DEFINE c == With(f, h[e])
  <2>10. c \in Connections /\ c.state \in Sends /\ c.offset = m + n /\ c.type = h[e].type /\ c.uin = h[e].uin
         /\ c.peerUin = h[e].peerUin /\ c.file = h[e].file
    BY <1>2, <2>9, WithFacts DEF Fields
  <2>11. h'[e] = c /\ h'[d] = h[d]
    BY <1>1, <2>1, <2>9, BecomesFacts DEF d
  <2>12. event'[e] = v /\ event'[d] = event[d]
    BY <2>1, <2>9, EndsFacts DEF d
  <2>13. pipe'[e] = pipe[e] /\ (Open(d) => pipe'[d] = pipe[d] \o bytes)
    BY <1>5, <2>1, <2>6, EndsFacts DEF Delivered, d, bytes
  <2>14. got = FileBytes(0, Len(got)) /\ heard' = heard /\ got' = got /\ said' = said
    BY <1>1 DEF Main, dataVars
  <2> HIDE DEF c
  <2>15. v \in {"NONE", "DONE"} /\ c.state \in {"SENDING_FILE", "SENDING_FILE_HEADER"}
    BY <2>9, <2>10 DEF Sends
  <2>16. KindOK(plan, e, c, v)
    BY <1>1, <1>2, <1>3, <2>10, <2>15 DEF KindOK, TypeIn, MeetStates, LiveIn, SenderStates, Sends
  <2>17. FileOK(plan, e, c, v, got)
    BY <1>1, <1>2, <1>3, <2>10 DEF FileOK, Sends
  <2>18. VoiceOK(c, v, heard[e], said[e], said[d])
    BY <1>1, <1>2, <2>15 DEF VoiceOK, Chats
  <2>19. GoneIn(plan, c) = m + n /\ GoneIn(plan, h[e]) = m
    BY <1>1, <2>10 DEF GoneIn, Sends, m
  <2>20. pipe[d] \in Seq(Byte) /\ bytes \in Seq(Byte)
    BY <2>1, <2>7, EndsFacts DEF ByteSeq, Byte, d
  <2>21. Counts => GoneIn(plan, c) + DataIn(pipe[d]) = GoneIn(plan, h[e]) + DataIn(pipe'[d])
    <3>1. DataIn(pipe[d] \o bytes) = DataIn(pipe[d]) + n /\ DataIn(pipe[d]) \in Nat
      BY <2>7, <2>20, DataJoin, WhereFinite
    <3>2. Counts => Open(d)
      BY EndsFacts DEF Counts, d
    <3>3. Counts => DataIn(pipe'[d]) = DataIn(pipe[d]) + n
      BY <2>13, <3>1, <3>2
    <3>4. m + n + DataIn(pipe[d]) = m + (DataIn(pipe[d]) + n)
      BY <2>2, <2>3, <3>1
    <3> QED BY <2>19, <3>3, <3>4
  <2>22. e = Sender
    BY <1>3 DEF SenderIn, Sender
  <2>23. AwaitedBy(Script(e), e, c, Len(heard[e])) = Awaited(e)
    BY <1>1, <2>15 DEF Awaited, AwaitedBy
  <2>24. ASSUME Listens(d)', NEW b, Leads(x, Awaited(d), pipe[d], b),
                Exact(e) => b \in {Lost, Written(e)}
         PROVE  \E a : /\ Leads(x, Awaited(d), pipe'[d], a)
                       /\ ExactIn(c, v) => a \in {Lost, WrittenBy(x, e, c)}
    <3>1. Open(d)
      BY <2>11, <2>24 DEF Listens, Open
    <3>2. Exact(e)
      BY <1>1, <1>2 DEF Exact, ExactIn, Open
    <3>3. CASE b = Lost
      <4>1. Leads(x, Lost, bytes, Lost)
        BY <2>20, LostLeads
      <4>2. Leads(x, Awaited(d), pipe[d] \o bytes, Lost)
        BY <2>20, <2>24, <3>3, <4>1, LeadsJoin
      <4> QED BY <2>13, <3>1, <4>2
    <3>4. CASE b = Written(e)
      <4>1. Leads(x, Awaited(d), pipe[d] \o bytes, InChunk(m, left, size, n))
        BY <2>8, <2>20, <2>24, <3>4, LeadsJoin
      <4>2. ExactIn(c, v) => WrittenBy(x, e, c) = InChunk(m, left, size, n)
        BY <2>9 DEF ExactIn, c
      <4> QED BY <2>13, <3>1, <4>1, <4>2
    <3> QED BY <2>24, <3>2, <3>3, <3>4
  <2>25. event[e] \notin Over /\ faults \subseteq faults'
    BY <1>1, <2>6
  <2> QED BY <1>2, <2>11, <2>12, <2>13, <2>14, <2>16, <2>17, <2>18, <2>21, <2>22, <2>23, <2>24, <2>25, MoveMain
          DEF d, x
<1> QED BY <1>1, <1>4, <1>5 DEF SendingFile, Sent, SentNext

\* The receiver takes some of a chunk: its file goes on as the sender's does.
LEMMA GettingMain ==
    ASSUME TypeInv, TypeInv', Main, NEW e \in Ends, GettingFile(e), UNCHANGED <<plan, link>>
    PROVE  Main'
<1> DEFINE d == Peer(e)
           x == Script(e)
           m == h[e].offset
           left == h[e].chunkSize - h[e].chunkOffset
           size == h[e].size
           s == pipe[e]
<1>1. /\ Ready(e) /\ h[e].state = "GETTING_FILE" /\ UNCHANGED <<length, said, heard>>
      /\ Live(e) /\ event[e] = "NONE" /\ "NONE" \in Events \ Over
  BY DEF GettingFile, Ready, Events, Over
<1>2. /\ KindOK(plan, e, h[e], "NONE") /\ LiveIn(h[e]) /\ h[e] \in Connections /\ Open(e)
      /\ plan.voice \in BOOLEAN /\ plan.callback \in BOOLEAN /\ s \in ByteSeq
      /\ VoiceOK(h[e], "NONE", heard[e], said[e], said[d])
      /\ FileOK(plan, e, h[e], "NONE", got)
  BY <1>1, TurnFacts
<1>3. e = ReceiverIn(plan) /\ e # SenderIn(plan) /\ ~plan.voice
  BY <1>1, <1>2, KindStates DEF ReceiverIn, SenderIn, Peer, Gets
<1>4. HasFile(plan, h[e], "NONE", got) /\ Len(got) = m
  BY <1>1, <1>3, ReceiverHas DEF HasFile, OpenedIn, Gets
<1>5. /\ EndsInv /\ Sound(h[e], event[e]) /\ event \in [Ends -> Events] /\ pipe \in [Ends -> ByteSeq]
      /\ d \in Ends /\ d # e /\ got = FileBytes(0, Len(got))
  BY <1>1, LiveEnd, EndsFacts DEF TypeInv, EndsInv, Main
<1>6. /\ m \in Number /\ size \in Number /\ m \in Nat /\ size \in Int /\ Len(s) \in Nat /\ s \in Seq(Byte)
      /\ h[e].chunkOffset \in Number /\ h[e].chunkSize \in Number /\ h[e].chunkOffset < h[e].chunkSize
  <2>1. /\ m \in Number /\ size \in Number /\ h[e].chunkOffset \in Number /\ h[e].chunkSize \in Number
        /\ h[e].chunkOffset < h[e].chunkSize
    BY <1>1, <1>2, <1>5 DEF Connections, Sound
  <2>2. s \in Seq(Byte) /\ Len(s) \in Nat
    BY <1>2 DEF ByteSeq, Byte
  <2> QED BY <2>1, <2>2, ConstantFacts DEF Number
<1>7. left \in Int /\ left > 0 /\ h[e].chunkOffset \in Int /\ h[e].chunkSize \in Int
  BY <1>6, ConstantFacts DEF Number
<1>8. Piece(e) \in Nat /\ Piece(e) <= left
  BY <1>2, <1>6, <1>7, PieceFacts
<1>9. Min({Piece(e), Len(s)}) \in Nat /\ Min({Piece(e), Len(s)}) <= left /\ Min({Piece(e), Len(s)}) <= Len(s)
  <2> DEFINE p == Piece(e)
             k == Len(s)
  <2>1. p \in Int /\ k \in Int
    BY <1>6, <1>8
  <2>2. Min({p, k}) = IF p <= k THEN p ELSE k
    BY <2>1, MinFacts
  <2>3. p \in Nat /\ k \in Nat /\ p <= left
    BY <1>6, <1>8
  <2> HIDE DEF p, k, left
  <2>4. Min({p, k}) \in Nat /\ Min({p, k}) <= left /\ Min({p, k}) <= k
    BY <1>7, <2>2, <2>3
  <2> QED BY <2>4 DEF p, k
<1>10. ASSUME NEW v \in {"ERROR_EOF", "ERROR_NET"}, Fails(e, v), UNCHANGED got,
              UNCHANGED <<pipe, faults>> \/ /\ Fault("disk")
                                            /\ pipe' = Consumed(e, Min({Piece(e), Len(s)}))
       PROVE  Main'
  <2>1. v \in Over /\ v # "DONE" /\ faults \subseteq faults'
    BY <1>10 DEF Over, Fault
  <2>2. pipe'[d] = pipe[d]
    BY <1>5, <1>10 DEF Consumed
  <2>3. Counts' => pipe' = pipe
    BY <1>10 DEF Counts, Fault
  <2>4. UNCHANGED dataVars
    BY <1>1, <1>10 DEF dataVars
  <2>5. h[e].state \in Gets /\ Counts' => DataIn(pipe'[e]) = DataIn(pipe[e])
    BY <2>3
  <2> QED BY <1>1, <1>10, <2>1, <2>2, <2>4, <2>5, FailMain DEF d
<1> HIDE DEF d, x, m, left, size, s
<1>11. ASSUME NEW n \in 1..Min({Piece(e), Len(s)}), NEW offset, offset = Unsigned(m + n),
              NEW chunkOffset, chunkOffset = h[e].chunkOffset + n,
              link = "up", pipe' = Consumed(e, n), UNCHANGED faults, got' = got \o SubSeq(s, 1, n),
              IF Complete(e, offset)
              THEN Becomes(e, GotAll(offset)) /\ Returns(e, "DONE")
              ELSE /\ UNCHANGED event
                   /\ IF chunkOffset >= h[e].chunkSize
                      THEN Becomes(e, GotChunk(offset))
                      ELSE Becomes(e, GotMore(offset, chunkOffset))
       PROVE  Main'
  <2> DEFINE u == SubSeq(s, 1, n)
             t == SubSeq(s, n + 1, Len(s))
             a == Data(m, left, size)
  <2>0. chunkOffset = h[e].chunkOffset + n /\ offset = Unsigned(m + n)
    BY <1>11
  <2>1. n \in 0..Len(s) /\ n \in 1..Len(s) /\ n \in Nat /\ n >= 1 /\ n <= left
    <3> DEFINE k == Min({Piece(e), Len(s)})
    <3>1. k \in Nat /\ k <= left /\ k <= Len(s) /\ n \in 1..k
      BY <1>9
    <3> HIDE DEF k
    <3> QED BY <1>6, <1>7, <3>1
  <2>2. u \in Seq(Byte) /\ Len(u) = n /\ t \in Seq(Byte)
    BY <1>6, <2>1, SeqFacts
  <2>3. Awaited(e) = a
    BY <1>1 DEF Awaited, AwaitedBy, m, left, size
  <2>4. PICK b : Leads(x, a, s, b)
    BY <1>1, <1>2, <1>11, <2>3, TurnFacts DEF StreamOK, Listens, s, x
  <2>5. PICK z : Leads(x, a, u, z)
    BY <1>6, <2>1, <2>4, LeadsSplit
  <2>6. \A y : Leads(x, a, s, y) => Leads(x, z, t, y)
    BY <1>6, <2>1, <2>5, LeadsDrop
  <2>7. m + n <= size /\ u = FileBytes(m, n) /\ z = InChunk(m, left, size, n)
    <3> HIDE DEF u, a
    <3>1. m \in Int /\ u \in ByteSeq /\ Len(u) > 0 /\ Len(u) <= left
      BY <1>6, <2>1, <2>2 DEF ByteSeq, Byte
    <3>2. m + Len(u) <= size /\ u = FileBytes(m, Len(u)) /\ z = InChunk(m, left, size, Len(u))
      BY <1>6, <1>7, <2>5, <3>1, DataRun DEF a
    <3> QED BY <2>2, <3>2
  <2>8. got' = FileBytes(0, m + n) /\ Len(got') = m + n
    <3>1. got' = FileBytes(0, m) \o FileBytes(m, n)
      BY <1>4, <1>5, <1>11, <2>7
    <3>2. FileBytes(0, m) \o FileBytes(m, n) = FileBytes(0, m + n)
      BY <1>6, <2>1, FileGrows
    <3>3. 0 \in Nat /\ m + n \in Nat
      BY <1>6, <2>1
    <3>4. Len(FileBytes(0, m + n)) = m + n
      BY <3>3, FileFacts
    <3> QED BY <3>1, <3>2, <3>4
  <2>9. DataIn(s) = n + DataIn(t) /\ DataIn(t) \in Nat
    <3>1. DataIn(s) = DataIn(u) + DataIn(t) /\ DataIn(t) \in Nat
      BY <1>6, <2>1, <2>2, DataSplit, WhereFinite
    <3>2. DataIn(u) = n
      BY <1>6, <2>1, <2>7, DataPackets
    <3> HIDE DEF u, t
    <3> QED BY <3>1, <3>2
  <2> HIDE DEF u, t, a
  <2>10. offset = m + n /\ offset \in Number
    <3>1. m + n \in Number /\ m + n \in Int
      BY <1>6, <2>1, <2>7, ConstantFacts DEF Number
    <3> QED BY <1>11, <3>1, UnsignedFacts
  <2>11. chunkOffset \in Number
    <3>1. chunkOffset \in Int /\ chunkOffset <= h[e].chunkSize /\ n <= h[e].chunkSize - h[e].chunkOffset
      BY <1>7, <2>0, <2>1 DEF left
    <3>2. 0 <= h[e].chunkOffset /\ h[e].chunkSize <= Width - 1 /\ Width \in Int
      BY <1>6, ConstantFacts DEF Number
    <3>3. 0 <= chunkOffset
      BY <1>7, <2>0, <2>1, <3>2
    <3>4. chunkOffset \in 0..Width - 1
      BY <1>7, <3>1, <3>2, <3>3
    <3> QED BY <3>4 DEF Number
  <2>12. /\ Well(GotAll(offset)) /\ Well(GotChunk(offset)) /\ Well(GotMore(offset, chunkOffset))
         /\ DOMAIN GotAll(offset) = {"offset"} /\ GotAll(offset).offset = offset
         /\ DOMAIN GotMore(offset, chunkOffset) = {"offset", "chunkOffset"}
         /\ GotMore(offset, chunkOffset).offset = offset
         /\ GotMore(offset, chunkOffset).chunkOffset = chunkOffset
         /\ DOMAIN GotChunk(offset) = {"offset"} \cup DOMAIN HeaderComes
         /\ GotChunk(offset).offset = offset
         /\ \A y \in DOMAIN HeaderComes : GotChunk(offset)[y] = HeaderComes[y]
    BY <2>10, <2>11, GotFacts
  <2>13. "DONE" \in Events /\ "DONE" \in Over
    BY DEF Events, Over
  <2>14. PICK f, v : /\ Well(f) /\ Becomes(e, f) /\ v \in {"NONE", "DONE"} /\ event' = [event EXCEPT ![e] = v]
                     /\ DOMAIN f \subseteq {"offset"} \cup DOMAIN HeaderComes /\ "offset" \in DOMAIN f
                     /\ f.offset = offset /\ With(f, h[e]).state \in Gets
                     /\ With(f, h[e]).state = "READING_FILE_HEADER" => With(f, h[e]).chunkOffset = 0
                     /\ v = "DONE" => m + n = size
                     /\ v = "NONE" => AwaitedBy(x, e, With(f, h[e]), Len(heard[e])) = z
    <3>0. event = [event EXCEPT ![e] = "NONE"] /\ DOMAIN HeaderComes =
              {"state", "check", "chunkSize", "chunkOffset", "chunkBuf", "allocated"}
      BY <1>1, <1>5, HeaderComesFacts
    <3>1. CASE Complete(e, offset)
      <4>1. With(GotAll(offset), h[e]).state = "GETTING_FILE" /\ "GETTING_FILE" \in Gets
        BY <1>1, <1>2, <2>12, WithFacts DEF Fields, Gets
      <4>2. m + n = size
        BY <1>6, <2>1, <2>7, <2>10, <3>1 DEF Complete, size
      <4>3. Becomes(e, GotAll(offset)) /\ event' = [event EXCEPT ![e] = "DONE"]
        BY <1>11, <3>1 DEF Returns
      <4>4. DOMAIN GotAll(offset) \subseteq {"offset"} \cup DOMAIN HeaderComes /\ "DONE" # "NONE"
            /\ "offset" \in DOMAIN GotAll(offset) /\ With(GotAll(offset), h[e]).state # "READING_FILE_HEADER"
        BY <2>12, <4>1
      <4> QED BY <2>12, <4>1, <4>2, <4>3, <4>4
    <3>2. CASE ~Complete(e, offset) /\ chunkOffset >= h[e].chunkSize
      <4> DEFINE c == With(GotChunk(offset), h[e])
      <4>1. \A y \in Fields : c[y] = IF y \in DOMAIN GotChunk(offset) THEN GotChunk(offset)[y] ELSE h[e][y]
        BY <1>2, <2>12, WithFacts
      <4> HIDE DEF c
      <4>2. c.state = "READING_FILE_HEADER" /\ c.chunkOffset = 0 /\ c.offset = m + n /\ c.size = size
        BY <2>10, <2>12, <3>0, <4>1, HeaderComesFacts DEF Fields, size
      <4>3. ~(n < left)
        BY <1>7, <1>11, <2>1, <3>2 DEF left
      <4>4. AwaitedBy(x, e, c, Len(heard[e])) = z /\ "READING_FILE_HEADER" \in Gets
        BY <2>7, <4>2, <4>3 DEF AwaitedBy, InChunk, Gets
      <4>5. Becomes(e, GotChunk(offset)) /\ event' = [event EXCEPT ![e] = "NONE"]
        BY <1>11, <3>0, <3>2
      <4> QED BY <2>12, <4>2, <4>4, <4>5 DEF c
    <3>3. CASE ~Complete(e, offset) /\ ~(chunkOffset >= h[e].chunkSize)
      <4> DEFINE c == With(GotMore(offset, chunkOffset), h[e])
      <4>1. c.state = "GETTING_FILE" /\ c.chunkOffset = chunkOffset /\ c.offset = m + n /\ c.size = size
            /\ c.chunkSize = h[e].chunkSize
        <5>1. \A y \in Fields : c[y] = IF y \in DOMAIN GotMore(offset, chunkOffset)
                                       THEN GotMore(offset, chunkOffset)[y] ELSE h[e][y]
          BY <1>2, <2>12, WithFacts
        <5> HIDE DEF c
        <5> QED BY <1>1, <2>10, <2>12, <5>1 DEF Fields, size
      <4> HIDE DEF c
      <4>2. n < left /\ h[e].chunkSize - chunkOffset = left - n
        BY <1>7, <2>0, <2>1, <3>3 DEF left
      <4>3. AwaitedBy(x, e, c, Len(heard[e])) = z /\ "GETTING_FILE" \in Gets
        BY <2>7, <4>1, <4>2 DEF AwaitedBy, InChunk, Gets
      <4>4. Becomes(e, GotMore(offset, chunkOffset)) /\ event' = [event EXCEPT ![e] = "NONE"]
        BY <1>11, <3>0, <3>3
      <4> QED BY <2>12, <3>0, <4>1, <4>3, <4>4 DEF c
    <3> QED BY <3>1, <3>2, <3>3
  <2> DEFINE c == With(f, h[e])
  <2>15. c \in Connections /\ c.state \in Gets /\ c.offset = m + n /\ c.type = h[e].type /\ c.uin = h[e].uin
         /\ c.peerUin = h[e].peerUin /\ c.file = h[e].file /\ c.size = size
    BY <1>2, <2>10, <2>14, WithFacts, HeaderComesFacts DEF Fields, size
  <2>16. h'[e] = c /\ h'[d] = h[d]
    BY <1>1, <1>5, <2>14, BecomesFacts DEF d
  <2>17. event'[e] = v /\ event'[d] = event[d]
    BY <1>5, <2>14
  <2>18. pipe'[e] = t /\ pipe'[d] = pipe[d]
    BY <1>5, <1>11, EndsFacts DEF Consumed, t, s
  <2>19. c.state = "READING_FILE_HEADER" => c.chunkOffset = 0
    BY <2>14
  <2>19a. v = "NONE" => AwaitedBy(x, e, c, Len(heard[e])) = z
    BY <2>14
  <2> HIDE DEF c
  <2>20. v \in {"NONE", "DONE"} /\ c.state \in {"GETTING_FILE", "READING_FILE_HEADER"}
    BY <2>14, <2>15 DEF Gets
  <2>21. KindOK(plan, e, c, v)
    BY <1>1, <1>2, <1>3, <2>15, <2>20 DEF KindOK, TypeIn, MeetStates, LiveIn, ReceiverStates, Gets
  <2>22. HasFile(plan, c, v, got')
    BY <1>4, <2>8, <2>14, <2>15, <2>19, <2>20 DEF HasFile, OpenedIn, Gets
  <2>23. FileOK(plan, e, c, v, got')
    BY <2>20, <2>22 DEF FileOK, Sends
  <2>24. VoiceOK(c, v, heard[e], said[e], said[d])
    BY <1>1, <1>2, <2>20 DEF VoiceOK, Chats
  <2>25. GoneIn(plan, c) = m + n /\ GoneIn(plan, h[e]) = m
    BY <1>1, <2>15 DEF GoneIn, Gets, m
  <2>26. GoneIn(plan, c) + DataIn(t) = GoneIn(plan, h[e]) + DataIn(s)
    <3>1. m + n + DataIn(t) = m + (n + DataIn(t))
      BY <1>6, <2>1, <2>9
    <3> QED BY <2>9, <2>25, <3>1
  <2>27. e # Sender /\ e = Receiver
    BY <1>3 DEF SenderIn, ReceiverIn, Sender, Receiver
  <2>28. WrittenBy(Script(d), e, c) = Written(e)
    BY <1>1, <2>20 DEF Written, WrittenBy
  <2>29. ASSUME Listens(e)', NEW y, Leads(x, Awaited(e), s, y)
         PROVE  Leads(x, AwaitedBy(x, e, c, Len(heard[e])), t, y)
    <3>1. v = "NONE"
      BY <2>13, <2>17, <2>20, <2>29 DEF Listens
    <3> QED BY <2>3, <2>6, <2>19a, <2>29, <3>1
  <2>30. event[e] \notin Over /\ faults \subseteq faults' /\ heard' = heard /\ said' = said /\ Exact(e)
    BY <1>1, <1>2, <1>11 DEF Exact, ExactIn, Open
  <2>31. got' = FileBytes(0, Len(got'))
    BY <2>8
  <2> QED BY <1>2, <2>16, <2>17, <2>18, <2>21, <2>23, <2>24, <2>26, <2>27, <2>28, <2>29, <2>30, <2>31, MoveMain
          DEF d, x, s
<1> QED BY <1>1, <1>10, <1>11 DEF GettingFile, GotAll, GotChunk, GotMore, s, m

\* An end of a chat goes on in it.
LEMMA ChatMoves ==
    ASSUME TypeInv, Main, NEW e \in Ends, Live(e), event[e] = "NONE", plan.voice,
           h[e].state \in {"READING_VOICE_ACK", "SENDING_VOICE_ACK"} \cup Chats,
           NEW c \in Connections, c.state \in Chats, c.type = h[e].type, c.uin = h[e].uin,
           c.peerUin = h[e].peerUin, c.offset \in {0, h[e].offset},
           NEW v \in {"NONE", "ACK"},
           c.state = "READING_VOICE_DATA" =>
               /\ Len(heard[e]) + 1 <= Len(said[Peer(e)])
               /\ c.chunkSize = said[Peer(e)][Len(heard[e]) + 1]
               /\ c.voiceBuf = FrameBytes(Len(heard[e]) + 1, c.chunkOffset)
    PROVE  Moves(e, c, v)
<1>1. /\ KindOK(plan, e, h[e], "NONE") /\ LiveIn(h[e]) /\ h[e] \in Connections
      /\ plan.voice \in BOOLEAN /\ plan.callback \in BOOLEAN
      /\ VoiceOK(h[e], "NONE", heard[e], said[e], said[Peer(e)])
      /\ FileOK(plan, e, h[e], "NONE", got)
  BY TurnFacts
<1>2. c.state \in {"READING_VOICE_HEADER", "READING_VOICE_SIZE", "READING_VOICE_DATA"} /\ LiveIn(c)
  BY DEF Chats, LiveIn
<1>3. h[e].state \in {"READING_VOICE_ACK", "SENDING_VOICE_ACK", "READING_VOICE_HEADER", "READING_VOICE_SIZE",
                      "READING_VOICE_DATA"}
  BY DEF Chats
<1>4. h[e].type = "VOICE"
  BY <1>1, <1>3 DEF KindOK, TypeIn, MeetStates
<1>5. TypeIn(plan, e, c, v) = "VOICE"
  BY <1>2 DEF TypeIn, MeetStates
<1>6. KindOK(plan, e, c, v)
  <2>1. c.state \in SenderStates(plan) /\ c.state \in ReceiverStates(plan)
    BY DEF SenderStates, ReceiverStates
  <2>2. /\ e = "caller" => c.uin = 1 /\ c.peerUin = 2
        /\ e = "listener" => c.peerUin = 1 /\ c.uin = 2
    BY <1>1, <1>3 DEF KindOK, Ends
  <2>3. v # "CALLBACK" /\ c.state # "none"
    BY <1>2
  <2> QED BY <1>4, <1>5, <2>1, <2>2, <2>3 DEF KindOK
<1>7. FileOK(plan, e, c, v, got)
  <2>1. c.state \notin {"READING_FILE_ACK"} \cup Sends /\ ~OpenedIn(c, v) /\ ~OpenedIn(h[e], "NONE")
        /\ v # "DONE" /\ c.state # "READING_FILE_HEADER" /\ h[e].state # "closed"
    BY <1>2, <1>3 DEF Sends, OpenedIn, Gets
  <2>2. ASSUME e = ReceiverIn(plan) PROVE HasFile(plan, c, v, got)
    <3>1. got = <<>> /\ h[e].offset = 0
      BY <1>1, <2>1, <2>2 DEF FileOK, HasFile
    <3> QED BY <2>1, <3>1 DEF HasFile
  <2> QED BY <2>1, <2>2 DEF FileOK
<1>8. VoiceOK(c, v, heard[e], said[e], said[Peer(e)])
  BY <1>1 DEF VoiceOK
<1>9. GoneIn(plan, c) = GoneIn(plan, h[e])
  BY <1>2, <1>3 DEF GoneIn, Sends, Gets
<1> QED BY <1>6, <1>7, <1>8, <1>9 DEF Moves

\* The receiver of a chat consents to it.
LEMMA VoiceAckMain ==
    ASSUME TypeInv, TypeInv', Main, Uncut', NEW e \in Ends, SendingVoiceAck(e), UNCHANGED <<plan, link>>
    PROVE  Main'
<1> DEFINE g == [offset |-> 0]
           f == With(g, VoiceComes)
           c == With(f, h[e])
           x == Script(Peer(e))
           bytes == Bytes(<<"tiny", 1>>)
<1>1. /\ Ready(e) /\ h[e].state = "SENDING_VOICE_ACK" /\ UNCHANGED dataVars
      /\ Live(e) /\ event[e] = "NONE" /\ "NONE" \in Events \ Over
      /\ Writes(e, bytes, f, "NONE")
  BY DEF SendingVoiceAck, Ready, Events, Over
<1>2. /\ KindOK(plan, e, h[e], "NONE") /\ LiveIn(h[e]) /\ h[e] \in Connections
      /\ plan.voice \in BOOLEAN /\ plan.callback \in BOOLEAN
      /\ VoiceOK(h[e], "NONE", heard[e], said[e], said[Peer(e)])
  BY <1>1, TurnFacts
<1>3. e = ReceiverIn(plan) /\ plan.voice /\ said[e] = <<>> /\ heard[e] = <<>>
  <2>1. h[e].state \notin Chats \cup {"closed"}
    BY <1>1 DEF Chats
  <2> QED BY <1>1, <1>2, <2>1, KindStates DEF VoiceOK
<1>4. DOMAIN f = {"offset", "state", "check"} /\ Well(f) /\ f.state = "READING_VOICE_HEADER" /\ f.offset = 0
  <2>1. DOMAIN g = {"offset"} /\ g.offset = 0
    OBVIOUS
  <2> HIDE DEF g
  <2>2. Well(g) /\ DOMAIN g \subseteq Fields \ {"state", "check"}
    BY <2>1, ConstantFacts, WellForm DEF Fields
  <2> QED BY <2>1, <2>2, VoiceComesFacts
<1> HIDE DEF f
<1>5. c \in Connections /\ c.state = "READING_VOICE_HEADER" /\ c.peerUin = h[e].peerUin /\ c.uin = h[e].uin
      /\ c.type = h[e].type /\ c.offset = 0
  BY <1>2, <1>4, WithFacts DEF Fields
<1>6. Moves(e, c, "NONE")
  BY <1>1, <1>3, <1>5, ChatMoves DEF Chats
<1>7. AwaitedBy(Script(e), e, c, Len(heard[e])) = Awaited(e)
  BY <1>1, <1>5 DEF Awaited, AwaitedBy
<1>8. x.voice = plan.voice /\ x.callback = plan.callback /\ x.said = <<>>
  BY <1>3, EndsFacts DEF Script
<1>9. Written(e) = At("voice_ack") /\ WrittenBy(x, e, c) = Frame(0)
  <2>1. Written(e) = Expects(x, Peer(e)) /\ Expects(x, Peer(e)) = At("voice_ack")
    BY <1>1, <1>3, <1>8, ScriptFacts DEF Written, WrittenBy
  <2>2. WrittenBy(x, e, c) = Frame(Len(x.said))
    BY <1>5 DEF WrittenBy
  <2> QED BY <1>8, <2>1, <2>2
<1>10. Plain(At("voice_ack")) /\ Comes(x, At("voice_ack"), <<"tiny", 1>>)
       /\ Then(x, At("voice_ack"), <<"tiny", 1>>) = Frame(0)
  <2>1. /\ Plain(At("voice_ack"))
        /\ Comes(x, At("voice_ack"), <<"tiny", 1>>) <=> <<"tiny", 1>> \in {<<"tiny", 1>>, <<"tiny", Refused>>}
        /\ Then(x, At("voice_ack"), <<"tiny", 1>>) = IF <<"tiny", 1>>[2] = 1 THEN Frame(0) ELSE Lost
    BY PlaceFacts
  <2> QED BY <2>1
<1>11. Leads(x, At("voice_ack"), bytes, Frame(0))
  BY <1>10, PacketLeads
<1>12. bytes \in ByteSeq /\ DataIn(bytes) = 0
  BY BytesFacts, DataPackets DEF PacketKinds
<1> HIDE DEF bytes
<1> QED BY <1>1, <1>4, <1>6, <1>7, <1>9, <1>11, <1>12, WritesMain

\* The sender of a chat hears the consent.
LEMMA VoiceAckReadMain ==
    ASSUME TypeInv, TypeInv', Main, NEW e \in Ends, ReadingVoiceAck(e), UNCHANGED <<plan, link>>
    PROVE  Main'
<1> DEFINE x == Script(e)
           f == VoiceComes
           c == With(f, h[e])
<1>1. PICK ack \in {Refused} \cup Garbage :
        /\ Reads(e, "tiny", ack) /\ h[e].state = "READING_VOICE_ACK" /\ UNCHANGED dataVars
        /\ IF ack = 1 THEN Becomes(e, f) /\ Returns(e, "ACK") ELSE Fails(e, "REFUSED")
  BY DEF ReadingVoiceAck
<1>2. /\ Live(e) /\ event[e] = "NONE" /\ "NONE" \in Events \ Over /\ h[e] \in Connections
      /\ KindOK(plan, e, h[e], "NONE") /\ LiveIn(h[e])
      /\ plan.voice \in BOOLEAN /\ plan.callback \in BOOLEAN
      /\ VoiceOK(h[e], "NONE", heard[e], said[e], said[Peer(e)])
  BY <1>1, ReaderFacts, TurnFacts
<1>3. e = SenderIn(plan) /\ plan.voice /\ said[e] = <<>> /\ heard[e] = <<>>
  <2>1. h[e].state \notin Chats \cup {"closed"}
    BY <1>1 DEF Chats
  <2> QED BY <1>1, <1>2, <2>1, KindStates DEF VoiceOK
<1>4. CASE Fails(e, "REFUSED")
  <2>1. "REFUSED" \in Over \ {"DONE"} /\ h[e].state \notin Gets
    BY <1>1 DEF Over, Gets
  <2> QED BY <1>1, <1>4, <2>1, ReadFailsMain
<1>5. CASE ack = 1 /\ Becomes(e, f) /\ Returns(e, "ACK")
  <2>1. Awaited(e) = At("voice_ack")
    <3>1. Awaited(e) = Expects(x, e)
      BY <1>1 DEF Awaited, AwaitedBy
    <3>2. x.voice = plan.voice /\ x.callback = plan.callback
      BY ScriptFacts
    <3> QED BY <1>3, <3>1, <3>2, ScriptFacts
  <2>2. /\ \A packet : Comes(x, At("voice_ack"), packet) <=> packet \in {<<"tiny", 1>>, <<"tiny", Refused>>}
        /\ Plain(At("voice_ack"))
        /\ Then(x, At("voice_ack"), <<"tiny", ack>>) = IF <<"tiny", ack>>[2] = 1 THEN Frame(0) ELSE Lost
    BY PlaceFacts
  <2>3. \A packet \in Packet : Comes(x, Awaited(e), packet) => packet[1] = "tiny"
    BY <2>1, <2>2
  <2>4. Then(x, Awaited(e), <<"tiny", ack>>) = Frame(0)
    BY <1>5, <2>1, <2>2
  <2>5. Well(f) /\ DOMAIN f = {"state", "check"} /\ f.state = "READING_VOICE_HEADER"
    BY StateNames DEF Well, Fields, Types, VoiceComes
  <2>6. c \in Connections /\ c.state = "READING_VOICE_HEADER" /\ c.peerUin = h[e].peerUin /\ c.uin = h[e].uin
        /\ c.type = h[e].type /\ c.offset = h[e].offset
    BY <1>2, <2>5, WithFacts DEF Fields
  <2>7. Moves(e, c, "ACK")
    BY <1>1, <1>2, <1>3, <2>6, ChatMoves DEF Chats
  <2>8. /\ AwaitedBy(x, e, c, Len(heard[e])) = Frame(0)
        /\ WrittenBy(Script(Peer(e)), e, c) = Written(e)
    <3>1. Len(heard[e]) = 0
      BY <1>3
    <3>2. AwaitedBy(x, e, c, Len(heard[e])) = Frame(Len(heard[e]))
      BY <2>6 DEF AwaitedBy
    <3>3. WrittenBy(Script(Peer(e)), e, c) = Written(e)
      BY <1>1, <2>6 DEF Written, WrittenBy
    <3> QED BY <3>1, <3>2, <3>3
  <2>9. "ACK" \in Events \ Over /\ Plain(Awaited(e))
    BY <2>1, <2>2 DEF Events, Over
  <2> HIDE DEF c, x
  <2> QED BY <1>1, <1>5, <2>3, <2>4, <2>5, <2>7, <2>8, <2>9, ReadsMain DEF c, x
<1> QED BY <1>1, <1>4, <1>5

\* A frame is announced.
LEMMA VoiceHeaderMain ==
    ASSUME TypeInv, TypeInv', Main, NEW e \in Ends, ReadingVoiceHeader(e), UNCHANGED <<plan, link>>
    PROVE  Main'
<1> DEFINE x == Script(e)
           f == [state |-> "READING_VOICE_SIZE", check |-> "READ", established |-> TRUE]
           c == With(f, h[e])
           n == Len(heard[e])
<1>1. PICK type \in Garbage :
        /\ Reads(e, "tiny", type) /\ h[e].state = "READING_VOICE_HEADER" /\ UNCHANGED dataVars
        /\ IF type = 3 THEN Becomes(e, f) /\ UNCHANGED event ELSE Fails(e, "ERROR_HANDSHAKE")
  BY DEF ReadingVoiceHeader
<1>2. /\ Live(e) /\ event[e] = "NONE" /\ "NONE" \in Events \ Over /\ h[e] \in Connections
      /\ KindOK(plan, e, h[e], "NONE") /\ LiveIn(h[e])
      /\ plan.voice \in BOOLEAN /\ plan.callback \in BOOLEAN
  BY <1>1, ReaderFacts, TurnFacts
<1>3. plan.voice
  BY <1>1, <1>2, KindStates DEF Chats
<1>4. Awaited(e) = Frame(n)
  BY <1>1 DEF Awaited, AwaitedBy
<1>5. /\ \A packet : Comes(x, Frame(n), packet) <=> packet = <<"tiny", 3>>
      /\ Plain(Frame(n)) /\ Then(x, Frame(n), <<"tiny", type>>) = FrameSize(n)
  <2> HIDE DEF n, x
  <2>1. Plain(Frame(n))
    BY DEF Plain, Frame, Place
  <2>2. ASSUME NEW packet PROVE Comes(x, Frame(n), packet) <=> packet = <<"tiny", 3>>
    BY PlaceFacts
  <2>3. Then(x, Frame(n), <<"tiny", type>>) = FrameSize(n)
    BY DEF Then, Frame, FrameSize, Place
  <2> QED BY <2>1, <2>2, <2>3
<1>6. \A packet \in Packet : Comes(x, Awaited(e), packet) => packet[1] = "tiny"
  BY <1>4, <1>5
<1>7. type = 3
  BY <1>1, <1>4, <1>5, <1>6, ReadsFacts
<1>8. Well(f) /\ DOMAIN f = {"state", "check", "established"} /\ f.state = "READING_VOICE_SIZE"
  <2>1. DOMAIN f = {"state", "check", "established"} /\ f.state = "READING_VOICE_SIZE"
        /\ f.check = "READ" /\ f.established = TRUE
    OBVIOUS
  <2> HIDE DEF f
  <2> QED BY <2>1, StateNames, WellForm DEF Fields
<1> HIDE DEF f
<1>9. c \in Connections /\ c.state = "READING_VOICE_SIZE" /\ c.peerUin = h[e].peerUin /\ c.uin = h[e].uin
      /\ c.type = h[e].type /\ c.offset = h[e].offset
  BY <1>2, <1>8, WithFacts DEF Fields
<1>10. Moves(e, c, "NONE")
  BY <1>1, <1>2, <1>3, <1>9, ChatMoves DEF Chats
<1>11. AwaitedBy(x, e, c, n) = FrameSize(n)
  BY <1>9 DEF AwaitedBy
<1>12. WrittenBy(Script(Peer(e)), e, c) = Written(e)
  BY <1>1, <1>9 DEF Written, WrittenBy
<1> QED BY <1>1, <1>2, <1>4, <1>5, <1>6, <1>7, <1>8, <1>10, <1>11, <1>12, ReadsMain

\* The length of a frame is the one that was said.
LEMMA VoiceSizeMain ==
    ASSUME TypeInv, TypeInv', Main, NEW e \in Ends, ReadingVoiceSize(e), UNCHANGED <<plan, link>>
    PROVE  Main'
<1> DEFINE x == Script(e)
           n == Len(heard[e])
<1>1. PICK size \in Frames \cup Garbage :
        /\ Reads(e, "small", size) /\ h[e].state = "READING_VOICE_SIZE" /\ UNCHANGED dataVars
        /\ IF size \in MinFrame..MaxFrame
           THEN /\ Becomes(e, [state |-> "READING_VOICE_DATA", check |-> "READ",
                               chunkSize |-> size, chunkOffset |-> 0, voiceBuf |-> <<>>])
                /\ UNCHANGED event
           ELSE Fails(e, "ERROR_NET")
  BY DEF ReadingVoiceSize
<1>2. /\ Live(e) /\ event[e] = "NONE" /\ "NONE" \in Events \ Over /\ h[e] \in Connections
      /\ KindOK(plan, e, h[e], "NONE") /\ LiveIn(h[e])
      /\ plan.voice \in BOOLEAN /\ plan.callback \in BOOLEAN
  BY <1>1, ReaderFacts, TurnFacts
<1>3. plan.voice
  BY <1>1, <1>2, KindStates DEF Chats
<1>4. Awaited(e) = FrameSize(n)
  BY <1>1 DEF Awaited, AwaitedBy
<1>5. /\ \A packet : Comes(x, FrameSize(n), packet) <=>
            n \in 0..Len(x.said) - 1 /\ packet = <<"small", x.said[n + 1]>>
      /\ Plain(FrameSize(n))
      /\ Then(x, FrameSize(n), <<"small", size>>) = IF size = 0 THEN Frame(n + 1) ELSE Voice(n, size, size)
  <2> HIDE DEF n, x
  <2>1. Plain(FrameSize(n))
    BY DEF Plain, FrameSize, Place
  <2>2. ASSUME NEW packet
        PROVE  Comes(x, FrameSize(n), packet) <=>
                   n \in 0..Len(x.said) - 1 /\ packet = <<"small", x.said[n + 1]>>
    BY DEF Comes, FrameSize, Place, Fixed
  <2>3. Then(x, FrameSize(n), <<"small", size>>) = IF size = 0 THEN Frame(n + 1) ELSE Voice(n, size, size)
    BY DEF Then, FrameSize, Place
  <2> QED BY <2>1, <2>2, <2>3
<1>6. \A packet \in Packet : Comes(x, Awaited(e), packet) => packet[1] = "small"
  BY <1>4, <1>5
<1>7. n \in 0..Len(said[Peer(e)]) - 1 /\ size = said[Peer(e)][n + 1]
  <2>1. Comes(x, Awaited(e), <<"small", size>>)
    BY <1>1, <1>4, <1>5, <1>6, ReadsFacts
  <2>2. x.said = said[Peer(e)]
    BY DEF Script
  <2>3. n \in 0..Len(x.said) - 1 /\ <<"small", size>> = <<"small", x.said[n + 1]>>
    BY <1>4, <1>5, <2>1
  <2> QED BY <2>2, <2>3
<1>8. CASE Fails(e, "ERROR_NET")
  <2>1. "ERROR_NET" \in Over \ {"DONE"} /\ h[e].state \notin Gets
    BY <1>1 DEF Over, Gets
  <2> QED BY <1>1, <1>8, <2>1, ReadFailsMain
<1> DEFINE f == [state |-> "READING_VOICE_DATA", check |-> "READ",
                 chunkSize |-> size, chunkOffset |-> 0, voiceBuf |-> <<>>]
           c == With(f, h[e])
<1>9. CASE size \in MinFrame..MaxFrame /\ Becomes(e, f) /\ UNCHANGED event
  <2>1. size \in Number /\ size \in Nat /\ size # 0
    <3>1. MinFrame \in Nat \ {0} /\ MinFrame..MaxFrame \subseteq Number /\ Width \in Int
      BY ConstantFacts
    <3>2. MaxFrame \in MinFrame..Width - 1
      BY DccAssumption
    <3>3. size \in Number
      BY <1>9, <3>1
    <3>4. size >= MinFrame
      BY <1>9, <3>1, <3>2
    <3> QED BY <3>1, <3>3, <3>4 DEF Number
  <2>2. /\ DOMAIN f = {"state", "check", "chunkSize", "chunkOffset", "voiceBuf"}
        /\ f.state = "READING_VOICE_DATA" /\ f.check = "READ" /\ f.chunkSize = size
        /\ f.chunkOffset = 0 /\ f.voiceBuf = <<>>
    OBVIOUS
  <2>3. Becomes(e, f)
    BY <1>9
  <2> HIDE DEF f
  <2>4. Well(f)
    <3>1. <<>> \in ByteSeq
      BY DEF ByteSeq
    <3> QED BY <2>1, <2>2, <3>1, StateNames, ConstantFacts, WellForm DEF Fields
  <2>5. c \in Connections /\ c.state = "READING_VOICE_DATA" /\ c.peerUin = h[e].peerUin /\ c.uin = h[e].uin
        /\ c.type = h[e].type /\ c.offset = h[e].offset /\ c.chunkSize = size /\ c.chunkOffset = 0
        /\ c.voiceBuf = <<>>
    BY <1>2, <2>2, <2>4, WithFacts DEF Fields
  <2> HIDE DEF c
  <2>6. FrameBytes(n + 1, 0) = <<>> /\ n + 1 <= Len(said[Peer(e)])
    <3>1. n + 1 \in Int /\ 0 \in Nat
      BY <1>7
    <3>2. FrameBytes(n + 1, 0) \in ByteSeq /\ Len(FrameBytes(n + 1, 0)) = 0
      BY <3>1, BytesFacts
    <3>3. n + 1 <= Len(said[Peer(e)])
      BY <1>7, TurnFacts, <1>2
    <3> QED BY <3>2, <3>3 DEF ByteSeq
  <2>7. Moves(e, c, "NONE")
    BY <1>1, <1>2, <1>3, <1>7, <2>5, <2>6, ChatMoves DEF Chats
  <2>8. AwaitedBy(x, e, c, n) = Then(x, Awaited(e), <<"small", size>>)
    <3>1. AwaitedBy(x, e, c, n) = Voice(n, size - 0, size) /\ size - 0 = size
      BY <2>1, <2>5 DEF AwaitedBy
    <3>2. Then(x, Awaited(e), <<"small", size>>) = Voice(n, size, size)
      BY <1>4, <1>5, <2>1
    <3> QED BY <3>1, <3>2
  <2>9. WrittenBy(Script(Peer(e)), e, c) = Written(e)
    BY <1>1, <2>5 DEF Written, WrittenBy
  <2>10. Plain(Awaited(e)) /\ UNCHANGED event /\ "small" # "data"
    BY <1>4, <1>5, <1>9
  <2> HIDE DEF x
  <2> QED BY <1>1, <1>2, <1>6, <2>3, <2>4, <2>7, <2>8, <2>9, <2>10, ReadsMain DEF c, x
<1> QED BY <1>1, <1>8, <1>9

\* An end takes some of a frame: it has it as it was said.
LEMMA VoiceDataMain ==
    ASSUME TypeInv, TypeInv', Main, NEW e \in Ends, ReadingVoiceData(e), UNCHANGED <<plan, link>>
    PROVE  Main'
<1> DEFINE d == Peer(e)
           x == Script(e)
           m == Len(heard[e])
           left == h[e].chunkSize - h[e].chunkOffset
           size == h[e].chunkSize
           s == pipe[e]
<1>1. /\ Ready(e) /\ h[e].state = "READING_VOICE_DATA" /\ UNCHANGED <<faults, length, got, said>>
      /\ Live(e) /\ event[e] = "NONE" /\ "NONE" \in Events \ Over
  BY DEF ReadingVoiceData, Ready, Events, Over
<1>2. /\ KindOK(plan, e, h[e], "NONE") /\ LiveIn(h[e]) /\ h[e] \in Connections /\ Open(e)
      /\ plan.voice \in BOOLEAN /\ plan.callback \in BOOLEAN /\ s \in ByteSeq
      /\ VoiceOK(h[e], "NONE", heard[e], said[e], said[d])
      /\ FileOK(plan, e, h[e], "NONE", got)
  BY <1>1, TurnFacts
<1>3. plan.voice
  BY <1>1, <1>2, KindStates DEF Chats
<1>4. /\ EndsInv /\ Sound(h[e], event[e]) /\ event \in [Ends -> Events] /\ pipe \in [Ends -> ByteSeq]
      /\ d \in Ends /\ d # e /\ got = FileBytes(0, Len(got)) /\ heard \in [Ends -> Seq(ByteSeq)]
      /\ said \in [Ends -> Seq(Frames)]
  BY <1>1, LiveEnd, EndsFacts DEF TypeInv, EndsInv, DataInv, Main
<1>5. /\ h[e].chunkOffset \in Number /\ size \in Number /\ h[e].chunkOffset < size
      /\ h[e].chunkOffset \in Nat /\ size \in Nat /\ s \in Seq(Byte) /\ Len(s) \in Nat /\ m \in Nat
  <2>1. h[e].chunkOffset \in Number /\ size \in Number /\ h[e].chunkOffset < size
    BY <1>1, <1>2, <1>4 DEF Connections, Sound
  <2>2. s \in Seq(Byte) /\ Len(s) \in Nat
    BY <1>2 DEF ByteSeq, Byte
  <2>3. m \in Nat
    BY <1>4
  <2> QED BY <2>1, <2>2, <2>3, ConstantFacts DEF Number
<1>6. left \in Int /\ left > 0 /\ size - left = h[e].chunkOffset
  BY <1>5
<1>7. /\ m + 1 <= Len(said[d]) /\ size = said[d][m + 1] /\ h[e].voiceBuf = FrameBytes(m + 1, h[e].chunkOffset)
      /\ \A k \in 1..m : k <= Len(said[d]) /\ heard[e][k] = FrameBytes(k, said[d][k])
  <2>1. DOMAIN heard[e] = 1..m
    BY <1>4
  <2> QED BY <1>1, <1>2, <2>1 DEF VoiceOK
<1>8. CASE (link = "broken" \/ AtEnd(e)) /\ Fails(e, "ERROR_NET") /\ UNCHANGED <<pipe, heard>>
  <2>1. "ERROR_NET" \in Over /\ h[e].state \notin Gets /\ UNCHANGED dataVars
    BY <1>1, <1>8 DEF Over, Gets, dataVars
  <2> QED BY <1>1, <1>8, <2>1, FailMain
<1> HIDE DEF d, x, m, left, size, s
<1>9. ASSUME NEW n \in 1..Min({Unsigned(size - h[e].chunkOffset), Len(s)}),
             NEW buf, buf = h[e].voiceBuf \o SubSeq(s, 1, n),
             NEW offset, offset = h[e].chunkOffset + n,
             link = "up", pipe' = Consumed(e, n),
             \/ /\ offset >= size /\ Becomes(e, HeardAll(offset))
                /\ heard' = [heard EXCEPT ![e] = Append(@, buf)] /\ Returns(e, "VOICE_DATA")
             \/ /\ ~(offset >= size) /\ Becomes(e, HeardMore(offset, buf)) /\ UNCHANGED <<heard, event>>
      PROVE  Main'
  <2> DEFINE u == SubSeq(s, 1, n)
             t == SubSeq(s, n + 1, Len(s))
             a == Voice(m, left, size)
  <2>0. buf = h[e].voiceBuf \o u /\ offset = h[e].chunkOffset + n
    BY <1>9
  <2>1. n \in 0..Len(s) /\ n \in 1..Len(s) /\ n \in Nat /\ n >= 1 /\ n <= left
    <3>1. h[e].chunkOffset <= size
      BY <1>5
    <3> QED BY <1>5, <3>1, TakenFacts DEF left, size
  <2>2. u \in Seq(Byte) /\ Len(u) = n /\ t \in Seq(Byte)
    BY <1>5, <2>1, SeqFacts
  <2>3. Awaited(e) = a
    BY <1>1 DEF Awaited, AwaitedBy, m, left, size
  <2>4. PICK b : Leads(x, a, s, b)
    BY <1>1, <1>2, <1>9, <2>3, TurnFacts DEF StreamOK, Listens, s, x
  <2>5. PICK z : Leads(x, a, u, z)
    BY <1>5, <2>1, <2>4, LeadsSplit
  <2>6. \A y : Leads(x, a, s, y) => Leads(x, z, t, y)
    BY <1>5, <2>1, <2>5, LeadsDrop
  <2>7. FrameRun(m + 1, h[e].chunkOffset, u) /\ z = InFrame(m, left, size, n)
    <3> HIDE DEF u, a, t
    <3>1. m \in Int /\ left \in Int /\ size \in Int /\ u \in ByteSeq /\ Len(u) > 0 /\ Len(u) <= left
      BY <1>5, <1>6, <2>1, <2>2 DEF ByteSeq, Byte
    <3>2. Leads(x, Voice(m, left, size), u, z)
      BY <2>5 DEF a
    <3>3. FrameRun(m + 1, size - left, u) /\ z = InFrame(m, left, size, Len(u))
      BY <3>1, <3>2, VoiceRun
    <3> QED BY <1>6, <2>2, <3>3
  <2> HIDE DEF u, t, a
  <2>8. buf = FrameBytes(m + 1, offset) /\ buf \in ByteSeq /\ offset \in Nat /\ offset <= size
    <3>1. m + 1 \in Int /\ u \in ByteSeq
      BY <1>5, <2>2 DEF ByteSeq, Byte
    <3>2. FrameBytes(m + 1, h[e].chunkOffset) \o u = FrameBytes(m + 1, h[e].chunkOffset + Len(u))
      BY <1>5, <2>2, <2>7, <3>1, FrameGrows
    <3>3. buf = FrameBytes(m + 1, offset)
      BY <1>7, <2>0, <2>2, <3>2
    <3>4. offset \in Nat /\ offset <= size
      BY <1>5, <2>0, <2>1 DEF left, size
    <3>5. FrameBytes(m + 1, offset) \in ByteSeq
      BY <3>1, <3>4, BytesFacts
    <3> QED BY <3>3, <3>4, <3>5
  <2>9. offset \in Number
    BY <1>5, <2>8, ConstantFacts DEF Number
  <2>10. /\ Well(HeardAll(offset)) /\ Well(HeardMore(offset, buf))
         /\ DOMAIN HeardAll(offset) = {"chunkOffset", "voiceBuf", "state", "check"}
         /\ HeardAll(offset).state = "READING_VOICE_HEADER"
         /\ DOMAIN HeardMore(offset, buf) = {"chunkOffset", "voiceBuf"}
         /\ HeardMore(offset, buf).chunkOffset = offset /\ HeardMore(offset, buf).voiceBuf = buf
    BY <2>8, <2>9, HeardFacts
  <2>11. heard' \in [Ends -> Seq(ByteSeq)]
    BY DEF TypeInv, DataInv
  <2>12. PICK f, v : /\ Well(f) /\ Becomes(e, f) /\ v \in {"NONE", "VOICE_DATA"}
                     /\ event' = [event EXCEPT ![e] = v]
                     /\ DOMAIN f \subseteq {"chunkOffset", "voiceBuf", "state", "check"}
                     /\ With(f, h[e]).state \in Chats
                     /\ AwaitedBy(x, e, With(f, h[e]), Len(heard'[e])) = z
                     /\ heard'[d] = heard[d]
                     /\ VoiceOK(With(f, h[e]), v, heard'[e], said[e], said[d])
    <3>1. CASE offset >= size /\ Becomes(e, HeardAll(offset))
               /\ heard' = [heard EXCEPT ![e] = Append(@, buf)] /\ Returns(e, "VOICE_DATA")
      <4> DEFINE c == With(HeardAll(offset), h[e])
      <4>1. c.state = "READING_VOICE_HEADER"
        BY <1>2, <2>10, WithFacts DEF Fields
      <4> HIDE DEF c
      <4>2. heard'[e] = Append(heard[e], buf) /\ heard'[d] = heard[d]
        BY <1>4, <3>1
      <4>3. /\ Len(heard'[e]) = m + 1 /\ DOMAIN heard'[e] = 1..m + 1 /\ heard'[e][m + 1] = buf
            /\ \A k \in 1..m : heard'[e][k] = heard[e][k]
        <5>1. heard[e] \in Seq(ByteSeq)
          BY <1>4
        <5> QED BY <2>8, <4>2, <5>1 DEF m
      <4>4. offset = size /\ ~(n < left)
        BY <1>5, <2>0, <2>8, <3>1 DEF left, size
      <4>5. AwaitedBy(x, e, c, Len(heard'[e])) = z
        BY <2>7, <4>1, <4>3, <4>4 DEF AwaitedBy, InFrame
      <4>6. VoiceOK(c, "VOICE_DATA", heard'[e], said[e], said[d])
        <5>1. ASSUME NEW k \in DOMAIN heard'[e]
              PROVE  k <= Len(said[d]) /\ heard'[e][k] = FrameBytes(k, said[d][k])
          <6>1. k \in 1..m \/ k = m + 1
            BY <1>5, <4>3
          <6> QED BY <1>7, <2>8, <4>3, <4>4, <6>1
        <5> QED BY <4>1, <5>1 DEF VoiceOK, Chats
      <4>7. Becomes(e, HeardAll(offset)) /\ event' = [event EXCEPT ![e] = "VOICE_DATA"] /\ c.state \in Chats
        BY <3>1, <4>1 DEF Returns, Chats
      <4> QED BY <2>10, <4>2, <4>5, <4>6, <4>7 DEF c
    <3>2. CASE ~(offset >= size) /\ Becomes(e, HeardMore(offset, buf)) /\ UNCHANGED <<heard, event>>
      <4> DEFINE c == With(HeardMore(offset, buf), h[e])
      <4>1. \A y \in Fields : c[y] = IF y \in DOMAIN HeardMore(offset, buf)
                                     THEN HeardMore(offset, buf)[y] ELSE h[e][y]
        BY <1>2, <2>10, WithFacts
      <4> HIDE DEF c
      <4>2. c.state = "READING_VOICE_DATA" /\ c.chunkOffset = offset /\ c.voiceBuf = buf /\ c.chunkSize = size
        BY <1>1, <2>10, <4>1 DEF Fields, size
      <4>3. n < left /\ size - offset = left - n
        BY <1>5, <2>0, <2>1, <3>2 DEF left, size
      <4>4. heard' = heard /\ Len(heard'[e]) = m
        BY <3>2 DEF m
      <4>5. AwaitedBy(x, e, c, Len(heard'[e])) = z
        BY <2>7, <4>2, <4>3, <4>4 DEF AwaitedBy, InFrame
      <4>6. VoiceOK(c, "NONE", heard[e], said[e], said[d])
        <5>1. \A k \in DOMAIN heard[e] : k <= Len(said[d]) /\ heard[e][k] = FrameBytes(k, said[d][k])
          BY <1>2 DEF VoiceOK
        <5> QED BY <1>7, <2>8, <4>2, <5>1 DEF VoiceOK, Chats, m
      <4>7. Becomes(e, HeardMore(offset, buf)) /\ event' = [event EXCEPT ![e] = "NONE"] /\ c.state \in Chats
        BY <1>1, <1>4, <3>2, <4>2 DEF Chats
      <4>8. DOMAIN HeardMore(offset, buf) \subseteq {"chunkOffset", "voiceBuf", "state", "check"}
        BY <2>10
      <4> QED BY <2>10, <4>4, <4>5, <4>6, <4>7, <4>8 DEF c
    <3> QED BY <1>9, <3>1, <3>2
  <2> DEFINE c == With(f, h[e])
  <2>13. c \in Connections /\ c.state \in Chats /\ c.offset = h[e].offset /\ c.type = h[e].type
         /\ c.uin = h[e].uin /\ c.peerUin = h[e].peerUin
    BY <1>2, <2>12, WithFacts DEF Fields
  <2>14. h'[e] = c /\ h'[d] = h[d]
    BY <1>1, <1>4, <2>12, BecomesFacts DEF d
  <2>15. event'[e] = v /\ event'[d] = event[d]
    BY <1>4, <2>12
  <2>16. pipe'[e] = t /\ pipe'[d] = pipe[d]
    BY <1>4, <1>9, EndsFacts DEF Consumed, t, s
  <2>17. /\ VoiceOK(c, v, heard'[e], said[e], said[d]) /\ AwaitedBy(x, e, c, Len(heard'[e])) = z
         /\ heard'[d] = heard[d] /\ v \in {"NONE", "VOICE_DATA"}
    BY <2>12
  <2> HIDE DEF c
  <2>18. c.state \in {"READING_VOICE_HEADER", "READING_VOICE_SIZE", "READING_VOICE_DATA"}
    BY <2>13 DEF Chats
  <2>19. KindOK(plan, e, c, v)
    <3>1. c.state \in SenderStates(plan) /\ c.state \in ReceiverStates(plan)
      BY <1>3, <2>13 DEF SenderStates, ReceiverStates
    <3>2. h[e].type = "VOICE" /\ TypeIn(plan, e, c, v) = "VOICE"
      BY <1>1, <1>2, <1>3, <2>17, <2>18 DEF KindOK, TypeIn, MeetStates
    <3>3. /\ e = "caller" => c.uin = 1 /\ c.peerUin = 2
          /\ e = "listener" => c.peerUin = 1 /\ c.uin = 2
      BY <1>1, <1>2, <2>13 DEF KindOK
    <3>4. v \notin {"CALLBACK", "NEED_FILE_ACK"} /\ c.state # "none"
      BY <2>17, <2>18
    <3> QED BY <2>13, <3>1, <3>2, <3>3, <3>4 DEF KindOK
  <2>20. FileOK(plan, e, c, v, got)
    <3>1. c.state \notin {"READING_FILE_ACK"} \cup Sends /\ ~OpenedIn(c, v) /\ ~OpenedIn(h[e], "NONE")
          /\ v # "DONE" /\ c.state # "READING_FILE_HEADER" /\ h[e].state # "closed"
      BY <1>1, <2>17, <2>18 DEF Sends, OpenedIn, Gets
    <3>2. ASSUME e = ReceiverIn(plan) PROVE HasFile(plan, c, v, got)
      <4>1. got = <<>> /\ h[e].offset = 0
        BY <1>2, <3>1, <3>2 DEF FileOK, HasFile
      <4> QED BY <2>13, <3>1, <4>1 DEF HasFile
    <3> QED BY <3>1, <3>2 DEF FileOK
  <2>21. WrittenBy(Script(d), e, c) = Written(e)
    BY <1>1, <2>18 DEF Written, WrittenBy, d
  <2>22. \A y : Leads(x, Awaited(e), s, y) => Leads(x, AwaitedBy(x, e, c, Len(heard'[e])), t, y)
    BY <2>3, <2>6, <2>17
  <2>23. event[e] \notin Over /\ faults \subseteq faults' /\ said' = said /\ Exact(e) /\ got' = got
    BY <1>1, <1>2 DEF Exact, ExactIn, Open
  <2>24. ~Counts
    BY <1>3 DEF Counts
  <2>25. got' = FileBytes(0, Len(got')) /\ FileOK(plan, e, c, v, got')
    BY <1>4, <2>20, <2>23
  <2> QED BY <1>2, <2>14, <2>15, <2>16, <2>17, <2>19, <2>21, <2>22, <2>23, <2>24, <2>25, MoveMain
          DEF d, x, s
<1>10. \/ (link = "broken" \/ AtEnd(e)) /\ Fails(e, "ERROR_NET") /\ UNCHANGED <<pipe, heard>>
       \/ \E n \in 1..Min({Unsigned(h[e].chunkSize - h[e].chunkOffset), Len(pipe[e])}) :
            LET buf == h[e].voiceBuf \o SubSeq(pipe[e], 1, n)
                offset == h[e].chunkOffset + n
            IN  /\ link = "up" /\ pipe' = Consumed(e, n)
                /\ \/ /\ offset >= h[e].chunkSize /\ Becomes(e, HeardAll(offset))
                      /\ heard' = [heard EXCEPT ![e] = Append(@, buf)] /\ Returns(e, "VOICE_DATA")
                   \/ /\ ~(offset >= h[e].chunkSize) /\ Becomes(e, HeardMore(offset, buf))
                      /\ UNCHANGED <<heard, event>>
  BY DEF ReadingVoiceData, HeardAll, HeardMore
<1> QED BY <1>8, <1>9, <1>10 DEF s, size

(***************************************************************************)
(* The programs and the world.                                             *)
(***************************************************************************)

\* A program deals with an event: the connection goes on as it was.
LEMMA GoesOnMain ==
    ASSUME TypeInv, TypeInv', Main, NEW e \in Ends, GoesOn(e)
    PROVE  Main'
<1> DEFINE events == {"CLIENT_ACCEPT", "ACK", "NEED_VOICE_ACK", "VOICE_DATA"}
<1>1. Given(e, <<>>, events) /\ UNCHANGED got
  BY DEF GoesOn
<1>2. Live(e) /\ event[e] \in events /\ events \cap Over = {} /\ "NONE" \notin Over
  BY <1>1 DEF Given, Over
<1>3. /\ h[e] \in Connections /\ KindOK(plan, e, h[e], event[e]) /\ FileOK(plan, e, h[e], event[e], got)
      /\ VoiceOK(h[e], event[e], heard[e], said[e], said[Peer(e)])
  BY <1>2, TurnFacts
<1>4. DOMAIN <<>> = {} /\ Well(<<>>)
  BY DEF Well
<1>5. With(<<>>, h[e]) = h[e]
  <2>1. With(<<>>, h[e]) \in Connections /\ \A x \in Fields : With(<<>>, h[e])[x] = h[e][x]
    BY <1>3, <1>4, WithFacts
  <2> DEFINE c == With(<<>>, h[e])
  <2>2. c = [x \in Fields |-> c[x]] /\ h[e] = [x \in Fields |-> h[e][x]]
    BY <1>3, <2>1, ConnectionForm
  <2> HIDE DEF c
  <2> QED BY <2>1, <2>2 DEF c
<1>6. Moves(e, h[e], "NONE")
  <2>1. event[e] \notin {"NONE", "CALLBACK", "NEED_FILE_ACK"} \cup Over /\ "NONE" \notin {"CALLBACK", "NEED_FILE_ACK", "DONE"}
        /\ "DONE" \in Over
    BY <1>2 DEF Over
  <2>2. KindOK(plan, e, h[e], "NONE")
    BY <1>3, <2>1 DEF KindOK, TypeIn
  <2>3. FileOK(plan, e, h[e], "NONE", got)
    BY <1>3, <2>1 DEF FileOK, HasFile, OpenedIn
  <2>4. VoiceOK(h[e], "NONE", heard[e], said[e], said[Peer(e)])
    BY <1>3, <2>1 DEF VoiceOK
  <2> QED BY <2>2, <2>3, <2>4 DEF Moves
<1>7. AwaitedBy(Script(e), e, h[e], Len(heard[e])) = Awaited(e)
      /\ WrittenBy(Script(Peer(e)), e, h[e]) = Written(e)
  BY DEF Awaited, Written
<1> HIDE DEF events
<1> QED BY <1>1, <1>2, <1>4, <1>5, <1>6, <1>7, GivenMain

\* The listener that is asked to call back is told what for: it has nothing of
\* a file or a chat yet.
LEMMA SetTypeMain ==
    ASSUME TypeInv, TypeInv', Main, NEW e \in Ends, SetType(e)
    PROVE  Main'
<1> DEFINE f == IF plan.voice THEN [type |-> "VOICE", state |-> "SENDING_VOICE_REQUEST"]
                ELSE [type |-> "SEND", state |-> "SENDING_FILE_INFO"]
           c == With(f, h[e])
<1>1. Given(e, f, {"CALLBACK"}) /\ UNCHANGED got
  BY DEF SetType
<1>2. Live(e) /\ event[e] = "CALLBACK" /\ {"CALLBACK"} \cap Over = {} /\ event[e] \notin Over
      /\ "NONE" \in Events \ Over
  BY <1>1 DEF Given, Over, Events
<1>3. /\ h[e] \in Connections /\ KindOK(plan, e, h[e], event[e]) /\ LiveIn(h[e])
      /\ plan.voice \in BOOLEAN /\ plan.callback \in BOOLEAN
  BY <1>2, TurnFacts
<1>4. e = "listener" /\ plan.callback /\ h[e].state = "SENDING_FILE_INFO" /\ e = SenderIn(plan)
  BY <1>2, <1>3 DEF KindOK, SenderIn
<1>5. /\ Well(f) /\ DOMAIN f = {"type", "state"}
      /\ plan.voice => f.state = "SENDING_VOICE_REQUEST" /\ f.type = "VOICE"
      /\ ~plan.voice => f.state = "SENDING_FILE_INFO" /\ f.type = "SEND"
  <2>1. CASE plan.voice
    <3>1. f = [type |-> "VOICE", state |-> "SENDING_VOICE_REQUEST"]
      BY <2>1
    <3> HIDE DEF f
    <3>2. DOMAIN f = {"type", "state"} /\ f.state = "SENDING_VOICE_REQUEST" /\ f.type = "VOICE"
      BY <3>1
    <3> QED BY <2>1, <3>2, StateNames, WellForm DEF Fields
  <2>2. CASE ~plan.voice
    <3>1. f = [type |-> "SEND", state |-> "SENDING_FILE_INFO"]
      BY <2>2
    <3> HIDE DEF f
    <3>2. DOMAIN f = {"type", "state"} /\ f.state = "SENDING_FILE_INFO" /\ f.type = "SEND"
      BY <3>1
    <3> QED BY <2>2, <3>2, StateNames, WellForm DEF Fields
  <2> QED BY <2>1, <2>2
<1> HIDE DEF f
<1>6. c \in Connections /\ c.state = f.state /\ c.type = f.type /\ c.peerUin = h[e].peerUin /\ c.uin = h[e].uin
      /\ c.offset = h[e].offset
  BY <1>3, <1>5, WithFacts DEF Fields
<1> HIDE DEF c
<1>7. KindOK(plan, e, c, "NONE")
  <2>1. c.state \in SenderStates(plan) /\ c.state \in {"SENDING_VOICE_REQUEST", "SENDING_FILE_INFO"}
    BY <1>5, <1>6 DEF SenderStates
  <2>2. c.type = TypeIn(plan, e, c, "NONE")
    BY <1>4, <1>5, <1>6, <2>1 DEF TypeIn, MeetStates
  <2>3. c.peerUin = 1 /\ c.uin = 2
    BY <1>3, <1>4, <1>6 DEF KindOK
  <2> QED BY <1>4, <2>1, <2>2, <2>3 DEF KindOK
<1>8. /\ h[e].state \in EarlyStates /\ c.state \in EarlyStates
      /\ c.state \in {"SENDING_VOICE_REQUEST", "SENDING_FILE_INFO"}
  BY <1>4, <1>5, <1>6 DEF EarlyStates
<1>9. Moves(e, c, "NONE")
  BY <1>2, <1>6, <1>7, <1>8, EarlyMoves
<1>10. AwaitedBy(Script(e), e, c, Len(heard[e])) = Awaited(e)
       /\ WrittenBy(Script(Peer(e)), e, c) = Written(e)
  BY <1>4, <1>8 DEF Awaited, Written, AwaitedBy, WrittenBy
<1> QED BY <1>1, <1>2, <1>5, <1>9, <1>10, GivenMain DEF c

\* The sender learns the size of its file before anything depends on it.
LEMMA FillMain ==
    ASSUME TypeInv, TypeInv', Main, NEW e \in Ends, FillFileInfo(e)
    PROVE  Main'
<1> DEFINE f == [size |-> length, file |-> TRUE]
           c == With(f, h[e])
           events == {"NONE", "NEED_FILE_INFO"}
<1>1. Given(e, f, events) /\ UNCHANGED got /\ h[e].type = "SEND" /\ ~h[e].file /\ Live(e)
  BY DEF FillFileInfo
<1>2. event[e] \in events /\ events \cap Over = {} /\ event[e] \notin Over /\ "NONE" \in Events \ Over
      /\ event[e] # "CALLBACK"
  BY <1>1 DEF Given, Over, Events
<1>3. /\ h[e] \in Connections /\ KindOK(plan, e, h[e], event[e]) /\ LiveIn(h[e])
      /\ plan.voice \in BOOLEAN /\ plan.callback \in BOOLEAN /\ FileOK(plan, e, h[e], event[e], got)
  BY <1>1, <1>2, TurnFacts
<1>4. length \in Number
  BY ConstantFacts DEF TypeInv, DataInv
<1>5. Well(f) /\ DOMAIN f = {"size", "file"}
  <2>1. DOMAIN f = {"size", "file"} /\ f.size = length /\ f.file = TRUE
    OBVIOUS
  <2> HIDE DEF f
  <2> QED BY <1>4, <2>1, WellForm DEF Fields
<1>6. h[e].state \in EarlyStates /\ h[e].state \notin {"READING_FILE_ACK"} \cup Sends
  <2>1. h[e].state \notin {"READING_FILE_ACK"} \cup Sends
    BY <1>1, <1>3 DEF FileOK
  <2>2. h[e].state \in MeetStates(e) \/ e = SenderIn(plan)
    <3>1. h[e].type = TypeIn(plan, e, h[e], event[e]) /\ h[e].state \notin MeetStates("listener")
          /\ (h[e].state \in MeetStates("caller") => e = "caller")
      BY <1>1, <1>2, <1>3, KindStates DEF TypeIn
    <3> QED BY <1>1, <3>1 DEF TypeIn
  <2>3. CASE h[e].state \in MeetStates(e)
    BY <2>1, <2>3 DEF EarlyStates, MeetStates, Ends
  <2>4. CASE e = SenderIn(plan) /\ h[e].state \notin MeetStates(e)
    <3>1. h[e].state \in SenderStates(plan) /\ h[e].state \notin {"READING_REQUEST"}
      BY <1>2, <1>3, <2>4 DEF KindOK, SenderStates, Chats, Sends
    <3>2. ~plan.voice
      BY <1>1, <1>2, <1>3, <3>1 DEF KindOK, TypeIn, MeetStates, SenderStates, Chats
    <3>3. h[e].state = "SENDING_FILE_INFO"
      BY <2>1, <3>1, <3>2 DEF SenderStates
    <3> QED BY <2>1, <3>3 DEF EarlyStates
  <2> QED BY <2>1, <2>2, <2>3, <2>4
<1> HIDE DEF f, events
<1>7. c \in Connections /\ c.state = h[e].state /\ c.type = h[e].type /\ c.peerUin = h[e].peerUin
      /\ c.uin = h[e].uin /\ c.offset = h[e].offset
  BY <1>3, <1>5, WithFacts DEF Fields
<1> HIDE DEF c
<1>8. KindOK(plan, e, c, "NONE")
  BY <1>2, <1>3, <1>7 DEF KindOK, TypeIn, LiveIn
<1>9. Moves(e, c, "NONE")
  BY <1>1, <1>2, <1>6, <1>7, <1>8, EarlyMoves
<1>10. h[e].state \notin {"SENDING_FILE_ACK", "READING_FILE_HEADER", "GETTING_FILE", "READING_VOICE_DATA"}
  BY <1>6 DEF EarlyStates, MeetStates
<1>11. AwaitedBy(Script(e), e, c, Len(heard[e])) = Awaited(e)
  BY <1>7, <1>10 DEF Awaited, AwaitedBy
<1>12. WrittenBy(Script(Peer(e)), e, c) = Written(e)
  BY <1>6, <1>7, <1>10 DEF Written, WrittenBy, Sends
<1> QED BY <1>1, <1>2, <1>5, <1>9, <1>11, <1>12, GivenMain DEF c

\* The receiver's program opens its file: it has what it had of it before.
LEMMA AcceptFileMain ==
    ASSUME TypeInv, TypeInv', Main, NEW e \in Ends, AcceptFile(e)
    PROVE  Main'
<1> DEFINE f == [file |-> TRUE, offset |-> plan.resume]
           c == With(f, h[e])
           d == Peer(e)
<1>1. /\ Live(e) /\ event[e] = "NEED_FILE_ACK" /\ Becomes(e, f) /\ Returns(e, "NONE")
      /\ UNCHANGED <<plan, pipe, faults, said, heard, link>> /\ got' = FileBytes(0, plan.resume)
      /\ event[e] \notin Over /\ "NONE" \notin Over
  BY DEF AcceptFile, Given, Over
<1>2. /\ h[e] \in Connections /\ KindOK(plan, e, h[e], event[e]) /\ LiveIn(h[e]) /\ Open(e)
      /\ plan.voice \in BOOLEAN /\ plan.callback \in BOOLEAN /\ plan.resume \in Number
      /\ VoiceOK(h[e], event[e], heard[e], said[e], said[d])
  BY <1>1, TurnFacts
<1>3. h[e].state = "SENDING_FILE_ACK" /\ e = ReceiverIn(plan) /\ ~plan.voice
  BY <1>1, <1>2, KindStates DEF KindOK
<1>4. Well(f) /\ DOMAIN f = {"file", "offset"} /\ f.offset = plan.resume
  <2>1. DOMAIN f = {"file", "offset"} /\ f.offset = plan.resume /\ f.file = TRUE
    OBVIOUS
  <2> HIDE DEF f
  <2> QED BY <1>2, <2>1, WellForm DEF Fields
<1> HIDE DEF f
<1>5. c \in Connections /\ c.state = "SENDING_FILE_ACK" /\ c.type = h[e].type /\ c.peerUin = h[e].peerUin
      /\ c.uin = h[e].uin /\ c.offset = plan.resume /\ c.size = h[e].size
  BY <1>2, <1>3, <1>4, WithFacts DEF Fields
<1>6. h'[e] = c /\ h'[d] = h[d]
  BY <1>1, <1>4, BecomesFacts DEF TypeInv
<1>7. event'[e] = "NONE" /\ event'[d] = event[d] /\ d # e
  BY <1>1, EndsFacts DEF Returns, TypeInv, EndsInv
<1> HIDE DEF c, d
<1>8. KindOK(plan, e, c, "NONE")
  BY <1>1, <1>2, <1>3, <1>5 DEF KindOK, TypeIn, LiveIn
<1>9. got' = FileBytes(0, Len(got')) /\ Len(got') = plan.resume
  <2>1. plan.resume \in Nat /\ 0 \in Int
    BY <1>2, ConstantFacts DEF Number
  <2>2. Len(FileBytes(0, plan.resume)) = plan.resume
    BY <2>1, BytesFacts
  <2> QED BY <1>1, <2>2
<1>10. FileOK(plan, e, c, "NONE", got')
  <2>1. c.state \notin {"READING_FILE_ACK"} \cup Sends /\ "NONE" # "DONE" /\ OpenedIn(c, "NONE")
        /\ c.state # "READING_FILE_HEADER"
    BY <1>5 DEF Sends, OpenedIn
  <2>2. HasFile(plan, c, "NONE", got')
    BY <1>5, <1>9, <2>1 DEF HasFile
  <2> QED BY <2>1, <2>2 DEF FileOK
<1>11. VoiceOK(c, "NONE", heard[e], said[e], said[d])
  BY <1>1, <1>2, <1>3, <1>5 DEF VoiceOK
<1>12. AwaitedBy(Script(e), e, c, Len(heard'[e])) = Awaited(e)
  BY <1>1, <1>3, <1>5, ScriptFacts DEF Awaited, AwaitedBy
<1>13. WrittenBy(Script(d), e, c) = Written(e)
  BY <1>3, <1>5 DEF Written, WrittenBy, d
<1>14. GoneIn(plan, c) = GoneIn(plan, h[e])
  BY <1>3, <1>5 DEF GoneIn, Sends, Gets
<1>15. ExactIn(c, "NONE") <=> Exact(e)
  BY <1>1, <1>3, <1>5 DEF Exact, ExactIn
<1>16. e = Receiver
  BY <1>3 DEF Receiver, ReceiverIn, Sender, SenderIn
<1>17. /\ DataIn(pipe'[e]) = DataIn(pipe[e]) /\ DataIn(pipe'[d]) = DataIn(pipe[d])
       /\ pipe' = pipe /\ heard' = heard /\ said' = said /\ faults \subseteq faults'
  BY <1>1
<1> QED BY <1>1, <1>2, <1>6, <1>7, <1>8, <1>9, <1>10, <1>11, <1>12, <1>13, <1>14, <1>15, <1>16, <1>17, MoveMain DEF d

\* An end that is freed asks for nothing more; what it wrote still comes.
LEMMA FreesMain ==
    ASSUME TypeInv, Main, NEW e \in Ends, Live(e), NEW why, Frees(e, why)
    PROVE  Main'
<1> DEFINE d == Peer(e)
<1>1. /\ d \in Ends /\ d # e /\ Peer(d) = e /\ Ends = {e, d}
      /\ EndOK(e) /\ EndOK(d)
  BY EndsFacts DEF Main
<1>2. /\ h'[e] = Closed /\ h'[d] = h[d] /\ event'[e] = "NONE" /\ event'[d] = event[d]
      /\ pipe'[d] = pipe[d] /\ UNCHANGED <<plan, link, length, got, said, heard>>
  BY <1>1 DEF Frees, TypeInv, EndsInv, dataVars
<1>3. Closed.state = "closed" /\ ~LiveIn(Closed) /\ "NONE" \notin Over
  BY DEF Closed, LiveIn, Over
<1> HIDE DEF d
<1>4. ~Listens(e)' /\ ~Exact(e)' /\ ~Open(e)'
  BY <1>2, <1>3 DEF Listens, Exact, ExactIn, Open
<1>5. /\ Script(d)' = Script(d) /\ Awaited(d)' = Awaited(d) /\ Listens(d)' = Listens(d)
  BY <1>1, <1>2 DEF Script, Awaited, Listens, Open
<1>6. EndOK(e)'
  <2>1. StreamOK(e)'
    BY <1>4 DEF StreamOK
  <2>2. KindOK(plan', e, h'[e], event'[e])
    BY <1>2, <1>3 DEF KindOK
  <2>3. FileOK(plan', e, h'[e], event'[e], got')
    BY <1>2, <1>3 DEF FileOK, HasFile, OpenedIn, Sends, Gets
  <2>4. VoiceOK(h'[e], event'[e], heard'[e], said'[e], said'[d])
    BY <1>1, <1>2, <1>3 DEF EndOK, VoiceOK, d
  <2> QED BY <2>1, <2>2, <2>3, <2>4 DEF EndOK, d
<1>7. EndOK(d)'
  <2>1. StreamOK(d)'
    BY <1>1, <1>2, <1>4, <1>5 DEF StreamOK, EndOK
  <2> QED BY <1>1, <1>2, <2>1 DEF EndOK
<1>8. CountOK'
  BY <1>4 DEF CountOK, Counts
<1> QED BY <1>1, <1>2, <1>6, <1>7, <1>8 DEF Main

\* The connection breaks: nobody listens any more.
LEMMA BreaksMain ==
    ASSUME Main, Breaks
    PROVE  Main'
<1>1. link' = "broken" /\ UNCHANGED <<plan, h, event, length, got, said, heard>>
  BY DEF Breaks, dataVars
<1>2. ASSUME NEW e \in Ends
      PROVE  EndOK(e)'
  BY <1>1, <1>2 DEF Main, EndOK, StreamOK, Listens
<1>3. ~Counts'
  BY <1>1 DEF Counts
<1> QED BY <1>1, <1>2, <1>3 DEF Main, CountOK

\* Nothing else of the connection changes when somebody writes to the file or
\* the listening socket is created.
LEMMA AsideMain ==
    ASSUME Main, UNCHANGED <<plan, h, event, link, pipe, got, said, heard>>, faults \subseteq faults'
    PROVE  Main'
<1>1. ASSUME NEW e \in Ends
      PROVE  EndOK(e)'
  BY <1>1 DEF Main, EndOK, StreamOK, Listens, Exact, Open, Script, Awaited, Written
<1>2. CountOK'
  BY DEF Main, CountOK, Counts, Open, Sender, Receiver
<1> QED BY <1>1, <1>2 DEF Main

\* After a refusal the peer's stream is lost.
LEMMA RefusalMain ==
    ASSUME TypeInv, Main, NEW e \in Ends, Open(e), Exact(e), NEW bytes \in ByteSeq,
           UNCHANGED <<plan, h, event, link, dataVars>>, pipe' = Delivered(e, bytes), "refused" \in faults',
           Leads(Script(Peer(e)), Written(e), bytes, Lost)
    PROVE  Main'
<1> DEFINE d == Peer(e)
           x == Script(d)
<1>1. /\ d \in Ends /\ d # e /\ Peer(d) = e /\ Ends = {e, d}
      /\ EndOK(e) /\ EndOK(d) /\ UNCHANGED <<length, got, said, heard>>
  BY EndsFacts DEF Main, dataVars
<1>2. pipe'[e] = pipe[e] /\ pipe'[d] = (IF Open(d) THEN pipe[d] \o bytes ELSE pipe[d])
      /\ pipe[d] \in ByteSeq
  BY <1>1 DEF Delivered, TypeInv, EndsInv
<1>3. /\ Script(e)' = Script(e) /\ x' = x /\ Awaited(d)' = Awaited(d) /\ Awaited(e)' = Awaited(e)
      /\ Written(d)' = Written(d) /\ Written(e)' = Written(e) /\ Exact(d)' = Exact(d) /\ Exact(e)' = Exact(e)
      /\ Listens(d)' = Listens(d) /\ Listens(e)' = Listens(e)
  BY <1>1 DEF Script, Awaited, Written, Exact, Listens, Open
<1>4. EndOK(e)'
  <2>1. StreamOK(e)'
    BY <1>1, <1>2, <1>3 DEF StreamOK, EndOK
  <2> QED BY <1>1, <2>1 DEF EndOK
<1>5. EndOK(d)'
  <2>1. StreamOK(d)'
    <3>1. SUFFICES ASSUME Listens(d)
          PROVE  \E b : Leads(x, Awaited(d), pipe'[d], b) /\ (Exact(e) => b \in {Lost, Written(e)})
      BY <1>1, <1>3 DEF StreamOK
    <3>2. PICK b : Leads(x, Awaited(d), pipe[d], b) /\ (Exact(e) => b \in {Lost, Written(e)})
      BY <1>1, <3>1 DEF StreamOK, EndOK
    <3>3. pipe'[d] = pipe[d] \o bytes /\ b \in {Lost, Written(e)}
      BY <1>2, <3>1, <3>2 DEF Listens
    <3>4. pipe[d] \in Seq(Byte) /\ bytes \in Seq(Byte)
      BY <1>2 DEF ByteSeq, Byte
    <3>5. Leads(x, b, bytes, Lost)
      BY <3>3, <3>4, LostLeads
    <3>6. Leads(x, Awaited(d), pipe[d] \o bytes, Lost)
      BY <3>2, <3>4, <3>5, LeadsJoin
    <3> QED BY <3>3, <3>6
  <2> QED BY <1>1, <2>1 DEF EndOK
<1>6. CountOK'
  BY DEF CountOK, Counts
<1> QED BY <1>1, <1>4, <1>5, <1>6 DEF Main

\* An end refuses the file, or the chat, where it would go on with it.
LEMMA RefusesMain ==
    ASSUME TypeInv, Main, NEW e \in Ends, Refuses(e)
    PROVE  Main'
<1> DEFINE x == Script(Peer(e))
<1>1. /\ Live(e) /\ UNCHANGED <<plan, h, event, link, dataVars>> /\ "refused" \in faults'
      /\ \/ h[e].state = "SENDING_FILE_HEADER" /\ pipe' = Delivered(e, Bytes(<<"header", Refused>>))
         \/ h[e].state = "SENDING_VOICE_ACK" /\ pipe' = Delivered(e, Bytes(<<"tiny", Refused>>))
  BY DEF Refuses, RefusesFile, RefusesVoice, Fault
<1>2. /\ KindOK(plan, e, h[e], event[e]) /\ LiveIn(h[e]) /\ Open(e)
      /\ plan.voice \in BOOLEAN /\ plan.callback \in BOOLEAN
  BY <1>1, TurnFacts
<1>3. Exact(e)
  BY <1>1, <1>2 DEF Exact, ExactIn, Open
<1>4. "header" \in PacketKinds /\ "tiny" \in PacketKinds /\ Refused \in Int /\ Refused # 1
  BY DEF PacketKinds, Refused
<1>5. CASE h[e].state = "SENDING_FILE_HEADER" /\ pipe' = Delivered(e, Bytes(<<"header", Refused>>))
  <2>1. Written(e) = Header(h[e].offset, h[e].size)
    BY <1>5 DEF Written, WrittenBy
  <2>2. Plain(Header(h[e].offset, h[e].size))
        /\ Comes(x, Header(h[e].offset, h[e].size), <<"header", Refused>>)
        /\ Then(x, Header(h[e].offset, h[e].size), <<"header", Refused>>) = Lost
    BY DEF Plain, Comes, Then, Header, Place
  <2>3. Leads(x, Written(e), Bytes(<<"header", Refused>>), Lost)
    BY <2>1, <2>2, PacketLeads
  <2>4. Bytes(<<"header", Refused>>) \in ByteSeq
    BY <1>4, BytesFacts
  <2> QED BY <1>1, <1>2, <1>3, <1>5, <2>3, <2>4, RefusalMain
<1>6. CASE h[e].state = "SENDING_VOICE_ACK" /\ pipe' = Delivered(e, Bytes(<<"tiny", Refused>>))
  <2>1. e = ReceiverIn(plan) /\ plan.voice
    BY <1>2, <1>6, KindStates
  <2>2. Peer(e) \in Ends /\ Peer(Peer(e)) = e
    BY EndsFacts
  <2>3. x.callback = plan.callback /\ x.voice = plan.voice
    BY DEF Script
  <2>4. Written(e) = Expects(x, Peer(e))
    BY <1>6 DEF Written, WrittenBy
  <2>5. Written(e) = At("voice_ack")
    <3> HIDE DEF x
    <3> QED BY <2>1, <2>3, <2>4, ScriptFacts
  <2>6. Plain(At("voice_ack")) /\ Comes(x, At("voice_ack"), <<"tiny", Refused>>)
        /\ Then(x, At("voice_ack"), <<"tiny", Refused>>) = Lost
    BY <1>4 DEF Plain, Comes, Then, At, Place
  <2>7. Leads(x, Written(e), Bytes(<<"tiny", Refused>>), Lost)
    BY <2>5, <2>6, PacketLeads
  <2>8. Bytes(<<"tiny", Refused>>) \in ByteSeq
    BY <1>4, BytesFacts
  <2> QED BY <1>1, <1>2, <1>3, <1>6, <2>7, <2>8, RefusalMain
<1> QED BY <1>1, <1>5, <1>6

\* An end begins: it awaits what its peer would have written to it anyway.
LEMMA BeginMain ==
    ASSUME TypeInv, TypeInv', Main, NEW e \in Ends, h[e] = None, NEW c \in Connections,
           h' = [h EXCEPT ![e] = c], UNCHANGED <<plan, event, pipe, faults, dataVars, link>>,
           c.offset = 0, c.state \in MeetStates(e), c.state \in {"CONNECTING", "READING_UIN_1"},
           c.type = TypeIn(plan, e, c, "NONE"), e = "caller" => c.uin = 1 /\ c.peerUin = 2
    PROVE  Main'
<1> DEFINE d == Peer(e)
<1>1. /\ d \in Ends /\ d # e /\ Peer(d) = e
      /\ EndOK(e) /\ EndOK(d) /\ UNCHANGED <<length, got, said, heard>>
  BY EndsFacts DEF Main, dataVars
<1>2. h'[e] = c /\ h'[d] = h[d]
  BY <1>1 DEF TypeInv, EndsInv
<1>3. /\ KindOK(plan, e, h[e], event[e]) /\ FileOK(plan, e, h[e], event[e], got)
      /\ VoiceOK(h[e], event[e], heard[e], said[e], said[d])
  BY <1>1 DEF EndOK
<1>4. None.state = "none" /\ ~LiveIn(None)
  BY DEF None, LiveIn
<1>5. event[e] = "NONE" /\ "NONE" \notin Over /\ Open(e) /\ Exact(e)
  BY <1>3, <1>4 DEF KindOK, Over, Open, Exact, ExactIn
<1> HIDE DEF d
<1>6. KindOK(plan, e, c, "NONE")
  <2>1. e = "listener" => c.state = "READING_UIN_1"
    BY DEF MeetStates
  <2> QED BY <2>1 DEF KindOK
<1>7. FileOK(plan, e, c, "NONE", got)
  <2>1. c.state \notin {"READING_FILE_ACK"} \cup Sends /\ ~OpenedIn(c, "NONE") /\ c.state # "READING_FILE_HEADER"
        /\ ~OpenedIn(None, "NONE") /\ None.state # "closed" /\ "NONE" # "DONE"
    BY <1>4 DEF Sends, Gets, OpenedIn
  <2>2. e = ReceiverIn(plan) => got = <<>>
    BY <1>3, <1>5, <2>1 DEF FileOK, HasFile
  <2> QED BY <2>1, <2>2 DEF FileOK, HasFile
<1>8. VoiceOK(c, "NONE", heard[e], said[e], said[d])
  <2>1. None.state \notin Chats \cup {"closed"} /\ c.state \notin Chats
    BY <1>4 DEF Chats
  <2> QED BY <1>3, <1>5, <2>1 DEF VoiceOK, Chats
<1>9. AwaitedBy(Script(e), e, c, Len(heard[e])) = Awaited(e)
  BY <1>4 DEF Awaited, AwaitedBy, MeetStates
<1>10. WrittenBy(Script(d), e, c) = Written(e)
  BY <1>4 DEF Written, WrittenBy, d
<1>11. GoneIn(plan, c) = GoneIn(plan, h[e])
  BY <1>4 DEF GoneIn, Sends, Gets
<1>12. got = FileBytes(0, Len(got))
  BY DEF Main
<1>13. /\ event'[e] = "NONE" /\ event'[d] = event[d] /\ pipe' = pipe /\ heard' = heard /\ got' = got
       /\ said' = said /\ faults \subseteq faults'
  BY <1>1, <1>5
<1> QED BY <1>1, <1>2, <1>5, <1>6, <1>7, <1>8, <1>9, <1>10, <1>11, <1>12, <1>13, MoveMain DEF d

\* The caller calls and the listener answers.
LEMMA BeginsMain ==
    ASSUME TypeInv, TypeInv', Main, Accepts \/ Transfer
    PROVE  Main'
<1>1. "caller" \in Ends /\ "listener" \in Ends
  BY DEF Ends
<1>2. CASE Accepts
  <2> DEFINE f == [state |-> "READING_UIN_1", type |-> "DCC", check |-> "READ", uin |-> 0, peerUin |-> 0]
             c == With(f, Fresh)
  <2>1. /\ h["listener"] = None /\ h' = [h EXCEPT !["listener"] = c]
        /\ UNCHANGED <<plan, event, pipe, faults, dataVars, link>>
    BY <1>2 DEF Accepts, Accept
  <2>2. /\ DOMAIN f = {"state", "type", "check", "uin", "peerUin"} /\ f.state = "READING_UIN_1"
        /\ f.type = "DCC" /\ f.check = "READ" /\ f.uin = 0 /\ f.peerUin = 0
    OBVIOUS
  <2> HIDE DEF f
  <2>3. Well(f) /\ f.state \in States \ BufferStates
    BY <2>2, StateNames, ConstantFacts, WellForm DEF Fields, BufferStates
  <2>4. c \in Connections /\ c.state = "READING_UIN_1" /\ c.type = "DCC" /\ c.offset = 0
    BY <2>2, <2>3, BeginFacts
  <2> HIDE DEF c
  <2>5. c.state \in MeetStates("listener") /\ c.type = TypeIn(plan, "listener", c, "NONE")
    BY <2>4 DEF MeetStates, TypeIn
  <2> QED BY <1>1, <2>1, <2>4, <2>5, BeginMain
<1>3. CASE Transfer
  <2> DEFINE f == [state |-> "CONNECTING", check |-> "WRITE", uin |-> Uin("caller"),
                      peerUin |-> Uin("listener"),
                      type |-> IF plan.callback THEN "GET" ELSE IF plan.voice THEN "VOICE" ELSE "SEND"]
             c == With(f, Fresh)
  <2>1. /\ h["caller"] = None /\ h' = [h EXCEPT !["caller"] = c]
        /\ UNCHANGED <<plan, event, pipe, faults, dataVars, link>>
    BY <1>3 DEF Transfer
  <2>2. /\ DOMAIN f = {"state", "type", "check", "uin", "peerUin"} /\ f.state = "CONNECTING"
        /\ f.type = (IF plan.callback THEN "GET" ELSE IF plan.voice THEN "VOICE" ELSE "SEND")
        /\ f.type \in {"GET", "VOICE", "SEND"} /\ f.check = "WRITE" /\ f.uin = 1 /\ f.peerUin = 2
    BY DEF Uin
  <2> HIDE DEF f
  <2>3. Well(f) /\ f.state \in States \ BufferStates
    BY <2>2, StateNames, ConstantFacts, WellForm DEF Fields, BufferStates
  <2>4. c \in Connections /\ c.state = "CONNECTING" /\ c.type = f.type /\ c.offset = 0
        /\ c.uin = 1 /\ c.peerUin = 2
    BY <2>2, <2>3, BeginFacts
  <2> HIDE DEF c
  <2>5. c.state \in MeetStates("caller") /\ c.type = TypeIn(plan, "caller", c, "NONE")
    BY <2>2, <2>4 DEF MeetStates, TypeIn
  <2> QED BY <1>1, <2>1, <2>4, <2>5, BeginMain
<1> QED BY <1>2, <1>3

\* A peer that says more leaves what it said: what led somewhere still does.
Grows(x, y) ==
    /\ y.voice = x.voice /\ y.callback = x.callback /\ y.resume = x.resume
    /\ Len(x.said) \in Nat /\ Len(y.said) \in Nat /\ Len(x.said) <= Len(y.said)
    /\ \A i \in 1..Len(x.said) : y.said[i] = x.said[i]

\* What fitted fits when more was said, and leads to the same place.
LEMMA GrowsFacts ==
    ASSUME NEW x, NEW y, Grows(x, y)
    PROVE  /\ \A e : Expects(y, e) = Expects(x, e)
           /\ \A p, packet : Then(y, p, packet) = Then(x, p, packet)
           /\ \A p, packet : Comes(x, p, packet) => Comes(y, p, packet)
           /\ \A p, z : After(y, p, z) = After(x, p, z)
           /\ \A p, z : Fits(x, p, z) => Fits(y, p, z)
<1>1. \A e : Expects(y, e) = Expects(x, e)
  BY DEF Grows, Expects
<1>2. \A p, packet : Then(y, p, packet) = Then(x, p, packet)
  BY <1>1 DEF Grows, Then
<1>3. ASSUME NEW p, NEW packet, Comes(x, p, packet) PROVE Comes(y, p, packet)
  <2>1. Fixed(x) = Fixed(y)
    BY DEF Grows, Fixed
  <2>2. CASE p.at = "frame_size" /\ p.n \in 0..Len(x.said) - 1 /\ packet = <<"small", x.said[p.n + 1]>>
    <3>1. p.n \in 0..Len(y.said) - 1 /\ p.n + 1 \in 1..Len(x.said)
      BY <2>2 DEF Grows
    <3>2. y.said[p.n + 1] = x.said[p.n + 1]
      BY <3>1 DEF Grows
    <3> QED BY <2>2, <3>1, <3>2 DEF Comes
  <2> QED BY <1>3, <2>1, <2>2 DEF Comes
<1>4. \A p, z : After(y, p, z) = After(x, p, z)
  BY <1>2 DEF After
<1>5. ASSUME NEW p, NEW z, Fits(x, p, z) PROVE Fits(y, p, z)
  BY <1>3, <1>5 DEF Fits
<1> QED BY <1>1, <1>2, <1>3, <1>4, <1>5

\* What led somewhere leads there when more was said.
LEMMA LeadsMore ==
    ASSUME NEW x, NEW y, Grows(x, y), NEW a, NEW s, NEW b, Leads(x, a, s, b)
    PROVE  Leads(y, a, s, b)
<1>1. PICK w : /\ w[0] = a /\ w[Len(s)] = b
               /\ \A k \in 1..Len(s) : Fits(x, w[k - 1], s[k]) /\ w[k] = After(x, w[k - 1], s[k])
  BY DEF Leads
<1>2. \A k \in 1..Len(s) : Fits(y, w[k - 1], s[k]) /\ w[k] = After(y, w[k - 1], s[k])
  BY <1>1, GrowsFacts
<1> QED BY <1>1, <1>2 DEF Leads

\* A frame that is sent leads from where frames begin to where the next does.
LEMMA FrameLeads ==
    ASSUME NEW x, NEW n \in Nat, NEW size \in Nat, n \in 0..Len(x.said) - 1, x.said[n + 1] = size
    PROVE  /\ Leads(x, Frame(n), Packets(n + 1, size), Frame(n + 1))
           /\ Packets(n + 1, size) \in ByteSeq
<1> DEFINE bytes == Bytes(<<"tiny", 3>>) \o Bytes(<<"small", size>>)
           frame == FrameBytes(n + 1, size)
           b == IF size = 0 THEN Frame(n + 1) ELSE Voice(n, size, size)
<1>1. /\ Plain(Frame(n)) /\ Comes(x, Frame(n), <<"tiny", 3>>) /\ Then(x, Frame(n), <<"tiny", 3>>) = FrameSize(n)
  BY DEF Plain, Comes, Then, Fixed, Frame, Place
<1>2. Plain(FrameSize(n)) /\ Comes(x, FrameSize(n), <<"small", size>>)
  BY DEF Plain, Comes, FrameSize, Place
<1>3. Then(x, FrameSize(n), <<"small", size>>) = b
  BY DEF Then, FrameSize, Place
<1>4. {"tiny", "small"} \subseteq PacketKinds \ {"header", "data"} /\ 3 \in Int /\ size \in Int
  BY DEF PacketKinds
<1> HIDE DEF b
<1>5. Leads(x, Frame(n), bytes, b) /\ bytes \in ByteSeq
  BY <1>1, <1>2, <1>3, <1>4, TwoPackets
<1>6. frame \in ByteSeq /\ Len(frame) = size
  <2>1. n + 1 \in Int
    OBVIOUS
  <2> QED BY <2>1, BytesFacts
<1>7. Leads(x, b, frame, Frame(n + 1))
  <2>1. CASE size = 0
    <3> HIDE DEF frame
    <3>1. frame = <<>>
      BY <1>6, <2>1 DEF ByteSeq
    <3> QED BY <2>1, <3>1, LeadsNone DEF b
  <2>2. CASE size # 0
    <3>1. size > 0 /\ n \in Int
      BY <2>2
    <3> QED BY <2>2, <3>1, VoiceLeads DEF b
  <2> QED BY <2>1, <2>2
<1> HIDE DEF bytes, frame
<1>8. bytes \in Seq(Byte) /\ frame \in Seq(Byte)
  BY <1>5, <1>6 DEF ByteSeq, Byte
<1>9. bytes \o frame \in ByteSeq
  BY <1>8, SeqFacts DEF ByteSeq, Byte
<1>10. Leads(x, Frame(n), bytes \o frame, Frame(n + 1))
  BY <1>5, <1>7, <1>8, LeadsJoin
<1> QED BY <1>9, <1>10 DEF Packets, bytes, frame

\* An end says something: a whole frame is on its way after all that was before.
LEMMA SayMain ==
    ASSUME TypeInv, Main, Uncut', NEW e \in Ends, VoiceSend(e), UNCHANGED <<plan, link>>
    PROVE  Main'
<1> DEFINE d == Peer(e)
           n == Len(said[e])
           x == Script(d)
<1>1. /\ d \in Ends /\ d # e /\ Peer(d) = e /\ Ends = {e, d}
      /\ EndOK(e) /\ EndOK(d) /\ said \in [Ends -> Seq(Frames)]
  BY EndsFacts DEF Main, TypeInv, DataInv
<1>2. PICK size \in Frames :
        /\ said' = [said EXCEPT ![e] = Append(@, size)]
        /\ pipe' = Delivered(e, Packets(n + 1, size)) /\ UNCHANGED faults
  <2>1. "short write" \notin faults'
    BY DEF Uncut
  <2> QED BY <2>1 DEF VoiceSend, Fault
<1>3. Live(e) /\ h[e].state \in Chats /\ UNCHANGED <<h, event, length, got, heard>>
  BY DEF VoiceSend, Chats
<1>4. /\ KindOK(plan, e, h[e], event[e]) /\ LiveIn(h[e]) /\ Open(e)
      /\ plan.voice \in BOOLEAN /\ plan.callback \in BOOLEAN
  BY <1>3, TurnFacts
<1>5. plan.voice
  BY <1>3, <1>4, KindStates
<1>6. /\ n \in Nat /\ size \in Nat /\ Len(said'[e]) = n + 1 /\ said'[e][n + 1] = size
      /\ \A i \in 1..n : said'[e][i] = said[e][i]
      /\ said'[d] = said[d]
  <2>1. said[e] \in Seq(Frames) /\ said'[e] = Append(said[e], size) /\ said'[d] = said[d]
    BY <1>1, <1>2
  <2>2. size \in Nat
    BY ConstantFacts
  <2> QED BY <2>1, <2>2
<1> HIDE DEF d, n
<1>7. /\ x.voice = plan.voice /\ x.callback = plan.callback /\ x.resume = plan.resume /\ x.said = said[e]
      /\ x'.voice = plan.voice /\ x'.callback = plan.callback /\ x'.resume = plan.resume /\ x'.said = said'[e]
      /\ Script(e)' = Script(e)
  BY <1>1, <1>6 DEF Script, d
<1> HIDE DEF x
<1>8. Grows(x, x')
  BY <1>6, <1>7 DEF Grows, n
<1>9. Written(e) = Frame(n) /\ Written(e)' = Frame(n + 1) /\ Exact(e)
  <2>1. h[e].state \in {"READING_VOICE_HEADER", "READING_VOICE_SIZE", "READING_VOICE_DATA"}
    BY <1>3 DEF Chats
  <2>2. Written(e) = Frame(n)
    BY <1>7, <2>1 DEF Written, WrittenBy, x, d, n
  <2>3. Written(e)' = Frame(n + 1)
    BY <1>3, <1>6, <1>7, <2>1 DEF Written, WrittenBy, x, d
  <2> QED BY <1>4, <2>1, <2>2, <2>3 DEF Exact, ExactIn, Open
<1>10. /\ Awaited(e)' = Awaited(e) /\ Listens(e)' = Listens(e) /\ Listens(d)' = Listens(d)
       /\ Exact(e)' = Exact(e) /\ Exact(d)' = Exact(d)
  BY <1>3, <1>7 DEF Awaited, Listens, Exact, Open
<1>11. Awaited(d)' = Awaited(d)
  <2>1. Awaited(d) = AwaitedBy(x, d, h[d], Len(heard[d])) /\ Awaited(d)' = AwaitedBy(x', d, h[d], Len(heard[d]))
    BY <1>3 DEF Awaited, x
  <2>2. x'.resume = x.resume /\ (\A p, z : After(x', p, z) = After(x, p, z)) /\ Expects(x', d) = Expects(x, d)
    BY <1>7, <1>8, GrowsFacts
  <2> QED BY <2>1, <2>2 DEF AwaitedBy
<1>12. Written(d)' = Written(d)
  BY <1>1, <1>3, <1>7 DEF Written
<1>13. pipe'[e] = pipe[e] /\ pipe'[d] = (IF Open(d) THEN pipe[d] \o Packets(n + 1, size) ELSE pipe[d])
       /\ pipe[d] \in ByteSeq
  BY <1>1, <1>2 DEF Delivered, TypeInv, EndsInv, d
<1>14. EndOK(e)'
  <2>1. StreamOK(e)'
    BY <1>1, <1>7, <1>10, <1>12, <1>13 DEF StreamOK, EndOK, d
  <2>2. VoiceOK(h[e], event[e], heard[e], said'[e], said[d])
    BY <1>1, <1>3 DEF EndOK, VoiceOK, d
  <2> QED BY <1>1, <1>3, <1>6, <2>1, <2>2 DEF EndOK, d
<1>15. EndOK(d)'
  <2>1. StreamOK(d)'
    <3>1. SUFFICES ASSUME Listens(d)
          PROVE  \E b : Leads(x', Awaited(d), pipe'[d], b) /\ (Exact(e) => b \in {Lost, Frame(n + 1)})
      BY <1>1, <1>9, <1>10, <1>11 DEF StreamOK, x
    <3>2. PICK b : Leads(x, Awaited(d), pipe[d], b) /\ b \in {Lost, Frame(n)}
      BY <1>1, <1>9, <3>1 DEF StreamOK, EndOK, x
    <3>3. pipe'[d] = pipe[d] \o Packets(n + 1, size)
      BY <1>13, <3>1 DEF Listens
    <3>4. Leads(x', Awaited(d), pipe[d], b)
      BY <1>8, <3>2, LeadsMore
    <3>5. n \in 0..Len(x'.said) - 1 /\ x'.said[n + 1] = size
      BY <1>6, <1>7
    <3>6. Leads(x', Frame(n), Packets(n + 1, size), Frame(n + 1)) /\ Packets(n + 1, size) \in ByteSeq
      BY <1>6, <3>5, FrameLeads
    <3>7. pipe[d] \in Seq(Byte) /\ Packets(n + 1, size) \in Seq(Byte)
      BY <1>13, <3>6 DEF ByteSeq, Byte
    <3>8. PICK z \in {Lost, Frame(n + 1)} : Leads(x', b, Packets(n + 1, size), z)
      BY <3>2, <3>6, <3>7, LostLeads
    <3>9. Leads(x', Awaited(d), pipe[d] \o Packets(n + 1, size), z)
      BY <3>4, <3>7, <3>8, LeadsJoin
    <3> QED BY <3>3, <3>8, <3>9
  <2>2. VoiceOK(h[d], event[d], heard[d], said[d], said'[e])
    <3>1. VoiceOK(h[d], event[d], heard[d], said[d], said[e])
      BY <1>1 DEF EndOK
    <3>2. \A k \in Nat : k <= n => k <= Len(said'[e]) /\ (k >= 1 => said'[e][k] = said[e][k])
      BY <1>6
    <3>3. heard[d] \in Seq(ByteSeq)
      BY <1>1 DEF TypeInv, DataInv
    <3>4. \A k \in DOMAIN heard[d] : k \in Nat /\ k >= 1
      BY <3>3
    <3>5. Len(heard[d]) + 1 \in Nat /\ Len(heard[d]) + 1 >= 1
      BY <3>3
    <3> QED BY <3>1, <3>2, <3>4, <3>5 DEF VoiceOK, n
  <2> QED BY <1>1, <1>3, <1>6, <2>1, <2>2 DEF EndOK
<1>16. CountOK'
  BY <1>5 DEF CountOK, Counts
<1> QED BY <1>1, <1>3, <1>14, <1>15, <1>16 DEF Main

(***************************************************************************)
(* Every step keeps the invariant.                                         *)
(***************************************************************************)

\* One call of gg_dcc_watch_fd.
LEMMA HandshakeMain ==
    ASSUME TypeInv, TypeInv', Main, Uncut', NEW e \in Ends, WatchHandshake(e), UNCHANGED <<plan, link>>
    PROVE  Main'
<1>1. CASE ReadsShort(e)
  BY <1>1, ShortMain
<1>2. CASE ReadingUin(e)
  BY <1>2, UinMain
<1>3. CASE SendingAck(e)
  BY <1>3, AckMain
<1>4. CASE ReadingType(e)
  BY <1>4, TypeMain
<1>5. CASE ReadingRequest(e)
  BY <1>5, RequestMain
<1>6. CASE Connecting(e)
  BY <1>6, ConnectMain
<1>7. CASE ReadingAck(e)
  BY <1>7, AckReadMain
<1>8. CASE SendingRequest(e)
  BY <1>8, CallMain
<1> QED BY <1>1, <1>2, <1>3, <1>4, <1>5, <1>6, <1>7, <1>8 DEF WatchHandshake

\* A step with a file.
LEMMA FileMain ==
    ASSUME TypeInv, TypeInv', Main, Uncut', NEW e \in Ends, WatchFile(e), UNCHANGED <<plan, link>>
    PROVE  Main'
<1>1. CASE SendingFileInfo(e)
  BY <1>1, InfoMain
<1>2. CASE ReadingFileInfo(e)
  BY <1>2, InfoReadMain
<1>3. CASE SendingFileAck(e)
  BY <1>3, FileAckMain
<1>4. CASE ReadingFileAck(e)
  BY <1>4, FileAckReadMain
<1>5. CASE SendingFileHeader(e)
  BY <1>5, HeaderMain
<1>6. CASE ReadingFileHeader(e)
  BY <1>6, HeaderReadMain
<1>7. CASE SendingFile(e)
  BY <1>7, SendingMain
<1>8. CASE GettingFile(e)
  BY <1>8, GettingMain
<1> QED BY <1>1, <1>2, <1>3, <1>4, <1>5, <1>6, <1>7, <1>8 DEF WatchFile

\* A step of a voice chat.
LEMMA VoiceMain ==
    ASSUME TypeInv, TypeInv', Main, Uncut', NEW e \in Ends, WatchVoice(e), UNCHANGED <<plan, link>>
    PROVE  Main'
<1>1. CASE SendingVoiceRequest(e)
  BY <1>1, VoiceRequestMain
<1>2. CASE SendingVoiceAck(e)
  BY <1>2, VoiceAckMain
<1>3. CASE ReadingVoiceAck(e)
  BY <1>3, VoiceAckReadMain
<1>4. CASE ReadingVoiceHeader(e)
  BY <1>4, VoiceHeaderMain
<1>5. CASE ReadingVoiceSize(e)
  BY <1>5, VoiceSizeMain
<1>6. CASE ReadingVoiceData(e)
  BY <1>6, VoiceDataMain
<1> QED BY <1>1, <1>2, <1>3, <1>4, <1>5, <1>6 DEF WatchVoice

\* What went wrong stays in the history.
LEMMA FaultsGrow ==
    ASSUME [Next]_vars
    PROVE  faults \subseteq faults'
<1> USE DEF Fault
<1>1. ASSUME NEW e \in Ends, WatchHandshake(e) PROVE faults \subseteq faults'
  <2>1. CASE ReadsShort(e)
    BY <2>1 DEF ReadsShort
  <2>2. CASE ReadingUin(e) \/ ReadingType(e) \/ ReadingRequest(e) \/ ReadingAck(e)
    BY <2>2 DEF ReadingUin, ReadingType, ReadingRequest, ReadingAck, Reads
  <2>3. CASE SendingAck(e) \/ Connecting(e) \/ SendingRequest(e)
    BY <2>3 DEF SendingAck, Connecting, SendingRequest, Writes
  <2> QED BY <1>1, <2>1, <2>2, <2>3 DEF WatchHandshake
<1>2. ASSUME NEW e \in Ends, WatchFile(e) PROVE faults \subseteq faults'
  <2>1. CASE SendingFileInfo(e) \/ SendingFileAck(e) \/ SendingFileHeader(e)
    BY <2>1 DEF SendingFileInfo, SendingFileAck, SendingFileHeader, Writes
  <2>2. CASE ReadingFileInfo(e) \/ ReadingFileAck(e)
    BY <2>2 DEF ReadingFileInfo, ReadingFileAck, Reads
  <2>3. CASE ReadingFileHeader(e)
    BY <2>3 DEF ReadingFileHeader
  <2>4. CASE SendingFile(e)
    BY <2>4 DEF SendingFile
  <2>5. CASE GettingFile(e)
    BY <2>5 DEF GettingFile
  <2> QED BY <1>2, <2>1, <2>2, <2>3, <2>4, <2>5 DEF WatchFile
<1>3. ASSUME NEW e \in Ends, WatchVoice(e) PROVE faults \subseteq faults'
  <2>1. CASE SendingVoiceRequest(e) \/ SendingVoiceAck(e)
    BY <2>1 DEF SendingVoiceRequest, SendingVoiceAck, Writes
  <2>2. CASE ReadingVoiceAck(e) \/ ReadingVoiceHeader(e) \/ ReadingVoiceSize(e)
    BY <2>2 DEF ReadingVoiceAck, ReadingVoiceHeader, ReadingVoiceSize, Reads
  <2>3. CASE ReadingVoiceData(e)
    BY <2>3 DEF ReadingVoiceData
  <2> QED BY <1>3, <2>1, <2>2, <2>3 DEF WatchVoice
<1>4. ASSUME NEW e \in Ends, Handles(e) PROVE faults \subseteq faults'
  BY <1>4 DEF Handles, SetType, AcceptFile, GoesOn, FillFileInfo, DccFree, Given
<1>5. ASSUME NEW e \in Ends, Says(e) \/ GivesUp(e) \/ Refuses(e) PROVE faults \subseteq faults'
  BY <1>5 DEF Says, VoiceSend, GivesUp, Refuses, RefusesFile, RefusesVoice
<1>6. ASSUME Transfer \/ Accepts \/ Breaks \/ FileChanges \/ (\E asked \in Asked : SocketCreate(asked))
      PROVE  faults \subseteq faults'
  BY <1>6 DEF Transfer, Accepts, Accept, Breaks, FileChanges, SocketCreate, endVars
<1> QED BY <1>1, <1>2, <1>3, <1>4, <1>5, <1>6 DEF Next, Watch, vars

\* The handlers and what else an end does.
LEMMA EndMain ==
    ASSUME TypeInv, TypeInv', Main, Uncut', NEW e \in Ends, faults \subseteq faults',
           Watch(e) \/ Handles(e) \/ Says(e) \/ GivesUp(e) \/ Refuses(e)
    PROVE  Main'
<1>1. CASE Watch(e)
  BY <1>1, HandshakeMain, FileMain, VoiceMain DEF Watch
<1>2. CASE SetType(e)
  BY <1>2, SetTypeMain
<1>3. CASE AcceptFile(e)
  BY <1>3, AcceptFileMain
<1>4. CASE GoesOn(e)
  BY <1>4, GoesOnMain
<1>5. CASE FillFileInfo(e)
  BY <1>5, FillMain
<1>6. CASE DccFree(e)
  BY <1>6, FreesMain DEF DccFree
<1>7. CASE GivesUp(e)
  BY <1>7, FreesMain DEF GivesUp
<1>8. CASE Says(e)
  BY <1>8, SayMain DEF Says
<1>9. CASE Refuses(e)
  BY <1>9, RefusesMain
<1> QED BY <1>1, <1>2, <1>3, <1>4, <1>5, <1>6, <1>7, <1>8, <1>9 DEF Handles

\* The inductive invariant.
IInv == TypeInv /\ (Uncut => Main)

\* At the start nothing is on its way, and each awaits what the other will write.
LEMMA MainInit == Init => Main
<1> SUFFICES ASSUME Init PROVE Main
  OBVIOUS
<1>1. /\ h = [e \in Ends |-> None] /\ event = [e \in Ends |-> "NONE"] /\ pipe = [e \in Ends |-> <<>>]
      /\ got = <<>> /\ said = [e \in Ends |-> <<>>] /\ heard = [e \in Ends |-> <<>>]
  BY DEF Init
<1>2. None.state = "none" /\ ~LiveIn(None) /\ "NONE" \notin Over /\ "NONE" # "DONE"
  BY DEF None, LiveIn, Over
<1>3. got = FileBytes(0, Len(got))
  <2>1. 0 \in Int /\ 0 \in Nat /\ Len(<<>>) = 0
    OBVIOUS
  <2>2. FileBytes(0, 0) \in ByteSeq /\ Len(FileBytes(0, 0)) = 0
    BY <2>1, BytesFacts
  <2> HIDE DEF FileBytes
  <2>3. FileBytes(0, 0) = <<>>
    BY <2>2 DEF ByteSeq
  <2> QED BY <1>1, <2>1, <2>3
<1>4. ASSUME NEW e \in Ends PROVE EndOK(e)
  <2>1. Peer(e) \in Ends /\ Peer(Peer(e)) = e /\ h[e] = None /\ h[Peer(e)] = None /\ event[e] = "NONE"
        /\ event[Peer(e)] = "NONE" /\ pipe[e] = <<>> /\ said[e] = <<>> /\ heard[e] = <<>>
    BY <1>1, EndsFacts
  <2>2. Awaited(e) = At(IF e = "caller" THEN "ack" ELSE "uin1")
    BY <1>2, <2>1 DEF Awaited, AwaitedBy
  <2>3. Written(Peer(e)) = At(IF Peer(e) = "caller" THEN "uin1" ELSE "ack")
    BY <1>2, <2>1 DEF Written, WrittenBy
  <2>4. StreamOK(e)
    <3>1. Awaited(e) = Written(Peer(e))
      BY <2>2, <2>3 DEF Peer, Ends
    <3>2. Leads(Script(e), Awaited(e), pipe[e], Written(Peer(e)))
      BY <2>1, <3>1, LeadsNone
    <3> QED BY <3>2 DEF StreamOK
  <2>5. KindOK(plan, e, h[e], event[e])
    BY <1>2, <2>1 DEF KindOK
  <2>6. FileOK(plan, e, h[e], event[e], got)
    BY <1>1, <1>2, <2>1 DEF FileOK, HasFile, OpenedIn, Sends, Gets
  <2>7. VoiceOK(h[e], event[e], heard[e], said[e], said[Peer(e)])
    BY <1>2, <2>1 DEF VoiceOK
  <2> QED BY <2>4, <2>5, <2>6, <2>7 DEF EndOK
<1>5. CountOK
  <2>1. Sender \in Ends /\ Receiver \in Ends
    BY EndsFacts DEF Sender, Receiver, Peer, Ends
  <2>2. GoneIn(plan, h[Sender]) = plan.resume /\ GoneIn(plan, h[Receiver]) = plan.resume
    BY <1>1, <1>2, <2>1 DEF GoneIn, Sends, Gets
  <2>3. pipe[Receiver] = <<>> /\ <<>> \in Seq(Byte) /\ Len(<<>>) = 0
    BY <1>1, <2>1
  <2>4. DataIn(pipe[Receiver]) = 0
    <3> DEFINE s == pipe[Receiver]
    <3>1. s \in Seq(Byte) /\ \A i \in 1..Len(s) : s[i][1][1] # "data"
      BY <2>3
    <3> HIDE DEF s
    <3>2. DataIn(s) = 0
      BY <3>1, DataAll
    <3> QED BY <3>2 DEF s
  <2>5. plan.resume \in Int
    <3>1. TypeInv
      BY TypeInit
    <3>2. plan.resume \in Number
      BY <3>1, ConstantFacts DEF TypeInv, DataInv
    <3> QED BY <3>2, ConstantFacts DEF Number
  <2> QED BY <2>2, <2>4, <2>5 DEF CountOK
<1> QED BY <1>3, <1>4, <1>5 DEF Main

\* As long as writes are whole, what is on its way leads from one end to the other.
LEMMA MainNext ==
    ASSUME IInv, [Next]_vars
    PROVE  IInv'
<1>1. TypeInv /\ TypeInv' /\ faults \subseteq faults'
  BY TypeNext, FaultsGrow DEF IInv
<1>2. SUFFICES ASSUME Uncut' PROVE Main'
  BY <1>1 DEF IInv
<1>3. Main
  BY <1>1, <1>2 DEF IInv, Uncut
<1>4. CASE UNCHANGED vars \/ FileChanges \/ (\E asked \in Asked : SocketCreate(asked))
  <2>1. UNCHANGED <<plan, h, event, link, pipe, got, said, heard>>
    BY <1>4 DEF vars, FileChanges, SocketCreate, endVars, dataVars
  <2> QED BY <1>1, <1>3, <2>1, AsideMain
<1>5. CASE Transfer \/ Accepts
  BY <1>1, <1>3, <1>5, BeginsMain
<1>6. CASE Breaks
  BY <1>3, <1>6, BreaksMain
<1>7. ASSUME NEW e \in Ends, Watch(e) \/ Handles(e) \/ Says(e) \/ GivesUp(e) \/ Refuses(e) PROVE Main'
  BY <1>1, <1>2, <1>3, <1>7, EndMain
<1> QED BY <1>4, <1>5, <1>6, <1>7 DEF Next

\* The inductive invariant holds all the time.
LEMMA Invariance == Spec => []IInv
<1>1. Init => IInv
  BY TypeInit, MainInit DEF IInv
<1>2. IInv /\ [Next]_vars => IInv'
  BY MainNext
<1> QED BY <1>1, <1>2, PTL DEF Spec

\* Files and voices arrive as they were sent.
THEOREM ReceivedCorrect == Spec => []ReceivedIsSent
<1>1. IInv => ReceivedIsSent
  <2>1. IInv => FileIsPrefix
    BY DEF IInv, FileIsPrefix, Main
  <2>2. IInv => DoneIsWhole
    <3>1. SUFFICES ASSUME IInv, Uncut, Live(Receiver), event[Receiver] = "DONE"
          PROVE  Len(got) = h[Receiver].size
      BY DEF DoneIsWhole
    <3>2. Receiver \in Ends /\ Receiver = ReceiverIn(plan)
      BY EndsFacts DEF Receiver, ReceiverIn, Sender, SenderIn, Peer, Ends
    <3>3. FileOK(plan, Receiver, h[Receiver], "DONE", got) /\ LiveIn(h[Receiver])
      BY <3>1, <3>2, TurnFacts DEF IInv
    <3> QED BY <3>2, <3>3 DEF FileOK, HasFile
  <2>3. IInv => VoiceInOrder
    <3>1. SUFFICES ASSUME IInv, Uncut, NEW e \in Ends, NEW n \in DOMAIN heard[e]
          PROVE  n <= Len(said[Peer(e)]) /\ heard[e][n] = FrameBytes(n, said[Peer(e)][n])
      BY DEF VoiceInOrder
    <3>2. VoiceOK(h[e], event[e], heard[e], said[e], said[Peer(e)])
      BY <3>1 DEF IInv, Main, EndOK
    <3> QED BY <3>2 DEF VoiceOK
  <2> QED BY <2>1, <2>2, <2>3 DEF ReceivedIsSent
<1> QED BY <1>1, Invariance, PTL

\* What one end believes of the transfer is what the other believes.
THEOREM EndsAgreeing == Spec => []EndsAgree
<1> DEFINE s == Sender
           r == Receiver
<1>1. ASSUME IInv, Uncut
      PROVE  /\ s = SenderIn(plan) /\ r = ReceiverIn(plan) /\ s \in Ends /\ r \in Ends /\ s # r
             /\ plan.voice \in BOOLEAN /\ plan.callback \in BOOLEAN
             /\ \A e \in Ends : KindOK(plan, e, h[e], event[e])
  <2>1. s = SenderIn(plan) /\ r = ReceiverIn(plan) /\ s \in Ends /\ r \in Ends /\ s # r
    BY EndsFacts DEF Receiver, ReceiverIn, Sender, SenderIn, Peer, Ends
  <2>2. plan \in [voice : BOOLEAN, callback : BOOLEAN, resume : Resumes, size : FileSizes]
    BY <1>1 DEF IInv, TypeInv, DataInv
  <2> QED BY <1>1, <2>1, <2>2 DEF IInv, Main, EndOK
<1>2. \A x \in Sends \cup Gets \cup Chats :
        x \notin {"none", "closed", "READING_UIN_1", "READING_UIN_2", "READING_REQUEST", "SENDING_FILE_INFO"}
             \cup MeetStates("caller") \cup MeetStates("listener")
  BY DEF Sends, Gets, Chats, MeetStates
<1>3. IInv => KindsAgree
  <2>1. SUFFICES ASSUME IInv, Uncut, \A e \in Ends : Talks(e)
        PROVE  /\ h[s].type = IF plan.voice THEN "VOICE" ELSE "SEND"
               /\ h[r].type = IF plan.voice THEN "VOICE" ELSE "GET"
               /\ h.listener.uin = 2 /\ h.listener.peerUin = 1
    BY DEF KindsAgree, Uin
  <2> HIDE DEF s, r
  <2>2. ASSUME NEW e \in Ends
        PROVE  /\ h[e].type = IF plan.voice THEN "VOICE" ELSE IF e = s THEN "SEND" ELSE "GET"
               /\ e = "listener" => h[e].uin = 2 /\ h[e].peerUin = 1
    <3>1. h[e].state \in Sends \cup Gets \cup Chats
      BY <2>1 DEF Talks
    <3>2. LiveIn(h[e]) /\ KindOK(plan, e, h[e], event[e])
      BY <1>1, <1>2, <2>1, <3>1 DEF LiveIn
    <3>3. event[e] # "CALLBACK"
      BY <1>2, <3>1, <3>2 DEF KindOK
    <3>4. h[e].type = TypeIn(plan, e, h[e], event[e])
      BY <3>2 DEF KindOK
    <3>5. h[e].type = IF plan.voice THEN "VOICE" ELSE IF e = s THEN "SEND" ELSE "GET"
      BY <1>1, <1>2, <2>1, <3>1, <3>3, <3>4 DEF TypeIn
    <3> QED BY <1>2, <3>1, <3>2, <3>5 DEF KindOK
  <2>3. "listener" \in Ends
    BY DEF Ends
  <2> QED BY <1>1, <2>1, <2>2, <2>3
<1>4. IInv => OffsetsAgree
  <2>1. SUFFICES ASSUME IInv, Uncut, link = "up", faults \cap {"disk", "refused"} = {},
                        h[s].state \in Sends, h[r].state \in Gets
        PROVE  h[s].offset = h[r].offset + InPipe
    BY DEF OffsetsAgree
  <2> HIDE DEF s, r
  <2>2. KindOK(plan, s, h[s], event[s]) /\ LiveIn(h[s])
    BY <1>1, <1>2, <2>1 DEF LiveIn
  <2>3. ~plan.voice
    BY <1>1, <2>1, <2>2, KindStates
  <2>4. \A e \in Ends : Open(e)
    BY <1>1, <1>2, <2>1, EndsFacts DEF Open, s, r, Receiver
  <2>5. Counts
    BY <2>1, <2>3, <2>4 DEF Counts, r
  <2>6. GoneIn(plan, h[s]) = GoneIn(plan, h[r]) + DataIn(pipe[r])
    BY <2>1, <2>5 DEF IInv, Main, CountOK, s, r
  <2> QED BY <2>1, <2>6 DEF GoneIn, DataIn, InPipe, r
<1> QED BY <1>3, <1>4, Invariance, PTL DEF EndsAgree

===============================================================================
