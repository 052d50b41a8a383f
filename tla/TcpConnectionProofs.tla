------------------------- MODULE TcpConnectionProofs -------------------------
(***************************************************************************)
(* Theorems about TcpConnection, for any number of user threads, any       *)
(* messages and any high-water mark.  The byte stream and the reading flag *)
(* are right for every program; the write interest, the callbacks and the  *)
(* assertions are right for every program that keeps to the rules of       *)
(* Disciplined.                                                            *)
(***************************************************************************)
EXTENDS TcpConnection, SequenceTheorems, TLAPS

\* A functor that sends carries a message.
Functor == {f \in [op : Op, msg : Messages \cup {None}] : f.op = "send" => f.msg \in Messages}

\* The queue q holds a functor op; it holds one at most.
Has(q, op) == \E i \in DOMAIN q : q[i].op = op
AtMostOne(q, op) == \A i, j \in DOMAIN q : q[i].op = op /\ q[j].op = op => i = j

\* The iteration of the I/O loop: its functors, and callbacks only between the
\* poll and the functors.  Only a reset is reported as a close, and then the
\* read callback is not due.
Iteration ==
    /\ functors \in Seq(Functor)
    /\ io = "run" <=> batch > 0
    /\ io # "handle" => revents = {}
    /\ "close" \in revents => "read" \notin revents /\ peer = "reset"

\* Bytes are dropped only on a socket that the peer reset.
Stream == (lost => peer = "reset") /\ StreamIntact

\* Nothing happens to a connection before connectEstablished has run, and it
\* runs first.
Fresh ==
    /\ state = "KConnecting" /\ reading /\ events = {} /\ index = "kNew"
    /\ outputBuffer = <<>> /\ held = {} /\ revents = {}
    /\ down = 0 /\ removals = 0 /\ closes = 0
    /\ functors # <<>> /\ functors[1].op = "connectEstablished"
    /\ \A i \in DOMAIN functors : i > 1 => functors[i].op = "connectDestroyed"

\* Once it has run it never runs again.
Establishment ==
    /\ up \in {0, 1}
    /\ up = 0 => Fresh
    /\ up = 1 => state # "KConnecting" /\ ~Has(functors, "connectEstablished")

\* The inductive invariant of every program.
Inv == TypeOK /\ Iteration /\ Stream /\ Establishment /\ ReadInterest

\* The user was told that the connection is down exactly when it is.
Told ==
    up = 1 => /\ state = "KDisconnected" <=> down = 1
              /\ Open <=> down = 0

\* A closed connection watches nothing, and the poller forgets it only in
\* connectDestroyed.
Watched ==
    /\ state = "KDisconnected" => events = {}
    /\ Open => index # "kNew"
    /\ owned \/ Has(functors, "connectDestroyed") => up = 0 \/ index # "kNew"

\* The way of a connection out of connections_: closed, one removal queued in
\* the base loop, one connectDestroyed queued in its own; or straight to the
\* latter when the server dies.
Ownership ==
    /\ removals \in {0, 1}
    /\ removals = 1 => owned /\ down = 1 /\ server = "alive"
    /\ owned => ~Has(functors, "connectDestroyed")
    /\ owned /\ removals = 0 => down = 0
    /\ AtMostOne(functors, "connectDestroyed")
    /\ ~owned /\ ~Has(functors, "connectDestroyed") => up = 1 /\ down = 1 /\ index = "kNew"
    /\ ~owned /\ state # "KDisconnected" => server = "destroyed"
    /\ server = "destroyed" => ~owned /\ client.serverDies
    /\ client.serverDies => removals = 0

\* Who may be inside forceClose(), and what is left of the calls made.
Closing ==
    /\ closes = 0 => /\ \A t \in Threads : thread[t] = "idle"
                     /\ ~Has(functors, "forceClose")
                     /\ state # "KDisconnecting"
    /\ \A t \in Threads : thread[t] # "idle" => "forceClose" \in client.threadCalls
    /\ \A t \in Threads : thread[t] = "store" =>
           /\ state = "KConnected" /\ ~Has(functors, "forceClose")
           /\ \A u \in Threads : thread[u] # "idle" => u = t

\* What the peer and the requests to read may have done.
Outside ==
    /\ peer # "open" => peer \in client.peerEnds
    /\ Has(functors, "startRead") => "startRead" \in client.threadCalls
    /\ "startRead" \in client.threadCalls => state # "KDisconnected"

\* Callbacks are due only on an open connection; one that the peer may reset
\* is not left in the poller once it is closed.
Reports ==
    /\ revents \cap {"read", "close"} # {} => Open
    /\ "reset" \in client.peerEnds =>
           /\ revents \cap {"read", "close"} # {} => index = "kAdded"
           /\ state = "KDisconnected" => index # "kAdded"
           /\ client.maxCloses > 0 /\ Open => "read" \in events /\ index = "kAdded"

\* The inductive invariant of a disciplined program.
DisciplinedInv ==
    /\ Inv
    /\ Disciplined(client) /\ failed = "none"
    /\ Told /\ Watched /\ Ownership /\ Closing /\ Outside /\ Reports
    /\ WriteInterest
-----------------------------------------------------------------------------
(* Facts about queues of functors.                                         *)

\* The functors the handlers push.
LEMMA TaskType ==
    ASSUME NEW op \in Op \ {"send"}
    PROVE  Task(op) \in Functor /\ Task(op).op = op
BY DEF Task, Functor

\* A queue after a push.
LEMMA PushFacts ==
    ASSUME NEW q \in Seq(Functor), NEW f \in Functor
    PROVE  /\ Append(q, f) \in Seq(Functor) /\ q \o <<f>> = Append(q, f)
           /\ Len(q) \in Nat /\ Len(Append(q, f)) = Len(q) + 1
           /\ \A i \in DOMAIN q : i \in DOMAIN Append(q, f) /\ Append(q, f)[i] = q[i]
           /\ \A op : Has(Append(q, f), op) <=> Has(q, op) \/ f.op = op
           /\ \A op : AtMostOne(q, op) /\ (f.op = op => ~Has(q, op))
                         => AtMostOne(Append(q, f), op)
<1>1. /\ Append(q, f) \in Seq(Functor) /\ q \o <<f>> = Append(q, f)
      /\ Len(q) \in Nat /\ Len(Append(q, f)) = Len(q) + 1
      /\ DOMAIN q = 1..Len(q) /\ DOMAIN Append(q, f) = 1..(Len(q) + 1)
  BY AppendIsConcat, LenProperties, AppendProperties
<1>2. \A i \in 1..Len(q) : Append(q, f)[i] = q[i]
  BY AppendProperties
<1>3. Append(q, f)[Len(q) + 1] = f
  BY AppendProperties
<1>4. \A op : Has(Append(q, f), op) <=> Has(q, op) \/ f.op = op
  BY <1>1, <1>2, <1>3 DEF Has
<1>5. \A op : AtMostOne(q, op) /\ (f.op = op => ~Has(q, op)) => AtMostOne(Append(q, f), op)
  <2> SUFFICES ASSUME NEW op, AtMostOne(q, op), f.op = op => ~Has(q, op),
                      NEW i \in 1..(Len(q) + 1), NEW j \in 1..(Len(q) + 1),
                      Append(q, f)[i].op = op, Append(q, f)[j].op = op
               PROVE  i = j
    BY <1>1 DEF AtMostOne
  <2>1. CASE i \in 1..Len(q) /\ j \in 1..Len(q)
    BY <2>1, <1>1, <1>2 DEF AtMostOne
  <2>2. CASE i = Len(q) + 1 /\ j \in 1..Len(q)
    BY <2>2, <1>1, <1>2, <1>3 DEF Has
  <2>3. CASE j = Len(q) + 1 /\ i \in 1..Len(q)
    BY <2>3, <1>1, <1>2, <1>3 DEF Has
  <2> QED BY <2>1, <2>2, <2>3, <1>1
<1> QED BY <1>1, <1>2, <1>4, <1>5

\* A queue after its first functor was taken.
LEMMA PopFacts ==
    ASSUME NEW q \in Seq(Functor), q # <<>>
    PROVE  /\ Head(q) \in Functor /\ Head(q) = q[1] /\ 1 \in DOMAIN q
           /\ Tail(q) \in Seq(Functor)
           /\ Len(q) \in Nat \ {0} /\ Len(Tail(q)) = Len(q) - 1
           /\ \A i \in DOMAIN Tail(q) : i + 1 \in DOMAIN q /\ i + 1 > 1 /\ Tail(q)[i] = q[i + 1]
           /\ \A op : Has(Tail(q), op) => Has(q, op)
           /\ \A op : Has(q, op) => Has(Tail(q), op) \/ Head(q).op = op
           /\ \A op : AtMostOne(q, op) => AtMostOne(Tail(q), op)
           /\ \A op : AtMostOne(q, op) /\ Head(q).op = op => ~Has(Tail(q), op)
<1>1. /\ Head(q) \in Functor /\ Head(q) = q[1] /\ Tail(q) \in Seq(Functor)
      /\ Len(q) \in Nat \ {0} /\ Len(Tail(q)) = Len(q) - 1
      /\ DOMAIN q = 1..Len(q) /\ DOMAIN Tail(q) = 1..(Len(q) - 1)
  BY EmptySeq, LenProperties, HeadTailProperties
<1>2. \A i \in 1..(Len(q) - 1) : Tail(q)[i] = q[i + 1]
  BY <1>1, HeadTailProperties
<1>3. \A op : Has(Tail(q), op) => Has(q, op)
  BY <1>1, <1>2 DEF Has
<1>4. \A op : Has(q, op) => Has(Tail(q), op) \/ Head(q).op = op
  <2> SUFFICES ASSUME NEW op, NEW i \in 1..Len(q), q[i].op = op, Head(q).op # op
               PROVE  Has(Tail(q), op)
    BY <1>1 DEF Has
  <2>1. i # 1 /\ i - 1 \in 1..(Len(q) - 1) /\ (i - 1) + 1 = i
    BY <1>1
  <2> QED BY <2>1, <1>1, <1>2 DEF Has
<1>5. \A op : AtMostOne(q, op) => AtMostOne(Tail(q), op)
  BY <1>1, <1>2 DEF AtMostOne
<1>6. \A op : AtMostOne(q, op) /\ Head(q).op = op => ~Has(Tail(q), op)
  BY <1>1, <1>2 DEF AtMostOne, Has
<1> QED BY <1>1, <1>2, <1>3, <1>4, <1>5, <1>6

\* The queue r is q with only callbacks of the user added.
Grown(q, r) ==
    /\ r \in Seq(Functor) /\ Len(r) >= Len(q)
    /\ \A op \in Op \ {"writeComplete", "highWaterMark"} :
           /\ Has(r, op) <=> Has(q, op)
           /\ AtMostOne(q, op) => AtMostOne(r, op)

\* Pushing such a callback, or nothing, keeps it so.
LEMMA GrownFacts ==
    ASSUME NEW q \in Seq(Functor), NEW r, Grown(q, r), NEW s,
           s \in {<<>>, <<Task("writeComplete")>>, <<Task("highWaterMark")>>}
    PROVE  Grown(q, r \o s)
<1>1. CASE s = <<>>
  <2>1. r \o s = r
    BY <1>1, ConcatEmptySeq DEF Grown
  <2> QED BY <2>1
<1>2. ASSUME NEW op \in {"writeComplete", "highWaterMark"}, s = <<Task(op)>>
      PROVE  Grown(q, r \o s)
  <2>1. Task(op) \in Functor /\ Task(op).op = op
    BY TaskType DEF Op
  <2>2. r \in Seq(Functor) /\ Len(q) \in Nat
    BY LenProperties DEF Grown
  <2> DEFINE f == Task(op)
  <2> HIDE DEF f
  <2>3. f \in Functor /\ f.op = op /\ r \o s = Append(r, f)
    BY <1>2, <2>1, <2>2, PushFacts DEF f
  <2>4. Append(r, f) \in Seq(Functor) /\ Len(Append(r, f)) >= Len(q)
    BY <2>2, <2>3, PushFacts DEF Grown
  <2>5. ASSUME NEW o \in Op \ {"writeComplete", "highWaterMark"}
        PROVE  /\ Has(Append(r, f), o) <=> Has(q, o)
               /\ AtMostOne(q, o) => AtMostOne(Append(r, f), o)
    BY <2>2, <2>3, <2>5, PushFacts DEF Grown
  <2> QED BY <2>3, <2>4, <2>5 DEF Grown
<1> QED BY <1>1, <1>2
-----------------------------------------------------------------------------
(* Facts about the byte stream.                                            *)

\* A message is a non-empty sequence of bytes, cut in two by a partial write.
LEMMA BytesFacts ==
    ASSUME NEW m \in Messages, NEW n \in 0..MsgLen
    PROVE  /\ Bytes(m) \in Seq(Byte) /\ Len(Bytes(m)) = MsgLen
           /\ SubSeq(Bytes(m), 1, n) \in Seq(Byte)
           /\ Remaining(Bytes(m), n) \in Seq(Byte)
           /\ Len(Remaining(Bytes(m), n)) = MsgLen - n
           /\ SubSeq(Bytes(m), 1, n) \o Remaining(Bytes(m), n) = Bytes(m)
<1> USE ConstantsAssumption
<1>1. Bytes(m) \in Seq(Byte) /\ Len(Bytes(m)) = MsgLen
  BY DEF Bytes, Byte
<1>2. \A i \in 1..MsgLen : Bytes(m)[i] \in Byte
  BY DEF Bytes, Byte
<1>3. SubSeq(Bytes(m), 1, n) \in Seq(Byte)
  BY <1>2, SubSeqProperties
<1>4. /\ SubSeq(Bytes(m), n + 1, MsgLen) \in Seq(Byte)
      /\ Len(SubSeq(Bytes(m), n + 1, MsgLen)) = MsgLen - n
  <2>1. \A i \in (n + 1)..MsgLen : Bytes(m)[i] \in Byte
    BY <1>2
  <2> QED BY <2>1, SubSeqProperties
<1>5. SubSeq(Bytes(m), 1, n) \o SubSeq(Bytes(m), n + 1, MsgLen) = SubSeq(Bytes(m), 1, MsgLen)
  BY <1>1, ConcatAdjacentSubSeq
<1>6. SubSeq(Bytes(m), 1, MsgLen) = Bytes(m)
  BY <1>1, SubSeqFull
<1> QED BY <1>1, <1>3, <1>4, <1>5, <1>6 DEF Remaining

\* Concatenation of byte sequences is associative.
LEMMA StreamAssociative ==
    \A s, t, u \in Seq(Byte) : (s \o t) \o u = s \o (t \o u)
BY ConcatAssociative

\* A prefix stays one when the longer sequence grows.
LEMMA PrefixGrows ==
    ASSUME NEW s \in Seq(Byte), NEW t \in Seq(Byte), NEW u \in Seq(Byte), IsPrefix(s, t)
    PROVE  IsPrefix(s, t \o u)
<1>1. Len(s) \in Nat /\ Len(t) \in Nat /\ Len(u) \in Nat /\ Len(s) <= Len(t)
      /\ Len(t \o u) = Len(t) + Len(u)
  BY LenProperties, ConcatProperties DEF IsPrefix
<1>2. SubSeq(t \o u, 1, Len(s)) = SubSeq(t, 1, Len(s))
  <2>1. CASE Len(s) = 0
    BY <2>1, SubSeqEmpty
  <2>2. CASE Len(s) > 0
    BY <2>2, <1>1, SubSeqOfConcat1
  <2> QED BY <1>1, <2>1, <2>2
<1> QED BY <1>1, <1>2 DEF IsPrefix

\* What is sent is a prefix of what is sent followed by what is kept.
LEMMA PrefixOfConcat ==
    ASSUME NEW s \in Seq(Byte), NEW t \in Seq(Byte)
    PROVE  IsPrefix(s, s \o t)
<1>1. IsPrefix(s, s)
  BY LenProperties DEF IsPrefix
<1> QED BY <1>1, PrefixGrows

\* What sendInLoop does to the channel: nothing while there is no data to wait
\* for or writing is on already, else it turns writing on.
SendInterest ==
    \/ /\ events' = events /\ index' = index
       /\ \/ outputBuffer' = outputBuffer
          \/ state # "KDisconnected" /\ outputBuffer' # <<>> /\ "write" \in events
    \/ /\ state # "KDisconnected" /\ outputBuffer' # <<>>
       /\ events' = events \cup {"write"} /\ index' = "kAdded"

\* sendInLoop keeps the stream in order, pushes callbacks of the user only, and
\* waits for room exactly when data is left.
LEMMA SendFacts ==
    ASSUME TypeOK, Stream, NEW m \in Messages, NEW q \in Seq(Functor),
           SendInLoop(m, q), peer' = peer
    PROVE  /\ outputBuffer' \in Seq(Byte) /\ sent' \in Seq(Byte) /\ accepted' \in Seq(Byte)
           /\ lost' \in BOOLEAN
           /\ Stream'
           /\ Grown(q, functors')
           /\ SendInterest
<1>0. /\ outputBuffer \in Seq(Byte) /\ sent \in Seq(Byte) /\ accepted \in Seq(Byte)
      /\ lost \in BOOLEAN /\ MsgLen \in Nat \ {0}
  BY ConstantsAssumption DEF TypeOK
<1>g. Grown(q, q)
  BY LenProperties DEF Grown
<1>1. CASE state = "KDisconnected"
  <2>1. functors' = q /\ UNCHANGED <<dataVars, events, index>>
    BY <1>1 DEF SendInLoop
  <2> QED BY <2>1, <1>0, <1>g DEF dataVars, Stream, StreamIntact, SendInterest
<1>2. CASE state # "KDisconnected"
  <2>1. PICK w \in (IF DirectWrite THEN WriteOutcomes(MsgLen) ELSE [n : {0}, fatal : {FALSE}]) :
          LET rest == Remaining(Bytes(m), w.n)
              keep == ~w.fatal /\ rest # <<>>
              old == Len(outputBuffer)
              high == keep /\ old + Len(rest) >= HighWaterMark /\ old < HighWaterMark
          IN  /\ accepted' = accepted \o Bytes(m)
              /\ sent' = sent \o SubSeq(Bytes(m), 1, w.n)
              /\ lost' = (lost \/ w.fatal)
              /\ outputBuffer' = IF keep THEN outputBuffer \o rest ELSE outputBuffer
              /\ functors' = q \o (IF rest = <<>> THEN <<Task("writeComplete")>> ELSE <<>>)
                               \o (IF high THEN <<Task("highWaterMark")>> ELSE <<>>)
              /\ IF keep /\ "write" \notin events
                 THEN SetEvents(WritingOn) ELSE UNCHANGED <<events, index>>
    BY <1>2 DEF SendInLoop
  <2> DEFINE rest == Remaining(Bytes(m), w.n)
             first == SubSeq(Bytes(m), 1, w.n)
             keep == ~w.fatal /\ rest # <<>>
             high == /\ keep /\ Len(outputBuffer) + Len(rest) >= HighWaterMark
                     /\ Len(outputBuffer) < HighWaterMark
             s1 == IF rest = <<>> THEN <<Task("writeComplete")>> ELSE <<>>
             s2 == IF high THEN <<Task("highWaterMark")>> ELSE <<>>
  <2> HIDE DEF rest, first, keep, high, s1, s2
  <2>2. /\ accepted' = accepted \o Bytes(m)
        /\ sent' = sent \o first
        /\ lost' = (lost \/ w.fatal)
        /\ outputBuffer' = IF keep THEN outputBuffer \o rest ELSE outputBuffer
        /\ functors' = q \o s1 \o s2
        /\ IF keep /\ "write" \notin events
           THEN SetEvents(WritingOn) ELSE UNCHANGED <<events, index>>
    BY <2>1 DEF rest, first, keep, high, s1, s2
  <2>3. /\ w.n \in 0..MsgLen /\ w.fatal \in BOOLEAN
        /\ w.fatal => peer = "reset"
        /\ peer = "reset" => w.n = 0
        /\ w.n > 0 => outputBuffer = <<>>
    <3>1. CASE ~DirectWrite
      <4>1. w \in [n : {0}, fatal : {FALSE}]
        BY <3>1
      <4>2. w.n = 0 /\ ~w.fatal /\ w.fatal \in BOOLEAN
        BY <4>1
      <4>3. w.n \in 0..MsgLen /\ ~(w.n > 0)
        BY <4>2, <1>0
      <4> QED BY <4>2, <4>3, Zenon
    <3>2. CASE DirectWrite /\ peer = "reset"
      <4>1. w \in [n : {0}, fatal : BOOLEAN]
        BY <3>2 DEF WriteOutcomes
      <4>2. w.n = 0 /\ w.fatal \in BOOLEAN
        BY <4>1
      <4>3. w.n \in 0..MsgLen /\ ~(w.n > 0)
        BY <4>2, <1>0
      <4> QED BY <3>2, <4>2, <4>3, Zenon
    <3>3. CASE DirectWrite /\ peer # "reset"
      <4>1. w \in [n : 0..MsgLen, fatal : {FALSE}]
        BY <3>3 DEF WriteOutcomes
      <4>2. w.n \in 0..MsgLen /\ ~w.fatal /\ w.fatal \in BOOLEAN
        BY <4>1
      <4> QED BY <3>3, <4>2, Zenon DEF DirectWrite
    <3> QED BY <3>1, <3>2, <3>3
  <2>4. /\ Bytes(m) \in Seq(Byte) /\ Len(Bytes(m)) = MsgLen
        /\ first \in Seq(Byte) /\ rest \in Seq(Byte) /\ Len(rest) = MsgLen - w.n
        /\ first \o rest = Bytes(m)
    BY <2>3, BytesFacts DEF first, rest
  <2>5. rest = <<>> <=> w.n = MsgLen
    BY <2>3, <2>4, <1>0, EmptySeq
  <2>6. Grown(q, functors')
    <3>1. Grown(q, q \o s1)
      BY <1>g, GrownFacts DEF s1
    <3>2. Grown(q, (q \o s1) \o s2)
      BY <3>1, GrownFacts DEF s2
    <3> QED BY <3>2, <2>2
  <2>7. /\ outputBuffer' \in Seq(Byte) /\ sent' \in Seq(Byte) /\ accepted' \in Seq(Byte)
    BY <2>2, <2>4, <1>0, ConcatProperties
  <2>8. lost' \in BOOLEAN
    BY <2>2
  <2>9. SendInterest
    <3>1. CASE keep
      <4>1. outputBuffer' # <<>>
        BY <3>1, <2>2, <2>4, <1>0, ConcatEqualIffEmpty DEF keep
      <4>2. CASE "write" \notin events
        <5>1. events' = events \cup {"write"} /\ index' = "kAdded"
          BY <3>1, <4>2, <2>2 DEF SetEvents, WritingOn, Updated
        <5> QED BY <5>1, <4>1, <1>2 DEF SendInterest
      <4>3. CASE "write" \in events
        BY <4>1, <4>3, <2>2, <1>2 DEF SendInterest
      <4> QED BY <4>2, <4>3
    <3>2. CASE ~keep
      BY <3>2, <2>2 DEF SendInterest
    <3> QED BY <3>1, <3>2
  <2>10. lost' => peer' = "reset"
    BY <2>2, <2>3 DEF Stream
  <2>11. ~lost' => sent' \o outputBuffer' = accepted'
    <3> SUFFICES ASSUME ~lost' PROVE sent' \o outputBuffer' = accepted'
      OBVIOUS
    <3>1. ~lost /\ ~w.fatal /\ sent \o outputBuffer = accepted
      BY <2>2 DEF Stream, StreamIntact
    <3>2. outputBuffer' = outputBuffer \o rest
      <4>1. CASE rest = <<>>
        BY <4>1, <2>2, <1>0, ConcatEmptySeq DEF keep
      <4>2. CASE rest # <<>>
        BY <4>2, <2>2, <3>1 DEF keep
      <4> QED BY <4>1, <4>2
    <3>3. (sent \o first) \o (outputBuffer \o rest) = (sent \o outputBuffer) \o (first \o rest)
      <4>1. CASE w.n = 0
        <5>1. first = <<>>
          BY <4>1, SubSeqEmpty DEF first
        <5>2. sent \o first = sent /\ first \o rest = rest
          BY <5>1, <2>4, <1>0, ConcatEmptySeq
        <5>3. sent \o (outputBuffer \o rest) = (sent \o outputBuffer) \o rest
          BY <2>4, <1>0, StreamAssociative
        <5> QED BY <5>2, <5>3
      <4>2. CASE w.n > 0
        <5>1. outputBuffer = <<>>
          BY <4>2, <2>3
        <5>2. sent \o outputBuffer = sent /\ outputBuffer \o rest = rest
          BY <5>1, <2>4, <1>0, ConcatEmptySeq
        <5>3. (sent \o first) \o rest = sent \o (first \o rest)
          <6>1. first \in Seq(Byte) /\ rest \in Seq(Byte) /\ sent \in Seq(Byte)
            BY <2>4, <1>0
          <6> QED BY <6>1, StreamAssociative, Zenon
        <5> QED BY <5>2, <5>3
      <4>3. w.n = 0 \/ w.n > 0
        BY <2>3, <1>0
      <4> QED BY <4>1, <4>2, <4>3
    <3> QED BY <3>1, <3>2, <3>3, <2>2, <2>4
  <2>12. IsPrefix(sent', accepted')
    <3>1. CASE lost'
      <4>1. first = <<>> /\ sent' = sent
        <5>1. w.n = 0
          BY <3>1, <2>10, <2>3
        <5>2. first = <<>>
          BY <5>1, SubSeqEmpty DEF first
        <5> QED BY <5>2, <2>2, <1>0, ConcatEmptySeq
      <4>2. IsPrefix(sent, accepted)
        BY DEF Stream, StreamIntact
      <4> QED BY <4>1, <4>2, <2>2, <2>4, <1>0, PrefixGrows
    <3>2. CASE ~lost'
      BY <3>2, <2>11, <2>7, PrefixOfConcat
    <3> QED BY <3>1, <3>2
  <2> QED BY <2>6, <2>7, <2>8, <2>9, <2>10, <2>11, <2>12 DEF Stream, StreamIntact
<1> QED BY <1>1, <1>2
-----------------------------------------------------------------------------
(* Inv holds for every program.                                            *)

\* A queue of functors has the type that TypeOK states.
LEMMA FunctorSeq == Seq(Functor) \subseteq Seq([op : Op, msg : Messages \cup {None}])
<1>1. Functor \subseteq [op : Op, msg : Messages \cup {None}]
  BY DEF Functor
<1> QED BY <1>1, SeqMonotonic

\* A connection just made by TcpServer::newConnection satisfies it.
LEMMA InitInv == Init => Inv
<1> SUFFICES ASSUME Init PROVE Inv
  OBVIOUS
<1> DEFINE f == Task("connectEstablished")
<1>1. f \in Functor /\ f.op = "connectEstablished" /\ functors = <<f>>
  BY TaskType DEF Init, Op
<1> HIDE DEF f
<1>2. functors \in Seq(Functor) /\ Len(functors) = 1 /\ functors # <<>> /\ functors[1] = f
      /\ DOMAIN functors = 1..1
  BY <1>1
<1>3. TypeOK
  <2>1. functors \in Seq([op : Op, msg : Messages \cup {None}])
    BY <1>2, FunctorSeq
  <2>2. client.maxCloses \in Nat
    BY ConstantsAssumption DEF Init
  <2>3. <<>> \in Seq(Byte)
    BY EmptySeq
  <2>4. batch \in 0..Len(functors) /\ closes \in 0..client.maxCloses
    BY <1>2, <2>2 DEF Init
  <2>5. thread \in [Threads -> {"idle", "store", "push"}]
    BY DEF Init
  <2> QED BY <2>1, <2>3, <2>4, <2>5 DEF Init, TypeOK
<1>4. Iteration
  BY <1>2 DEF Init, Iteration
<1>5. Stream
  <2>1. <<>> \in Seq(Byte) /\ <<>> \o <<>> = <<>>
    BY EmptySeq, ConcatEmptySeq
  <2> QED BY <2>1, PrefixOfConcat DEF Init, Stream, StreamIntact
<1>6. Establishment
  <2>1. Fresh
    BY <1>1, <1>2 DEF Init, Fresh
  <2> QED BY <2>1 DEF Init, Establishment
<1>7. ReadInterest
  BY DEF Init, ReadInterest
<1> QED BY <1>3, <1>4, <1>5, <1>6, <1>7 DEF Inv

\* connectEstablished comes before everything the loops, the user and the
\* kernel do with the connection.
LEMMA EstablishedFirst ==
    ASSUME Inv,
           \/ revents # {} \/ held # {} \/ removals > 0 \/ up = 1
           \/ functors # <<>> /\ Head(functors).op # "connectEstablished"
    PROVE  /\ up = 1 /\ state # "KConnecting" /\ ~Has(functors, "connectEstablished")
<1>1. functors # <<>> => Head(functors) = functors[1]
  BY PopFacts DEF Inv, Iteration
<1>2. ~(up = 0)
  BY <1>1 DEF Inv, Establishment, Fresh
<1> QED BY <1>2 DEF Inv, Establishment

\* The loop takes the next functor of its batch.
LEMMA RunFacts ==
    ASSUME Inv, NEW op, Run(op)
    PROVE  /\ functors \in Seq(Functor) /\ functors # <<>> /\ Head(functors).op = op
           /\ revents = {} /\ revents' = {}
           /\ Len(functors) \in Nat \ {0}
           /\ batch' \in 0..(Len(functors) - 1)
           /\ io' \in {"poll", "run"} /\ (io' = "run" <=> batch' > 0)
<1>1. functors \in Seq(Functor) /\ functors # <<>> /\ Head(functors).op = op
      /\ revents = {} /\ revents' = {} /\ batch > 0 /\ io = "run"
  BY DEF Run, Inv, Iteration
<1>2. Len(functors) \in Nat \ {0} /\ batch \in 0..Len(functors)
  BY <1>1, PopFacts DEF Inv, TypeOK
<1>3. batch' = batch - 1 /\ io' = IF batch - 1 = 0 THEN "poll" ELSE "run"
  BY DEF Run, AfterFunctor
<1> QED BY <1>1, <1>2, <1>3

\* Steps that leave the data alone keep the stream intact.
LEMMA StreamKept ==
    ASSUME Stream, UNCHANGED dataVars, peer' = peer \/ peer = "open"
    PROVE  Stream'
BY DEF Stream, StreamIntact, dataVars

\* The poll, the end of the callbacks, and the peer.
LEMMA LoopInv ==
    ASSUME Inv, (\E r \in SUBSET {"close", "read", "write"} : Poll(r)) \/ Swap \/ PeerLeaves
    PROVE  Inv'
<1> USE DEF chanVars, dataVars, ownVars, userVars
<1>1. functors' = functors /\ up' = up /\ state' = state /\ events' = events /\ reading' = reading
  BY DEF Poll, Swap, PeerLeaves
<1>2. Len(functors) \in Nat /\ functors \in Seq(Functor)
  BY LenProperties DEF Inv, Iteration
<1>3. ReadInterest'
  BY <1>1 DEF Inv, ReadInterest
<1>4. Stream'
  BY StreamKept DEF Inv, Poll, Swap, PeerLeaves
<1>5. ASSUME NEW r \in SUBSET {"close", "read", "write"}, Poll(r)
      PROVE  TypeOK' /\ Iteration' /\ Establishment'
  <2>1. TypeOK'
    BY <1>5 DEF Poll, Inv, TypeOK
  <2>2. Iteration'
    <3>1. "close" \in r => peer = "reset" /\ "read" \notin r
      BY <1>5 DEF Poll, Reported, Inv, TypeOK
    <3> QED BY <1>5, <3>1 DEF Poll, Inv, Iteration
  <2>3. Establishment'
    BY <1>5 DEF Poll, Reported, Inv, Establishment, Fresh, Has
  <2> QED BY <2>1, <2>2, <2>3
<1>6. CASE Swap
  <2>1. io' \in {"poll", "run"} /\ (io' = "run" <=> batch' > 0) /\ batch' \in 0..Len(functors)
    <3>1. functors # <<>> => Len(functors) > 0
      BY <1>2, EmptySeq
    <3>2. functors = <<>> => Len(functors) = 0
      BY EmptySeq
    <3> QED BY <1>6, <1>2, <3>1, <3>2 DEF Swap
  <2>2. TypeOK'
    BY <1>6, <2>1 DEF Swap, Inv, TypeOK
  <2>3. Iteration' /\ Establishment'
    BY <1>6, <2>1 DEF Swap, Inv, Iteration, Establishment, Fresh, Has
  <2> QED BY <2>2, <2>3, <1>3, <1>4 DEF Inv
<1>7. CASE PeerLeaves
  <2>1. client.peerEnds \subseteq {"closed", "reset"}
    BY ConstantsAssumption DEF Inv, TypeOK
  <2>2. TypeOK'
    BY <1>7, <2>1 DEF PeerLeaves, Inv, TypeOK
  <2>3. Iteration' /\ Establishment'
    BY <1>7 DEF PeerLeaves, Inv, Iteration, Establishment, Fresh, Has
  <2> QED BY <2>2, <2>3, <1>3, <1>4 DEF Inv
<1> QED BY <1>3, <1>4, <1>5, <1>6, <1>7 DEF Inv

\* The callbacks of the channel that write nothing.
LEMMA TurnInv ==
    ASSUME Inv, HandleHup \/ HandleReadClose \/ HandleReadOther \/ HandleWriteNothing
    PROVE  Inv'
<1> USE DEF chanVars, dataVars, ownVars, userVars
<1>1. PICK e \in {"close", "read", "write"} : Turn(e)
  BY DEF HandleHup, HandleReadClose, HandleReadOther, HandleWriteNothing
<1>2. /\ functors' = functors /\ UNCHANGED dataVars
      /\ HandleClose \/ NoClose
  BY DEF HandleHup, HandleReadClose, HandleReadOther, HandleWriteNothing
<1>3. up = 1 /\ state # "KConnecting" /\ ~Has(functors, "connectEstablished")
  BY <1>1, EstablishedFirst DEF Turn
<1>4. /\ client' = client /\ io' = io /\ peer' = peer /\ reading' = reading /\ batch' = batch
      /\ owned' = owned /\ server' = server /\ up' = up /\ UNCHANGED userVars
      /\ revents' \subseteq revents /\ io = "handle"
  BY <1>1 DEF Turn
<1>5. \/ state' = "KDisconnected" /\ events' = {} /\ index' \in {"kAdded", "kDeleted"}
         /\ down' = down + 1 /\ removals' = removals + 1
      \/ UNCHANGED <<state, events, index, down, removals>>
  BY <1>2 DEF HandleClose, HandleCloseFrom, AllOff, Updated, NoClose
<1>6. TypeOK'
  <2>a. /\ state' \in {"KConnecting", "KConnected", "KDisconnecting", "KDisconnected"}
        /\ events' \in SUBSET {"read", "write"} /\ index' \in {"kNew", "kAdded", "kDeleted"}
    BY <1>5 DEF Inv, TypeOK
  <2>b. down' \in Nat /\ removals' \in Nat
    BY <1>5 DEF Inv, TypeOK
  <2> QED BY <2>a, <2>b, <1>2, <1>4 DEF Inv, TypeOK
<1>7. Iteration'
  BY <1>2, <1>4 DEF Inv, Iteration
<1>8. Stream'
  BY <1>2, <1>4, StreamKept DEF Inv
<1>9. Establishment'
  BY <1>2, <1>3, <1>4, <1>5 DEF Establishment, Has
<1>10. ReadInterest'
  BY <1>4, <1>5 DEF Inv, ReadInterest
<1> QED BY <1>6, <1>7, <1>8, <1>9, <1>10 DEF Inv

\* handleWrite: bytes move from outputBuffer_ to the kernel.
LEMMA HandleWriteInv ==
    ASSUME Inv, NEW n \in 1..Len(outputBuffer), HandleWrite(n)
    PROVE  Inv'
<1> USE DEF chanVars, dataVars, ownVars, userVars
<1>1. Turn("write")
  BY DEF HandleWrite
<1>2. up = 1 /\ state # "KConnecting" /\ ~Has(functors, "connectEstablished")
  BY <1>1, EstablishedFirst DEF Turn
<1>3. /\ client' = client /\ io' = io /\ peer' = peer /\ reading' = reading /\ batch' = batch
      /\ owned' = owned /\ server' = server /\ up' = up /\ UNCHANGED userVars
      /\ revents' \subseteq revents /\ io = "handle"
      /\ accepted' = accepted /\ lost' = lost /\ peer # "reset"
  BY <1>1 DEF Turn, HandleWrite
<1>4. outputBuffer \in Seq(Byte) /\ sent \in Seq(Byte) /\ Len(outputBuffer) \in Nat
      /\ functors \in Seq(Functor) /\ Len(functors) \in Nat
  BY LenProperties DEF Inv, TypeOK, Iteration
<1>5. functors' \in Seq(Functor) /\ Len(functors') >= Len(functors) /\ Len(functors') \in Nat
      /\ ~Has(functors', "connectEstablished")
  <2>1. CASE functors' = functors
    BY <2>1, <1>2, <1>4
  <2>2. CASE functors' = Append(functors, Task("writeComplete"))
    <3>1. Task("writeComplete") \in Functor /\ Task("writeComplete").op = "writeComplete"
      BY TaskType DEF Op
    <3> QED BY <2>2, <3>1, <1>2, <1>4, PushFacts
  <2> QED BY <2>1, <2>2 DEF HandleWrite
<1>6. \/ state' = "KDisconnected" /\ events' = {} /\ index' \in {"kAdded", "kDeleted"}
         /\ down' = down + 1 /\ removals' = removals + 1
      \/ /\ UNCHANGED <<state, down, removals>>
         /\ \/ UNCHANGED <<events, index>>
            \/ events' = events \ {"write"} /\ index' \in {"kAdded", "kDeleted"}
  BY DEF HandleWrite, HandleCloseFrom, AllOff, Updated, SetEvents, WritingOff
<1> DEFINE first == SubSeq(outputBuffer, 1, n)
           rest == SubSeq(outputBuffer, n + 1, Len(outputBuffer))
<1>7. sent' = sent \o first /\ outputBuffer' = rest
  BY DEF HandleWrite
<1>8. first \in Seq(Byte) /\ rest \in Seq(Byte) /\ first \o rest = outputBuffer
  <2>1. \A i \in 1..Len(outputBuffer) : outputBuffer[i] \in Byte
    BY <1>4, ElementOfSeq
  <2>2. \A i \in 1..n : outputBuffer[i] \in Byte
    BY <1>4, <2>1
  <2>3. \A i \in (n + 1)..Len(outputBuffer) : outputBuffer[i] \in Byte
    BY <1>4, <2>1
  <2>4. first \in Seq(Byte) /\ rest \in Seq(Byte)
    BY <1>4, <2>2, <2>3, SubSeqProperties
  <2>5. first \o rest = SubSeq(outputBuffer, 1, Len(outputBuffer))
    BY <1>4, ConcatAdjacentSubSeq
  <2> QED BY <2>4, <2>5, <1>4, SubSeqFull
<1> HIDE DEF first, rest
<1>9. sent' \in Seq(Byte) /\ outputBuffer' \in Seq(Byte)
  BY <1>4, <1>7, <1>8, ConcatProperties
<1>10. TypeOK'
  <2>1. functors' \in Seq([op : Op, msg : Messages \cup {None}])
    BY <1>5, FunctorSeq
  <2>2. batch' \in 0..Len(functors')
    BY <1>3, <1>4, <1>5 DEF Inv, TypeOK
  <2>a. /\ state' \in {"KConnecting", "KConnected", "KDisconnecting", "KDisconnected"}
        /\ events' \in SUBSET {"read", "write"} /\ index' \in {"kNew", "kAdded", "kDeleted"}
    BY <1>6 DEF Inv, TypeOK
  <2>b. down' \in Nat /\ removals' \in Nat
    BY <1>6 DEF Inv, TypeOK
  <2> QED BY <2>1, <2>2, <2>a, <2>b, <1>3, <1>9 DEF Inv, TypeOK
<1>11. Iteration'
  BY <1>3, <1>5 DEF Inv, Iteration
<1>12. Stream'
  <2>1. ~lost /\ sent \o outputBuffer = accepted
    BY <1>3 DEF Inv, Stream, StreamIntact
  <2>2. (sent \o first) \o rest = sent \o (first \o rest)
    BY <1>4, <1>8, StreamAssociative, Zenon
  <2>3. sent' \o outputBuffer' = accepted'
    BY <2>1, <2>2, <1>3, <1>7, <1>8
  <2>4. IsPrefix(sent', sent' \o outputBuffer')
    BY <1>9, PrefixOfConcat
  <2> QED BY <2>1, <2>3, <2>4, <1>3 DEF Stream, StreamIntact
<1>13. Establishment'
  BY <1>2, <1>3, <1>5, <1>6 DEF Establishment
<1>14. ReadInterest'
  BY <1>3, <1>6 DEF Inv, ReadInterest
<1> QED BY <1>10, <1>11, <1>12, <1>13, <1>14 DEF Inv

\* connectEstablished, on a connection nothing has happened to.
LEMMA ConnectEstablishedInv ==
    ASSUME Inv, ConnectEstablished
    PROVE  Inv'
<1> USE DEF chanVars, dataVars, ownVars, userVars
<1>1. Run("connectEstablished")
  BY DEF ConnectEstablished
<1>2. /\ functors \in Seq(Functor) /\ functors # <<>> /\ revents' = {}
      /\ Len(functors) \in Nat \ {0} /\ batch' \in 0..(Len(functors) - 1)
      /\ io' \in {"poll", "run"} /\ (io' = "run" <=> batch' > 0)
      /\ Head(functors).op = "connectEstablished"
  BY <1>1, RunFacts
<1>3. /\ Tail(functors) \in Seq(Functor) /\ Len(Tail(functors)) = Len(functors) - 1
      /\ Head(functors) = functors[1] /\ 1 \in DOMAIN functors
      /\ \A i \in DOMAIN Tail(functors) :
             i + 1 \in DOMAIN functors /\ i + 1 > 1 /\ Tail(functors)[i] = functors[i + 1]
  BY <1>2, PopFacts
<1>4. up = 0 /\ Fresh
  BY <1>2, <1>3 DEF Inv, Establishment, Has
<1>5. /\ functors' = Tail(functors) /\ state' = "KConnected" /\ events' = {"read"}
      /\ index' = "kAdded" /\ up' = 1 /\ held' = Threads
      /\ UNCHANGED <<client, peer, owned, server, thread, unsent, closes, reading, dataVars,
                     removals, down>>
  BY <1>1, <1>4 DEF ConnectEstablished, Run, Fresh, SetEvents, Updated
<1>6. TypeOK'
  <2>1. functors' \in Seq([op : Op, msg : Messages \cup {None}])
    BY <1>3, <1>5, FunctorSeq
  <2>2. batch' \in 0..Len(functors')
    BY <1>2, <1>3, <1>5
  <2> QED BY <2>1, <2>2, <1>2, <1>5 DEF Inv, TypeOK
<1>7. Iteration'
  BY <1>2, <1>3, <1>5 DEF Iteration
<1>8. Stream'
  BY <1>5, StreamKept DEF Inv
<1>9. Establishment'
  <2>1. ~Has(Tail(functors), "connectEstablished")
    BY <1>3, <1>4 DEF Fresh, Has
  <2> QED BY <2>1, <1>5 DEF Establishment
<1>10. ReadInterest'
  BY <1>4, <1>5 DEF Fresh, ReadInterest
<1> QED BY <1>6, <1>7, <1>8, <1>9, <1>10 DEF Inv

\* sendInLoop as a functor and from the user's code on the loop's thread.
LEMMA SendInv ==
    ASSUME Inv, RunSend \/ \E m \in Messages : UserSend(m)
    PROVE  Inv'
<1> USE DEF chanVars, dataVars, ownVars, userVars
<1>1. functors \in Seq(Functor) /\ Len(functors) \in Nat
  BY LenProperties DEF Inv, Iteration
<1>2. PICK q \in Seq(Functor), m \in Messages :
        /\ SendInLoop(m, q) /\ batch' \in 0..Len(q) /\ Len(q) \in Nat
        /\ ~Has(q, "connectEstablished")
  <2>1. CASE RunSend
    <3>1. Run("send") /\ SendInLoop(Head(functors).msg, Tail(functors))
      BY <2>1 DEF RunSend
    <3>2. /\ functors # <<>> /\ Len(functors) \in Nat \ {0} /\ Head(functors).op = "send"
          /\ batch' \in 0..(Len(functors) - 1)
      BY <3>1, RunFacts
    <3>3. /\ Head(functors) \in Functor /\ Tail(functors) \in Seq(Functor)
          /\ Len(Tail(functors)) = Len(functors) - 1
          /\ Has(Tail(functors), "connectEstablished") => Has(functors, "connectEstablished")
      BY <3>2, <1>1, PopFacts
    <3>4. Head(functors).msg \in Messages
      BY <3>2, <3>3 DEF Functor
    <3>5. ~Has(functors, "connectEstablished")
      BY <3>2, EstablishedFirst
    <3>6. batch' \in 0..Len(Tail(functors)) /\ Len(Tail(functors)) \in Nat
      BY <3>2, <3>3
    <3> QED BY <3>1, <3>3, <3>4, <3>5, <3>6, Zenon
  <2>2. ASSUME NEW m \in Messages, UserSend(m)
        PROVE  /\ SendInLoop(m, functors) /\ batch' \in 0..Len(functors)
               /\ ~Has(functors, "connectEstablished")
    <3>1. up = 1 /\ SendInLoop(m, functors) /\ batch' = batch
      BY <2>2 DEF UserSend, UserCall
    <3>2. ~Has(functors, "connectEstablished")
      BY <3>1, EstablishedFirst
    <3> QED BY <3>1, <3>2 DEF Inv, TypeOK
  <2> QED BY <2>1, <2>2, <1>1
<1>3. /\ UNCHANGED <<client, state, reading, peer, owned, server, removals, held, thread, closes,
                     up, down>>
      /\ up = 1 /\ state # "KConnecting"
      /\ revents' = revents /\ unsent' \subseteq unsent
      /\ io' \in {"poll", "handle", "run"} /\ (io' = "run" <=> batch' > 0)
      /\ io' # "handle" => revents' = {}
  <2>1. CASE RunSend
    <3>1. Run("send")
      BY <2>1 DEF RunSend
    <3>2. /\ functors # <<>> /\ Head(functors).op = "send" /\ revents = {} /\ revents' = {}
          /\ io' \in {"poll", "run"} /\ (io' = "run" <=> batch' > 0)
      BY <3>1, RunFacts
    <3>3. up = 1 /\ state # "KConnecting"
      BY <3>2, EstablishedFirst
    <3> QED BY <2>1, <3>1, <3>2, <3>3 DEF RunSend, Run
  <2>2. ASSUME NEW k \in Messages, UserSend(k)
        PROVE  /\ UNCHANGED <<client, state, reading, peer, owned, server, removals, held, thread,
                              closes, up, down, io, batch, revents>>
               /\ up = 1 /\ unsent' \subseteq unsent
    BY <2>2 DEF UserSend, UserCall
  <2>3. up = 1 => state # "KConnecting"
    BY DEF Inv, Establishment
  <2> QED BY <2>1, <2>2, <2>3 DEF Inv, Iteration, TypeOK
<1>4. /\ outputBuffer' \in Seq(Byte) /\ sent' \in Seq(Byte) /\ accepted' \in Seq(Byte)
      /\ lost' \in BOOLEAN /\ Stream' /\ Grown(q, functors') /\ SendInterest
  BY <1>2, <1>3, SendFacts DEF Inv
<1>5. /\ events' \in SUBSET {"read", "write"} /\ index' \in {"kNew", "kAdded", "kDeleted"}
      /\ "read" \in events' <=> "read" \in events
  BY <1>4 DEF SendInterest, Inv, TypeOK
<1>6. functors' \in Seq(Functor) /\ batch' \in 0..Len(functors')
      /\ ~Has(functors', "connectEstablished")
  <2>1. functors' \in Seq(Functor) /\ Len(functors') >= Len(q)
    BY <1>4 DEF Grown
  <2>2. Len(functors') \in Nat
    BY <2>1, LenProperties
  <2>3. ~Has(functors', "connectEstablished")
    BY <1>2, <1>4 DEF Grown, Op
  <2> QED BY <2>1, <2>2, <2>3, <1>2
<1>7. TypeOK'
  <2>1. functors' \in Seq([op : Op, msg : Messages \cup {None}])
    BY <1>6, FunctorSeq
  <2>2. revents' \in SUBSET {"close", "read", "write"} /\ unsent' \in SUBSET Messages
    BY <1>3 DEF Inv, TypeOK
  <2> QED BY <2>1, <2>2, <1>3, <1>4, <1>5, <1>6 DEF Inv, TypeOK
<1>8. Iteration'
  BY <1>3, <1>6 DEF Inv, Iteration
<1>9. Establishment'
  BY <1>3, <1>6 DEF Establishment
<1>10. ReadInterest'
  BY <1>3, <1>5 DEF Inv, ReadInterest
<1> QED BY <1>4, <1>7, <1>8, <1>9, <1>10 DEF Inv

\* The other functors.
LEMMA FunctorInv ==
    ASSUME Inv, RunForceClose \/ RunStartRead \/ RunCallback \/ ConnectDestroyed
    PROVE  Inv'
<1> USE DEF chanVars, dataVars, ownVars, userVars
<1>1. PICK op \in Op \ {"connectEstablished", "send"} : Run(op)
  BY DEF RunForceClose, RunStartRead, RunCallback, ConnectDestroyed, Op
<1>2. /\ functors \in Seq(Functor) /\ functors # <<>> /\ revents = {} /\ revents' = {}
      /\ Len(functors) \in Nat \ {0} /\ batch' \in 0..(Len(functors) - 1)
      /\ io' \in {"poll", "run"} /\ (io' = "run" <=> batch' > 0)
      /\ Head(functors).op # "connectEstablished"
  BY <1>1, RunFacts
<1>3. up = 1 /\ state # "KConnecting" /\ ~Has(functors, "connectEstablished")
  BY <1>2, EstablishedFirst
<1>4. /\ Tail(functors) \in Seq(Functor) /\ Len(Tail(functors)) = Len(functors) - 1
      /\ ~Has(Tail(functors), "connectEstablished")
  BY <1>2, <1>3, PopFacts
<1>5. /\ functors' = Tail(functors)
      /\ UNCHANGED <<client, peer, owned, server, thread, unsent, closes, dataVars, held, up>>
  BY <1>1 DEF RunForceClose, RunStartRead, RunCallback, ConnectDestroyed, Run
<1>6. \/ /\ state' \in {state, "KDisconnected"} /\ events' \in {events, {}}
         /\ events' = events \/ state' = "KDisconnected"
         /\ index' \in {index, "kAdded", "kDeleted", "kNew"}
         /\ reading' = reading
         /\ down' \in {down, down + 1} /\ removals' \in {removals, removals + 1}
      \/ /\ UNCHANGED <<state, down, removals>>
         /\ events' = events \cup {"read"} /\ index' \in {index, "kAdded"} /\ reading' = TRUE
  <2>1. CASE RunForceClose
    BY <2>1 DEF RunForceClose, ForceCloseInLoop, HandleClose, HandleCloseFrom, NoClose, AllOff, Updated
  <2>2. CASE RunStartRead
    BY <2>2 DEF RunStartRead, StopReadInLoop, SetEvents, Updated, Inv, TypeOK
  <2>3. CASE RunCallback
    BY <2>3 DEF RunCallback
  <2>4. CASE ConnectDestroyed
    BY <2>4 DEF ConnectDestroyed, AllOff, DestroyedCallback
  <2> QED BY <2>1, <2>2, <2>3, <2>4
<1>7. TypeOK'
  <2>1. functors' \in Seq([op : Op, msg : Messages \cup {None}])
    BY <1>4, <1>5, FunctorSeq
  <2>2. batch' \in 0..Len(functors')
    BY <1>2, <1>4, <1>5
  <2>3. /\ state' \in {"KConnecting", "KConnected", "KDisconnecting", "KDisconnected"}
        /\ events' \in SUBSET {"read", "write"} /\ index' \in {"kNew", "kAdded", "kDeleted"}
        /\ reading' \in BOOLEAN
    BY <1>6 DEF Inv, TypeOK
  <2>4. down' \in Nat /\ removals' \in Nat
    BY <1>6 DEF Inv, TypeOK
  <2> QED BY <2>1, <2>2, <2>3, <2>4, <1>2, <1>5 DEF Inv, TypeOK
<1>8. Iteration'
  BY <1>2, <1>4, <1>5 DEF Iteration
<1>9. Stream'
  BY <1>5, StreamKept DEF Inv
<1>10. Establishment'
  BY <1>3, <1>4, <1>5, <1>6 DEF Establishment
<1>11. ReadInterest'
  BY <1>6 DEF Inv, ReadInterest
<1> QED BY <1>7, <1>8, <1>9, <1>10, <1>11 DEF Inv

\* The user's other calls on the loop's thread.
LEMMA UserInv ==
    ASSUME Inv, UserForceClose \/ UserStopRead \/ UserStartRead
    PROVE  Inv'
<1> USE DEF chanVars, dataVars, ownVars, userVars
<1>1. up = 1 /\ UNCHANGED <<client, peer, io, revents, batch, ownVars, held, thread, up, down>>
      /\ UNCHANGED dataVars /\ unsent' = unsent
  BY DEF UserForceClose, UserStopRead, UserStartRead, UserCall
<1>2. state # "KConnecting" /\ ~Has(functors, "connectEstablished")
  BY <1>1, EstablishedFirst
<1>3. functors \in Seq(Functor) /\ Len(functors) \in Nat
  BY LenProperties DEF Inv, Iteration
<1>4. functors' \in Seq(Functor) /\ Len(functors') \in Nat /\ Len(functors') >= Len(functors)
      /\ ~Has(functors', "connectEstablished")
  <2>1. CASE functors' = functors
    BY <2>1, <1>2, <1>3
  <2>2. CASE functors' = Append(functors, Task("forceClose"))
    <3>1. Task("forceClose") \in Functor /\ Task("forceClose").op = "forceClose"
      BY TaskType DEF Op
    <3> QED BY <2>2, <3>1, <1>2, <1>3, PushFacts
  <2> QED BY <2>1, <2>2 DEF UserForceClose, UserStopRead, UserStartRead
<1>5. closes' \in 0..client.maxCloses
  <2>1. client.maxCloses \in Nat /\ closes \in 0..client.maxCloses
    BY ConstantsAssumption DEF Inv, TypeOK
  <2> QED BY <2>1 DEF UserForceClose, UserStopRead, UserStartRead
<1>6. \/ state' = "KDisconnecting" /\ UNCHANGED chanVars
      \/ state' = state /\ reading' = FALSE /\ events' = events \ {"read"}
         /\ index' \in {"kAdded", "kDeleted"}
      \/ state' = state /\ reading' = TRUE /\ events' = events \cup {"read"}
         /\ index' \in {index, "kAdded"}
  BY DEF UserForceClose, UserStopRead, UserStartRead, StopReadInLoop, SetEvents, Updated, Inv, TypeOK
<1>7. TypeOK'
  <2>1. functors' \in Seq([op : Op, msg : Messages \cup {None}])
    BY <1>4, FunctorSeq
  <2>2. batch' \in 0..Len(functors')
    BY <1>1, <1>3, <1>4 DEF Inv, TypeOK
  <2>3. /\ state' \in {"KConnecting", "KConnected", "KDisconnecting", "KDisconnected"}
        /\ events' \in SUBSET {"read", "write"} /\ index' \in {"kNew", "kAdded", "kDeleted"}
        /\ reading' \in BOOLEAN
    BY <1>6 DEF Inv, TypeOK
  <2> QED BY <2>1, <2>2, <2>3, <1>1, <1>5 DEF Inv, TypeOK
<1>8. Iteration'
  BY <1>1, <1>4 DEF Inv, Iteration
<1>9. Stream'
  BY <1>1, StreamKept DEF Inv
<1>10. Establishment'
  BY <1>1, <1>2, <1>4, <1>6 DEF Establishment
<1>11. ReadInterest'
  BY <1>6 DEF Inv, ReadInterest
<1> QED BY <1>7, <1>8, <1>9, <1>10, <1>11 DEF Inv

\* The calls of other threads.
LEMMA ThreadInv ==
    ASSUME Inv, NEW t \in Threads,
           \/ \E m \in Messages : ThreadSend(t, m)
           \/ ThreadStartRead(t) \/ ThreadRelease(t)
           \/ ThreadForceCloseTest(t) \/ ThreadForceCloseStore(t) \/ ThreadForceClosePush(t)
    PROVE  Inv'
<1> USE DEF chanVars, dataVars, ownVars, userVars
<1>1. ThreadStep(t)
  BY DEF ThreadSend, ThreadStartRead, ThreadRelease, ThreadForceCloseTest, ThreadForceCloseStore,
         ThreadForceClosePush
<1>2. /\ held # {}
      /\ UNCHANGED <<client, chanVars, dataVars, peer, io, revents, batch, ownVars, up, down>>
  BY <1>1 DEF ThreadStep
<1>3. up = 1 /\ state # "KConnecting" /\ ~Has(functors, "connectEstablished")
  BY <1>2, EstablishedFirst
<1>4. functors \in Seq(Functor) /\ Len(functors) \in Nat
  BY LenProperties DEF Inv, Iteration
<1>5. functors' \in Seq(Functor) /\ Len(functors') \in Nat /\ Len(functors') >= Len(functors)
      /\ ~Has(functors', "connectEstablished")
  <2>1. CASE functors' = functors
    BY <2>1, <1>3, <1>4
  <2>2. ASSUME NEW f \in Functor, f.op # "connectEstablished", functors' = Append(functors, f)
        PROVE  /\ functors' \in Seq(Functor) /\ Len(functors') \in Nat
               /\ Len(functors') >= Len(functors) /\ ~Has(functors', "connectEstablished")
    BY <2>2, <1>3, <1>4, PushFacts
  <2>3. ASSUME NEW m \in Messages
        PROVE  [op |-> "send", msg |-> m] \in Functor
    BY DEF Functor, Op
  <2>4. Task("startRead") \in Functor /\ Task("startRead").op = "startRead"
        /\ Task("forceClose") \in Functor /\ Task("forceClose").op = "forceClose"
    BY TaskType DEF Op
  <2>5. ASSUME NEW m \in Messages, ThreadSend(t, m)
        PROVE  \E f \in Functor : f.op # "connectEstablished" /\ functors' = Append(functors, f)
    BY <2>3, <2>5 DEF ThreadSend
  <2>6. ASSUME ThreadStartRead(t) \/ ThreadForceClosePush(t)
        PROVE  \E f \in Functor : f.op # "connectEstablished" /\ functors' = Append(functors, f)
    BY <2>4, <2>6 DEF ThreadStartRead, ThreadForceClosePush
  <2>7. ASSUME ThreadRelease(t) \/ ThreadForceCloseTest(t) \/ ThreadForceCloseStore(t)
        PROVE  functors' = functors
    BY <2>7 DEF ThreadRelease, ThreadForceCloseTest, ThreadForceCloseStore
  <2> QED BY <2>1, <2>2, <2>5, <2>6, <2>7
<1>6. /\ state' \in {state, "KDisconnecting"} /\ held' \subseteq held /\ unsent' \subseteq unsent
      /\ thread' = thread \/ \E p \in {"idle", "store", "push"} : thread' = [thread EXCEPT ![t] = p]
  BY DEF ThreadSend, ThreadStartRead, ThreadRelease, ThreadForceCloseTest, ThreadForceCloseStore,
         ThreadForceClosePush
<1>7. closes' \in 0..client.maxCloses
  <2>1. client.maxCloses \in Nat /\ closes \in 0..client.maxCloses
    BY ConstantsAssumption DEF Inv, TypeOK
  <2>2. closes' = closes \/ (closes < client.maxCloses /\ closes' = closes + 1)
    BY DEF ThreadSend, ThreadStartRead, ThreadRelease, ThreadForceCloseTest, ThreadForceCloseStore,
           ThreadForceClosePush
  <2> QED BY <2>1, <2>2
<1>8. TypeOK'
  <2>1. functors' \in Seq([op : Op, msg : Messages \cup {None}])
    BY <1>5, FunctorSeq
  <2>2. batch' \in 0..Len(functors')
    BY <1>2, <1>4, <1>5 DEF Inv, TypeOK
  <2>3. /\ state' \in {"KConnecting", "KConnected", "KDisconnecting", "KDisconnected"}
        /\ held' \in SUBSET Threads /\ unsent' \in SUBSET Messages
    BY <1>6 DEF Inv, TypeOK
  <2>4. thread' \in [Threads -> {"idle", "store", "push"}]
    BY <1>6 DEF Inv, TypeOK
  <2> QED BY <2>1, <2>2, <2>3, <2>4, <1>2, <1>7 DEF Inv, TypeOK
<1>9. Iteration'
  BY <1>2, <1>5 DEF Inv, Iteration
<1>10. Stream'
  BY <1>2, StreamKept DEF Inv
<1>11. Establishment'
  BY <1>2, <1>3, <1>5, <1>6 DEF Establishment
<1>12. ReadInterest'
  BY <1>2, <1>6 DEF Inv, ReadInterest
<1> QED BY <1>8, <1>9, <1>10, <1>11, <1>12 DEF Inv

\* The base loop lets the connection go.
LEMMA ServerInv ==
    ASSUME Inv, RemoveConnectionInLoop \/ ServerDestroyed
    PROVE  Inv'
<1> USE DEF chanVars, dataVars, ownVars, userVars
<1>1. /\ UNCHANGED <<client, state, chanVars, dataVars, peer, io, revents, batch, userVars, up, down>>
      /\ owned' = FALSE /\ server' \in {server, "destroyed"}
  BY DEF RemoveConnectionInLoop, ServerDestroyed
<1> DEFINE f == Task("connectDestroyed")
<1>2. functors' = functors \/ functors' = functors \o <<f>>
  BY DEF RemoveConnectionInLoop, ServerDestroyed, Farewell
<1>3. f \in Functor /\ f.op = "connectDestroyed"
  BY TaskType DEF Op
<1> HIDE DEF f
<1>4. functors \in Seq(Functor) /\ Len(functors) \in Nat /\ DOMAIN functors = 1..Len(functors)
  BY LenProperties DEF Inv, Iteration
<1>5. /\ functors' \in Seq(Functor) /\ Len(functors') \in Nat /\ Len(functors') >= Len(functors)
      /\ Has(functors', "connectEstablished") => Has(functors, "connectEstablished")
  <2>1. CASE functors' = functors
    BY <2>1, <1>4
  <2>2. CASE functors' = functors \o <<f>>
    <3>1. functors' = Append(functors, f)
      BY <2>2, <1>3, <1>4, PushFacts
    <3> QED BY <3>1, <1>3, <1>4, PushFacts
  <2> QED BY <2>1, <2>2, <1>2
<1>6. TypeOK'
  <2>1. functors' \in Seq([op : Op, msg : Messages \cup {None}])
    BY <1>5, FunctorSeq
  <2>2. batch' \in 0..Len(functors')
    BY <1>1, <1>4, <1>5 DEF Inv, TypeOK
  <2>3. removals' \in Nat
    BY DEF RemoveConnectionInLoop, ServerDestroyed, Inv, TypeOK
  <2> QED BY <2>1, <2>2, <2>3, <1>1 DEF Inv, TypeOK
<1>7. Iteration'
  BY <1>1, <1>5 DEF Inv, Iteration
<1>8. Stream'
  BY <1>1, StreamKept DEF Inv
<1>9. Establishment'
  <2>1. CASE up = 1
    BY <2>1, <1>1, <1>5 DEF Inv, Establishment
  <2>2. CASE up = 0
    <3>1. Fresh
      BY <2>2 DEF Inv, Establishment
    <3>2. ServerDestroyed
      BY <3>1 DEF RemoveConnectionInLoop, Fresh
    <3>3. removals' = removals
      BY <3>2 DEF ServerDestroyed
    <3>4. functors' # <<>> /\ functors'[1].op = "connectEstablished"
          /\ \A i \in DOMAIN functors' : i > 1 => functors'[i].op = "connectDestroyed"
      <4>1. CASE functors' = functors
        BY <4>1, <3>1 DEF Fresh
      <4>2. CASE functors' = functors \o <<f>>
        <5>1. /\ functors' = Append(functors, f) /\ functors' # <<>>
              /\ DOMAIN functors' = 1..(Len(functors) + 1)
              /\ \A i \in 1..Len(functors) : functors'[i] = functors[i]
              /\ functors'[Len(functors) + 1] = f
          BY <4>2, <1>3, <1>4, PushFacts, AppendProperties, LenProperties
        <5>2. Len(functors) > 0
          BY <3>1, <1>4, EmptySeq DEF Fresh
        <5> QED BY <5>1, <5>2, <3>1, <1>3, <1>4 DEF Fresh
      <4> QED BY <4>1, <4>2, <1>2
    <3> QED BY <3>1, <3>3, <3>4, <1>1, <2>2 DEF Fresh, Establishment
  <2> QED BY <2>1, <2>2 DEF Inv, Establishment
<1>10. ReadInterest'
  BY <1>1 DEF Inv, ReadInterest
<1> QED BY <1>6, <1>7, <1>8, <1>9, <1>10 DEF Inv

\* A step that changes nothing.
LEMMA StutterInv ==
    ASSUME Inv, UNCHANGED vars
    PROVE  Inv'
BY DEF Inv, TypeOK, Iteration, Stream, StreamIntact, Establishment, Fresh, Has, ReadInterest,
       vars, chanVars, dataVars, ownVars, userVars

\* Every step keeps it.
LEMMA NextInv ==
    ASSUME Inv, [Next]_vars
    PROVE  Inv'
<1>1. CASE IoStep
  BY <1>1, LoopInv, TurnInv, HandleWriteInv, ConnectEstablishedInv, SendInv, FunctorInv DEF IoStep
<1>2. CASE RemoveConnectionInLoop \/ ServerDestroyed \/ PeerLeaves
  BY <1>2, ServerInv, LoopInv
<1>3. CASE UserForceClose \/ UserStopRead \/ UserStartRead \/ \E m \in Messages : UserSend(m)
  BY <1>3, UserInv, SendInv
<1>4. ASSUME NEW t \in Threads,
             \/ \E m \in Messages : ThreadSend(t, m)
             \/ ThreadStartRead(t) \/ ThreadRelease(t)
             \/ ThreadForceCloseTest(t) \/ ThreadForceCloseStore(t) \/ ThreadForceClosePush(t)
      PROVE  Inv'
  BY <1>4, ThreadInv
<1> QED BY <1>1, <1>2, <1>3, <1>4, StutterInv DEF Next

\* Inv is an invariant of every program's use of the connection.
THEOREM InvHolds == Spec => []Inv
<1>1. Init => Inv
  BY InitInv
<1>2. Inv /\ [Next]_vars => Inv'
  BY NextInv
<1> QED BY <1>1, <1>2, PTL DEF Spec

\* The variables keep their types whatever the program does.
THEOREM TypeCorrect == Spec => []TypeOK
<1>1. Inv => TypeOK
  BY DEF Inv
<1> QED BY <1>1, InvHolds, PTL

\* The peer gets what sendInLoop took, as one stream without gap or repetition,
\* for any messages, any mix of sending threads and any partial writes.
THEOREM StreamStaysIntact == Spec => []StreamIntact
<1>1. Inv => StreamIntact
  BY DEF Inv, Stream
<1> QED BY <1>1, InvHolds, PTL

\* reading_ and the channel agree while the connection is up, whatever the
\* program does.
THEOREM ReadInterestKept == Spec => []ReadInterest
<1>1. Inv => ReadInterest
  BY DEF Inv
<1> QED BY <1>1, InvHolds, PTL
-----------------------------------------------------------------------------
(* DisciplinedInv holds for the programs that keep to the rules.           *)

\* All programs under consideration keep to the rules.
AllDisciplined == \A c \in Clients : Disciplined(c)

\* The types of what a program is.
LEMMA ClientFacts ==
    ASSUME Inv
    PROVE  /\ client.maxCloses \in Nat /\ client.serverDies \in BOOLEAN
           /\ closes \in 0..client.maxCloses /\ removals \in Nat /\ down \in Nat
BY ConstantsAssumption DEF Inv, TypeOK

\* A queue of functors on which nothing that matters to the rules was pushed.
QueueKept ==
    /\ Has(functors', "connectDestroyed") <=> Has(functors, "connectDestroyed")
    /\ AtMostOne(functors, "connectDestroyed") => AtMostOne(functors', "connectDestroyed")
    /\ Has(functors', "forceClose") => Has(functors, "forceClose")
    /\ Has(functors', "startRead") =>
           Has(functors, "startRead") \/ "startRead" \in client.threadCalls

\* Pushing a functor that is neither connectDestroyed nor forceClose.
LEMMA PushKept ==
    ASSUME Inv, NEW f \in Functor, functors' = Append(functors, f),
           f.op \notin {"connectDestroyed", "forceClose"},
           f.op = "startRead" => "startRead" \in client.threadCalls
    PROVE  QueueKept
<1>1. functors \in Seq(Functor)
  BY DEF Inv, Iteration
<1>2. \A op : Has(functors', op) <=> Has(functors, op) \/ f.op = op
  BY <1>1, PushFacts
<1>3. AtMostOne(functors, "connectDestroyed") => AtMostOne(functors', "connectDestroyed")
  BY <1>1, PushFacts
<1> QED BY <1>2, <1>3 DEF QueueKept

\* Taking a functor that is not connectDestroyed.
LEMMA PopKept ==
    ASSUME Inv, functors # <<>>, functors' = Tail(functors),
           Head(functors).op # "connectDestroyed"
    PROVE  QueueKept
<1>1. functors \in Seq(Functor)
  BY DEF Inv, Iteration
<1> QED BY <1>1, PopFacts DEF QueueKept

\* What sendInLoop pushes.
LEMMA GrownKept ==
    ASSUME Inv, Grown(functors, functors') \/
                (functors # <<>> /\ Head(functors).op = "send" /\ Grown(Tail(functors), functors'))
    PROVE  QueueKept
<1>1. functors \in Seq(Functor)
  BY DEF Inv, Iteration
<1>2. {"connectDestroyed", "forceClose", "startRead"} \subseteq Op \ {"writeComplete", "highWaterMark"}
  BY DEF Op
<1>3. CASE Grown(functors, functors')
  BY <1>2, <1>3 DEF Grown, QueueKept
<1>4. CASE functors # <<>> /\ Head(functors).op = "send" /\ Grown(Tail(functors), functors')
  <2>1. /\ Has(Tail(functors), "connectDestroyed") <=> Has(functors, "connectDestroyed")
        /\ Has(Tail(functors), "forceClose") => Has(functors, "forceClose")
        /\ Has(Tail(functors), "startRead") => Has(functors, "startRead")
        /\ AtMostOne(functors, "connectDestroyed") => AtMostOne(Tail(functors), "connectDestroyed")
    BY <1>1, <1>4, PopFacts
  <2> QED BY <2>1, <1>2, <1>4 DEF Grown, QueueKept
<1> QED BY <1>3, <1>4

\* Who the program is, who owns the connection, and whether it was announced.
Owners == <<client, owned, server, up>>

\* Steps that leave the connection as it is.
LEMMA QuietStep ==
    ASSUME DisciplinedInv, Inv', QueueKept, revents' \subseteq revents,
           UNCHANGED <<Owners, state, events, index, down, failed, removals, closes, thread,
                       outputBuffer, peer>>
    PROVE  DisciplinedInv'
<1> USE DEF Owners, QueueKept
<1>1. Disciplined(client)' /\ failed' = "none" /\ Told' /\ WriteInterest'
  BY DEF DisciplinedInv, Disciplined, Told, Open, WriteInterest
<1>2. Watched' /\ Ownership'
  BY DEF DisciplinedInv, Watched, Ownership, Open
<1>3. Closing'
  BY DEF DisciplinedInv, Closing
<1>4. Outside' /\ Reports'
  BY DEF DisciplinedInv, Outside, Reports, Open
<1> QED BY <1>1, <1>2, <1>3, <1>4 DEF DisciplinedInv

\* Steps that change what an open connection is watched for.
LEMMA InterestStep ==
    ASSUME DisciplinedInv, Inv', QueueKept, revents' \subseteq revents, Open, up = 1,
           UNCHANGED <<Owners, state, down, failed, removals, closes, thread, peer>>,
           index' # "kNew", WriteInterest',
           "reset" \in client.peerEnds =>
               /\ revents' \cap {"read", "close"} # {} => index' = "kAdded"
               /\ client.maxCloses > 0 => "read" \in events' /\ index' = "kAdded"
    PROVE  DisciplinedInv'
<1> USE DEF Owners, QueueKept
<1>1. Disciplined(client)' /\ failed' = "none" /\ Told'
  BY DEF DisciplinedInv, Disciplined, Told, Open
<1>2. state # "KDisconnected" /\ down = 0 /\ Open'
  BY DEF DisciplinedInv, Told, Open
<1>3. Watched'
  BY <1>2 DEF DisciplinedInv, Watched, Open
<1>4. Ownership'
  BY <1>2 DEF DisciplinedInv, Ownership
<1>5. Closing'
  BY DEF DisciplinedInv, Closing
<1>6. Outside'
  BY DEF DisciplinedInv, Outside
<1>7. Reports'
  BY <1>2 DEF Reports
<1> QED BY <1>1, <1>3, <1>4, <1>5, <1>6, <1>7 DEF DisciplinedInv

\* handleClose, from any of its callers: nobody else is closing, and the server
\* is alive and still owns the connection.
LEMMA CloseStep ==
    ASSUME DisciplinedInv, Inv', QueueKept, up = 1, Open,
           peer # "open" \/ closes > 0,
           \A t \in Threads : thread[t] # "store",
           UNCHANGED <<Owners, closes, thread, peer>>,
           state' = "KDisconnected", events' = {}, down' = down + 1, removals' = removals + 1,
           failed' = IF ~Open THEN "handleClose"
                     ELSE IF server = "destroyed" THEN "removeConnection" ELSE "none",
           index' # "kNew", "reset" \in client.peerEnds => index' = "kDeleted",
           revents' \cap {"read", "close"} = {}
    PROVE  DisciplinedInv'
<1> USE DEF Owners, QueueKept
<1>0. /\ client.maxCloses \in Nat /\ closes \in 0..client.maxCloses /\ down \in Nat
  BY ClientFacts DEF DisciplinedInv
<1>1. client.peerEnds # {} \/ client.maxCloses > 0
  BY <1>0 DEF DisciplinedInv, Outside
<1>2. ~client.serverDies /\ "startRead" \notin client.threadCalls
  BY <1>0, <1>1 DEF DisciplinedInv, Disciplined
<1>3. server # "destroyed" /\ server = "alive" /\ owned
  BY <1>2 DEF DisciplinedInv, Ownership, Open, Inv, TypeOK
<1>4. down = 0 /\ removals = 0 /\ ~Has(functors, "connectDestroyed")
  BY <1>3 DEF DisciplinedInv, Told, Ownership
<1>5. Disciplined(client)' /\ failed' = "none" /\ Told' /\ WriteInterest'
  BY <1>3, <1>4 DEF DisciplinedInv, Disciplined, Told, Open, WriteInterest
<1>6. Watched'
  BY DEF Watched, Open
<1>7. Ownership'
  BY <1>2, <1>3, <1>4 DEF DisciplinedInv, Ownership
<1>8. Closing'
  BY DEF DisciplinedInv, Closing
<1>9. Outside'
  BY <1>2 DEF DisciplinedInv, Outside
<1>10. Reports'
  BY DEF Reports, Open
<1> QED BY <1>5, <1>6, <1>7, <1>8, <1>9, <1>10 DEF DisciplinedInv

\* The poll, the end of the callbacks, and the peer.
LEMMA LoopDisciplined ==
    ASSUME DisciplinedInv, Inv',
           (\E r \in SUBSET {"close", "read", "write"} : Poll(r)) \/ Swap \/ PeerLeaves
    PROVE  DisciplinedInv'
<1> USE DEF chanVars, dataVars, ownVars, userVars
<1>1. QueueKept /\ UNCHANGED <<Owners, state, events, index, down, failed, removals, closes, thread,
                               outputBuffer>>
  BY DEF Poll, Swap, PeerLeaves, QueueKept, Owners, Has, AtMostOne
<1>2. ASSUME NEW r \in SUBSET {"close", "read", "write"}, Poll(r)
      PROVE  DisciplinedInv'
  <2>1. /\ peer' = peer /\ revents' = r
        /\ r \cap {"read", "close"} # {} => index = "kAdded"
        /\ "read" \in r => "read" \in events
        /\ "close" \in r => peer = "reset"
    BY <1>2 DEF Poll, Reported, DisciplinedInv, Inv, TypeOK
  <2>2. r \cap {"read", "close"} # {} => Open
    <3>1. index = "kAdded" => state # "KConnecting"
      BY DEF DisciplinedInv, Inv, Establishment, Fresh
    <3>2. "read" \in events => state # "KDisconnected"
      BY DEF DisciplinedInv, Watched
    <3>3. peer = "reset" /\ index = "kAdded" => state # "KDisconnected"
      BY DEF DisciplinedInv, Outside, Reports
    <3> QED BY <2>1, <3>1, <3>2, <3>3 DEF DisciplinedInv, Inv, TypeOK, Open
  <2>3. Reports'
    BY <1>1, <2>1, <2>2 DEF DisciplinedInv, Reports, Open, Owners
  <2>4. Disciplined(client)' /\ failed' = "none" /\ Told' /\ WriteInterest'
    BY <1>1 DEF DisciplinedInv, Disciplined, Told, Open, WriteInterest, Owners
  <2>5. Watched' /\ Ownership'
    BY <1>1 DEF DisciplinedInv, Watched, Ownership, Open, Owners, QueueKept
  <2>6. Closing' /\ Outside'
    BY <1>1, <2>1 DEF DisciplinedInv, Closing, Outside, Owners, QueueKept
  <2> QED BY <2>3, <2>4, <2>5, <2>6 DEF DisciplinedInv
<1>3. CASE Swap
  BY <1>1, <1>3, QuietStep DEF Swap
<1>4. CASE PeerLeaves
  <2>1. peer' \in client.peerEnds /\ revents' = revents
    BY <1>4 DEF PeerLeaves
  <2>2. Disciplined(client)' /\ failed' = "none" /\ Told' /\ WriteInterest'
    BY <1>1 DEF DisciplinedInv, Disciplined, Told, Open, WriteInterest, Owners
  <2>3. Watched' /\ Ownership'
    BY <1>1 DEF DisciplinedInv, Watched, Ownership, Open, Owners, QueueKept
  <2>4. Closing' /\ Outside' /\ Reports'
    BY <1>1, <2>1 DEF DisciplinedInv, Closing, Outside, Reports, Open, Owners, QueueKept
  <2> QED BY <2>2, <2>3, <2>4 DEF DisciplinedInv
<1> QED BY <1>2, <1>3, <1>4

\* The callbacks of the channel that write nothing.
LEMMA TurnDisciplined ==
    ASSUME DisciplinedInv, Inv', HandleHup \/ HandleReadClose \/ HandleReadOther \/ HandleWriteNothing
    PROVE  DisciplinedInv'
<1> USE DEF chanVars, dataVars, ownVars, userVars
<1>1. PICK e \in {"close", "read", "write"} :
        /\ Turn(e)
        /\ NoClose \/ (HandleClose /\ (e = "close" \/ (e = "read" /\ peer # "open")))
  BY DEF HandleHup, HandleReadClose, HandleReadOther, HandleWriteNothing
<1>2. /\ QueueKept /\ UNCHANGED <<Owners, closes, thread, peer, outputBuffer>>
      /\ revents' = revents \ {e} /\ e \in revents
      /\ e = "read" => "close" \notin revents
  BY <1>1 DEF Turn, HandleHup, HandleReadClose, HandleReadOther, HandleWriteNothing, QueueKept, Owners,
              Has, AtMostOne
<1>3. up = 1
  BY <1>2, EstablishedFirst DEF DisciplinedInv
<1>4. CASE NoClose
  BY <1>2, <1>4, QuietStep DEF NoClose
<1>5. CASE HandleClose /\ (e = "close" \/ (e = "read" /\ peer # "open"))
  <2>1. e \in {"close", "read"} /\ HandleClose
    BY <1>5
  <2>2. Open /\ ("reset" \in client.peerEnds => index = "kAdded")
    BY <1>2, <2>1 DEF DisciplinedInv, Reports
  <2>3. peer # "open"
    BY <1>2, <1>5 DEF DisciplinedInv, Inv, Iteration
  <2>4. revents' \cap {"read", "close"} = {}
    BY <1>2, <2>1 DEF DisciplinedInv, Inv, Iteration
  <2>5. \A t \in Threads : thread[t] # "store"
    BY <2>3 DEF DisciplinedInv, Outside, Disciplined, Closing
  <2>6. /\ state' = "KDisconnected" /\ events' = {} /\ down' = down + 1 /\ removals' = removals + 1
        /\ failed' = IF ~Open THEN "handleClose"
                     ELSE IF server = "destroyed" THEN "removeConnection" ELSE "none"
        /\ index' = IF index = "kAdded" THEN "kDeleted" ELSE "kAdded"
    BY <2>1 DEF HandleClose, HandleCloseFrom, AllOff, Updated
  <2>7. index' # "kNew" /\ ("reset" \in client.peerEnds => index' = "kDeleted")
    BY <2>2, <2>6
  <2> QED BY <1>2, <1>3, <2>2, <2>3, <2>4, <2>5, <2>6, <2>7, CloseStep
<1> QED BY <1>1, <1>4, <1>5

\* handleWrite: drained it stops watching, and ends a connection that closes.
LEMMA HandleWriteDisciplined ==
    ASSUME DisciplinedInv, Inv', NEW n \in 1..Len(outputBuffer), HandleWrite(n)
    PROVE  DisciplinedInv'
<1> USE DEF chanVars, dataVars, ownVars, userVars
<1>1. /\ Turn("write") /\ "write" \in events /\ revents' = {}
      /\ UNCHANGED <<Owners, closes, thread, peer>> /\ revents' \subseteq revents
  BY DEF HandleWrite, Turn, Owners
<1>2. up = 1
  BY <1>1, EstablishedFirst DEF DisciplinedInv, Turn
<1>3. Open
  BY <1>1, <1>2 DEF DisciplinedInv, Watched, Inv, Establishment, TypeOK, Open
<1>4. index = "kAdded"
  BY <1>1, <1>3 DEF DisciplinedInv, WriteInterest
<1>5. QueueKept
  <2>1. CASE functors' = functors
    BY <2>1 DEF QueueKept, Has, AtMostOne
  <2>2. CASE functors' = Append(functors, Task("writeComplete"))
    <3>1. Task("writeComplete") \in Functor /\ Task("writeComplete").op = "writeComplete"
      BY TaskType DEF Op
    <3> QED BY <2>2, <3>1, PushKept DEF DisciplinedInv
  <2> QED BY <2>1, <2>2 DEF HandleWrite
<1>6. CASE n = Len(outputBuffer) /\ state = "KDisconnecting"
  <2>1. HandleCloseFrom(Updated(index, events \ {"write"}))
    BY <1>6 DEF HandleWrite, WritingOff
  <2>2. closes > 0
    BY <1>6, ClientFacts DEF DisciplinedInv, Closing
  <2>3. \A t \in Threads : thread[t] # "store"
    BY <1>6 DEF DisciplinedInv, Closing
  <2>4. client.maxCloses > 0
    BY <2>2, ClientFacts DEF DisciplinedInv
  <2>5. "reset" \in client.peerEnds => "read" \in events
    BY <2>4, <1>3 DEF DisciplinedInv, Reports
  <2>6. /\ state' = "KDisconnected" /\ events' = {} /\ down' = down + 1 /\ removals' = removals + 1
        /\ failed' = IF ~Open THEN "handleClose"
                     ELSE IF server = "destroyed" THEN "removeConnection" ELSE "none"
        /\ index' # "kNew" /\ ("read" \in events => index' = "kDeleted")
    BY <2>1 DEF HandleCloseFrom, AllOff, Updated
  <2>7. revents' \cap {"read", "close"} = {}
    BY <1>1
  <2> QED BY <1>1, <1>2, <1>3, <1>5, <2>2, <2>3, <2>5, <2>6, <2>7, CloseStep
<1>7. CASE ~(n = Len(outputBuffer) /\ state = "KDisconnecting")
  <2>1. /\ UNCHANGED <<state, down, removals, failed>>
        /\ IF n = Len(outputBuffer)
           THEN events' = events \ {"write"} /\ index' = Updated(index, events \ {"write"})
           ELSE UNCHANGED <<events, index>>
    BY <1>7 DEF HandleWrite, SetEvents, WritingOff
  <2>2. outputBuffer' = SubSeq(outputBuffer, n + 1, Len(outputBuffer))
    BY DEF HandleWrite
  <2>3. outputBuffer \in Seq(Byte) /\ Len(outputBuffer) \in Nat
    BY LenProperties DEF DisciplinedInv, Inv, TypeOK
  <2>4. n = Len(outputBuffer) <=> outputBuffer' = <<>>
    <3>1. \A i \in (n + 1)..Len(outputBuffer) : outputBuffer[i] \in Byte
      BY <2>3, ElementOfSeq
    <3>2. outputBuffer' \in Seq(Byte)
          /\ Len(outputBuffer') = IF n + 1 <= Len(outputBuffer) THEN Len(outputBuffer) - n ELSE 0
      BY <2>2, <2>3, <3>1, SubSeqProperties
    <3> QED BY <2>3, <3>2, EmptySeq
  <2>5. index' # "kNew" /\ WriteInterest'
    BY <1>1, <1>4, <2>1, <2>4 DEF WriteInterest, Updated
  <2>6. "reset" \in client.peerEnds /\ client.maxCloses > 0 => "read" \in events' /\ index' = "kAdded"
    BY <1>3, <1>4, <2>1 DEF DisciplinedInv, Reports, Updated
  <2>7. revents' \cap {"read", "close"} = {}
    BY <1>1
  <2> QED BY <1>1, <1>2, <1>3, <1>5, <2>1, <2>5, <2>6, <2>7, InterestStep
<1> QED BY <1>6, <1>7

\* connectEstablished.
LEMMA ConnectEstablishedDisciplined ==
    ASSUME DisciplinedInv, Inv', ConnectEstablished
    PROVE  DisciplinedInv'
<1> USE DEF chanVars, dataVars, ownVars, userVars
<1>1. Run("connectEstablished")
  BY DEF ConnectEstablished
<1>2. functors # <<>> /\ Head(functors).op = "connectEstablished" /\ revents' = {}
      /\ functors \in Seq(Functor)
  BY <1>1, RunFacts DEF DisciplinedInv
<1>3. Head(functors) = functors[1] /\ 1 \in DOMAIN functors
  BY <1>2, PopFacts
<1>4. up = 0 /\ Fresh
  BY <1>2, <1>3 DEF DisciplinedInv, Inv, Establishment, Has
<1>5. /\ functors' = Tail(functors) /\ state' = "KConnected" /\ events' = {"read"}
      /\ index' = "kAdded" /\ up' = 1 /\ failed' = "none"
      /\ UNCHANGED <<client, peer, owned, server, thread, closes, outputBuffer, removals, down>>
  BY <1>1, <1>4 DEF ConnectEstablished, Run, Fresh, SetEvents, Updated
<1>6. QueueKept
  BY <1>2, <1>5, PopKept DEF DisciplinedInv
<1>7. Disciplined(client)' /\ Told' /\ WriteInterest' /\ Watched'
  BY <1>4, <1>5 DEF DisciplinedInv, Disciplined, Told, Open, WriteInterest, Watched, Fresh
<1>8. Ownership'
  BY <1>4, <1>5, <1>6 DEF DisciplinedInv, Ownership, Fresh, QueueKept
<1>9. Closing'
  BY <1>4, <1>5, <1>6 DEF DisciplinedInv, Closing, Fresh, QueueKept
<1>10. Outside' /\ Reports'
  BY <1>2, <1>5, <1>6 DEF DisciplinedInv, Outside, Reports, QueueKept
<1> QED BY <1>5, <1>7, <1>8, <1>9, <1>10 DEF DisciplinedInv

\* sendInLoop, from a functor and from the user's code.
LEMMA SendDisciplined ==
    ASSUME DisciplinedInv, Inv', RunSend \/ \E m \in Messages : UserSend(m)
    PROVE  DisciplinedInv'
<1> USE DEF chanVars, dataVars, ownVars, userVars
<1>1. functors \in Seq(Functor)
  BY DEF DisciplinedInv, Inv, Iteration
<1>2. /\ UNCHANGED <<Owners, state, down, failed, removals, closes, thread, peer, revents>>
      /\ up = 1
      /\ SendInterest
      /\ QueueKept
  <2>1. CASE RunSend
    <3>1. Run("send") /\ SendInLoop(Head(functors).msg, Tail(functors))
      BY <2>1 DEF RunSend
    <3>2. functors # <<>> /\ Head(functors).op = "send"
      BY <3>1, RunFacts DEF DisciplinedInv
    <3>3. up = 1
      BY <3>2, EstablishedFirst DEF DisciplinedInv
    <3>4. Tail(functors) \in Seq(Functor) /\ Head(functors) \in Functor
      BY <1>1, <3>2, PopFacts
    <3>5. Head(functors).msg \in Messages
      BY <3>2, <3>4 DEF Functor
    <3>6. UNCHANGED <<Owners, state, down, failed, removals, closes, thread, peer, revents>>
      BY <2>1, <3>1 DEF RunSend, Run, Owners
    <3>7. SendInterest /\ Grown(Tail(functors), functors')
      BY <3>1, <3>4, <3>5, <3>6, SendFacts DEF DisciplinedInv, Inv
    <3>8. QueueKept
      BY <3>2, <3>7, GrownKept DEF DisciplinedInv
    <3> QED BY <3>3, <3>6, <3>7, <3>8
  <2>2. ASSUME NEW m \in Messages, UserSend(m)
        PROVE  /\ UNCHANGED <<Owners, state, down, failed, removals, closes, thread, peer, revents>>
               /\ up = 1 /\ SendInterest /\ QueueKept
    <3>1. /\ UNCHANGED <<Owners, state, down, failed, removals, closes, thread, peer, revents>>
          /\ up = 1 /\ SendInLoop(m, functors)
      BY <2>2 DEF UserSend, UserCall, Owners
    <3>2. SendInterest /\ Grown(functors, functors')
      BY <3>1, <1>1, SendFacts DEF DisciplinedInv, Inv
    <3>3. QueueKept
      BY <3>2, GrownKept DEF DisciplinedInv
    <3> QED BY <3>1, <3>2, <3>3
  <2> QED BY <2>1, <2>2
<1>3. CASE events' = events /\ index' = index /\ outputBuffer' = outputBuffer
  BY <1>2, <1>3, QuietStep
<1>4. CASE ~(events' = events /\ index' = index /\ outputBuffer' = outputBuffer)
  <2>1. Open
    BY <1>2, <1>4 DEF SendInterest, DisciplinedInv, Inv, TypeOK, Establishment, Open
  <2>2. /\ outputBuffer' # <<>> /\ events' = events \cup {"write"} /\ index' = "kAdded"
    BY <1>2, <1>4, <2>1 DEF SendInterest, DisciplinedInv, WriteInterest
  <2>3. WriteInterest'
    BY <2>2 DEF WriteInterest
  <2>4. "reset" \in client.peerEnds /\ client.maxCloses > 0 => "read" \in events'
    BY <2>1, <2>2 DEF DisciplinedInv, Reports
  <2> QED BY <1>2, <2>1, <2>2, <2>3, <2>4, InterestStep
<1> QED BY <1>3, <1>4

\* forceCloseInLoop and the user's callbacks.
LEMMA FunctorDisciplined ==
    ASSUME DisciplinedInv, Inv', RunForceClose \/ RunCallback
    PROVE  DisciplinedInv'
<1> USE DEF chanVars, dataVars, ownVars, userVars
<1>1. PICK op \in {"forceClose", "writeComplete", "highWaterMark"} :
        Run(op) /\ (RunCallback \/ (RunForceClose /\ op = "forceClose"))
  BY DEF RunForceClose, RunCallback
<1>2. /\ functors # <<>> /\ Head(functors).op = op /\ functors \in Seq(Functor)
      /\ revents = {} /\ revents' = {}
  BY <1>1, RunFacts DEF DisciplinedInv
<1>3. up = 1 /\ functors' = Tail(functors) /\ UNCHANGED <<Owners, closes, thread, peer, outputBuffer>>
  <2>1. up = 1
    BY <1>2, EstablishedFirst DEF DisciplinedInv
  <2> QED BY <2>1, <1>1 DEF RunForceClose, RunCallback, Run, Owners
<1>4. QueueKept
  BY <1>2, <1>3, PopKept DEF DisciplinedInv
<1>5. CASE UNCHANGED <<state, events, index, down, removals, failed>>
  BY <1>2, <1>3, <1>4, <1>5, QuietStep
<1>6. CASE op = "forceClose" /\ Open /\ HandleClose
  <2>1. Has(functors, "forceClose")
    BY <1>2, <1>6, PopFacts DEF Has
  <2>2. closes > 0 /\ client.maxCloses > 0
    BY <2>1, ClientFacts DEF DisciplinedInv, Closing
  <2>3. \A t \in Threads : thread[t] # "store"
    BY <2>1 DEF DisciplinedInv, Closing
  <2>4. "reset" \in client.peerEnds => index = "kAdded"
    BY <2>2, <1>6 DEF DisciplinedInv, Reports
  <2>5. /\ state' = "KDisconnected" /\ events' = {} /\ down' = down + 1 /\ removals' = removals + 1
        /\ failed' = IF ~Open THEN "handleClose"
                     ELSE IF server = "destroyed" THEN "removeConnection" ELSE "none"
        /\ index' = IF index = "kAdded" THEN "kDeleted" ELSE "kAdded"
    BY <1>6 DEF HandleClose, HandleCloseFrom, AllOff, Updated
  <2>6. revents' \cap {"read", "close"} = {}
    BY <1>2
  <2>7. index' # "kNew" /\ ("reset" \in client.peerEnds => index' = "kDeleted")
    BY <2>4, <2>5
  <2> QED BY <1>3, <1>4, <1>6, <2>2, <2>3, <2>5, <2>6, <2>7, CloseStep
<1> QED BY <1>1, <1>5, <1>6 DEF RunForceClose, RunCallback, ForceCloseInLoop, NoClose

\* startRead(), as a functor and on the loop's thread, and stopRead().
LEMMA ReadDisciplined ==
    ASSUME DisciplinedInv, Inv', RunStartRead \/ UserStartRead \/ UserStopRead
    PROVE  DisciplinedInv'
<1> USE DEF chanVars, dataVars, ownVars, userVars
<1>1. /\ UNCHANGED <<Owners, state, down, failed, removals, closes, thread, peer, outputBuffer, revents>>
      /\ up = 1 /\ Open /\ QueueKept
  <2>1. CASE RunStartRead
    <3>1. Run("startRead")
      BY <2>1 DEF RunStartRead
    <3>2. functors # <<>> /\ Head(functors).op = "startRead" /\ functors \in Seq(Functor)
      BY <3>1, RunFacts DEF DisciplinedInv
    <3>3. up = 1 /\ state # "KConnecting"
      BY <3>2, EstablishedFirst DEF DisciplinedInv
    <3>4. Has(functors, "startRead")
      BY <3>2, PopFacts DEF Has
    <3>5. Open
      BY <3>3, <3>4 DEF DisciplinedInv, Outside, Inv, TypeOK, Open
    <3>6. QueueKept
      BY <2>1, <3>2, PopKept DEF RunStartRead, DisciplinedInv
    <3> QED BY <2>1, <3>1, <3>3, <3>5, <3>6 DEF RunStartRead, Run, Owners
  <2>2. CASE UserStartRead \/ UserStopRead
    <3>1. up = 1 /\ down = 0 /\ functors' = functors
      BY <2>2 DEF UserStartRead, UserStopRead, UserCall
    <3>2. Open
      BY <3>1 DEF DisciplinedInv, Told
    <3>3. QueueKept
      BY <3>1 DEF QueueKept, Has, AtMostOne
    <3> QED BY <2>2, <3>1, <3>2, <3>3 DEF UserStartRead, UserStopRead, UserCall, Owners
  <2> QED BY <2>1, <2>2
<1>2. CASE UNCHANGED chanVars
  BY <1>1, <1>2, QuietStep
<1>3. CASE SetEvents(events \cup {"read"})
  <2>1. events' = events \cup {"read"} /\ index' = "kAdded"
    BY <1>3 DEF SetEvents, Updated
  <2>2. WriteInterest'
    BY <2>1, <1>1 DEF DisciplinedInv, WriteInterest
  <2> QED BY <1>1, <2>1, <2>2, InterestStep
<1>4. CASE UserStopRead
  <2>1. events' = events \ {"read"} /\ index' = Updated(index, events \ {"read"})
    BY <1>4 DEF UserStopRead, SetEvents
  <2>2. WriteInterest' /\ index' # "kNew"
    BY <2>1, <1>1 DEF DisciplinedInv, WriteInterest, Updated, Open
  <2>3. "reset" \in client.peerEnds => revents = {} /\ client.maxCloses = 0
    BY <1>4 DEF UserStopRead, UserCall, DisciplinedInv, Disciplined, Inv, Iteration
  <2>4. client.maxCloses = 0 => ~(client.maxCloses > 0)
    OBVIOUS
  <2> QED BY <1>1, <2>2, <2>3, <2>4, InterestStep
<1> QED BY <1>2, <1>3, <1>4 DEF RunStartRead, UserStartRead, StopReadInLoop

\* connectDestroyed, after handleClose or because the server dies.
LEMMA ConnectDestroyedDisciplined ==
    ASSUME DisciplinedInv, Inv', ConnectDestroyed
    PROVE  DisciplinedInv'
<1> USE DEF chanVars, dataVars, ownVars, userVars
<1>1. Run("connectDestroyed")
  BY DEF ConnectDestroyed
<1>2. /\ functors # <<>> /\ Head(functors).op = "connectDestroyed" /\ functors \in Seq(Functor)
      /\ revents' = {}
  BY <1>1, RunFacts DEF DisciplinedInv
<1>3. /\ Has(functors, "connectDestroyed")
      /\ AtMostOne(functors, "connectDestroyed") =>
             ~Has(Tail(functors), "connectDestroyed") /\ AtMostOne(Tail(functors), "connectDestroyed")
      /\ Has(Tail(functors), "forceClose") => Has(functors, "forceClose")
      /\ Has(Tail(functors), "startRead") => Has(functors, "startRead")
  BY <1>2, PopFacts DEF Has
<1>4. up = 1 /\ state # "KConnecting"
  BY <1>2, EstablishedFirst DEF DisciplinedInv
<1>5. ~owned /\ removals = 0
  BY <1>3 DEF DisciplinedInv, Ownership
<1>6. Open => client.serverDies /\ state = "KConnected" /\ closes = 0 /\ down = 0
  <2> SUFFICES ASSUME Open PROVE client.serverDies /\ state = "KConnected" /\ closes = 0 /\ down = 0
    OBVIOUS
  <2>1. client.serverDies
    BY <1>5 DEF DisciplinedInv, Ownership, Open
  <2>2. closes = 0
    BY <2>1, ClientFacts DEF DisciplinedInv, Disciplined
  <2> QED BY <2>1, <2>2, <1>4 DEF DisciplinedInv, Closing, Open, Told
<1>7. state = "KConnected" \/ state = "KDisconnected"
  BY <1>4, <1>6 DEF DisciplinedInv, Inv, TypeOK, Open
<1>8. /\ functors' = Tail(functors) /\ index' = "kNew"
      /\ UNCHANGED <<client, owned, server, thread, closes, peer, removals, up>>
  BY <1>1 DEF ConnectDestroyed, Run
<1>9. state' = "KDisconnected" /\ down' = 1 /\ events' = {} /\ failed' = "none"
  <2>1. CASE state = "KConnected"
    <3>1. down = 0
      BY <2>1, <1>6 DEF Open
    <3> QED BY <2>1, <3>1 DEF ConnectDestroyed, DestroyedCallback, AllOff
  <2>2. CASE state = "KDisconnected"
    <3>1. events = {} /\ index # "kNew" /\ down = 1
      BY <2>2, <1>3, <1>4 DEF DisciplinedInv, Watched, Told
    <3> QED BY <2>2, <3>1 DEF ConnectDestroyed, DestroyedCallback
  <2> QED BY <2>1, <2>2, <1>7
<1>10. Disciplined(client)' /\ Told' /\ WriteInterest'
  BY <1>8, <1>9 DEF DisciplinedInv, Disciplined, Told, Open, WriteInterest
<1>11. Watched' /\ Ownership'
  BY <1>3, <1>4, <1>5, <1>8, <1>9 DEF DisciplinedInv, Watched, Ownership, Open
<1>12. Closing'
  <2>1. \A t \in Threads : thread[t] # "store"
    <3>1. CASE state = "KConnected"
      BY <3>1, <1>6 DEF DisciplinedInv, Closing, Open
    <3>2. CASE state = "KDisconnected"
      BY <3>2 DEF DisciplinedInv, Closing
    <3> QED BY <3>1, <3>2, <1>7
  <2> QED BY <2>1, <1>3, <1>8, <1>9 DEF DisciplinedInv, Closing
<1>13. Outside'
  <2>1. "startRead" \notin client.threadCalls
    BY <1>6, <1>7 DEF DisciplinedInv, Disciplined, Outside, Open
  <2> QED BY <2>1, <1>3, <1>8, <1>9 DEF DisciplinedInv, Outside
<1>14. Reports'
  BY <1>2, <1>8, <1>9 DEF Reports, Open
<1> QED BY <1>9, <1>10, <1>11, <1>12, <1>13, <1>14 DEF DisciplinedInv

\* forceClose() on the loop's thread.
LEMMA UserForceCloseDisciplined ==
    ASSUME DisciplinedInv, Inv', UserForceClose
    PROVE  DisciplinedInv'
<1> USE DEF chanVars, dataVars, ownVars, userVars
<1> DEFINE f == Task("forceClose")
<1>1. /\ up = 1 /\ Open /\ closes < client.maxCloses /\ closes' = closes + 1
      /\ state' = "KDisconnecting" /\ functors' = Append(functors, f)
      /\ UNCHANGED <<client, owned, server, up, events, index, down, failed, removals, thread,
                     outputBuffer, peer, revents>>
  BY DEF UserForceClose, UserCall
<1>2. f \in Functor /\ f.op = "forceClose"
  BY TaskType DEF Op
<1> HIDE DEF f
<1>3. /\ Has(functors', "connectDestroyed") <=> Has(functors, "connectDestroyed")
      /\ Has(functors', "startRead") <=> Has(functors, "startRead")
      /\ AtMostOne(functors, "connectDestroyed") => AtMostOne(functors', "connectDestroyed")
  BY <1>1, <1>2, PushFacts DEF DisciplinedInv, Inv, Iteration
<1>4. \A t \in Threads : thread[t] # "store"
  <2>1. client.maxCloses \in Nat /\ closes \in Nat
    BY ClientFacts DEF DisciplinedInv
  <2>2. "forceClose" \in client.threadCalls => closes = 0
    BY <1>1, <2>1 DEF DisciplinedInv, Disciplined
  <2> QED BY <2>2 DEF DisciplinedInv, Closing
<1>5. closes' # 0
  BY <1>1, ClientFacts DEF DisciplinedInv
<1>6. Disciplined(client)' /\ failed' = "none" /\ Told' /\ WriteInterest'
  BY <1>1 DEF DisciplinedInv, Disciplined, Told, Open, WriteInterest
<1>7. Watched' /\ Ownership'
  BY <1>1, <1>3 DEF DisciplinedInv, Watched, Ownership, Open, Told
<1>8. Closing'
  BY <1>1, <1>4, <1>5 DEF DisciplinedInv, Closing
<1>9. Outside' /\ Reports'
  BY <1>1, <1>3 DEF DisciplinedInv, Outside, Reports, Open
<1> QED BY <1>6, <1>7, <1>8, <1>9 DEF DisciplinedInv

\* The calls of other threads that do not close the connection.
LEMMA ThreadDisciplined ==
    ASSUME DisciplinedInv, Inv', NEW t \in Threads,
           (\E m \in Messages : ThreadSend(t, m)) \/ ThreadStartRead(t) \/ ThreadRelease(t)
    PROVE  DisciplinedInv'
<1> USE DEF chanVars, dataVars, ownVars, userVars
<1>1. /\ UNCHANGED <<Owners, state, events, index, down, failed, removals, closes, thread,
                     outputBuffer, peer>>
      /\ revents' = revents
  BY DEF ThreadSend, ThreadStartRead, ThreadRelease, ThreadStep, Owners
<1>2. ASSUME NEW m \in Messages, ThreadSend(t, m)
      PROVE  QueueKept
  <2> DEFINE f == [op |-> "send", msg |-> m]
  <2>1. f \in Functor /\ f.op = "send"
    BY DEF Functor, Op
  <2>2. functors' = Append(functors, f)
    BY <1>2 DEF ThreadSend
  <2> QED BY <2>1, <2>2, PushKept DEF DisciplinedInv
<1>3. ASSUME ThreadStartRead(t)
      PROVE  QueueKept
  <2>1. Task("startRead") \in Functor /\ Task("startRead").op = "startRead"
    BY TaskType DEF Op
  <2>2. functors' = Append(functors, Task("startRead")) /\ "startRead" \in client.threadCalls
    BY <1>3 DEF ThreadStartRead
  <2> QED BY <2>1, <2>2, PushKept DEF DisciplinedInv
<1>4. ASSUME ThreadRelease(t)
      PROVE  QueueKept
  BY <1>4 DEF ThreadRelease, QueueKept, Has, AtMostOne
<1>5. QueueKept
  BY <1>2, <1>3, <1>4
<1> QED BY <1>1, <1>5, QuietStep

\* The three steps of forceClose() on another thread, which is then the only
\* one that ends the connection.
LEMMA ForceCloseDisciplined ==
    ASSUME DisciplinedInv, Inv', NEW t \in Threads,
           ThreadForceCloseTest(t) \/ ThreadForceCloseStore(t) \/ ThreadForceClosePush(t)
    PROVE  DisciplinedInv'
<1> USE DEF chanVars, dataVars, ownVars, userVars
<1>1. UNCHANGED <<client, owned, server, up, events, index, down, failed, removals, outputBuffer,
                  peer, revents>>
  BY DEF ThreadForceCloseTest, ThreadForceCloseStore, ThreadForceClosePush, ThreadStep
<1>2. /\ thread \in [Threads -> {"idle", "store", "push"}]
      /\ client.maxCloses \in Nat /\ closes \in Nat
  BY ClientFacts DEF DisciplinedInv, Inv, TypeOK
<1>3. CASE ThreadForceCloseTest(t)
  <2>1. /\ "forceClose" \in client.threadCalls /\ Open /\ closes < client.maxCloses
        /\ closes' = closes + 1 /\ thread' = [thread EXCEPT ![t] = "store"]
        /\ state' = state /\ functors' = functors
    BY <1>3 DEF ThreadForceCloseTest
  <2>2. closes = 0
    BY <2>1, <1>2 DEF DisciplinedInv, Disciplined
  <2>3. /\ \A u \in Threads : thread[u] = "idle"
        /\ ~Has(functors, "forceClose") /\ state = "KConnected"
    BY <2>1, <2>2 DEF DisciplinedInv, Closing, Open
  <2>4. \A u \in Threads : thread'[u] = IF u = t THEN "store" ELSE "idle"
    BY <1>2, <2>1, <2>3
  <2>5. closes' # 0
    BY <2>1, <2>2
  <2>6. Closing'
    BY <1>1, <2>1, <2>3, <2>4, <2>5 DEF Closing
  <2>7. Disciplined(client)' /\ failed' = "none" /\ Told' /\ WriteInterest'
    BY <1>1, <2>1 DEF DisciplinedInv, Disciplined, Told, Open, WriteInterest
  <2>8. Watched' /\ Ownership' /\ Outside' /\ Reports'
    BY <1>1, <2>1 DEF DisciplinedInv, Watched, Ownership, Outside, Reports, Open, Has, AtMostOne
  <2> QED BY <2>6, <2>7, <2>8 DEF DisciplinedInv
<1>4. CASE ThreadForceCloseStore(t)
  <2>1. /\ thread[t] = "store" /\ state' = "KDisconnecting"
        /\ thread' = [thread EXCEPT ![t] = "push"] /\ functors' = functors /\ closes' = closes
    BY <1>4 DEF ThreadForceCloseStore
  <2>2. /\ state = "KConnected" /\ closes # 0 /\ ~Has(functors, "forceClose")
        /\ "forceClose" \in client.threadCalls
        /\ \A u \in Threads : thread[u] # "idle" => u = t
    BY <2>1 DEF DisciplinedInv, Closing
  <2>3. \A u \in Threads : thread'[u] = IF u = t THEN "push" ELSE "idle"
    BY <1>2, <2>1, <2>2
  <2>4. Closing'
    BY <1>1, <2>1, <2>2, <2>3 DEF Closing
  <2>5. Disciplined(client)' /\ failed' = "none" /\ Told' /\ WriteInterest'
    BY <1>1, <2>1, <2>2 DEF DisciplinedInv, Disciplined, Told, Open, WriteInterest
  <2>6. Watched' /\ Ownership'
    BY <1>1, <2>1, <2>2 DEF DisciplinedInv, Watched, Ownership, Open, Has, AtMostOne
  <2>7. Outside' /\ Reports'
    BY <1>1, <2>1, <2>2 DEF DisciplinedInv, Outside, Reports, Open, Has
  <2> QED BY <2>4, <2>5, <2>6, <2>7 DEF DisciplinedInv
<1>5. CASE ThreadForceClosePush(t)
  <2> DEFINE f == Task("forceClose")
  <2>1. /\ thread[t] = "push" /\ state' = state /\ closes' = closes
        /\ thread' = [thread EXCEPT ![t] = "idle"] /\ functors' = Append(functors, f)
    BY <1>5 DEF ThreadForceClosePush
  <2>2. f \in Functor /\ f.op = "forceClose"
    BY TaskType DEF Op
  <2> HIDE DEF f
  <2>3. /\ Has(functors', "connectDestroyed") <=> Has(functors, "connectDestroyed")
        /\ Has(functors', "startRead") <=> Has(functors, "startRead")
        /\ AtMostOne(functors, "connectDestroyed") => AtMostOne(functors', "connectDestroyed")
    BY <2>1, <2>2, PushFacts DEF DisciplinedInv, Inv, Iteration
  <2>4. closes # 0 /\ \A u \in Threads : thread[u] # "store"
    BY <2>1 DEF DisciplinedInv, Closing
  <2>5. \A u \in Threads : thread'[u] = IF u = t THEN "idle" ELSE thread[u]
    BY <1>2, <2>1
  <2>6. Closing'
    BY <1>1, <2>1, <2>4, <2>5 DEF DisciplinedInv, Closing
  <2>7. Disciplined(client)' /\ failed' = "none" /\ Told' /\ WriteInterest'
    BY <1>1, <2>1 DEF DisciplinedInv, Disciplined, Told, Open, WriteInterest
  <2>8. Watched' /\ Ownership' /\ Outside' /\ Reports'
    BY <1>1, <2>1, <2>3 DEF DisciplinedInv, Watched, Ownership, Outside, Reports, Open
  <2> QED BY <2>6, <2>7, <2>8 DEF DisciplinedInv
<1> QED BY <1>3, <1>4, <1>5

\* The base loop lets the connection go, once.
LEMMA ServerDisciplined ==
    ASSUME DisciplinedInv, Inv', RemoveConnectionInLoop \/ ServerDestroyed
    PROVE  DisciplinedInv'
<1> USE DEF chanVars, dataVars, ownVars, userVars
<1> DEFINE f == Task("connectDestroyed")
<1>1. /\ UNCHANGED <<client, state, events, index, outputBuffer, peer, revents, up, down, closes, thread>>
      /\ owned' = FALSE
      /\ functors' = IF owned \/ RemoveConnectionInLoop THEN functors \o <<f>> ELSE functors
  BY DEF RemoveConnectionInLoop, ServerDestroyed, Farewell
<1>2. f \in Functor /\ f.op = "connectDestroyed"
  BY TaskType DEF Op
<1> HIDE DEF f
<1>3. RemoveConnectionInLoop => removals = 1 /\ owned /\ server = "alive" /\ down = 1
  BY DEF RemoveConnectionInLoop, DisciplinedInv, Ownership
<1>4. /\ server' = server \/ (server' = "destroyed" /\ client.serverDies)
      /\ failed' = "none" /\ removals' = 0
  <2>1. CASE RemoveConnectionInLoop
    BY <2>1, <1>3 DEF RemoveConnectionInLoop
  <2>2. CASE ServerDestroyed
    BY <2>2 DEF ServerDestroyed, DisciplinedInv, Ownership
  <2> QED BY <2>1, <2>2
<1>5. CASE owned
  <2>1. functors \in Seq(Functor) /\ ~Has(functors, "connectDestroyed")
    BY <1>5 DEF DisciplinedInv, Ownership, Inv, Iteration
  <2>2. functors' = Append(functors, f)
    BY <1>1, <1>2, <1>5, <2>1, PushFacts
  <2>3. /\ Has(functors', "connectDestroyed") /\ AtMostOne(functors', "connectDestroyed")
        /\ Has(functors', "forceClose") <=> Has(functors, "forceClose")
        /\ Has(functors', "startRead") <=> Has(functors, "startRead")
    BY <1>2, <2>1, <2>2, PushFacts DEF DisciplinedInv, Ownership
  <2>4. state' # "KDisconnected" => server' = "destroyed"
    <3>1. CASE RemoveConnectionInLoop
      <4>1. state = "KDisconnected"
        BY <1>3, <3>1 DEF DisciplinedInv, Told, Inv, Establishment, Fresh
      <4> QED BY <1>1, <4>1
    <3>2. CASE ServerDestroyed
      BY <3>2 DEF ServerDestroyed
    <3> QED BY <3>1, <3>2
  <2>5. server' = "destroyed" => client.serverDies
    BY <1>4 DEF DisciplinedInv, Ownership
  <2>6. Disciplined(client)' /\ Told' /\ WriteInterest'
    BY <1>1 DEF DisciplinedInv, Disciplined, Told, Open, WriteInterest
  <2>7. Watched'
    BY <1>1, <1>5, <2>3 DEF DisciplinedInv, Watched, Open
  <2>8. Ownership'
    BY <1>1, <1>4, <2>3, <2>4, <2>5 DEF Ownership
  <2>9. Closing' /\ Outside' /\ Reports'
    BY <1>1, <2>3 DEF DisciplinedInv, Closing, Outside, Reports, Open
  <2> QED BY <1>4, <2>6, <2>7, <2>8, <2>9 DEF DisciplinedInv
<1>6. CASE ~owned
  <2>1. functors' = functors /\ server' = "destroyed" /\ client.serverDies
    BY <1>1, <1>3, <1>6 DEF ServerDestroyed
  <2>2. Disciplined(client)' /\ Told' /\ WriteInterest'
    BY <1>1 DEF DisciplinedInv, Disciplined, Told, Open, WriteInterest
  <2>3. Watched' /\ Ownership'
    BY <1>1, <1>4, <1>6, <2>1 DEF DisciplinedInv, Watched, Ownership, Open, Has, AtMostOne
  <2>4. Closing' /\ Outside' /\ Reports'
    BY <1>1, <2>1 DEF DisciplinedInv, Closing, Outside, Reports, Open, Has
  <2> QED BY <1>4, <2>2, <2>3, <2>4 DEF DisciplinedInv
<1> QED BY <1>5, <1>6 DEF DisciplinedInv, Inv, TypeOK

\* A connection just made satisfies it.
LEMMA InitDisciplined == AllDisciplined /\ Init => DisciplinedInv
<1> SUFFICES ASSUME AllDisciplined, Init PROVE DisciplinedInv
  OBVIOUS
<1>1. Inv
  BY InitInv
<1>2. Disciplined(client)
  BY DEF AllDisciplined, Init
<1> DEFINE f == Task("connectEstablished")
<1>3. f.op = "connectEstablished" /\ functors = <<f>>
  BY TaskType DEF Init, Op
<1> HIDE DEF f
<1>4. \A op : Has(functors, op) <=> op = "connectEstablished"
  BY <1>3 DEF Has
<1>5. AtMostOne(functors, "connectDestroyed")
  BY <1>3 DEF AtMostOne
<1>6. failed = "none" /\ Told /\ Watched /\ Ownership /\ WriteInterest
  BY <1>4, <1>5 DEF Init, Told, Watched, Ownership, WriteInterest, Open
<1>7. Closing /\ Outside /\ Reports
  BY <1>4 DEF Init, Closing, Outside, Reports, Open
<1> QED BY <1>1, <1>2, <1>6, <1>7 DEF DisciplinedInv

\* Every step keeps it.
LEMMA NextDisciplined ==
    ASSUME DisciplinedInv, [Next]_vars
    PROVE  DisciplinedInv'
<1>0. Inv'
  BY NextInv DEF DisciplinedInv
<1>1. CASE IoStep
  BY <1>0, <1>1, LoopDisciplined, TurnDisciplined, HandleWriteDisciplined,
     ConnectEstablishedDisciplined, SendDisciplined, FunctorDisciplined, ReadDisciplined,
     ConnectDestroyedDisciplined DEF IoStep
<1>2. CASE RemoveConnectionInLoop \/ ServerDestroyed \/ PeerLeaves
  BY <1>0, <1>2, ServerDisciplined, LoopDisciplined
<1>3. CASE UserForceClose \/ UserStopRead \/ UserStartRead \/ \E m \in Messages : UserSend(m)
  BY <1>0, <1>3, UserForceCloseDisciplined, ReadDisciplined, SendDisciplined
<1>4. ASSUME NEW t \in Threads,
             \/ \E m \in Messages : ThreadSend(t, m)
             \/ ThreadStartRead(t) \/ ThreadRelease(t)
             \/ ThreadForceCloseTest(t) \/ ThreadForceCloseStore(t) \/ ThreadForceClosePush(t)
      PROVE  DisciplinedInv'
  BY <1>0, <1>4, ThreadDisciplined, ForceCloseDisciplined
<1>5. CASE UNCHANGED vars
  <2>1. /\ UNCHANGED <<Owners, state, events, index, down, failed, removals, closes, thread,
                       outputBuffer, peer>>
        /\ revents' \subseteq revents /\ functors' = functors
    BY <1>5 DEF vars, chanVars, dataVars, ownVars, userVars, Owners
  <2>2. QueueKept
    BY <2>1 DEF QueueKept, Has, AtMostOne
  <2> QED BY <1>0, <2>1, <2>2, QuietStep
<1> QED BY <1>1, <1>2, <1>3, <1>4, <1>5 DEF Next

\* DisciplinedInv is an invariant when all programs keep to the rules.
THEOREM DisciplinedInvHolds == AllDisciplined => (Spec => []DisciplinedInv)
<1> SUFFICES ASSUME AllDisciplined PROVE Spec => []DisciplinedInv
  OBVIOUS
<1>1. Init => DisciplinedInv
  BY InitDisciplined
<1>2. DisciplinedInv /\ [Next]_vars => DisciplinedInv'
  BY NextDisciplined
<1> QED BY <1>1, <1>2, PTL DEF Spec

\* EPOLLOUT is asked for exactly while outputBuffer_ holds data, whoever sends,
\* stops reading or closes meanwhile.
THEOREM WriteInterestKept == AllDisciplined => (Spec => []WriteInterest)
<1> SUFFICES ASSUME AllDisciplined PROVE Spec => []WriteInterest
  OBVIOUS
<1>1. DisciplinedInv => WriteInterest
  BY DEF DisciplinedInv
<1>2. Spec => []DisciplinedInv
  BY DisciplinedInvHolds
<1> QED BY <1>1, <1>2, PTL

\* Without a pointer left, connectDestroyed has run.
LEMMA DeadIsDestroyed ==
    ASSUME DisciplinedInv, ~Alive
    PROVE  up = 1 /\ down = 1 /\ index = "kNew" /\ state = "KDisconnected"
<1>1. ~owned /\ \A i \in DOMAIN functors : ~Strong(functors[i])
  BY DEF Alive
<1>2. ~Has(functors, "connectDestroyed")
  BY <1>1 DEF Has, Strong, Raw
<1>3. up = 1 /\ down = 1 /\ index = "kNew"
  BY <1>1, <1>2 DEF DisciplinedInv, Ownership
<1> QED BY <1>3 DEF DisciplinedInv, Told

\* The user hears once that the connection is up and once that it is down, and
\* both before it is destroyed.
THEOREM CallbacksStayPaired == AllDisciplined => (Spec => []CallbacksPaired)
<1> SUFFICES ASSUME AllDisciplined PROVE Spec => []CallbacksPaired
  OBVIOUS
<1>1. DisciplinedInv => CallbacksPaired
  <2> SUFFICES ASSUME DisciplinedInv PROVE CallbacksPaired
    OBVIOUS
  <2>1. up \in {0, 1} /\ (up = 0 => down = 0) /\ (up = 1 => down = 0 \/ down = 1)
    BY DEF DisciplinedInv, Inv, TypeOK, Establishment, Fresh, Told, Open
  <2> QED BY <2>1, DeadIsDestroyed DEF CallbacksPaired
<1>2. Spec => []DisciplinedInv
  BY DisciplinedInvHolds
<1> QED BY <1>1, <1>2, PTL

\* No assertion on the connection's way from newConnection to its destructor
\* fails, and no callback of a destroyed server is called.
THEOREM AssertionsHold == AllDisciplined => (Spec => []NoAssertFails)
<1> SUFFICES ASSUME AllDisciplined PROVE Spec => []NoAssertFails
  OBVIOUS
<1>1. DisciplinedInv => NoAssertFails
  BY DeadIsDestroyed DEF DisciplinedInv, NoAssertFails
<1>2. Spec => []DisciplinedInv
  BY DisciplinedInvHolds
<1> QED BY <1>1, <1>2, PTL
-----------------------------------------------------------------------------
(* A TcpConnection keeps the promise of ConnectionLife.                    *)

\* What a step does to the calls of connectionCallback_ and to the stream.
Moves ==
    \/ up' = up + 1 /\ UNCHANGED <<down, accepted, sent>>
    \/ up' = up /\ down' \in {down, down + 1} /\ UNCHANGED <<accepted, sent>>
    \/ /\ up = 1 /\ down = 0 /\ up' = up /\ down' \in {down, down + 1}
       /\ IsPrefix(sent, sent') /\ IsPrefix(accepted, accepted')
       /\ down' # down => accepted' = accepted

\* sendInLoop extends both ends of the stream, and only of a connection that is up.
LEMMA SendMoves ==
    ASSUME DisciplinedInv, RunSend \/ \E m \in Messages : UserSend(m)
    PROVE  Moves
<1>1. up = 1 /\ up' = up /\ down' = down
  <2>1. CASE RunSend
    <3>1. Run("send") /\ up' = up /\ down' = down
      BY <2>1 DEF RunSend
    <3>2. functors # <<>> /\ Head(functors).op = "send"
      BY <3>1 DEF Run
    <3> QED BY <3>1, <3>2, EstablishedFirst DEF DisciplinedInv
  <2>2. CASE \E m \in Messages : UserSend(m)
    BY <2>2 DEF UserSend, UserCall
  <2> QED BY <2>1, <2>2
<1>2. sent \in Seq(Byte) /\ accepted \in Seq(Byte) /\ MsgLen \in Nat \ {0}
      /\ functors \in Seq(Functor)
  BY ConstantsAssumption DEF DisciplinedInv, Inv, TypeOK, Iteration
<1>3. PICK m \in Messages, q \in {functors, Tail(functors)} : SendInLoop(m, q)
  <2>1. CASE RunSend
    <3>1. functors # <<>> /\ Head(functors).op = "send" /\ SendInLoop(Head(functors).msg, Tail(functors))
      BY <2>1 DEF RunSend, Run
    <3>2. Head(functors) \in Functor
      BY <3>1, <1>2, PopFacts
    <3>3. Head(functors).msg \in Messages
      BY <3>1, <3>2 DEF Functor
    <3> QED BY <3>1, <3>3
  <2>2. CASE \E m \in Messages : UserSend(m)
    BY <2>2 DEF UserSend
  <2> QED BY <2>1, <2>2
<1>4. CASE state = "KDisconnected"
  BY <1>1, <1>3, <1>4 DEF SendInLoop, dataVars, Moves
<1>5. CASE state # "KDisconnected"
  <2>1. PICK w \in (IF DirectWrite THEN WriteOutcomes(MsgLen) ELSE [n : {0}, fatal : {FALSE}]) :
            accepted' = accepted \o Bytes(m) /\ sent' = sent \o SubSeq(Bytes(m), 1, w.n)
    BY <1>3, <1>5 DEF SendInLoop
  <2>2. w.n \in 0..MsgLen
    <3>1. w \in [n : {0}, fatal : BOOLEAN] \/ w \in [n : 0..MsgLen, fatal : {FALSE}]
          \/ w \in [n : {0}, fatal : {FALSE}]
      BY <2>1 DEF WriteOutcomes
    <3>2. w.n = 0 \/ w.n \in 0..MsgLen
      BY <3>1
    <3> QED BY <3>2, <1>2
  <2>3. Bytes(m) \in Seq(Byte) /\ SubSeq(Bytes(m), 1, w.n) \in Seq(Byte)
    BY <2>2, BytesFacts
  <2>4. IsPrefix(sent, sent') /\ IsPrefix(accepted, accepted')
    BY <2>1, <2>3, <1>2, PrefixOfConcat
  <2>5. down = 0
    BY <1>1, <1>5 DEF DisciplinedInv, Told, Inv, Establishment, TypeOK, Open
  <2> QED BY <2>4, <2>5, <1>1 DEF Moves
<1> QED BY <1>4, <1>5

\* handleWrite sends more of what was accepted, and may close with its last byte.
LEMMA HandleWriteMoves ==
    ASSUME DisciplinedInv, NEW n \in 1..Len(outputBuffer), HandleWrite(n)
    PROVE  Moves
<1>1. Turn("write") /\ "write" \in events /\ sent' = sent \o SubSeq(outputBuffer, 1, n)
      /\ accepted' = accepted
  BY DEF HandleWrite
<1>2. up = 1 /\ up' = up
  BY <1>1, EstablishedFirst DEF Turn, DisciplinedInv
<1>3. down = 0
  BY <1>1, <1>2 DEF DisciplinedInv, Told, Watched, Inv, Establishment, TypeOK, Open
<1>4. down' \in {down, down + 1}
  BY DEF HandleWrite, HandleCloseFrom
<1>5. outputBuffer \in Seq(Byte) /\ sent \in Seq(Byte) /\ accepted \in Seq(Byte)
      /\ Len(outputBuffer) \in Nat
  BY LenProperties DEF DisciplinedInv, Inv, TypeOK
<1>6. SubSeq(outputBuffer, 1, n) \in Seq(Byte)
  <2>1. \A i \in 1..n : outputBuffer[i] \in Byte
    BY <1>5, ElementOfSeq
  <2> QED BY <2>1, <1>5, SubSeqProperties
<1>7. IsPrefix(sent, sent') /\ IsPrefix(accepted, accepted)
  <2>1. <<>> \in Seq(Byte) /\ accepted \o <<>> = accepted
    BY <1>5, EmptySeq, ConcatEmptySeq
  <2> QED BY <2>1, <1>1, <1>5, <1>6, PrefixOfConcat
<1> QED BY <1>1, <1>2, <1>3, <1>4, <1>7 DEF Moves

\* No other step touches the stream.
LEMMA OtherMoves ==
    ASSUME DisciplinedInv,
           \/ \E r \in SUBSET {"close", "read", "write"} : Poll(r)
           \/ HandleHup \/ HandleReadClose \/ HandleReadOther \/ HandleWriteNothing
           \/ Swap \/ ConnectEstablished \/ RunForceClose \/ RunStartRead
           \/ RunCallback \/ ConnectDestroyed
           \/ RemoveConnectionInLoop \/ ServerDestroyed \/ PeerLeaves
           \/ UserForceClose \/ UserStopRead \/ UserStartRead
           \/ \E t \in Threads : \E m \in Messages : ThreadSend(t, m)
           \/ \E t \in Threads :
                \/ ThreadStartRead(t) \/ ThreadRelease(t)
                \/ ThreadForceCloseTest(t) \/ ThreadForceCloseStore(t) \/ ThreadForceClosePush(t)
           \/ UNCHANGED vars
    PROVE  Moves
<1> USE DEF dataVars
<1>1. CASE HandleHup \/ HandleReadClose \/ HandleReadOther \/ HandleWriteNothing
  BY <1>1 DEF HandleHup, HandleReadClose, HandleReadOther, HandleWriteNothing, Turn,
     HandleClose, HandleCloseFrom, NoClose, Moves
<1>2. CASE ConnectEstablished
  BY <1>2 DEF ConnectEstablished, Moves
<1>3. CASE RunForceClose
  BY <1>3 DEF RunForceClose, ForceCloseInLoop, HandleClose, HandleCloseFrom, NoClose, Moves
<1>4. CASE ConnectDestroyed
  BY <1>4 DEF ConnectDestroyed, DestroyedCallback, Moves
<1>5. CASE \/ (\E r \in SUBSET {"close", "read", "write"} : Poll(r)) \/ Swap
           \/ RunStartRead \/ RunCallback
  BY <1>5 DEF Poll, Swap, RunStartRead, RunCallback, Moves
<1>6. CASE RemoveConnectionInLoop \/ ServerDestroyed \/ PeerLeaves
  BY <1>6 DEF RemoveConnectionInLoop, ServerDestroyed, PeerLeaves, Moves
<1>7. CASE UserForceClose \/ UserStopRead \/ UserStartRead
  BY <1>7 DEF UserForceClose, UserStopRead, UserStartRead, UserCall, Moves
<1>8. CASE \/ \E t \in Threads : \E m \in Messages : ThreadSend(t, m)
           \/ \E t \in Threads :
                \/ ThreadStartRead(t) \/ ThreadRelease(t)
                \/ ThreadForceCloseTest(t) \/ ThreadForceCloseStore(t) \/ ThreadForceClosePush(t)
  BY <1>8 DEF ThreadSend, ThreadStartRead, ThreadRelease, ThreadForceCloseTest,
     ThreadForceCloseStore, ThreadForceClosePush, ThreadStep, Moves
<1>9. CASE UNCHANGED vars
  BY <1>9 DEF vars, Moves
<1> QED BY <1>1, <1>2, <1>3, <1>4, <1>5, <1>6, <1>7, <1>8, <1>9

\* Every step is one of these.
LEMMA NextMoves ==
    ASSUME DisciplinedInv, [Next]_vars
    PROVE  Moves
<1>1. CASE IoStep
  BY <1>1, SendMoves, HandleWriteMoves, OtherMoves DEF IoStep
<1>2. CASE RemoveConnectionInLoop \/ ServerDestroyed \/ PeerLeaves \/ UserForceClose
           \/ UserStopRead \/ UserStartRead \/ UNCHANGED vars
  BY <1>2, OtherMoves
<1>3. CASE \E m \in Messages : UserSend(m) \/ \E t \in Threads : ThreadSend(t, m)
  BY <1>3, SendMoves, OtherMoves
<1>4. CASE \E t \in Threads :
          \/ ThreadStartRead(t) \/ ThreadRelease(t)
          \/ ThreadForceCloseTest(t) \/ ThreadForceCloseStore(t) \/ ThreadForceClosePush(t)
  BY <1>4, OtherMoves
<1> QED BY <1>1, <1>2, <1>3, <1>4 DEF Next

\* Nobody gets a pointer to a connection that is gone: its poller has forgotten
\* it, and what is left of it in the queue holds no pointer.
LEMMA GoneStays ==
    ASSUME DisciplinedInv, [Next]_vars, ~Alive
    PROVE  ~Alive'
<1>1. ~owned /\ removals = 0 /\ held = {} /\ revents = {}
      /\ \A i \in DOMAIN functors : ~Strong(functors[i])
  BY DEF Alive, DisciplinedInv, Ownership
<1>2. down = 1 /\ index = "kNew"
  BY DeadIsDestroyed
<1>3. UNCHANGED <<owned, removals, held, revents, functors>>
  <2> USE DEF ownVars, userVars
  <2>1. CASE \E r \in SUBSET {"close", "read", "write"} : Poll(r)
    BY <2>1, <1>1, <1>2 DEF Poll, Reported
  <2>2. ~(HandleHup \/ HandleReadClose \/ HandleReadOther \/ HandleWriteNothing)
        /\ ~\E n \in 1..Len(outputBuffer) : HandleWrite(n)
    BY <1>1 DEF HandleHup, HandleReadClose, HandleReadOther, HandleWriteNothing, HandleWrite, Turn
  <2>3. ~(\/ ConnectEstablished \/ RunSend \/ RunForceClose \/ RunStartRead
          \/ RunCallback \/ ConnectDestroyed)
    BY DEF ConnectEstablished, RunSend, RunForceClose, RunStartRead, RunCallback,
       ConnectDestroyed, Run
  <2>4. CASE Swap \/ PeerLeaves
    BY <2>4 DEF Swap, PeerLeaves
  <2>9. CASE ServerDestroyed
    <3>1. owned' = FALSE /\ functors' = functors /\ UNCHANGED <<removals, held, revents>>
      BY <2>9, <1>1 DEF ServerDestroyed
    <3>2. owned = FALSE
      BY <1>1 DEF DisciplinedInv, Inv, TypeOK
    <3> QED BY <3>1, <3>2
  <2>10. ~RemoveConnectionInLoop
    BY <1>1 DEF RemoveConnectionInLoop
  <2>5. ~(UserForceClose \/ UserStopRead \/ UserStartRead \/ \E m \in Messages : UserSend(m))
    BY <1>2 DEF UserForceClose, UserStopRead, UserStartRead, UserSend, UserCall
  <2>6. ~\E t \in Threads : ThreadStep(t)
    BY <1>1 DEF ThreadStep
  <2>7. ~\E t \in Threads :
          \/ \E m \in Messages : ThreadSend(t, m)
          \/ ThreadStartRead(t) \/ ThreadRelease(t)
          \/ ThreadForceCloseTest(t) \/ ThreadForceCloseStore(t) \/ ThreadForceClosePush(t)
    BY <2>6 DEF ThreadSend, ThreadStartRead, ThreadRelease, ThreadForceCloseTest,
       ThreadForceCloseStore, ThreadForceClosePush
  <2>8. CASE UNCHANGED vars
    BY <2>8 DEF vars
  <2> QED BY <2>1, <2>2, <2>3, <2>4, <2>5, <2>7, <2>8, <2>9, <2>10 DEF Next, IoStep
<1> QED BY <1>1, <1>3 DEF Alive

\* What was said and what is left of the connection, as the invariant leaves it.
SaidInOrder ==
    /\ Alive \in BOOLEAN
    /\ \/ up = 0 /\ down = 0 /\ Said = "nothing" /\ Alive
       \/ up = 1 /\ down = 0 /\ Said = "up" /\ Alive
       \/ up = 1 /\ down = 1 /\ Said = "down"
    /\ IsPrefix(sent, accepted)

LEMMA SaidFacts == DisciplinedInv => SaidInOrder
<1> SUFFICES ASSUME DisciplinedInv PROVE SaidInOrder
  OBVIOUS
<1>1. up \in {0, 1} /\ (up = 0 => down = 0) /\ (up = 1 => down = 0 \/ down = 1)
  BY DEF DisciplinedInv, Inv, TypeOK, Establishment, Fresh, Told, Open
<1>2. down = 0 => Alive
  BY DeadIsDestroyed
<1>3. Alive \in BOOLEAN /\ IsPrefix(sent, accepted)
  BY DEF Alive, DisciplinedInv, Inv, Stream, StreamIntact
<1>4. /\ up = 0 /\ down = 0 => Said = "nothing"
      /\ up = 1 /\ down = 0 => Said = "up"
      /\ up = 1 /\ down = 1 => Said = "down"
  BY DEF Said
<1> QED BY <1>1, <1>2, <1>3, <1>4 DEF SaidInOrder

\* For a program that keeps to the rules a TcpConnection has the life that
\* ConnectionLife promises: connectionCallback_ is called once with and then once
\* without connected(), bytes are accepted and written only between the two,
\* as a stream, and the object goes for good, after the second call.
THEOREM ConnectionImplementsLife == AllDisciplined => (Spec => ImplementsLife)
<1> SUFFICES ASSUME AllDisciplined PROVE Spec => ImplementsLife
  OBVIOUS
<1>1. Init => CL!Init
  <2> SUFFICES ASSUME Init PROVE CL!Init
    OBVIOUS
  <2>1. Said = "nothing" /\ accepted = <<>> /\ sent = <<>> /\ Alive \in BOOLEAN
    BY DEF Init, Said, Alive
  <2> QED BY <2>1 DEF CL!Init
<1>2. DisciplinedInv /\ SaidInOrder /\ SaidInOrder' /\ [Next]_vars => [CL!Next]_(CL!vars)
  <2> SUFFICES ASSUME DisciplinedInv, SaidInOrder, SaidInOrder', [Next]_vars PROVE CL!Next
    OBVIOUS
  <2>1. Moves
    BY NextMoves
  <2>2. ~Alive => ~Alive'
    BY GoneStays
  <2>6. \A u, v : CL!IsPrefix(u, v) <=> IsPrefix(u, v)
    BY DEF CL!IsPrefix, IsPrefix
  <2>3. CASE up = 0 /\ down = 0
    <3>1. /\ accepted' = accepted /\ sent' = sent /\ Said = "nothing" /\ Alive = TRUE
          /\ Said' \in {"nothing", "up"} /\ Alive' = TRUE
      BY <2>1, <2>3 DEF Moves, SaidInOrder
    <3>2. CASE Said' = "nothing"
      <4>1. CL!Rest(1)
        BY <3>1, <3>2 DEF CL!Rest
      <4> QED BY <4>1 DEF CL!Next
    <3>3. CASE Said' = "up"
      <4>1. CL!Establish(1)
        BY <3>1, <3>3 DEF CL!Establish
      <4> QED BY <4>1 DEF CL!Next
    <3> QED BY <3>1, <3>2, <3>3
  <2>4. CASE up = 1 /\ down = 0
    <3>1. /\ IsPrefix(accepted, accepted') /\ IsPrefix(sent, sent') /\ IsPrefix(sent', accepted')
          /\ Said = "up" /\ Alive = TRUE /\ Alive' \in BOOLEAN
          /\ \/ Said' = "up" /\ Alive' = TRUE
             \/ Said' = "down" /\ accepted' = accepted
      <4>1. IsPrefix(accepted, accepted) /\ IsPrefix(sent, sent)
        <5>1. \A u \in Seq(Byte) : u \o <<>> = u /\ <<>> \in Seq(Byte)
          BY ConcatEmptySeq, EmptySeq
        <5>2. accepted \in Seq(Byte) /\ sent \in Seq(Byte)
          BY DEF DisciplinedInv, Inv, TypeOK
        <5> QED BY <5>1, <5>2, PrefixOfConcat
      <4> QED BY <4>1, <2>1, <2>4 DEF Moves, SaidInOrder
    <3>2. CASE Said' = "up"
      <4>1. CL!Stream(1)
        BY <3>1, <3>2, <2>6 DEF CL!Stream, CL!Flows
      <4> QED BY <4>1 DEF CL!Next
    <3>3. CASE Said' = "down"
      <4>1. CL!Close(1)
        BY <3>1, <3>3, <2>6 DEF CL!Close, CL!Flows
      <4> QED BY <4>1 DEF CL!Next
    <3> QED BY <3>1, <3>2, <3>3
  <2>5. CASE up = 1 /\ down = 1
    <3>1. /\ accepted' = accepted /\ sent' = sent /\ Said = "down" /\ Said' = "down"
          /\ Alive \in BOOLEAN /\ Alive' \in BOOLEAN
      BY <2>1, <2>5 DEF Moves, SaidInOrder
    <3>2. CASE Alive' = Alive
      <4>1. CL!Rest(1)
        BY <3>1, <3>2 DEF CL!Rest
      <4> QED BY <4>1 DEF CL!Next
    <3>3. CASE Alive' # Alive
      <4>1. Alive = TRUE /\ Alive' = FALSE
        BY <3>1, <3>3, <2>2
      <4>2. CL!Destroy(1)
        BY <3>1, <4>1 DEF CL!Destroy
      <4> QED BY <4>2 DEF CL!Next
    <3> QED BY <3>2, <3>3
  <2> QED BY <2>3, <2>4, <2>5 DEF SaidInOrder
<1>3. Spec => []DisciplinedInv
  BY DisciplinedInvHolds
<1>4. DisciplinedInv => SaidInOrder
  BY SaidFacts
<1> QED BY <1>1, <1>2, <1>3, <1>4, PTL DEF Spec, ImplementsLife, CL!Spec
=============================================================================
