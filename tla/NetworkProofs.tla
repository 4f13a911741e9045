---------------------------- MODULE NetworkProofs ----------------------------
(***************************************************************************)
(* Proofs about Network: over connections without boundaries, with nodes   *)
(* that crash at any moment, a query arrives whole, its answers too, and   *)
(* it leaves nothing behind.  The inductive invariant says of every node   *)
(* how much of the query was sent to it and how much of its reply it has   *)
(* sent, and that the connections hold exactly what is under way.          *)
(***************************************************************************)
EXTENDS Network, SequenceLemmas

\* A buffer of this size with the first n units of a message.
Filled(msg, size, n) == [k \in 1 .. size |-> IF k <= n THEN msg[k] ELSE NoUnit]

\* All a node sends for a query: the number, then the identifiers.
ReplyLen(i) == SizeUnits + Len(answer[i])
Reply(i) ==
  [k \in 1 .. ReplyLen(i) |->
     IF k <= SizeUnits THEN <<"size", Len(answer[i]), k>>
                       ELSE <<"value", answer[i][k - SizeUnits]>>]

\* How much of this round's query the master has sent to node i.
Sent(i) ==
  IF at = "send"
    THEN IF i < peer THEN BufSize ELSE IF i = peer THEN len ELSE 0
    ELSE IF round = 0 THEN 0 ELSE BufSize

\* How much of the reply of node i the master has received in this round.
Received(i) ==
  IF i \in fds_done
    THEN ReplyLen(i)
    ELSE IF i = peer /\ at = "size" THEN len
         ELSE IF i = peer /\ at = "values" THEN SizeUnits + len ELSE 0

\* How much of its reply a node has sent while it is sending.
Written(i) == IF nodeAt[i] = "size" THEN nodeLen[i] ELSE SizeUnits + nodeLen[i]

\* The node has sent n units of its reply in this round: those the master has
\* not received are in the connection.
Replied(i, n) ==
  at # "exited" =>
    Received(i) <= n /\ toMaster[i] = Between(Reply(i), Received(i), n)

\* A node has not read this round's query to its end; the rest of what was
\* sent is in the connection.
Waiting(i, sent) ==
  /\ nodeAt[i] \in {"connecting", "query"}
  /\ nodeLen[i] <= sent
  /\ toNode[i] = Between(Query(round), nodeLen[i], sent)
  /\ nodeBuf[i] = Filled(Query(round), BufSize, nodeLen[i])
  /\ Replied(i, 0)

\* It has yet to return from its last Send of the round before.
Late(i, sent) ==
  /\ nodeAt[i] \in {"size", "values"}
  /\ nodeLen[i] <= Len(Message(i)) /\ Written(i) = ReplyLen(i)
  /\ toNode[i] = Between(Query(round), 0, sent)
  /\ nodeBuf[i] = Fresh(BufSize)
  /\ Replied(i, 0)

\* It answers this round's query.
Answering(i, sent) ==
  /\ nodeAt[i] \in {"size", "values"}
  /\ sent = BufSize /\ toNode[i] = <<>>
  /\ nodeBuf[i] = Fresh(BufSize)
  /\ nodeLen[i] <= Len(Message(i))
  /\ Replied(i, Written(i))

\* It has answered, and waits for the next one.
Answered(i, sent) ==
  /\ nodeAt[i] = "query" /\ nodeLen[i] = 0
  /\ sent = BufSize /\ toNode[i] = <<>>
  /\ nodeBuf[i] = Fresh(BufSize)
  /\ Replied(i, ReplyLen(i))

\* It ended somewhere in its reply.
Gone(i) ==
  /\ nodeAt[i] = "exited"
  /\ \E n \in 0 .. ReplyLen(i) : Replied(i, n)

NodeInv(i) ==
  \E sent \in 0 .. BufSize :
    /\ at # "exited" /\ nodeAt[i] # "exited" => sent = Sent(i)
    /\ Waiting(i, sent) \/ Late(i, sent) \/ Answering(i, sent) \/ Answered(i, sent) \/ Gone(i)

NetworkTypeOK ==
  /\ at \in {"down", "accept", "idle", "send", "select", "next", "size", "values", "exited"}
  /\ peer \in Clients /\ len \in Nat /\ round \in Nat
  /\ ready \subseteq Clients /\ fds_done \subseteq Clients /\ order \in Seq(Clients)
  /\ nodeAt \in [Clients -> {"connecting", "query", "size", "values", "exited"}]
  /\ nodeLen \in [Clients -> Nat]
  /\ answer \in [Clients -> Seq(Results)]
  /\ DOMAIN nodeBuf = Clients /\ DOMAIN toNode = Clients /\ DOMAIN toMaster = Clients

\* Where the master is in its round.
MasterInv ==
  /\ at \in {"down", "accept"} => round = 0 /\ fds_done = {}
  /\ at = "idle" => fds_done = IF round = 0 THEN {} ELSE Clients
  /\ at \in {"send", "select", "next", "size", "values"} => round > 0
  /\ at = "send" => len <= BufSize /\ fds_done = {}
  /\ at \in {"next", "size", "values"} => ready \subseteq Clients \ fds_done
  /\ at \in {"size", "values"} => peer \in ready
  /\ at = "size" => /\ len <= SizeUnits
                    /\ buf = Filled(Size(Len(answer[peer])), SizeUnits, len)
  /\ at = "values" => /\ len <= Len(answer[peer])
                      /\ buf = Filled(Values(answer[peer]), Len(answer[peer]), len)
  /\ at \notin {"down", "accept", "exited"} => \A i \in Clients : nodeAt[i] # "connecting"

\* What it has collected.
Answers == [k \in DOMAIN order |-> Values(answer[order[k]])]

Collected ==
  at # "exited" =>
    /\ IsInjective(order) /\ Range(order) = fds_done
    /\ results = FlattenSeq(Answers)

NetworkInv ==
  /\ NetworkTypeOK
  /\ MasterInv
  /\ Collected
  /\ \A i \in Clients : NodeInv(i)
------------------------------------------------------------------------------
(***************************************************************************)
(* Buffers and replies.                                                    *)
(***************************************************************************)

\* A buffer nothing was read into, and one that is full.
LEMMA FilledEnds ==
  ASSUME NEW msg, NEW size \in Nat
  PROVE  /\ Filled(msg, size, 0) = Fresh(size)
         /\ \A n \in Nat : n >= size => Filled(msg, size, n) = [k \in 1 .. size |-> msg[k]]
<1>1. Filled(msg, size, 0) = Fresh(size)
  BY DEF Filled, Fresh
<1>2. \A n \in Nat : n >= size => Filled(msg, size, n) = [k \in 1 .. size |-> msg[k]]
  BY DEF Filled
<1>3. QED
  BY <1>1, <1>2

\* Put adds what was read behind what the buffer has.
LEMMA PutFills ==
  ASSUME NEW msg, NEW size \in Nat, NEW has \in Nat, NEW n \in Nat, has + n <= size
  PROVE  Put(Filled(msg, size, has), has, Between(msg, has, has + n))
           = Filled(msg, size, has + n)
<1>1. Len(Between(msg, has, has + n)) = n
  BY BetweenType
<1>2. \A k \in 1 .. n : Between(msg, has, has + n)[k] = msg[has + k]
  BY DEF Between
<1>3. ASSUME NEW k \in 1 .. size
      PROVE  (IF k - has \in 1 .. n THEN Between(msg, has, has + n)[k - has]
                                    ELSE Filled(msg, size, has)[k])
               = IF k <= has + n THEN msg[k] ELSE NoUnit
  <2>1. Filled(msg, size, has)[k] = IF k <= has THEN msg[k] ELSE NoUnit
    BY DEF Filled
  <2>2. CASE k - has \in 1 .. n
    <3>1. Between(msg, has, has + n)[k - has] = msg[has + (k - has)] /\ has + (k - has) = k
      BY <1>2, <2>2
    <3>2. QED
      BY <2>2, <3>1
  <2>3. CASE k - has \notin 1 .. n
    BY <2>1, <2>3
  <2>4. QED
    BY <2>2, <2>3
<1>4. DOMAIN Filled(msg, size, has) = 1 .. size
  BY DEF Filled
<1>5. QED
  BY <1>1, <1>3, <1>4 DEF Put, Filled

\* Part of a message that is as long as it has to be.
LEMMA PartOfMessage ==
  ASSUME NEW msg, NEW has \in Nat, NEW n \in Nat
  PROVE  Part(msg, has, n) = Between(msg, has, has + n)
<1>1. Part(msg, has, n) = [k \in 1 .. n |-> msg[has + k]]
  BY DEF Part
<1>2. QED
  BY <1>1 DEF Between

\* A stream that holds a part of a message, after a read.
LEMMA StreamSplit ==
  ASSUME NEW f, NEW a \in Nat, NEW b \in Nat, NEW n \in Nat, a + n <= b
  PROVE  /\ Taken(Between(f, a, b), n) = Between(f, a, a + n)
         /\ Left(Between(f, a, b), n) = Between(f, a + n, b)
<1>1. PICK part : part = Between(f, a, b)
  OBVIOUS
<1>2. Len(part) = b - a /\ \A k \in 1 .. (b - a) : part[k] = f[a + k]
  <2>1. a <= b
    OBVIOUS
  <2>2. Len(part) = b - a
    BY <1>1, <2>1, BetweenType
  <2>3. QED
    BY <1>1, <2>2 DEF Between
<1>3. SubSeq(part, 1, n) = Between(f, a, a + n)
  <2>1. SubSeq(part, 1, n) = [k \in 1 .. n |-> part[k]]
    OBVIOUS
  <2>2. QED
    BY <1>2, <2>1 DEF Between
<1>4. SubSeq(part, n + 1, b - a) = Between(f, a + n, b)
  <2>1. SubSeq(part, n + 1, b - a) = [k \in 1 .. (b - (a + n)) |-> part[n + k]]
    OBVIOUS
  <2>2. [k \in 1 .. (b - (a + n)) |-> part[n + k]] = Between(f, a + n, b)
    BY <1>2 DEF Between
  <2>3. QED
    BY <2>1, <2>2
<1>5. Taken(part, n) = SubSeq(part, 1, n) /\ Left(part, n) = SubSeq(part, n + 1, Len(part))
  BY Zenon DEF Taken, Left
<1>6. QED
  BY <1>1, <1>2, <1>3, <1>4, <1>5, Zenon

\* A query is as long as the buffer, a reply is its number and its identifiers.
LEMMA MessageLengths ==
  ASSUME NetworkTypeOK, NEW i \in Clients
  PROVE  /\ answer[i] \in Seq(Results) /\ Len(answer[i]) \in Nat
         /\ ReplyLen(i) \in Nat /\ ReplyLen(i) >= SizeUnits
         /\ Len(Size(Len(answer[i]))) = SizeUnits
         /\ Len(Values(answer[i])) = Len(answer[i])
         /\ DOMAIN Values(answer[i]) = 1 .. Len(answer[i])
         /\ \A r : Len(Query(r)) = BufSize /\ DOMAIN Query(r) = 1 .. BufSize
<1>1. BufSize \in Nat /\ SizeUnits \in Nat
  BY NetworkAssumption
<1>2. answer[i] \in Seq(Results) /\ Len(answer[i]) \in Nat
  BY DEF NetworkTypeOK
<1>3. \A r : Len(Query(r)) = BufSize /\ DOMAIN Query(r) = 1 .. BufSize
  BY <1>1 DEF Query
<1>4. Len(Size(Len(answer[i]))) = SizeUnits
  BY <1>1 DEF Size
<1>5. DOMAIN Values(answer[i]) = 1 .. Len(answer[i]) /\ Len(Values(answer[i])) = Len(answer[i])
  BY <1>2 DEF Values
<1>6. QED
  BY <1>1, <1>2, <1>3, <1>4, <1>5 DEF ReplyLen

\* The first part of a reply is the number, the second the identifiers.
LEMMA ReplyParts ==
  ASSUME NetworkTypeOK, NEW i \in Clients, NEW a \in Nat, NEW b \in Nat, a <= b
  PROVE  /\ b <= SizeUnits =>
              Between(Reply(i), a, b) = Between(Size(Len(answer[i])), a, b)
         /\ b <= Len(answer[i]) =>
              Between(Reply(i), SizeUnits + a, SizeUnits + b) = Between(Values(answer[i]), a, b)
<1>1. SizeUnits \in Nat /\ Len(answer[i]) \in Nat /\ ReplyLen(i) = SizeUnits + Len(answer[i])
  BY NetworkAssumption, MessageLengths DEF ReplyLen
<1>2. \A k \in 1 .. SizeUnits : Reply(i)[k] = Size(Len(answer[i]))[k]
  BY <1>1 DEF Reply, Size
<1>3. \A k \in 1 .. Len(answer[i]) : Reply(i)[SizeUnits + k] = Values(answer[i])[k]
  <2> SUFFICES ASSUME NEW k \in 1 .. Len(answer[i])
               PROVE  Reply(i)[SizeUnits + k] = Values(answer[i])[k]
    OBVIOUS
  <2>1. Reply(i)[SizeUnits + k] = <<"value", answer[i][SizeUnits + k - SizeUnits]>>
    BY <1>1 DEF Reply
  <2>2. SizeUnits + k - SizeUnits = k
    BY <1>1
  <2>3. Values(answer[i])[k] = <<"value", answer[i][k]>>
    BY MessageLengths DEF Values
  <2>4. QED
    BY <2>1, <2>2, <2>3
<1>4. ASSUME b <= SizeUnits
      PROVE  Between(Reply(i), a, b) = Between(Size(Len(answer[i])), a, b)
  <2>1. \A k \in 1 .. (b - a) : a + k \in 1 .. SizeUnits
    BY <1>1, <1>4
  <2>2. QED
    BY <1>2, <2>1 DEF Between
<1>5. ASSUME b <= Len(answer[i])
      PROVE  Between(Reply(i), SizeUnits + a, SizeUnits + b) = Between(Values(answer[i]), a, b)
  <2>1. SizeUnits + b - (SizeUnits + a) = b - a
    BY <1>1
  <2>2. \A k \in 1 .. (b - a) : /\ a + k \in 1 .. Len(answer[i])
                                /\ SizeUnits + a + k = SizeUnits + (a + k)
    BY <1>1, <1>5
  <2>3. \A k \in 1 .. (b - a) : Reply(i)[SizeUnits + a + k] = Values(answer[i])[a + k]
    BY <1>3, <2>2
  <2>4. Between(Reply(i), SizeUnits + a, SizeUnits + b)
          = [k \in 1 .. (b - a) |-> Reply(i)[SizeUnits + a + k]]
    <3>1. PICK c, d : c = SizeUnits + a /\ d = SizeUnits + b
      OBVIOUS
    <3>2. Between(Reply(i), c, d) = [k \in 1 .. (d - c) |-> Reply(i)[c + k]]
      BY DEF Between
    <3>3. d - c = b - a
      BY <1>1, <3>1
    <3>4. QED
      BY <3>1, <3>2, <3>3, Zenon
  <2>5. QED
    BY <2>3, <2>4 DEF Between
<1>6. QED
  BY <1>4, <1>5

\* How much a node has written of its reply, and how much of it there is.
LEMMA WrittenInReply ==
  ASSUME NetworkTypeOK, NEW i \in Clients
  PROVE  /\ Written(i) \in Nat /\ Received(i) \in Nat
         /\ nodeAt[i] = "size" => Len(Message(i)) = SizeUnits
         /\ nodeAt[i] = "values" => Len(Message(i)) = Len(answer[i])
         /\ nodeAt[i] \in {"size", "values"} /\ nodeLen[i] <= Len(Message(i)) =>
              Written(i) <= ReplyLen(i)
<1>1. SizeUnits \in Nat /\ nodeLen[i] \in Nat /\ len \in Nat
  BY NetworkAssumption DEF NetworkTypeOK
<1>2. /\ Len(answer[i]) \in Nat /\ ReplyLen(i) \in Nat
      /\ Len(Size(Len(answer[i]))) = SizeUnits /\ Len(Values(answer[i])) = Len(answer[i])
  BY MessageLengths
<1>3. Written(i) \in Nat /\ Received(i) \in Nat
  BY <1>1, <1>2 DEF Written, Received
<1>4. /\ nodeAt[i] = "size" => Len(Message(i)) = SizeUnits
      /\ nodeAt[i] = "values" => Len(Message(i)) = Len(answer[i])
  BY <1>2 DEF Message
<1>5. nodeAt[i] \in {"size", "values"} /\ nodeLen[i] <= Len(Message(i)) =>
        Written(i) <= ReplyLen(i)
  BY <1>1, <1>2, <1>4 DEF Written, ReplyLen
<1>6. QED
  BY <1>3, <1>4, <1>5
------------------------------------------------------------------------------
(***************************************************************************)
(* What a step leaves alone.                                               *)
(***************************************************************************)

\* A step that changes neither node i nor its query, and of its reply only how
\* far it is received.
LEMMA NodeInvStays ==
  ASSUME NetworkTypeOK, NEW i \in Clients, NodeInv(i),
         nodeAt'[i] = nodeAt[i], nodeLen'[i] = nodeLen[i], nodeBuf'[i] = nodeBuf[i],
         answer'[i] = answer[i], toNode'[i] = toNode[i], round' = round,
         at' # "exited" => at # "exited" /\ (nodeAt[i] # "exited" => Sent(i)' = Sent(i)),
         \A n \in Nat : Replied(i, n) => Replied(i, n)'
  PROVE  NodeInv(i)'
<1>1. PICK sent \in 0 .. BufSize :
        /\ at # "exited" /\ nodeAt[i] # "exited" => sent = Sent(i)
        /\ Waiting(i, sent) \/ Late(i, sent) \/ Answering(i, sent)
             \/ Answered(i, sent) \/ Gone(i)
  BY DEF NodeInv
<1>2. at' # "exited" /\ nodeAt'[i] # "exited" => sent = Sent(i)'
  BY <1>1
<1>3. /\ ReplyLen(i)' = ReplyLen(i) /\ Written(i)' = Written(i) /\ Message(i)' = Message(i)
      /\ ReplyLen(i) \in Nat /\ Written(i) \in Nat /\ 0 \in Nat
  BY MessageLengths, WrittenInReply DEF ReplyLen, Written, Message
<1>4. ASSUME Waiting(i, sent) PROVE Waiting(i, sent)'
  BY <1>3, <1>4 DEF Waiting
<1>5. ASSUME Late(i, sent) PROVE Late(i, sent)'
  BY <1>3, <1>5 DEF Late
<1>6. ASSUME Answering(i, sent) PROVE Answering(i, sent)'
  <2>1. Replied(i, Written(i)) => Replied(i, Written(i))'
    <3>1. PICK n \in Nat : n = Written(i)
      BY <1>3
    <3>2. n = Written(i)'
      BY <1>3, <3>1
    <3>3. Replied(i, n) => Replied(i, n)'
      OBVIOUS
    <3>4. QED
      BY <3>1, <3>2, <3>3 DEF Replied
  <2>2. QED
    BY <1>3, <1>6, <2>1 DEF Answering
<1>7. ASSUME Answered(i, sent) PROVE Answered(i, sent)'
  <2>1. Replied(i, ReplyLen(i)) => Replied(i, ReplyLen(i))'
    <3>1. PICK n \in Nat : n = ReplyLen(i)
      BY <1>3
    <3>2. n = ReplyLen(i)'
      BY <1>3, <3>1
    <3>3. Replied(i, n) => Replied(i, n)'
      OBVIOUS
    <3>4. QED
      BY <3>1, <3>2, <3>3 DEF Replied
  <2>2. QED
    BY <1>3, <1>7, <2>1 DEF Answered
<1>8. ASSUME Gone(i) PROVE Gone(i)'
  <2>1. PICK n \in 0 .. ReplyLen(i) : Replied(i, n)
    BY <1>8 DEF Gone
  <2>2. Replied(i, n)'
    BY <1>3, <2>1
  <2>3. n \in 0 .. ReplyLen(i)'
    BY <1>3, <2>1
  <2>4. QED
    BY <1>8, <2>2, <2>3 DEF Gone
<1>9. Waiting(i, sent)' \/ Late(i, sent)' \/ Answering(i, sent)' \/ Answered(i, sent)' \/ Gone(i)'
  BY <1>1, <1>4, <1>5, <1>6, <1>7, <1>8
<1>10. QED
  BY <1>2, <1>9 DEF NodeInv

\* A step of the master that moves nothing: it has received as much as before.
LEMMA NodesStay ==
  ASSUME NetworkTypeOK, NEW i \in Clients, NodeInv(i),
         UNCHANGED <<nodeVars, toNode, toMaster, round>>,
         at' # "exited" =>
           /\ at # "exited"
           /\ nodeAt[i] # "exited" => Sent(i)' = Sent(i)
           /\ Received(i)' = Received(i)
  PROVE  NodeInv(i)'
<1>1. Reply(i)' = Reply(i)
  BY DEF nodeVars, Reply, ReplyLen
<1>2. \A n \in Nat : Replied(i, n) => Replied(i, n)'
  BY <1>1 DEF Replied
<1>3. QED
  BY <1>2, NodeInvStays DEF nodeVars

\* A step of another node.
LEMMA OtherNodeStays ==
  ASSUME NetworkTypeOK, NEW i \in Clients, NodeInv(i), UNCHANGED masterVars,
         nodeAt'[i] = nodeAt[i], nodeLen'[i] = nodeLen[i], nodeBuf'[i] = nodeBuf[i],
         answer'[i] = answer[i], toNode'[i] = toNode[i], toMaster'[i] = toMaster[i]
  PROVE  NodeInv(i)'
<1>1. Reply(i)' = Reply(i) /\ Received(i)' = Received(i) /\ Sent(i)' = Sent(i)
  BY DEF masterVars, Reply, ReplyLen, Received, Sent
<1>2. \A n \in Nat : Replied(i, n) => Replied(i, n)'
  BY <1>1 DEF Replied, masterVars
<1>3. QED
  BY <1>1, <1>2, NodeInvStays DEF masterVars

\* A step of a node that changes no answer does not disturb the master.
LEMMA MasterStays ==
  ASSUME MasterInv, Collected, UNCHANGED <<masterVars, answer>>,
         \A i \in Clients : nodeAt'[i] = "connecting" => nodeAt[i] = "connecting"
  PROVE  MasterInv' /\ Collected'
<1>1. MasterInv'
  BY DEF MasterInv, masterVars
<1>2. Collected'
  BY DEF Collected, Answers, masterVars
<1>3. QED
  BY <1>1, <1>2

\* However it stands with a node, it has sent some part of its reply.
LEMMA SomeReply ==
  ASSUME NetworkTypeOK, NEW i \in Clients, NodeInv(i)
  PROVE  \E n \in 0 .. ReplyLen(i) : Replied(i, n)
<1>1. ReplyLen(i) \in Nat /\ Written(i) \in Nat
  BY MessageLengths, WrittenInReply
<1>2. PICK sent \in 0 .. BufSize : Waiting(i, sent) \/ Late(i, sent) \/ Answering(i, sent)
                                     \/ Answered(i, sent) \/ Gone(i)
  BY DEF NodeInv
<1>3. CASE Waiting(i, sent) \/ Late(i, sent)
  BY <1>1, <1>3 DEF Waiting, Late
<1>4. CASE Answering(i, sent)
  <2>1. Written(i) <= ReplyLen(i)
    BY <1>4, WrittenInReply DEF Answering
  <2>2. QED
    BY <1>1, <1>4, <2>1 DEF Answering
<1>5. CASE Answered(i, sent)
  BY <1>1, <1>5 DEF Answered
<1>6. CASE Gone(i)
  BY <1>6 DEF Gone
<1>7. QED
  BY <1>2, <1>3, <1>4, <1>5, <1>6
------------------------------------------------------------------------------
(***************************************************************************)
(* The inductive invariant: one lemma per step that moves something.       *)
(***************************************************************************)

\* Nothing is connected and nothing was asked.
LEMMA NetworkInvInit == NetworkInit => NetworkInv
<1> SUFFICES ASSUME NetworkInit PROVE NetworkInv
  OBVIOUS
<1>1. nbOfClients \in Nat \ {0} /\ BufSize \in Nat \ {0} /\ SizeUnits \in Nat \ {0}
  BY NetworkAssumption
<1>2. 0 \in Clients
  BY <1>1 DEF Clients
<1>3. order = <<>> /\ results = <<>> /\ fds_done = {} /\ ready = {} /\ at = "down"
  BY DEF NetworkInit
<1>4. NetworkTypeOK
  BY <1>2 DEF NetworkInit, NetworkTypeOK
<1>5. MasterInv
  BY <1>2 DEF NetworkInit, MasterInv
<1>6. Collected
  <2>1. DOMAIN order = {} /\ Answers = <<>>
    BY <1>3 DEF Answers
  <2>2. Range(order) = {} /\ IsInjective(order)
    BY <2>1 DEF Range, IsInjective
  <2>3. FlattenSeq(Answers) = <<>>
    BY <2>1 DEF FlattenSeq
  <2>4. QED
    BY <1>3, <2>2, <2>3 DEF Collected
<1>7. ASSUME NEW i \in Clients PROVE NodeInv(i)
  <2>1. Between(Reply(i), 0, 0) = <<>> /\ Between(Query(round), 0, 0) = <<>>
    BY BetweenType
  <2>2. Received(i) = 0 /\ Sent(i) = 0
    BY <1>3 DEF NetworkInit, Received, Sent
  <2>3. Filled(Query(round), BufSize, 0) = Fresh(BufSize)
    BY <1>1, FilledEnds
  <2>4. Waiting(i, 0)
    BY <2>1, <2>2, <2>3 DEF NetworkInit, Waiting, Replied
  <2>5. QED
    BY <1>1, <2>2, <2>4 DEF NodeInv
<1>8. QED
  BY <1>4, <1>5, <1>6, <1>7 DEF NetworkInv

\* The steps in which the master only goes from one place to the next.
LEMMA MasterMoves ==
  ASSUME NetworkInv,
         Listen \/ AllConnected \/ MasterWriteBroken \/ MasterReadEnd \/ LoopEnds \/ MasterEnds
  PROVE  NetworkInv'
<1>1. NetworkTypeOK /\ MasterInv /\ Collected /\ \A i \in Clients : NodeInv(i)
  BY DEF NetworkInv
<1>2. /\ UNCHANGED <<peer, buf, ready, fds_done, results, order, round, nodeVars, toNode, toMaster>>
      /\ at \in {"accept", "size", "values", "next", "send", "down"} \/ at' = "exited"
  BY DEF Listen, AllConnected, MasterWriteBroken, MasterReadEnd, LoopEnds, MasterEnds
<1>3. \/ at' = "exited" /\ at # "exited" /\ len' \in Nat
      \/ at = "down" /\ at' = "accept" /\ len' = len
      \/ /\ at = "accept" /\ at' = "idle" /\ len' = len
         /\ \A i \in Clients : nodeAt[i] # "connecting"
      \/ at = "send" /\ at' = "send" /\ len' = BufSize /\ nodeAt[peer] = "exited"
      \/ /\ at = "next" /\ at' = (IF fds_done = Clients THEN "idle" ELSE "select")
         /\ len' = len
  <2>1. BufSize \in Nat /\ len \in Nat
    BY <1>1, NetworkAssumption DEF NetworkTypeOK
  <2>2. QED
    BY <2>1 DEF Listen, AllConnected, MasterWriteBroken, MasterReadEnd, LoopEnds, MasterEnds
<1>4. BufSize \in Nat /\ len' \in Nat
  BY <1>1, <1>3, NetworkAssumption DEF NetworkTypeOK
<1>5. NetworkTypeOK'
  BY <1>1, <1>2, <1>3, <1>4 DEF NetworkTypeOK, nodeVars
<1>6. MasterInv'
  BY <1>1, <1>2, <1>3, <1>4 DEF MasterInv, nodeVars
<1>7. Collected'
  BY <1>1, <1>2, <1>3 DEF Collected, Answers, nodeVars
<1>8. ASSUME NEW i \in Clients PROVE NodeInv(i)'
  <2>1. at' # "exited" => at # "exited" /\ Received(i)' = Received(i)
    BY <1>2, <1>3 DEF Received, ReplyLen, nodeVars
  <2>2. at' # "exited" => (nodeAt[i] # "exited" => Sent(i)' = Sent(i))
    BY <1>1, <1>2, <1>3 DEF Sent, MasterInv
  <2>3. QED
    BY <1>1, <1>2, <2>1, <2>2, NodesStay
<1>9. QED
  BY <1>5, <1>6, <1>7, <1>8 DEF NetworkInv

\* MasterSent: the next node, or the answers.
LEMMA MasterSentKeeps == ASSUME NetworkInv, MasterSent PROVE NetworkInv'
<1>1. NetworkTypeOK /\ MasterInv /\ Collected /\ \A i \in Clients : NodeInv(i)
  BY DEF NetworkInv
<1>2. /\ UNCHANGED <<buf, fds_done, results, order, round, nodeVars, toNode, toMaster>>
      /\ at = "send" /\ len >= BufSize /\ len' = 0
      /\ \/ peer < nbOfClients - 1 /\ peer' = peer + 1 /\ at' = "send" /\ ready' = ready
         \/ peer = nbOfClients - 1 /\ at' = "next" /\ ready' = Clients /\ peer' = peer
         \/ peer = nbOfClients - 1 /\ at' = "select" /\ ready' = ready /\ peer' = peer
  BY DEF MasterSent
<1>3. /\ peer \in 0 .. (nbOfClients - 1) /\ nbOfClients \in Nat /\ BufSize \in Nat
      /\ len \in Nat /\ len <= BufSize
  BY <1>1, <1>2, NetworkAssumption DEF NetworkTypeOK, MasterInv, Clients
<1>4. len = BufSize /\ peer' \in Clients
  BY <1>2, <1>3 DEF Clients
<1>5. NetworkTypeOK'
  BY <1>1, <1>2, <1>4 DEF NetworkTypeOK, nodeVars
<1>6. MasterInv'
  BY <1>1, <1>2, <1>3 DEF MasterInv, nodeVars
<1>7. Collected'
  BY <1>1, <1>2 DEF Collected, Answers, nodeVars
<1>8. ASSUME NEW i \in Clients PROVE NodeInv(i)'
  <2>1. Received(i)' = Received(i)
    BY <1>1, <1>2 DEF Received, ReplyLen, nodeVars, MasterInv
  <2>2. Sent(i)' = Sent(i)
    <3>1. i \in 0 .. (nbOfClients - 1) /\ round # 0
      BY <1>1, <1>2, NetworkAssumption DEF Clients, MasterInv
    <3>2. CASE at' = "send"
      BY <1>2, <1>3, <1>4, <3>1, <3>2 DEF Sent
    <3>3. CASE at' # "send"
      BY <1>2, <1>3, <1>4, <3>1, <3>3 DEF Sent
    <3>4. QED
      BY <3>2, <3>3
  <2>3. QED
    BY <1>1, <1>2, <2>1, <2>2, NodesStay
<1>9. QED
  BY <1>5, <1>6, <1>7, <1>8 DEF NetworkInv

\* Select, and the step to the first node it found ready.
LEMMA SelectKeeps == ASSUME NetworkInv, Select \/ NextNode PROVE NetworkInv'
<1>1. NetworkTypeOK /\ MasterInv /\ Collected /\ \A i \in Clients : NodeInv(i)
  BY DEF NetworkInv
<1>2. UNCHANGED <<fds_done, results, order, round, nodeVars, toNode, toMaster>>
  BY DEF Select, NextNode
<1>3. \/ /\ at = "select" /\ at' = "next" /\ peer' = peer /\ len' = len /\ buf' = buf
         /\ ready' \subseteq Clients \ fds_done
      \/ /\ at = "next" /\ at' = "size" /\ ready # {} /\ peer' = Min(ready) /\ len' = 0
         /\ buf' = Fresh(SizeUnits) /\ ready' = ready
  BY DEF Select, NextNode
<1>4. ASSUME at = "next", ready # {} PROVE Min(ready) \in ready
  <2>1. ready \in SUBSET Nat
    BY <1>1, NetworkAssumption DEF NetworkTypeOK, Clients
  <2>2. QED
    BY <1>4, <2>1, LeastIndex DEF Min
<1>5. NetworkTypeOK'
  <2>1. peer' \in Clients /\ len' \in Nat
    BY <1>1, <1>3, <1>4 DEF NetworkTypeOK
  <2>2. QED
    BY <1>1, <1>2, <1>3, <2>1 DEF NetworkTypeOK, nodeVars
<1>6. MasterInv'
  <2>1. SizeUnits \in Nat /\ \A msg : Filled(msg, SizeUnits, 0) = Fresh(SizeUnits)
    BY NetworkAssumption, FilledEnds
  <2>2. at' = "size" => buf' = Filled(Size(Len(answer[peer])), SizeUnits, len)'
    BY <1>3, <2>1 DEF Filled
  <2>3. QED
    BY <1>1, <1>2, <1>3, <1>4, <2>1, <2>2 DEF MasterInv, nodeVars
<1>7. Collected'
  BY <1>1, <1>2, <1>3 DEF Collected, Answers, nodeVars
<1>8. ASSUME NEW i \in Clients PROVE NodeInv(i)'
  <2>1. Received(i)' = Received(i)
    BY <1>1, <1>2, <1>3 DEF Received, ReplyLen, nodeVars
  <2>2. Sent(i)' = Sent(i)
    BY <1>2, <1>3 DEF Sent
  <2>3. QED
    BY <1>1, <1>2, <1>3, <2>1, <2>2, NodesStay
<1>9. QED
  BY <1>5, <1>6, <1>7, <1>8 DEF NetworkInv

\* Ask: what was left from the round before is now late, or gone.
LEMMA AskKeeps == ASSUME NetworkInv, Ask PROVE NetworkInv'
<1>1. NetworkTypeOK /\ MasterInv /\ Collected /\ \A i \in Clients : NodeInv(i)
  BY DEF NetworkInv
<1>2. /\ UNCHANGED <<nodeVars, toNode, toMaster>>
      /\ at = "idle" /\ at' = "send" /\ round' = round + 1 /\ peer' = 0 /\ len' = 0
      /\ buf' = <<>> /\ ready' = {} /\ fds_done' = {} /\ results' = <<>> /\ order' = <<>>
  BY DEF Ask
<1>3. BufSize \in Nat \ {0} /\ SizeUnits \in Nat \ {0} /\ 0 \in Clients /\ round \in Nat
  BY <1>1, NetworkAssumption DEF NetworkTypeOK, Clients
<1>4. NetworkTypeOK'
  BY <1>1, <1>2, <1>3 DEF NetworkTypeOK, nodeVars
<1>5. MasterInv'
  BY <1>1, <1>2, <1>3 DEF MasterInv, nodeVars
<1>6. Collected'
  <2>1. Answers' = <<>> /\ DOMAIN order' = {}
    BY <1>2 DEF Answers
  <2>2. IsInjective(order') /\ Range(order') = {} /\ FlattenSeq(Answers') = <<>>
    BY <2>1 DEF IsInjective, Range, FlattenSeq
  <2>3. QED
    BY <1>2, <2>2 DEF Collected
<1>7. ASSUME NEW i \in Clients PROVE NodeInv(i)'
  <2>1. /\ Received(i)' = 0 /\ Sent(i)' = 0 /\ ReplyLen(i)' = ReplyLen(i)
        /\ Written(i)' = Written(i) /\ Message(i)' = Message(i)
        /\ Reply(i)' = Reply(i)
    <3>1. ~ i < 0
      BY NetworkAssumption DEF Clients
    <3>2. Sent(i)' = 0
      BY <1>2, <3>1 DEF Sent
    <3>3. Received(i)' = 0
      BY <1>2 DEF Received
    <3>4. QED
      BY <1>2, <3>2, <3>3 DEF ReplyLen, Written, Message, nodeVars, Reply
  <2>2. Received(i) = (IF round = 0 THEN 0 ELSE ReplyLen(i)) /\ ReplyLen(i) \in Nat
        /\ Written(i) \in Nat /\ ReplyLen(i) > 0
    BY <1>1, <1>2, <1>3, MessageLengths, WrittenInReply DEF Received, MasterInv
  <2>3. Sent(i) = (IF round = 0 THEN 0 ELSE BufSize)
    BY <1>2 DEF Sent
  <2>4. PICK sent \in 0 .. BufSize :
          /\ nodeAt[i] # "exited" => sent = Sent(i)
          /\ Waiting(i, sent) \/ Late(i, sent) \/ Answering(i, sent)
               \/ Answered(i, sent) \/ Gone(i)
    BY <1>1, <1>2 DEF NodeInv
  <2>5. /\ \A n \in Nat : Between(Reply(i), n, n) = <<>>
        /\ \A r : Between(Query(r), 0, 0) = <<>>
    BY BetweenType
  <2>6. /\ \A r : Filled(Query(r), BufSize, 0) = Fresh(BufSize)
    BY <1>3, FilledEnds
  <2>7. ASSUME NEW n \in Nat, n <= ReplyLen(i), Replied(i, n)
        PROVE  /\ round = 0 \/ n = ReplyLen(i)
               /\ IF round = 0 THEN Replied(i, n)' ELSE Replied(i, 0)'
    <3>1. Received(i) <= n /\ toMaster[i] = Between(Reply(i), Received(i), n)
      BY <1>2, <2>7 DEF Replied
    <3>2. CASE round = 0
      <4>1. Received(i)' = Received(i)
        BY <2>1, <2>2, <3>2
      <4>2. QED
        BY <1>2, <2>1, <3>1, <3>2, <4>1 DEF Replied
    <3>3. CASE round # 0
      <4>1. n = ReplyLen(i) /\ toMaster[i] = <<>>
        BY <2>2, <2>5, <2>7, <3>1, <3>3
      <4>2. Received(i)' <= 0 /\ toMaster'[i] = Between(Reply(i)', Received(i)', 0)
        BY <1>2, <2>1, <2>5, <4>1
      <4>3. QED
        BY <3>3, <4>1, <4>2 DEF Replied
    <3>4. QED
      BY <3>2, <3>3
  <2>8. CASE Waiting(i, sent)
    <3>1. round = 0 /\ Replied(i, 0)'
      BY <2>2, <2>7, <2>8 DEF Waiting
    <3>2. sent = 0 /\ nodeLen[i] = 0
      BY <1>1, <2>3, <2>4, <2>8, <3>1 DEF Waiting, NetworkTypeOK
    <3>3. Waiting(i, 0)'
      BY <1>2, <2>5, <2>6, <2>8, <3>1, <3>2 DEF Waiting, nodeVars
    <3>4. QED
      BY <1>3, <2>1, <3>3 DEF NodeInv
  <2>9. CASE Late(i, sent)
    <3>1. round = 0 /\ Replied(i, 0)'
      BY <2>2, <2>7, <2>9 DEF Late
    <3>2. sent = 0
      BY <2>3, <2>4, <2>9, <3>1 DEF Late
    <3>3. Late(i, 0)'
      BY <1>2, <2>1, <2>5, <2>9, <3>1, <3>2 DEF Late, nodeVars
    <3>4. QED
      BY <1>3, <2>1, <3>3 DEF NodeInv
  <2>10. CASE Answering(i, sent)
    <3>1. sent = BufSize /\ nodeAt[i] # "exited"
      BY <2>10 DEF Answering
    <3>2. round # 0
      BY <1>3, <2>3, <2>4, <3>1
    <3>3. Written(i) <= ReplyLen(i)
      BY <1>1, <2>10, WrittenInReply DEF Answering
    <3>4. Written(i) = ReplyLen(i) /\ Replied(i, 0)'
      BY <2>2, <2>7, <2>10, <3>2, <3>3 DEF Answering
    <3>5. Late(i, 0)'
      BY <1>2, <2>1, <2>5, <2>10, <3>4 DEF Answering, Late, nodeVars
    <3>6. QED
      BY <1>3, <2>1, <3>5 DEF NodeInv
  <2>11. CASE Answered(i, sent)
    <3>1. sent = BufSize /\ nodeAt[i] # "exited"
      BY <2>11 DEF Answered
    <3>2. round # 0
      BY <1>3, <2>3, <2>4, <3>1
    <3>3. Replied(i, 0)'
      BY <2>2, <2>7, <2>11, <3>2 DEF Answered
    <3>4. Waiting(i, 0)'
      BY <1>2, <2>5, <2>6, <2>11, <3>3 DEF Answered, Waiting, nodeVars
    <3>5. QED
      BY <1>3, <2>1, <3>4 DEF NodeInv
  <2>12. CASE Gone(i)
    <3>1. PICK n \in 0 .. ReplyLen(i) : Replied(i, n)
      BY <2>12 DEF Gone
    <3>2. PICK m \in 0 .. ReplyLen(i) : Replied(i, m)'
      BY <2>2, <2>7, <3>1
    <3>3. Gone(i)'
      BY <1>2, <2>1, <2>12, <3>2 DEF Gone, nodeVars
    <3>4. 0 \in 0 .. BufSize /\ nodeAt'[i] = "exited"
      BY <1>2, <1>3, <2>12 DEF Gone, nodeVars
    <3>5. QED
      BY <3>3, <3>4 DEF NodeInv
  <2>13. QED
    BY <2>4, <2>8, <2>9, <2>10, <2>11, <2>12
<1>8. QED
  BY <1>4, <1>5, <1>6, <1>7 DEF NetworkInv

\* MasterWrite: the connection takes the next part of the query.
LEMMA MasterWriteKeeps == ASSUME NetworkInv, MasterWrite PROVE NetworkInv'
<1>1. NetworkTypeOK /\ MasterInv /\ Collected /\ \A i \in Clients : NodeInv(i)
  BY DEF NetworkInv
<1>2. PICK n \in 1 .. (BufSize - len) :
        /\ toNode' = [toNode EXCEPT ![peer] = @ \o Part(Query(round), len, n)]
        /\ len' = len + n
  BY DEF MasterWrite, Writable
<1>3. /\ at = "send" /\ at' = "send" /\ nodeAt[peer] # "exited"
      /\ UNCHANGED <<peer, buf, ready, fds_done, results, order, round, nodeVars, toMaster>>
  BY DEF MasterWrite
<1>4. /\ BufSize \in Nat /\ len \in Nat /\ n \in Nat /\ n > 0 /\ len + n <= BufSize
      /\ peer \in Clients
  BY <1>1, <1>2, NetworkAssumption DEF NetworkTypeOK
<1>5. NetworkTypeOK'
  BY <1>1, <1>2, <1>3, <1>4 DEF NetworkTypeOK, nodeVars
<1>6. MasterInv'
  BY <1>1, <1>2, <1>3, <1>4 DEF MasterInv, nodeVars
<1>7. Collected'
  BY <1>1, <1>3 DEF Collected, Answers, nodeVars
<1>8. \A i \in Clients : Received(i)' = Received(i) /\ Reply(i)' = Reply(i)
  BY <1>1, <1>3 DEF Received, Reply, ReplyLen, nodeVars
<1>9. ASSUME NEW i \in Clients, i # peer PROVE NodeInv(i)'
  <2>1. toNode'[i] = toNode[i]
    BY <1>1, <1>2, <1>9 DEF NetworkTypeOK
  <2>2. Sent(i)' = Sent(i)
    BY <1>3, <1>9 DEF Sent
  <2>3. \A k \in Nat : Replied(i, k) => Replied(i, k)'
    BY <1>3, <1>8 DEF Replied
  <2>4. QED
    BY <1>1, <1>3, <2>1, <2>2, <2>3, NodeInvStays DEF nodeVars
<1>10. ASSUME NEW i \in Clients, i = peer PROVE NodeInv(i)'
  <2>1. PICK now \in Nat, next \in 0 .. BufSize : now = len /\ next = len + n
    BY <1>4
  <2>2. Sent(i) = now /\ Sent(i)' = next /\ now <= next /\ now # BufSize /\ next \in Nat
    <3>1. ~ i < peer
      BY <1>4, <1>10 DEF Clients
    <3>2. QED
      BY <1>2, <1>3, <1>4, <1>10, <2>1, <3>1 DEF Sent
  <2>3. PICK sent \in 0 .. BufSize :
          /\ nodeAt[i] # "exited" => sent = Sent(i)
          /\ Waiting(i, sent) \/ Late(i, sent) \/ Answering(i, sent)
               \/ Answered(i, sent) \/ Gone(i)
    BY <1>1, <1>3 DEF NodeInv
  <2>4. sent = now
    BY <1>3, <1>10, <2>2, <2>3
  <2>5. toNode'[i] = toNode[i] \o Between(Query(round), now, next)
    BY <1>1, <1>2, <1>4, <1>10, <2>1, PartOfMessage DEF NetworkTypeOK
  <2>6. \A k \in Nat : k <= now =>
          Between(Query(round), k, now) \o Between(Query(round), now, next)
            = Between(Query(round), k, next)
    BY <2>2, BetweenJoin
  <2>7. Replied(i, 0) => Replied(i, 0)'
    BY <1>3, <1>8 DEF Replied
  <2>8. nodeLen[i] \in Nat
    BY <1>1 DEF NetworkTypeOK
  <2>9. CASE Waiting(i, sent)
    <3>1. nodeLen[i] <= now /\ nodeLen[i] <= next
      BY <2>2, <2>4, <2>8, <2>9 DEF Waiting
    <3>2. toNode'[i] = Between(Query(round), nodeLen[i], next)
      BY <2>4, <2>5, <2>6, <2>8, <2>9, <3>1 DEF Waiting
    <3>3. Waiting(i, next)'
      BY <1>3, <2>7, <2>9, <3>1, <3>2 DEF Waiting, nodeVars
    <3>4. QED
      BY <2>2, <3>3 DEF NodeInv
  <2>10. CASE Late(i, sent)
    <3>1. Written(i)' = Written(i) /\ ReplyLen(i)' = ReplyLen(i) /\ Message(i)' = Message(i)
      BY <1>3 DEF Written, ReplyLen, Message, nodeVars
    <3>2. toNode'[i] = Between(Query(round), 0, next)
      BY <2>2, <2>4, <2>5, <2>6, <2>10 DEF Late
    <3>3. Late(i, next)'
      BY <1>3, <2>7, <2>10, <3>1, <3>2 DEF Late, nodeVars
    <3>4. QED
      BY <2>2, <3>3 DEF NodeInv
  <2>11. ~ Answering(i, sent) /\ ~ Answered(i, sent) /\ ~ Gone(i)
    BY <1>3, <1>10, <2>2, <2>4 DEF Answering, Answered, Gone
  <2>12. QED
    BY <2>3, <2>9, <2>10, <2>11
<1>11. QED
  BY <1>5, <1>6, <1>7, <1>9, <1>10 DEF NetworkInv

\* MasterRead: what was read of the reply is behind what the buffer has.
LEMMA MasterReadKeeps == ASSUME NetworkInv, MasterRead PROVE NetworkInv'
<1>1. NetworkTypeOK /\ MasterInv /\ Collected /\ \A i \in Clients : NodeInv(i)
  BY DEF NetworkInv
<1>2. PICK n \in 1 .. Len(toMaster[peer]) :
        /\ len + n <= Len(buf)
        /\ buf' = Put(buf, len, Taken(toMaster[peer], n))
        /\ toMaster' = [toMaster EXCEPT ![peer] = Left(@, n)]
        /\ len' = len + n
  BY DEF MasterRead, Readable
<1>3. /\ at \in {"size", "values"} /\ at' = at
      /\ UNCHANGED <<peer, ready, fds_done, results, order, round, nodeVars, toNode>>
  BY DEF MasterRead
<1>4. peer \in Clients /\ len \in Nat /\ peer \notin fds_done /\ SizeUnits \in Nat
  BY <1>1, <1>3, NetworkAssumption DEF NetworkTypeOK, MasterInv
<1>5. PICK total \in 0 .. ReplyLen(peer) : Replied(peer, total)
  BY <1>1, <1>4, SomeReply
<1>6. PICK had \in Nat : had = Received(peer)
  BY <1>1, <1>4, WrittenInReply
<1>7. /\ had <= total /\ total \in Nat /\ ReplyLen(peer) \in Nat
      /\ toMaster[peer] = Between(Reply(peer), had, total)
  BY <1>1, <1>3, <1>4, <1>5, <1>6, MessageLengths DEF Replied
<1>8. /\ n \in Nat /\ had + n <= total
  <2>1. Len(toMaster[peer]) = total - had
    BY <1>6, <1>7, BetweenType
  <2>2. QED
    BY <1>6, <1>7, <2>1
<1>9. Taken(toMaster[peer], n) = Between(Reply(peer), had, had + n)
  BY <1>6, <1>7, <1>8, StreamSplit
<1>10. len' \in Nat /\ NetworkTypeOK'
  BY <1>1, <1>2, <1>3, <1>4, <1>8 DEF NetworkTypeOK, nodeVars
<1>11. MasterInv'
  <2>1. Len(answer[peer]) \in Nat
    BY <1>1, <1>4, MessageLengths
  <2>2. CASE at = "size"
    <3>1. had = len /\ buf = Filled(Size(Len(answer[peer])), SizeUnits, len)
      BY <1>1, <1>4, <1>6, <2>2 DEF Received, MasterInv
    <3>2. len + n <= SizeUnits
      BY <1>2, <1>4, <3>1 DEF Filled
    <3>3. Taken(toMaster[peer], n) = Between(Size(Len(answer[peer])), len, len + n)
      BY <1>1, <1>4, <1>8, <1>9, <3>1, <3>2, ReplyParts
    <3>4. buf' = Filled(Size(Len(answer[peer])), SizeUnits, len + n)
      <4>1. PICK msg : msg = Size(Len(answer[peer]))
        OBVIOUS
      <4>2. Put(Filled(msg, SizeUnits, len), len, Between(msg, len, len + n))
              = Filled(msg, SizeUnits, len + n)
        BY <1>4, <1>8, <3>2, PutFills
      <4>3. QED
        BY <1>2, <3>1, <3>3, <4>1, <4>2
    <3>5. QED
      BY <1>1, <1>2, <1>3, <2>2, <3>2, <3>4 DEF MasterInv, nodeVars
  <2>3. CASE at = "values"
    <3>1. had = SizeUnits + len
          /\ buf = Filled(Values(answer[peer]), Len(answer[peer]), len)
      BY <1>1, <1>4, <1>6, <2>3 DEF Received, MasterInv
    <3>2. len + n <= Len(answer[peer])
      BY <1>2, <1>4, <2>1, <3>1 DEF Filled
    <3>3. Taken(toMaster[peer], n) = Between(Values(answer[peer]), len, len + n)
      <4>1. had + n = SizeUnits + (len + n) /\ len <= len + n /\ len + n \in Nat
        BY <1>4, <1>8, <3>1
      <4>2. Between(Reply(peer), SizeUnits + len, SizeUnits + (len + n))
              = Between(Values(answer[peer]), len, len + n)
        BY <1>1, <1>4, <3>2, <4>1, ReplyParts
      <4>3. QED
        BY <1>9, <3>1, <4>1, <4>2
    <3>4. buf' = Filled(Values(answer[peer]), Len(answer[peer]), len + n)
      <4>1. PICK msg, size : msg = Values(answer[peer]) /\ size = Len(answer[peer])
        OBVIOUS
      <4>2. Put(Filled(msg, size, len), len, Between(msg, len, len + n))
              = Filled(msg, size, len + n)
        BY <1>4, <1>8, <2>1, <3>2, <4>1, PutFills
      <4>3. QED
        BY <1>2, <3>1, <3>3, <4>1, <4>2
    <3>5. QED
      BY <1>1, <1>2, <1>3, <2>3, <3>2, <3>4 DEF MasterInv, nodeVars
  <2>4. QED
    BY <1>3, <2>2, <2>3
<1>12. Collected'
  BY <1>1, <1>3 DEF Collected, Answers, nodeVars
<1>13. ASSUME NEW i \in Clients, i # peer PROVE NodeInv(i)'
  <2>1. toMaster'[i] = toMaster[i]
    BY <1>1, <1>2, <1>13 DEF NetworkTypeOK
  <2>2. Sent(i)' = Sent(i) /\ Received(i)' = Received(i) /\ Reply(i)' = Reply(i)
    BY <1>3, <1>13 DEF Sent, Received, Reply, ReplyLen, nodeVars
  <2>3. \A k \in Nat : Replied(i, k) => Replied(i, k)'
    BY <1>3, <2>1, <2>2 DEF Replied
  <2>4. QED
    BY <1>1, <1>3, <2>2, <2>3, NodeInvStays DEF nodeVars
<1>14. ASSUME NEW i \in Clients, i = peer PROVE NodeInv(i)'
  <2>1. Received(i)' = had + n
    BY <1>2, <1>3, <1>4, <1>6, <1>8, <1>14 DEF Received
  <2>2. Sent(i)' = Sent(i) /\ Reply(i)' = Reply(i)
    BY <1>3 DEF Sent, Reply, ReplyLen, nodeVars
  <2>3. toMaster'[i] = Left(toMaster[i], n)
    BY <1>1, <1>2, <1>14 DEF NetworkTypeOK
  <2>4. ASSUME NEW k \in Nat, Replied(i, k) PROVE Replied(i, k)'
    <3>1. had <= k /\ toMaster[i] = Between(Reply(i), had, k)
      BY <1>3, <1>6, <1>14, <2>4 DEF Replied
    <3>2. had + n <= k
      <4>1. Len(toMaster[i]) = k - had
        BY <1>6, <3>1, BetweenType
      <4>2. QED
        BY <1>2, <1>6, <1>14, <4>1
    <3>3. Left(toMaster[i], n) = Between(Reply(i), had + n, k)
      BY <1>6, <1>8, <3>1, <3>2, StreamSplit
    <3>4. QED
      BY <2>1, <2>2, <2>3, <3>2, <3>3 DEF Replied
  <2>5. QED
    BY <1>1, <1>3, <2>2, <2>4, NodeInvStays DEF nodeVars
<1>15. QED
  BY <1>10, <1>11, <1>12, <1>13, <1>14 DEF NetworkInv

\* HasSize: the number is the one the node has sent.
LEMMA HasSizeKeeps == ASSUME NetworkInv, HasSize PROVE NetworkInv'
<1>1. NetworkTypeOK /\ MasterInv /\ Collected /\ \A i \in Clients : NodeInv(i)
  BY DEF NetworkInv
<1>2. /\ at = "size" /\ len >= Len(buf) /\ at' = "values" /\ len' = 0
      /\ buf' = Fresh(SizeIn(buf))
      /\ UNCHANGED <<peer, ready, fds_done, results, order, round, nodeVars, toNode, toMaster>>
  BY DEF HasSize
<1>3. /\ peer \in Clients /\ len \in Nat /\ SizeUnits \in Nat \ {0}
      /\ Len(answer[peer]) \in Nat
  BY <1>1, NetworkAssumption, MessageLengths DEF NetworkTypeOK
<1>4. buf = Filled(Size(Len(answer[peer])), SizeUnits, len) /\ len <= SizeUnits
  BY <1>1, <1>2 DEF MasterInv
<1>5. len = SizeUnits
  BY <1>2, <1>3, <1>4 DEF Filled
<1>6. buf[1] = <<"size", Len(answer[peer]), 1>>
  BY <1>3, <1>4, <1>5 DEF Filled, Size
<1>7. SizeIn(buf) = Len(answer[peer])
  BY <1>6 DEF SizeIn
<1>8. buf' = Filled(Values(answer[peer]), Len(answer[peer]), 0)
  BY <1>2, <1>3, <1>7, FilledEnds
<1>9. NetworkTypeOK'
  BY <1>1, <1>2 DEF NetworkTypeOK, nodeVars
<1>10. MasterInv'
  BY <1>1, <1>2, <1>3, <1>8 DEF MasterInv, nodeVars
<1>11. Collected'
  BY <1>1, <1>2 DEF Collected, Answers, nodeVars
<1>12. ASSUME NEW i \in Clients PROVE NodeInv(i)'
  <2>1. Received(i)' = Received(i) /\ Sent(i)' = Sent(i)
    BY <1>2, <1>3, <1>5 DEF Received, Sent, ReplyLen, nodeVars
  <2>2. QED
    BY <1>1, <1>2, <2>1, NodesStay
<1>13. QED
  BY <1>9, <1>10, <1>11, <1>12 DEF NetworkInv

\* HasValues: the identifiers are those of the node, and they are added once.
LEMMA HasValuesKeeps == ASSUME NetworkInv, HasValues PROVE NetworkInv'
<1>1. NetworkTypeOK /\ MasterInv /\ Collected /\ \A i \in Clients : NodeInv(i)
  BY DEF NetworkInv
<1>2. /\ at = "values" /\ len >= Len(buf) /\ at' = "next"
      /\ results' = results \o buf /\ order' = Append(order, peer)
      /\ ready' = ready \ {peer} /\ fds_done' = fds_done \union {peer}
      /\ UNCHANGED <<peer, len, buf, round, nodeVars, toNode, toMaster>>
  BY DEF HasValues
<1>3. /\ peer \in Clients /\ len \in Nat /\ peer \notin fds_done
      /\ answer[peer] \in Seq(Results) /\ Len(answer[peer]) \in Nat
      /\ order \in Seq(Clients)
  BY <1>1, <1>2, MessageLengths DEF NetworkTypeOK, MasterInv
<1>4. /\ buf = Filled(Values(answer[peer]), Len(answer[peer]), len)
      /\ len <= Len(answer[peer])
  BY <1>1, <1>2 DEF MasterInv
<1>5. len = Len(answer[peer])
  BY <1>2, <1>3, <1>4 DEF Filled
<1>6. buf = Values(answer[peer])
  <2>1. DOMAIN Values(answer[peer]) = 1 .. Len(answer[peer])
    BY <1>1, <1>3, MessageLengths
  <2>2. QED
    BY <1>3, <1>4, <1>5, <2>1 DEF Filled, Values
<1>7. NetworkTypeOK'
  BY <1>1, <1>2, <1>3 DEF NetworkTypeOK, nodeVars
<1>8. MasterInv'
  BY <1>1, <1>2 DEF MasterInv, nodeVars
<1>9. Collected'
  <2> DEFINE n == Len(order)
  <2>1. /\ n \in Nat /\ DOMAIN order = 1 .. n /\ DOMAIN order' = 1 .. (n + 1)
        /\ \A k \in 1 .. n : order'[k] = order[k]
        /\ order'[n + 1] = peer
    BY <1>2, <1>3
  <2>2. IsInjective(order) /\ Range(order) = fds_done /\ results = FlattenSeq(Answers)
    BY <1>1, <1>2 DEF Collected
  <2> HIDE DEF n
  <2>3. \A k \in 1 .. n : order[k] \in fds_done
    BY <2>1, <2>2 DEF Range
  <2>4. IsInjective(order')
    <3>1. \A j, k \in 1 .. n : order[j] = order[k] => j = k
      BY <2>1, <2>2 DEF IsInjective
    <3>2. \A j \in 1 .. (n + 1) : j \in 1 .. n \/ j = n + 1
      BY <2>1
    <3>3. \A j, k \in 1 .. (n + 1) : order'[j] = order'[k] => j = k
      BY <1>3, <2>1, <2>3, <3>1, <3>2
    <3>4. QED
      BY <2>1, <3>3 DEF IsInjective
  <2>5. Range(order') = fds_done'
    <3>1. \A x : (\E k \in 1 .. (n + 1) : order'[k] = x)
                   <=> (\E k \in 1 .. n : order[k] = x) \/ x = peer
      <4>1. /\ n + 1 \in 1 .. (n + 1) /\ \A k \in 1 .. n : k \in 1 .. (n + 1)
            /\ \A k \in 1 .. (n + 1) : k \in 1 .. n \/ k = n + 1
        BY <2>1
      <4>2. QED
        BY <2>1, <4>1
    <3>2. PICK longer : longer = order'
      OBVIOUS
    <3>3. Range(longer) = Range(order) \union {peer}
      BY <2>1, <3>1, <3>2 DEF Range
    <3>4. QED
      BY <1>2, <2>2, <3>2, <3>3 DEF Range
  <2>6. PICK S : \A i \in Clients : Values(answer[i]) \in Seq(S)
    <3> DEFINE U == {<<"value", r>> : r \in Results}
    <3>1. ASSUME NEW i \in Clients PROVE Values(answer[i]) \in Seq(U)
      <4>1. PICK a \in Seq(Results) : a = answer[i]
        BY <1>1, <3>1 DEF NetworkTypeOK
      <4>2. \A k \in 1 .. Len(a) : <<"value", a[k]>> \in U
        BY <4>1
      <4> HIDE DEF U
      <4>3. Values(a) = [k \in 1 .. Len(a) |-> <<"value", a[k]>>] /\ Len(a) \in Nat
        BY <4>1 DEF Values
      <4>4. Values(a) \in Seq(U)
        BY <4>2, <4>3
      <4>5. QED
        BY <4>1, <4>4
    <3>2. QED
      BY <3>1
  <2>7. PICK before, after : before = Answers /\ after = Answers'
    OBVIOUS
  <2>8. /\ before = [k \in 1 .. n |-> Values(answer[order[k]])]
        /\ after = [k \in 1 .. (n + 1) |-> Values(answer[order'[k]])]
    BY <1>2, <2>1, <2>7 DEF Answers, nodeVars
  <2>9. \A k \in 1 .. n : Values(answer[order[k]]) \in Seq(S)
    BY <1>3, <2>1, <2>6
  <2>10. before \in Seq(Seq(S)) /\ Len(before) = n /\ Values(answer[peer]) \in Seq(S)
    <3>1. Values(answer[peer]) \in Seq(S)
      BY <1>3, <2>6
    <3>2. before \in Seq(Seq(S)) /\ Len(before) = n
      BY <2>1, <2>8, <2>9
    <3>3. QED
      BY <3>1, <3>2
  <2>11. after = Append(before, Values(answer[peer]))
    <3>1. PICK longer \in Seq(Seq(S)) : longer = Append(before, Values(answer[peer]))
      <4>1. Append(before, Values(answer[peer])) \in Seq(Seq(S))
        BY <2>10
      <4>2. QED
        BY <4>1
    <3>2. /\ Len(longer) = n + 1 /\ longer[n + 1] = Values(answer[peer])
          /\ \A k \in 1 .. n : longer[k] = before[k]
      BY <2>10, <3>1
    <3>3. longer = [k \in 1 .. (n + 1) |-> longer[k]]
      BY <3>2
    <3>4. \A k \in 1 .. (n + 1) : longer[k] = Values(answer[order'[k]])
      <4>1. \A k \in 1 .. (n + 1) : k \in 1 .. n \/ k = n + 1
        BY <2>1
      <4>2. QED
        BY <2>1, <2>8, <3>2, <4>1
    <3>5. QED
      BY <2>8, <3>1, <3>3, <3>4
  <2>12. FlattenSeq(after) = FlattenSeq(before) \o Values(answer[peer])
    BY <2>10, <2>11, FlattenAppend
  <2>13. results' = FlattenSeq(Answers')
    BY <1>2, <1>6, <2>2, <2>7, <2>12
  <2>14. QED
    BY <2>4, <2>5, <2>13 DEF Collected
<1>10. ASSUME NEW i \in Clients PROVE NodeInv(i)'
  <2>1. Received(i)' = Received(i) /\ Sent(i)' = Sent(i)
    BY <1>2, <1>3, <1>5 DEF Received, Sent, ReplyLen, nodeVars
  <2>2. QED
    BY <1>1, <1>2, <2>1, NodesStay
<1>11. QED
  BY <1>7, <1>8, <1>9, <1>10 DEF NetworkInv

\* A step of one node that changes no answer.
LEMMA NodeStepKeeps ==
  ASSUME NetworkInv, NEW j \in Clients, UNCHANGED <<masterVars, answer>>, NetworkTypeOK',
         \A i \in Clients : i # j =>
           /\ nodeAt'[i] = nodeAt[i] /\ nodeLen'[i] = nodeLen[i] /\ nodeBuf'[i] = nodeBuf[i]
           /\ toNode'[i] = toNode[i] /\ toMaster'[i] = toMaster[i],
         nodeAt'[j] = "connecting" => nodeAt[j] = "connecting",
         NodeInv(j)'
  PROVE  NetworkInv'
<1>1. NetworkTypeOK /\ MasterInv /\ Collected /\ \A i \in Clients : NodeInv(i)
  BY DEF NetworkInv
<1>2. \A i \in Clients : nodeAt'[i] = "connecting" => nodeAt[i] = "connecting"
  OBVIOUS
<1>3. MasterInv' /\ Collected'
  BY <1>1, <1>2, MasterStays
<1>4. ASSUME NEW i \in Clients PROVE NodeInv(i)'
  <2>1. CASE i = j
    BY <2>1
  <2>2. CASE i # j
    BY <1>1, <2>2, OtherNodeStays
  <2>3. QED
    BY <2>1, <2>2
<1>5. QED
  BY <1>3, <1>4 DEF NetworkInv

\* NodeReadEnd, NodeWriteBroken, NodeCrash and the last TryConnect: wherever a
\* node was, it is gone.
LEMMA NodeEndsKeeps ==
  ASSUME NetworkInv, NEW j \in Clients, nodeAt' = [nodeAt EXCEPT ![j] = "exited"],
         UNCHANGED <<masterVars, nodeLen, nodeBuf, answer, toNode, toMaster>>
  PROVE  NetworkInv'
<1>1. NetworkTypeOK /\ NodeInv(j)
  BY DEF NetworkInv
<1>2. NetworkTypeOK'
  BY <1>1 DEF NetworkTypeOK, masterVars
<1>3. nodeAt'[j] = "exited" /\ \A i \in Clients : i # j => nodeAt'[i] = nodeAt[i]
  BY <1>1 DEF NetworkTypeOK
<1>4. PICK n \in 0 .. ReplyLen(j) : Replied(j, n)
  BY <1>1, SomeReply
<1>5. ReplyLen(j)' = ReplyLen(j) /\ Reply(j)' = Reply(j) /\ Received(j)' = Received(j)
  BY DEF ReplyLen, Reply, Received, masterVars
<1>6. Replied(j, n)'
  BY <1>4, <1>5 DEF Replied, masterVars
<1>7. Gone(j)'
  BY <1>3, <1>4, <1>5, <1>6 DEF Gone
<1>8. NodeInv(j)'
  <2>1. 0 \in 0 .. BufSize
    BY NetworkAssumption
  <2>2. QED
    BY <1>3, <1>7, <2>1 DEF NodeInv
<1>9. QED
  BY <1>2, <1>3, <1>8, NodeStepKeeps

\* TryConnect: a node that is connected waits for its first query.
LEMMA ConnectKeeps ==
  ASSUME NetworkInv, NEW j \in Clients, TryConnect(j)
  PROVE  NetworkInv'
<1>1. NetworkTypeOK /\ NodeInv(j)
  BY DEF NetworkInv
<1>2. /\ nodeAt[j] = "connecting"
      /\ UNCHANGED <<masterVars, nodeLen, nodeBuf, answer, toNode, toMaster>>
      /\ \/ nodeAt' = [nodeAt EXCEPT ![j] = "exited"]
         \/ nodeAt' = [nodeAt EXCEPT ![j] = nodeAt[j]]
         \/ nodeAt' = [nodeAt EXCEPT ![j] = "query"]
  BY DEF TryConnect
<1>3. CASE nodeAt' = [nodeAt EXCEPT ![j] = "exited"]
  BY <1>2, <1>3, NodeEndsKeeps
<1>4. CASE \/ nodeAt' = [nodeAt EXCEPT ![j] = nodeAt[j]]
           \/ nodeAt' = [nodeAt EXCEPT ![j] = "query"]
  <2>1. nodeAt'[j] \in {"connecting", "query"} /\ \A i \in Clients : i # j => nodeAt'[i] = nodeAt[i]
    BY <1>1, <1>2, <1>4 DEF NetworkTypeOK
  <2>2. NetworkTypeOK'
    BY <1>1, <1>2, <1>4 DEF NetworkTypeOK, masterVars
  <2>3. /\ Reply(j)' = Reply(j) /\ Received(j)' = Received(j) /\ Sent(j)' = Sent(j)
    BY <1>2 DEF Reply, ReplyLen, Received, Sent, masterVars
  <2>4. PICK sent \in 0 .. BufSize : /\ at # "exited" => sent = Sent(j)
                                     /\ Waiting(j, sent)
    BY <1>1, <1>2 DEF NodeInv, Late, Answering, Answered, Gone
  <2>5. Waiting(j, sent)'
    BY <1>2, <2>1, <2>3, <2>4 DEF Waiting, Replied, masterVars
  <2>6. NodeInv(j)'
    BY <1>2, <2>3, <2>4, <2>5 DEF NodeInv, masterVars
  <2>7. QED
    BY <1>2, <2>1, <2>2, <2>6, NodeStepKeeps
<1>5. QED
  BY <1>2, <1>3, <1>4

\* NodeRead: what was read of the query is behind what the buffer has.
LEMMA NodeReadKeeps ==
  ASSUME NetworkInv, NEW j \in Clients, NodeRead(j)
  PROVE  NetworkInv'
<1>1. NetworkTypeOK /\ NodeInv(j)
  BY DEF NetworkInv
<1>2. PICK n \in 1 .. Len(toNode[j]) :
        /\ nodeLen[j] + n <= BufSize
        /\ nodeBuf' = [nodeBuf EXCEPT ![j] = Put(@, nodeLen[j], Taken(toNode[j], n))]
        /\ toNode' = [toNode EXCEPT ![j] = Left(@, n)]
        /\ nodeLen' = [nodeLen EXCEPT ![j] = @ + n]
  BY DEF NodeRead, Readable
<1>3. nodeAt[j] = "query" /\ UNCHANGED <<masterVars, nodeAt, answer, toMaster>>
  BY DEF NodeRead
<1>4. PICK had \in Nat : had = nodeLen[j]
  BY <1>1 DEF NetworkTypeOK
<1>5. PICK sent \in 0 .. BufSize :
        /\ at # "exited" => sent = Sent(j)
        /\ Waiting(j, sent) \/ Answered(j, sent)
  BY <1>1, <1>3 DEF NodeInv, Late, Answering, Gone
<1>6. BufSize \in Nat /\ sent \in Nat
  BY <1>5, NetworkAssumption
<1>7. Waiting(j, sent)
  <2>1. toNode[j] # <<>>
    BY <1>2
  <2>2. QED
    BY <1>5, <2>1 DEF Answered
<1>8. had <= sent /\ toNode[j] = Between(Query(round), had, sent)
      /\ nodeBuf[j] = Filled(Query(round), BufSize, had)
  BY <1>4, <1>7 DEF Waiting
<1>9. n \in Nat /\ had + n <= sent /\ had + n <= BufSize
  <2>1. Len(toNode[j]) = sent - had
    BY <1>4, <1>6, <1>8, BetweenType
  <2>2. QED
    BY <1>2, <1>4, <1>6, <1>8, <2>1
<1>10. PICK msg : msg = Query(round)
  OBVIOUS
<1>11. /\ Taken(toNode[j], n) = Between(msg, had, had + n)
       /\ Left(toNode[j], n) = Between(msg, had + n, sent)
  BY <1>4, <1>6, <1>8, <1>9, <1>10, StreamSplit
<1>12. Put(nodeBuf[j], had, Taken(toNode[j], n)) = Filled(msg, BufSize, had + n)
  BY <1>4, <1>6, <1>8, <1>9, <1>10, <1>11, PutFills
<1>13. /\ nodeLen'[j] = had + n /\ toNode'[j] = Between(msg, had + n, sent)
       /\ nodeBuf'[j] = Filled(msg, BufSize, had + n)
  BY <1>1, <1>2, <1>4, <1>11, <1>12 DEF NetworkTypeOK
<1>14. \A i \in Clients : i # j =>
         nodeLen'[i] = nodeLen[i] /\ toNode'[i] = toNode[i] /\ nodeBuf'[i] = nodeBuf[i]
  BY <1>1, <1>2 DEF NetworkTypeOK
<1>15. NetworkTypeOK'
  BY <1>1, <1>2, <1>3, <1>9 DEF NetworkTypeOK, masterVars
<1>16. Reply(j)' = Reply(j) /\ Received(j)' = Received(j) /\ Sent(j)' = Sent(j)
       /\ msg = Query(round)'
  BY <1>3, <1>10 DEF Reply, ReplyLen, Received, Sent, Query, masterVars
<1>17. Replied(j, 0)'
  BY <1>3, <1>7, <1>16 DEF Waiting, Replied, masterVars
<1>18. Waiting(j, sent)'
  BY <1>3, <1>9, <1>13, <1>16, <1>17 DEF Waiting
<1>19. NodeInv(j)'
  BY <1>3, <1>5, <1>16, <1>18 DEF NodeInv, masterVars
<1>20. QED
  BY <1>3, <1>14, <1>15, <1>19, NodeStepKeeps

\* Handle: the node starts to answer, from a reply of which nothing was sent.
LEMMA HandleKeeps ==
  ASSUME NetworkInv, NEW j \in Clients, Handle(j)
  PROVE  NetworkInv'
<1>1. NetworkTypeOK /\ MasterInv /\ Collected /\ \A i \in Clients : NodeInv(i)
  BY DEF NetworkInv
<1>2. /\ nodeAt[j] = "query" /\ nodeLen[j] >= BufSize
      /\ nodeLen' = [nodeLen EXCEPT ![j] = 0]
      /\ nodeBuf' = [nodeBuf EXCEPT ![j] = Fresh(BufSize)]
      /\ UNCHANGED <<masterVars, toNode, toMaster>>
  BY DEF Handle
<1>3. /\ BufSize \in Nat \ {0} /\ SizeUnits \in Nat \ {0} /\ nodeLen[j] \in Nat /\ len \in Nat
      /\ Received(j) \in Nat /\ ReplyLen(j) \in Nat /\ ReplyLen(j) > 0
  <2>1. BufSize \in Nat \ {0} /\ SizeUnits \in Nat \ {0}
    BY NetworkAssumption
  <2>2. nodeLen[j] \in Nat /\ len \in Nat
    BY <1>1 DEF NetworkTypeOK
  <2>3. Received(j) \in Nat /\ ReplyLen(j) \in Nat /\ ReplyLen(j) >= SizeUnits
    BY <1>1, MessageLengths, WrittenInReply
  <2>4. QED
    BY <2>1, <2>2, <2>3
<1>4. PICK sent \in 0 .. BufSize :
        /\ at # "exited" => sent = Sent(j)
        /\ Waiting(j, sent)
  <2>1. ASSUME NEW sent \in 0 .. BufSize
        PROVE  ~ Late(j, sent) /\ ~ Answering(j, sent) /\ ~ Answered(j, sent) /\ ~ Gone(j)
    BY <1>2, <1>3 DEF Late, Answering, Answered, Gone
  <2>2. QED
    BY <1>1, <1>2, <2>1 DEF NodeInv
<1>5. sent = BufSize /\ nodeLen[j] = BufSize
  BY <1>2, <1>3, <1>4 DEF Waiting
<1>6. toNode[j] = <<>>
  <2>1. Between(Query(round), BufSize, BufSize) = <<>>
    BY <1>3, BetweenType
  <2>2. QED
    BY <1>4, <1>5, <2>1 DEF Waiting
<1>7. nodeBuf[j][1] = <<"query", round, 1>>
  BY <1>3, <1>4, <1>5 DEF Waiting, Filled, Query
<1>8. PICK a \in Seq(Results) :
        nodeAt' = [nodeAt EXCEPT ![j] = "size"] /\ answer' = [answer EXCEPT ![j] = a]
  <2>1. nodeBuf[j][1][1] = "query"
    BY <1>7
  <2>2. PICK a \in BoundedSeq(Results, MaxResults) :
          nodeAt' = [nodeAt EXCEPT ![j] = "size"] /\ answer' = [answer EXCEPT ![j] = a]
    BY <2>1 DEF Handle
  <2>3. PICK m \in 0 .. MaxResults : a \in [1 .. m -> Results]
    BY DEF BoundedSeq, SeqOf
  <2>4. m \in Nat
    BY NetworkAssumption
  <2>5. a \in Seq(Results)
    BY <2>3, <2>4
  <2>6. QED
    BY <2>2, <2>5
<1>9. Len(a) \in Nat
  OBVIOUS
<1>10. /\ nodeAt'[j] = "size" /\ answer'[j] = a /\ nodeLen'[j] = 0 /\ nodeBuf'[j] = Fresh(BufSize)
       /\ \A i \in Clients : i # j =>
            /\ nodeAt'[i] = nodeAt[i] /\ answer'[i] = answer[i] /\ nodeLen'[i] = nodeLen[i]
            /\ nodeBuf'[i] = nodeBuf[i]
  BY <1>1, <1>2, <1>8 DEF NetworkTypeOK
<1>11. NetworkTypeOK'
  BY <1>1, <1>2, <1>8 DEF NetworkTypeOK, masterVars
<1>12. at # "exited" =>
         /\ j \notin fds_done /\ ~ (at = "values" /\ peer = j)
         /\ at = "size" /\ peer = j => len = 0
         /\ Received(j) = 0 /\ toMaster[j] = <<>>
  <2> SUFFICES ASSUME at # "exited"
               PROVE  /\ j \notin fds_done /\ ~ (at = "values" /\ peer = j)
                      /\ at = "size" /\ peer = j => len = 0
                      /\ Received(j) = 0 /\ toMaster[j] = <<>>
    OBVIOUS
  <2>1. Received(j) = 0 /\ toMaster[j] = Between(Reply(j), 0, 0)
    BY <1>3, <1>4 DEF Waiting, Replied
  <2>2. toMaster[j] = <<>>
    BY <2>1, BetweenType
  <2>3. j \notin fds_done
    BY <1>3, <2>1 DEF Received
  <2>4. ~ (at = "values" /\ peer = j) /\ (at = "size" /\ peer = j => len = 0)
    BY <1>3, <2>1, <2>3 DEF Received
  <2>5. QED
    BY <2>1, <2>2, <2>3, <2>4
<1>13. MasterInv'
  <2>1. at = "size" => buf = Filled(Size(Len(answer'[peer])), SizeUnits, len)
    <3>1. CASE peer = j
      <4>1. \A msg : Filled(msg, SizeUnits, 0) = Fresh(SizeUnits)
        BY <1>3, FilledEnds
      <4>2. at = "size" => buf = Fresh(SizeUnits) /\ len = 0
        BY <1>1, <1>12, <3>1, <4>1 DEF MasterInv
      <4>3. QED
        BY <4>1, <4>2
    <3>2. CASE peer # j
      BY <1>1, <1>10, <3>2 DEF MasterInv, NetworkTypeOK
    <3>3. QED
      BY <3>1, <3>2
  <2>2. at = "values" => answer'[peer] = answer[peer]
    BY <1>1, <1>10, <1>12 DEF NetworkTypeOK
  <2>3. \A i \in Clients : nodeAt'[i] = "connecting" => nodeAt[i] = "connecting"
    BY <1>10
  <2>4. QED
    BY <1>1, <1>2, <2>1, <2>2, <2>3 DEF MasterInv, masterVars
<1>14. Collected'
  <2> SUFFICES ASSUME at # "exited" PROVE Answers' = Answers
    BY <1>1, <1>2 DEF Collected, masterVars
  <2>1. \A k \in DOMAIN order : order[k] \in Clients /\ order[k] # j
    <3>1. \A k \in DOMAIN order : order[k] \in Clients
      BY <1>1 DEF NetworkTypeOK
    <3>2. \A k \in DOMAIN order : order[k] \in fds_done
      BY <1>1 DEF Collected, Range
    <3>3. QED
      BY <1>12, <3>1, <3>2
  <2>2. \A k \in DOMAIN order : answer'[order[k]] = answer[order[k]]
    BY <1>10, <2>1
  <2>3. QED
    BY <1>2, <2>2 DEF Answers, masterVars
<1>15. ASSUME NEW i \in Clients, i # j PROVE NodeInv(i)'
  <2>1. toNode'[i] = toNode[i] /\ toMaster'[i] = toMaster[i]
    BY <1>2
  <2>2. UNCHANGED masterVars
    BY <1>2
  <2>3. QED
    BY <1>1, <1>10, <1>15, <2>1, <2>2, OtherNodeStays
<1>16. NodeInv(j)'
  <2>1. Written(j)' = 0 /\ Sent(j)' = Sent(j)
    BY <1>2, <1>10 DEF Written, Sent, masterVars
  <2>2. at # "exited" => Received(j)' = 0
    BY <1>2, <1>12 DEF Received, masterVars
  <2>3. Len(Message(j))' \in Nat
    <3>1. Message(j)' = Size(Len(a))
      BY <1>10 DEF Message
    <3>2. Len(Size(Len(a))) = SizeUnits
      BY <1>3 DEF Size
    <3>3. QED
      BY <1>3, <3>1, <3>2
  <2>4. Replied(j, Written(j))'
    <3>1. Between(Reply(j)', 0, 0) = <<>>
      BY BetweenType
    <3>2. QED
      BY <1>2, <1>12, <2>1, <2>2, <3>1 DEF Replied, masterVars
  <2>5. Answering(j, BufSize)'
    BY <1>2, <1>6, <1>10, <2>3, <2>4 DEF Answering
  <2>6. QED
    BY <1>2, <1>3, <1>4, <1>5, <2>1, <2>5 DEF NodeInv, masterVars
<1>17. QED
  BY <1>11, <1>13, <1>14, <1>15, <1>16 DEF NetworkInv

\* NodeWrite: the connection takes the next part of the reply.
LEMMA NodeWriteKeeps ==
  ASSUME NetworkInv, NEW j \in Clients, NodeWrite(j)
  PROVE  NetworkInv'
<1>1. NetworkTypeOK /\ NodeInv(j)
  BY DEF NetworkInv
<1>2. PICK n \in 1 .. (Len(Message(j)) - nodeLen[j]) :
        toMaster' = [toMaster EXCEPT ![j] = @ \o Part(Message(j), nodeLen[j], n)]
        /\ nodeLen' = [nodeLen EXCEPT ![j] = @ + n]
  BY DEF NodeWrite, Writable
<1>3. /\ nodeAt[j] \in {"size", "values"} /\ at # "exited"
      /\ UNCHANGED <<masterVars, nodeAt, nodeBuf, answer, toNode>>
  BY DEF NodeWrite
<1>4. PICK had \in Nat, size \in Nat, w \in Nat, r \in Nat :
        had = nodeLen[j] /\ size = Len(Message(j)) /\ w = Written(j) /\ r = Received(j)
  <2>1. Len(Message(j)) \in Nat
    BY <1>1, <1>3, WrittenInReply, MessageLengths, NetworkAssumption
  <2>2. QED
    BY <1>1, <2>1, WrittenInReply DEF NetworkTypeOK
<1>5. n \in Nat /\ n > 0 /\ had + n <= size
  BY <1>2, <1>4
<1>6. /\ SizeUnits \in Nat /\ Len(answer[j]) \in Nat /\ ReplyLen(j) = SizeUnits + Len(answer[j])
      /\ size = (IF nodeAt[j] = "size" THEN SizeUnits ELSE Len(answer[j]))
      /\ w = (IF nodeAt[j] = "size" THEN had ELSE SizeUnits + had)
  BY <1>1, <1>3, <1>4, NetworkAssumption, MessageLengths, WrittenInReply DEF ReplyLen, Written
<1>7. PICK sent \in 0 .. BufSize : sent = Sent(j) /\ Answering(j, sent)
  <2>1. ASSUME NEW sent \in 0 .. BufSize
        PROVE  ~ Waiting(j, sent) /\ ~ Late(j, sent) /\ ~ Answered(j, sent) /\ ~ Gone(j)
    <3>1. ~ Late(j, sent)
      BY <1>3, <1>4, <1>5, <1>6 DEF Late
    <3>2. QED
      BY <1>3, <3>1 DEF Waiting, Answered, Gone
  <2>2. QED
    BY <1>1, <1>3, <2>1 DEF NodeInv
<1>8. r <= w /\ toMaster[j] = Between(Reply(j), r, w)
  BY <1>3, <1>4, <1>7 DEF Answering, Replied
<1>9. PICK msg, rep : msg = Message(j) /\ rep = Reply(j)
  OBVIOUS
<1>10. Part(msg, had, n) = Between(msg, had, had + n)
  BY <1>4, <1>5, PartOfMessage
<1>11. Between(msg, had, had + n) = Between(rep, w, w + n)
  <2>1. had <= had + n /\ had + n \in Nat
    BY <1>4, <1>5
  <2>2. CASE nodeAt[j] = "size"
    <3>1. msg = Size(Len(answer[j])) /\ w = had /\ had + n <= SizeUnits
      BY <1>5, <1>6, <1>9, <2>2 DEF Message
    <3>2. QED
      BY <1>1, <1>4, <1>9, <2>1, <3>1, ReplyParts
  <2>3. CASE nodeAt[j] # "size"
    <3>1. msg = Values(answer[j]) /\ w = SizeUnits + had /\ had + n <= Len(answer[j])
      BY <1>5, <1>6, <1>9, <2>3 DEF Message
    <3>2. w + n = SizeUnits + (had + n)
      BY <1>4, <1>5, <1>6, <3>1
    <3>3. Between(rep, SizeUnits + had, SizeUnits + (had + n)) = Between(msg, had, had + n)
      BY <1>1, <1>4, <1>9, <2>1, <3>1, ReplyParts
    <3>4. QED
      BY <3>1, <3>2, <3>3
  <2>4. QED
    BY <2>2, <2>3
<1>12. Between(rep, r, w) \o Between(rep, w, w + n) = Between(rep, r, w + n)
  <2>1. PICK now \in Nat : now = w + n /\ r <= w /\ w <= now
    BY <1>4, <1>5, <1>8
  <2>2. Between(rep, r, w) \o Between(rep, w, now) = Between(rep, r, now)
    BY <2>1, BetweenJoin, Zenon
  <2>3. QED
    BY <2>1, <2>2
<1>13. /\ toMaster'[j] = Between(rep, r, w + n) /\ nodeLen'[j] = had + n
       /\ \A i \in Clients : i # j => toMaster'[i] = toMaster[i] /\ nodeLen'[i] = nodeLen[i]
  <2>1. toMaster'[j] = toMaster[j] \o Part(msg, had, n)
    BY <1>1, <1>2, <1>4, <1>9 DEF NetworkTypeOK
  <2>2. toMaster[j] = Between(rep, r, w)
    BY <1>8, <1>9
  <2>3. toMaster'[j] = Between(rep, r, w + n)
    BY <1>10, <1>11, <1>12, <2>1, <2>2
  <2>4. /\ nodeLen'[j] = had + n
        /\ \A i \in Clients : i # j => toMaster'[i] = toMaster[i] /\ nodeLen'[i] = nodeLen[i]
    BY <1>1, <1>2, <1>4 DEF NetworkTypeOK
  <2>5. QED
    BY <2>3, <2>4
<1>14. NetworkTypeOK'
  <2>1. nodeLen[j] + n \in Nat
    BY <1>4, <1>5
  <2>2. nodeLen' \in [Clients -> Nat]
    BY <1>1, <1>2, <2>1 DEF NetworkTypeOK
  <2>3. DOMAIN toMaster' = Clients
    BY <1>1, <1>2 DEF NetworkTypeOK
  <2>4. QED
    BY <1>1, <1>3, <2>2, <2>3 DEF NetworkTypeOK, masterVars
<1>15. /\ rep = Reply(j)' /\ r = Received(j)' /\ Sent(j)' = Sent(j) /\ msg = Message(j)'
       /\ Written(j)' = w + n
  BY <1>3, <1>4, <1>5, <1>6, <1>9, <1>13
     DEF Reply, ReplyLen, Received, Sent, Message, Written, masterVars
<1>16. Answering(j, sent)'
  <2>1. Replied(j, Written(j))'
    <3>1. r <= w + n
      BY <1>4, <1>5, <1>8
    <3>2. QED
      BY <1>13, <1>15, <3>1 DEF Replied
  <2>2. nodeLen'[j] <= Len(Message(j))'
    BY <1>4, <1>5, <1>9, <1>13, <1>15
  <2>3. QED
    BY <1>3, <1>7, <2>1, <2>2 DEF Answering
<1>17. NodeInv(j)'
  BY <1>3, <1>7, <1>15, <1>16 DEF NodeInv, masterVars
<1>18. QED
  BY <1>3, <1>13, <1>14, <1>17, NodeStepKeeps

\* NodeSent: behind the number come the identifiers, behind them the next query.
LEMMA NodeSentKeeps ==
  ASSUME NetworkInv, NEW j \in Clients, NodeSent(j)
  PROVE  NetworkInv'
<1>1. NetworkTypeOK /\ NodeInv(j)
  BY DEF NetworkInv
<1>2. /\ nodeAt[j] \in {"size", "values"} /\ nodeLen[j] >= Len(Message(j))
      /\ nodeAt' = [nodeAt EXCEPT ![j] = IF nodeAt[j] = "size" THEN "values" ELSE "query"]
      /\ nodeLen' = [nodeLen EXCEPT ![j] = 0]
      /\ UNCHANGED <<masterVars, nodeBuf, answer, toNode, toMaster>>
  BY DEF NodeSent
<1>3. PICK sent \in 0 .. BufSize :
        /\ at # "exited" => sent = Sent(j)
        /\ Late(j, sent) \/ Answering(j, sent)
  BY <1>1, <1>2 DEF NodeInv, Waiting, Answered, Gone
<1>4. /\ SizeUnits \in Nat /\ BufSize \in Nat /\ Len(answer[j]) \in Nat /\ nodeLen[j] \in Nat
      /\ ReplyLen(j) = SizeUnits + Len(answer[j])
      /\ Len(Message(j)) = (IF nodeAt[j] = "size" THEN SizeUnits ELSE Len(answer[j]))
      /\ Len(Values(answer[j])) = Len(answer[j])
  BY <1>1, <1>2, NetworkAssumption, MessageLengths, WrittenInReply DEF ReplyLen, NetworkTypeOK
<1>5. nodeLen[j] = Len(Message(j))
  BY <1>2, <1>3, <1>4 DEF Late, Answering
<1>6. Written(j) = (IF nodeAt[j] = "size" THEN SizeUnits ELSE ReplyLen(j))
  BY <1>4, <1>5 DEF Written
<1>7. /\ nodeAt'[j] = (IF nodeAt[j] = "size" THEN "values" ELSE "query") /\ nodeLen'[j] = 0
      /\ \A i \in Clients : i # j => nodeAt'[i] = nodeAt[i] /\ nodeLen'[i] = nodeLen[i]
  BY <1>1, <1>2 DEF NetworkTypeOK
<1>8. NetworkTypeOK'
  BY <1>1, <1>2 DEF NetworkTypeOK, masterVars
<1>9. /\ Reply(j)' = Reply(j) /\ ReplyLen(j)' = ReplyLen(j) /\ Received(j)' = Received(j)
      /\ Sent(j)' = Sent(j)
  BY <1>2 DEF Reply, ReplyLen, Received, Sent, masterVars
<1>10. \A n : Replied(j, n) => Replied(j, n)'
  BY <1>2, <1>9 DEF Replied, masterVars
<1>11. ASSUME nodeAt[j] = "size" PROVE NodeInv(j)'
  <2>1. Written(j)' = Written(j) /\ Len(Message(j))' = Len(answer[j]) /\ 0 <= Len(answer[j])
    <3>1. Message(j)' = Values(answer[j])
      BY <1>2, <1>7, <1>11 DEF Message
    <3>2. Written(j)' = SizeUnits
      BY <1>4, <1>7, <1>11 DEF Written
    <3>3. QED
      BY <1>4, <1>6, <1>11, <3>1, <3>2
  <2>2. ASSUME Late(j, sent) PROVE Late(j, sent)'
    BY <1>2, <1>7, <1>9, <1>10, <1>11, <2>1, <2>2 DEF Late, masterVars
  <2>3. ASSUME Answering(j, sent) PROVE Answering(j, sent)'
    <3>1. Replied(j, Written(j))'
      BY <1>10, <2>1, <2>3 DEF Answering, Replied
    <3>2. QED
      BY <1>2, <1>7, <1>11, <2>1, <2>3, <3>1 DEF Answering
  <2>4. QED
    BY <1>2, <1>3, <1>9, <2>2, <2>3 DEF NodeInv, masterVars
<1>12. ASSUME nodeAt[j] # "size" PROVE NodeInv(j)'
  <2>1. nodeAt'[j] = "query"
    BY <1>7, <1>12
  <2>2. ASSUME Late(j, sent) PROVE Waiting(j, sent)'
    <3>1. nodeBuf[j] = Filled(Query(round), BufSize, 0)
      BY <1>4, <2>2, FilledEnds DEF Late
    <3>2. QED
      BY <1>2, <1>7, <1>10, <2>1, <2>2, <3>1 DEF Late, Waiting, masterVars
  <2>3. ASSUME Answering(j, sent) PROVE Answered(j, sent)'
    <3>1. Replied(j, ReplyLen(j))'
      BY <1>6, <1>9, <1>10, <1>12, <2>3 DEF Answering, Replied
    <3>2. QED
      BY <1>2, <1>7, <2>1, <2>3, <3>1 DEF Answering, Answered
  <2>4. QED
    BY <1>2, <1>3, <1>9, <2>2, <2>3 DEF NodeInv, masterVars
<1>13. NodeInv(j)'
  BY <1>11, <1>12
<1>14. QED
  BY <1>2, <1>7, <1>8, <1>13, NodeStepKeeps

\* Every step.
LEMMA NetworkInvNext == ASSUME NetworkInv, [NetworkNext]_networkVars PROVE NetworkInv'
<1>1. CASE MasterStep
  BY <1>1, MasterMoves, AskKeeps, MasterWriteKeeps, MasterSentKeeps, SelectKeeps, MasterReadKeeps,
     HasSizeKeeps, HasValuesKeeps DEF MasterStep
<1>2. CASE MasterEnds
  BY <1>2, MasterMoves
<1>3. ASSUME NEW j \in Clients, NodeStep(j) PROVE NetworkInv'
  <2>1. CASE NodeReadEnd(j) \/ NodeWriteBroken(j)
    BY <2>1, NodeEndsKeeps DEF NodeReadEnd, NodeWriteBroken
  <2>2. QED
    BY <1>3, <2>1, ConnectKeeps, NodeReadKeeps, HandleKeeps, NodeWriteKeeps, NodeSentKeeps
       DEF NodeStep
<1>4. ASSUME NEW j \in Clients, NodeCrash(j) PROVE NetworkInv'
  BY <1>4, NodeEndsKeeps DEF NodeCrash
<1>5. CASE UNCHANGED networkVars
  <2>1. NetworkTypeOK /\ MasterInv /\ Collected /\ \A i \in Clients : NodeInv(i)
    BY DEF NetworkInv
  <2>2. UNCHANGED <<masterVars, nodeVars, toNode, toMaster>>
    BY <1>5 DEF networkVars
  <2>3. NetworkTypeOK'
    BY <2>1, <2>2 DEF NetworkTypeOK, masterVars, nodeVars
  <2>4. MasterInv' /\ Collected'
    BY <2>1, <2>2, MasterStays DEF nodeVars
  <2>5. \A i \in Clients : NodeInv(i)'
    BY <2>1, <2>2, OtherNodeStays DEF nodeVars
  <2>6. QED
    BY <2>3, <2>4, <2>5 DEF NetworkInv
<1>6. QED
  BY <1>1, <1>2, <1>3, <1>4, <1>5 DEF NetworkNext

\* The inductive invariant holds in every state the network reaches.
THEOREM NetworkInvariant == NetworkSpec => []NetworkInv
<1>1. NetworkInv /\ [NetworkNext]_networkVars => NetworkInv'
  BY NetworkInvNext
<1>2. QED
  BY NetworkInvInit, <1>1, PTL DEF NetworkSpec
------------------------------------------------------------------------------
(***************************************************************************)
(* What the rounds promise.                                                *)
(***************************************************************************)

\* A node that handles a message has read this round's query, from the first
\* unit to the last, however the connection divided it (Client::Receive).
THEOREM QueriesArrive == NetworkSpec => []QueriesArriveWhole
<1>1. NetworkInv => QueriesArriveWhole
  <2> SUFFICES ASSUME NetworkInv, NEW i \in Clients, nodeAt[i] = "query", nodeLen[i] >= BufSize
               PROVE  nodeBuf[i] = Query(round)
    BY DEF QueriesArriveWhole
  <2>1. NetworkTypeOK /\ NodeInv(i) /\ BufSize \in Nat \ {0} /\ nodeLen[i] \in Nat
    BY NetworkAssumption DEF NetworkInv, NetworkTypeOK
  <2>2. PICK sent \in 0 .. BufSize : Waiting(i, sent)
    BY <2>1 DEF NodeInv, Late, Answering, Answered, Gone
  <2>3. nodeBuf[i] = Filled(Query(round), BufSize, nodeLen[i])
    BY <2>2 DEF Waiting
  <2>4. nodeBuf[i] = [k \in 1 .. BufSize |-> Query(round)[k]]
    BY <2>1, <2>3, FilledEnds
  <2>5. QED
    BY <2>4 DEF Query
<1>2. QED
  BY <1>1, NetworkInvariant, PTL

\* Between two queries nothing of the last one is under way (the rounds of
\* LUBMnetwork.cpp), although a node may not have returned from its last Send.
THEOREM NothingIsLeftBehind == NetworkSpec => []ConnectionsAreClean
<1>1. NetworkInv => ConnectionsAreClean
  <2> SUFFICES ASSUME NetworkInv, at = "idle", NEW i \in Clients, nodeAt[i] # "exited"
               PROVE  toNode[i] = <<>> /\ toMaster[i] = <<>>
    BY DEF ConnectionsAreClean
  <2>1. /\ NetworkTypeOK /\ NodeInv(i) /\ MasterInv
        /\ BufSize \in Nat \ {0} /\ SizeUnits \in Nat \ {0} /\ nodeLen[i] \in Nat
    BY NetworkAssumption DEF NetworkInv, NetworkTypeOK
  <2>2. /\ ReplyLen(i) \in Nat /\ ReplyLen(i) > 0 /\ Written(i) \in Nat
        /\ nodeAt[i] \in {"size", "values"} /\ nodeLen[i] <= Len(Message(i)) =>
             Written(i) <= ReplyLen(i)
    <3>1. ReplyLen(i) \in Nat /\ ReplyLen(i) >= SizeUnits
      BY <2>1, MessageLengths
    <3>2. QED
      BY <2>1, <3>1, WrittenInReply
  <2>3. /\ Sent(i) = (IF round = 0 THEN 0 ELSE BufSize)
        /\ Received(i) = (IF round = 0 THEN 0 ELSE ReplyLen(i))
    BY <2>1 DEF Sent, Received, MasterInv
  <2>4. PICK sent \in 0 .. BufSize :
          /\ sent = Sent(i)
          /\ Waiting(i, sent) \/ Late(i, sent) \/ Answering(i, sent) \/ Answered(i, sent)
    BY <2>1 DEF NodeInv, Gone
  <2>5. /\ \A n \in Nat : Between(Reply(i), n, n) = <<>>
        /\ Between(Query(round), 0, 0) = <<>>
    BY BetweenType
  <2>6. \A n \in Nat : n <= Received(i) /\ Replied(i, n) => n = Received(i) /\ toMaster[i] = <<>>
    BY <2>2, <2>3, <2>5 DEF Replied
  <2>7. CASE Waiting(i, sent) \/ Late(i, sent)
    <3>1. Received(i) = 0 /\ toMaster[i] = <<>>
      BY <2>2, <2>3, <2>6, <2>7 DEF Waiting, Late, Replied
    <3>2. sent = 0
      BY <2>2, <2>3, <2>4, <3>1
    <3>3. toNode[i] = <<>>
      BY <2>1, <2>5, <2>7, <3>2 DEF Waiting, Late
    <3>4. QED
      BY <3>1, <3>3
  <2>8. CASE Answering(i, sent)
    <3>1. Received(i) = ReplyLen(i) /\ Written(i) <= ReplyLen(i)
      BY <2>1, <2>2, <2>3, <2>4, <2>8 DEF Answering
    <3>2. QED
      BY <2>2, <2>6, <2>8, <3>1 DEF Answering
  <2>9. CASE Answered(i, sent)
    <3>1. Received(i) = ReplyLen(i)
      BY <2>1, <2>3, <2>4, <2>9 DEF Answered
    <3>2. QED
      BY <2>2, <2>6, <2>9, <3>1 DEF Answered
  <2>10. QED
    BY <2>4, <2>7, <2>8, <2>9
<1>2. QED
  BY <1>1, NetworkInvariant, PTL

\* The results of a query are the answers of all nodes, each unbroken and once,
\* in the order the master received them (q01_m and ReceiveFromAllSelect).
THEOREM ResultsComeFromNodes == NetworkSpec => []ResultsAreAnswers
<1>1. NetworkInv => ResultsAreAnswers
  BY DEF NetworkInv, MasterInv, Collected, Answers, ResultsAreAnswers
<1>2. QED
  BY <1>1, NetworkInvariant, PTL
==============================================================================
