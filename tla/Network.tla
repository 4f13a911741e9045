------------------------------- MODULE Network -------------------------------
(***************************************************************************)
(* Server.cpp, Client.cpp and the message rounds of LUBMnetwork.cpp.  The  *)
(* master waits until all nodes are connected; for a query it sends the    *)
(* same message to every node, then receives from each a number and that   *)
(* many identifiers, either node after node (q01_m) or whoever is ready    *)
(* (ReceiveFromAllSelect).  A connection is a stream without boundaries:   *)
(* every read and write moves as much as it likes.                         *)
(*                                                                         *)
(* Nodes are named by their place in Server::nodes.  A unit stands for a   *)
(* few bytes: a number and a query take several, an identifier one.        *)
(***************************************************************************)
EXTENDS Integers, FiniteSets, SequencesExt

CONSTANTS
  nbOfClients,  \* how many nodes the master waits for
  Results,      \* identifiers a node can find
  BufSize,      \* units of a query: network_buf_size
  SizeUnits,    \* units of a number
  SizeSpan,     \* 2^64 in the code: values of a size_t
  Capacity,     \* units a connection holds before write blocks
  MaxTries,     \* 51 in the code: how often a node tries to connect
  MaxResults,   \* bound: identifiers of one answer
  MaxRounds,    \* bound: queries
  MaxCrashes    \* bound: nodes that end by themselves

Clients == 0 .. (nbOfClients - 1)

ASSUME NetworkAssumption ==
  /\ {nbOfClients, BufSize, SizeUnits, Capacity, MaxTries} \subseteq Nat \ {0}
  /\ {MaxResults, MaxRounds, MaxCrashes} \subseteq Nat
  /\ SizeSpan > BufSize + SizeUnits + MaxResults

VARIABLES
  at,         \* where the master is: "down", in Start ("accept"), between
              \* queries ("idle"), in "send", "select" or between nodes
              \* ("next"), receiving a "size" or "values", or "exited"
  peer,       \* the node it sends to or receives from
  len, buf,   \* of the Send or Receive it is in
  ready,      \* nodes it is going to receive from
  fds_done,   \* nodes it has received from
  results,    \* what it has received
  order,      \* history: the nodes in the order they were received from
  round,      \* number of the query
  nodeAt,     \* where each node is: "connecting", receiving a "query",
              \* sending a "size" or "values", or "exited"
  nodeLen, nodeBuf,
  answer,     \* what a node found for its last query
  tries,      \* connection attempts of each node
  toNode, toMaster,  \* the connections: what is under way
  crashes     \* how many nodes ended by themselves

masterVars == <<at, peer, len, buf, ready, fds_done, results, order, round>>
nodeVars == <<nodeAt, nodeLen, nodeBuf, answer, tries>>
networkVars == <<masterVars, nodeVars, toNode, toMaster, crashes>>

NoUnit == <<"none">>
Fresh(size) == [k \in 1 .. size |-> NoUnit]
Query(r) == [k \in 1 .. BufSize |-> <<"query", r, k>>]
Size(s) == [k \in 1 .. SizeUnits |-> <<"size", s, k>>]
Values(a) == [k \in DOMAIN a |-> <<"value", a[k]>>]

NetworkInit ==
  /\ at = "down" /\ peer = 0 /\ len = 0 /\ buf = <<>>
  /\ ready = {} /\ fds_done = {} /\ results = <<>> /\ order = <<>> /\ round = 0
  /\ nodeAt = [i \in Clients |-> "connecting"]
  /\ nodeLen = [i \in Clients |-> 0]
  /\ nodeBuf = [i \in Clients |-> Fresh(BufSize)]
  /\ answer = [i \in Clients |-> <<>>]
  /\ tries = [i \in Clients |-> 0]
  /\ toNode = [i \in Clients |-> <<>>] /\ toMaster = [i \in Clients |-> <<>>]
  /\ crashes = 0
------------------------------------------------------------------------------
(* read and write.                                                         *)

\* How much read can move: something, at most what is there and wanted.
Readable(stream, has, wants) == {n \in 1 .. Len(stream) : has + n <= wants}

\* How much write can move.
Writable(stream, has, wants) == {n \in 1 .. (wants - has) : Len(stream) + n <= Capacity}

\* Mutant of Put: a further read starts at the front of the buffer again.
PutInFront(b, has, units) ==
  [k \in DOMAIN b |-> IF k \in 1 .. Len(units) THEN units[k] ELSE b[k]]

\* The buffer with what was read put behind what it has.
Put(b, has, units) ==
  [k \in DOMAIN b |-> IF k - has \in 1 .. Len(units) THEN units[k - has] ELSE b[k]]

Taken(stream, n) == SubSeq(stream, 1, n)
Left(stream, n) == SubSeq(stream, n + 1, Len(stream))
Part(msg, has, n) == SubSeq(msg, has + 1, has + n)
------------------------------------------------------------------------------
(* The master.                                                             *)

\* Server::Start: listen; connections are made from here on.
Listen ==
  /\ at = "down"
  /\ at' = "accept"
  /\ UNCHANGED <<peer, len, buf, ready, fds_done, results, order, round, nodeVars, toNode, toMaster, crashes>>

\* Mutant of AllConnected: only nodes that are still there count.
AllConnectedAlive ==
  /\ at = "accept"
  /\ \A i \in Clients : nodeAt[i] = "query"
  /\ at' = "idle"
  /\ UNCHANGED <<peer, len, buf, ready, fds_done, results, order, round, nodeVars, toNode, toMaster, crashes>>

\* It returns once all nodes are connected, those that have ended since
\* included.
AllConnected ==
  /\ at = "accept"
  /\ \A i \in Clients : nodeAt[i] # "connecting" /\ tries[i] < MaxTries
  /\ at' = "idle"
  /\ UNCHANGED <<peer, len, buf, ready, fds_done, results, order, round, nodeVars, toNode, toMaster, crashes>>

\* A query: the message goes to the first node.
Ask ==
  /\ at = "idle"
  /\ round < MaxRounds
  /\ at' = "send" /\ round' = round + 1
  /\ peer' = 0 /\ len' = 0 /\ buf' = <<>>
  /\ ready' = {} /\ fds_done' = {} /\ results' = <<>> /\ order' = <<>>
  /\ UNCHANGED <<nodeVars, toNode, toMaster, crashes>>

\* Mutant of MasterWrite: what is left is sent from the start of the message.
MasterWriteFromStart ==
  /\ at = "send"
  /\ len < BufSize
  /\ nodeAt[peer] # "exited"
  /\ \E n \in Writable(toNode[peer], len, BufSize) :
       /\ toNode' = [toNode EXCEPT ![peer] = @ \o Part(Query(round), 0, n)]
       /\ len' = len + n
  /\ UNCHANGED <<at, peer, buf, ready, fds_done, results, order, round, nodeVars, toMaster, crashes>>

\* NetworkNode::Send, one write.
MasterWrite ==
  /\ at = "send"
  /\ len < BufSize
  /\ nodeAt[peer] # "exited"
  /\ \E n \in Writable(toNode[peer], len, BufSize) :
       /\ toNode' = [toNode EXCEPT ![peer] = @ \o Part(Query(round), len, n)]
       /\ len' = len + n
  /\ UNCHANGED <<at, peer, buf, ready, fds_done, results, order, round, nodeVars, toMaster, crashes>>

\* A write to a node that has ended: it is lost, or SIGPIPE ends the master.
MasterWriteBroken ==
  /\ at = "send"
  /\ len < BufSize
  /\ nodeAt[peer] = "exited"
  /\ \/ len' = BufSize /\ UNCHANGED at
     \/ at' = "exited" /\ UNCHANGED len
  /\ UNCHANGED <<peer, buf, ready, fds_done, results, order, round, nodeVars, toNode, toMaster, crashes>>

\* The next node, or the answers: of all nodes in turn, or by select.
MasterSent ==
  /\ at = "send"
  /\ len >= BufSize
  /\ \/ peer < nbOfClients - 1 /\ peer' = peer + 1 /\ UNCHANGED <<at, ready>>
     \/ peer = nbOfClients - 1 /\ at' = "next" /\ ready' = Clients /\ UNCHANGED peer
     \/ peer = nbOfClients - 1 /\ at' = "select" /\ UNCHANGED <<peer, ready>>
  /\ len' = 0
  /\ UNCHANGED <<buf, fds_done, results, order, round, nodeVars, toNode, toMaster, crashes>>

\* select over the nodes not done: ready are those with data or at their end.
Select ==
  /\ at = "select"
  /\ ready' = {i \in Clients \ fds_done : toMaster[i] # <<>> \/ nodeAt[i] = "exited"}
  /\ ready' # {}
  /\ at' = "next"
  /\ UNCHANGED <<peer, len, buf, fds_done, results, order, round, nodeVars, toNode, toMaster, crashes>>

\* The loop over the nodes; the number is received first.
NextNode ==
  /\ at = "next"
  /\ ready # {}
  /\ peer' = Min(ready)
  /\ at' = "size" /\ len' = 0 /\ buf' = Fresh(SizeUnits)
  /\ UNCHANGED <<ready, fds_done, results, order, round, nodeVars, toNode, toMaster, crashes>>

\* Mutant of LoopEnds: one select is the whole round.
LoopEndsEarly ==
  /\ at = "next"
  /\ ready = {}
  /\ at' = "idle"
  /\ UNCHANGED <<peer, len, buf, ready, fds_done, results, order, round, nodeVars, toNode, toMaster, crashes>>

\* The end of the loop: of the round, or of one select.
LoopEnds ==
  /\ at = "next"
  /\ ready = {}
  /\ at' = IF fds_done = Clients THEN "idle" ELSE "select"
  /\ UNCHANGED <<peer, len, buf, ready, fds_done, results, order, round, nodeVars, toNode, toMaster, crashes>>

\* NetworkNode::Receive, one read.
MasterRead ==
  /\ at \in {"size", "values"}
  /\ \E n \in Readable(toMaster[peer], len, Len(buf)) :
       /\ buf' = Put(buf, len, Taken(toMaster[peer], n))
       /\ toMaster' = [toMaster EXCEPT ![peer] = Left(@, n)]
       /\ len' = len + n
  /\ UNCHANGED <<at, peer, ready, fds_done, results, order, round, nodeVars, toNode, crashes>>

\* read returns 0 at the end of the connection.
MasterReadEnd ==
  /\ at \in {"size", "values"}
  /\ len < Len(buf)
  /\ toMaster[peer] = <<>> /\ nodeAt[peer] = "exited"
  /\ at' = "exited"
  /\ UNCHANGED <<peer, len, buf, ready, fds_done, results, order, round, nodeVars, toNode, toMaster, crashes>>

\* The number: the variable is 0 unless something was read into it.
SizeIn(b) == IF b[1][1] = "size" THEN b[1][2] ELSE 0

HasSize ==
  /\ at = "size"
  /\ len >= Len(buf)
  /\ at' = "values" /\ len' = 0 /\ buf' = Fresh(SizeIn(buf))
  /\ UNCHANGED <<peer, ready, fds_done, results, order, round, nodeVars, toNode, toMaster, crashes>>

HasValues ==
  /\ at = "values"
  /\ len >= Len(buf)
  /\ results' = results \o buf
  /\ order' = Append(order, peer)
  /\ ready' = ready \ {peer} /\ fds_done' = fds_done \union {peer}
  /\ at' = "next"
  /\ UNCHANGED <<peer, len, buf, round, nodeVars, toNode, toMaster, crashes>>

MasterStep ==
  \/ Listen \/ AllConnected \/ Ask \/ MasterWrite \/ MasterWriteBroken \/ MasterSent
  \/ Select \/ NextNode \/ LoopEnds \/ MasterRead \/ MasterReadEnd \/ HasSize \/ HasValues

\* The master is ended from outside, or at the end of its work.
MasterEnds ==
  /\ at # "down" /\ at # "exited"
  /\ at' = "exited"
  /\ UNCHANGED <<peer, len, buf, ready, fds_done, results, order, round, nodeVars, toNode, toMaster, crashes>>
------------------------------------------------------------------------------
(* A node.                                                                 *)

\* Client::Start: connect, or try again later and give up in the end.
TryConnect(i) ==
  /\ nodeAt[i] = "connecting"
  /\ IF at \in {"down", "exited"}
       THEN /\ tries' = [tries EXCEPT ![i] = @ + 1]
            /\ nodeAt' = [nodeAt EXCEPT ![i] = IF tries[i] + 1 = MaxTries THEN "exited" ELSE @]
       ELSE /\ nodeAt' = [nodeAt EXCEPT ![i] = "query"]
            /\ UNCHANGED tries
  /\ UNCHANGED <<masterVars, nodeLen, nodeBuf, answer, toNode, toMaster, crashes>>

\* Client::Receive, one read.
NodeRead(i) ==
  /\ nodeAt[i] = "query"
  /\ \E n \in Readable(toNode[i], nodeLen[i], BufSize) :
       /\ nodeBuf' = [nodeBuf EXCEPT ![i] = Put(@, nodeLen[i], Taken(toNode[i], n))]
       /\ toNode' = [toNode EXCEPT ![i] = Left(@, n)]
       /\ nodeLen' = [nodeLen EXCEPT ![i] = @ + n]
  /\ UNCHANGED <<masterVars, nodeAt, answer, tries, toMaster, crashes>>

\* Mutant of NodeReadEnd: noticed only in the middle of a message.
NodeReadEndInside(i) ==
  /\ nodeAt[i] = "query"
  /\ nodeLen[i] \in 1 .. (BufSize - 1)
  /\ toNode[i] = <<>> /\ at = "exited"
  /\ nodeAt' = [nodeAt EXCEPT ![i] = "exited"]
  /\ UNCHANGED <<masterVars, nodeLen, nodeBuf, answer, tries, toNode, toMaster, crashes>>

\* read returns 0: the node ends.
NodeReadEnd(i) ==
  /\ nodeAt[i] = "query"
  /\ nodeLen[i] < BufSize
  /\ toNode[i] = <<>> /\ at = "exited"
  /\ nodeAt' = [nodeAt EXCEPT ![i] = "exited"]
  /\ UNCHANGED <<masterVars, nodeLen, nodeBuf, answer, tries, toNode, toMaster, crashes>>

\* A message that is a query is answered (q01_n) with what the node finds;
\* anything else is dropped, and the next message awaited.
Handle(i) ==
  /\ nodeAt[i] = "query"
  /\ nodeLen[i] >= BufSize
  /\ nodeLen' = [nodeLen EXCEPT ![i] = 0]
  /\ nodeBuf' = [nodeBuf EXCEPT ![i] = Fresh(BufSize)]
  /\ IF nodeBuf[i][1][1] = "query"
       THEN /\ nodeAt' = [nodeAt EXCEPT ![i] = "size"]
            /\ \E a \in BoundedSeq(Results, MaxResults) : answer' = [answer EXCEPT ![i] = a]
       ELSE UNCHANGED <<nodeAt, answer>>
  /\ UNCHANGED <<masterVars, tries, toNode, toMaster, crashes>>

\* What the Send a node is in has to move.
Message(i) == IF nodeAt[i] = "size" THEN Size(Len(answer[i])) ELSE Values(answer[i])

\* Mutant of NodeWrite: what did not fit into the connection is not sent again.
NodeWriteOnce(i) ==
  /\ nodeAt[i] \in {"size", "values"}
  /\ at # "exited"
  /\ \E n \in Writable(toMaster[i], nodeLen[i], Len(Message(i))) :
       toMaster' = [toMaster EXCEPT ![i] = @ \o Part(Message(i), nodeLen[i], n)]
  /\ nodeLen' = [nodeLen EXCEPT ![i] = Len(Message(i))]
  /\ UNCHANGED <<masterVars, nodeAt, nodeBuf, answer, tries, toNode, crashes>>

\* Client::Send, one write.
NodeWrite(i) ==
  /\ nodeAt[i] \in {"size", "values"}
  /\ at # "exited"
  /\ \E n \in Writable(toMaster[i], nodeLen[i], Len(Message(i))) :
       /\ toMaster' = [toMaster EXCEPT ![i] = @ \o Part(Message(i), nodeLen[i], n)]
       /\ nodeLen' = [nodeLen EXCEPT ![i] = @ + n]
  /\ UNCHANGED <<masterVars, nodeAt, nodeBuf, answer, tries, toNode, crashes>>

\* A write to a master that has ended: SIGPIPE.
NodeWriteBroken(i) ==
  /\ nodeAt[i] \in {"size", "values"}
  /\ nodeLen[i] < Len(Message(i))
  /\ at = "exited"
  /\ nodeAt' = [nodeAt EXCEPT ![i] = "exited"]
  /\ UNCHANGED <<masterVars, nodeLen, nodeBuf, answer, tries, toNode, toMaster, crashes>>

\* Behind the number come the identifiers, behind them the next query.
NodeSent(i) ==
  /\ nodeAt[i] \in {"size", "values"}
  /\ nodeLen[i] >= Len(Message(i))
  /\ nodeAt' = [nodeAt EXCEPT ![i] = IF @ = "size" THEN "values" ELSE "query"]
  /\ nodeLen' = [nodeLen EXCEPT ![i] = 0]
  /\ UNCHANGED <<masterVars, nodeBuf, answer, tries, toNode, toMaster, crashes>>

NodeStep(i) ==
  \/ TryConnect(i) \/ NodeRead(i) \/ NodeReadEnd(i) \/ Handle(i)
  \/ NodeWrite(i) \/ NodeWriteBroken(i) \/ NodeSent(i)

\* A connected node ends by itself.  The master sees the end of the stream; the
\* reset that an unread query may cause instead is a read that fails (below).
NodeCrash(i) ==
  /\ crashes < MaxCrashes
  /\ nodeAt[i] \notin {"connecting", "exited"}
  /\ crashes' = crashes + 1
  /\ nodeAt' = [nodeAt EXCEPT ![i] = "exited"]
  /\ UNCHANGED <<masterVars, nodeLen, nodeBuf, answer, tries, toNode, toMaster>>
------------------------------------------------------------------------------
NetworkNext ==
  \/ MasterStep
  \/ MasterEnds
  \/ \E i \in Clients : NodeStep(i) \/ NodeCrash(i)

NetworkSpec == NetworkInit /\ [][NetworkNext]_networkVars

\* The processes run; that one of them ends or crashes is not promised.
FairNetworkSpec ==
  /\ NetworkSpec
  /\ WF_networkVars(MasterStep)
  /\ \A i \in Clients : WF_networkVars(NodeStep(i))

\* read fails with -1, which a size_t takes for the largest number: len is one
\* less than before.
MasterReadFails ==
  /\ at \in {"size", "values"}
  /\ len < Len(buf)
  /\ len' = (len + SizeSpan - 1) % SizeSpan
  /\ UNCHANGED <<at, peer, buf, ready, fds_done, results, order, round, nodeVars, toNode, toMaster, crashes>>

FailingNetworkSpec == NetworkInit /\ [][NetworkNext \/ MasterReadFails]_networkVars
------------------------------------------------------------------------------
(***************************************************************************)
(* What the rounds promise.                                                *)
(***************************************************************************)

\* Between two queries the results are what the nodes found for the last one,
\* each node's once and unbroken, in the order the nodes were received from.
ResultsAreAnswers ==
  (at = "idle" /\ round > 0) =>
    /\ IsInjective(order) /\ Range(order) = Clients
    /\ results = FlattenSeq([k \in DOMAIN order |-> Values(answer[order[k]])])

\* A node answers the query that was asked: what it has read when it handles
\* a message is this round's message from the first unit to the last.
QueriesArriveWhole ==
  \A i \in Clients :
    (nodeAt[i] = "query" /\ nodeLen[i] >= BufSize) => nodeBuf[i] = Query(round)

\* A query leaves nothing behind that the next one could take for its own.
ConnectionsAreClean ==
  at = "idle" => \A i \in Clients :
    nodeAt[i] # "exited" => toNode[i] = <<>> /\ toMaster[i] = <<>>

\* Start returns, unless a node gave up before the master listened: nodes that
\* connect and crash at once do not hold it.
StartReturns == at = "accept" ~> (at # "accept" \/ \E i \in Clients : tries[i] = MaxTries)

\* A query that was sent is answered, or the master ends: also when nodes
\* crash in the middle of it, or are blocked because a connection is full.
EveryRoundEnds == at = "send" ~> at \in {"idle", "exited"}

\* Nodes do not outlive the master.
NodesEndWithMaster == at = "exited" ~> \A i \in Clients : nodeAt[i] = "exited"

\* A Receive that returns has filled its buffer.
ReceiveFillsBuffer ==
  (at \in {"size", "values"} /\ len >= Len(buf)) => NoUnit \notin Range(buf)
==============================================================================
