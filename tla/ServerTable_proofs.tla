------------------------- MODULE ServerTable_proofs -------------------------
(***************************************************************************)
(* Theorems about ServerTable, for every number of socket numbers,         *)
(* clients, connections, bytes and faults and every size of the buffers:   *)
(* what the table of clients keeps (ClientsSound), that connected() closes *)
(* for a cause only (ClosedForCause), and that no byte is lost, repeated   *)
(* or handed out as another connection's (BytesInOrder).                   *)
(*                                                                         *)
(* The invariant says what the parts of the system know of each other      *)
(* while a command is out: what the program waits for (Control, Waits),    *)
(* what the answer on its way may be (Answers), which events and flags a   *)
(* socket may have (Events, Flags), which byte is in which buffer (Bytes), *)
(* and which sockets are lost or will be (LostSoon).                       *)
(***************************************************************************)
EXTENDS ServerTable, SequenceTheorems, FiniteSetTheorems, TLAPS

WithSocket == {"selected", "testflag", "closing", "available", "polled", "read",
               "receiving", "close", "dropping", "send", "sending"}
Idle == {"call", "connected", "testflag", "accept", "available", "read", "close", "send"}
Steps == Idle \cup {"called", "selected", "closing", "accepting", "polled",
                    "receiving", "dropping", "sending"}

\* Where the program is, and what it knows of the client it is with.
Control ==
    /\ phase \in {"begin", "accept", "choose", "use", "write"} /\ step \in Steps
    /\ phase = "begin" <=> step \in {"call", "called"}
    /\ i \in (IF phase = "begin" THEN 1 .. 5 ELSE Slots) /\ picked \in Slots
    /\ step \in WithSocket => Sock # NoSd
    /\ step \in {"accept", "accepting"} => Sock = NoSd
    /\ step = "receiving" => ~Buffered
    /\ phase = "begin" => /\ i <= 2 => soc = NoSd
                          /\ i > 2 => soc \in Sd
                          /\ listenSocket = NoSd

\* The command a step waits for.
Ops == {"none", "timeouts", "socket", "setsockopt", "bind", "listen", "accept",
        "select", "recv", "send", "closesocket"}
Calls == [op : Ops, sd : Sd \cup {NoSd}, done : BOOLEAN]
Waits ==
    /\ call \in Calls
    /\ step \in Idle => call = NoCall
    /\ step = "called" => call.op = BeginCalls[i] /\ call.sd = soc
    /\ step \in {"selected", "polled"} => call.op = "select" /\ call.sd = Sock
    /\ step \in {"closing", "dropping"} => call.op = "closesocket" /\ call.sd = Sock
    /\ step = "accepting" => call.op = "accept" /\ call.sd = listenSocket
    /\ step = "receiving" => call.op = "recv" /\ call.sd = Sock
    /\ step = "sending" => call.op = "send" /\ call.sd = Sock

Record == [st : {"free", "fresh", "listening", "open"}, conn : 0 .. MaxConns,
           sent : 0 .. MaxBytes, taken : 0 .. MaxBytes, fin : BOOLEAN, dead : BOOLEAN]

\* The sockets of the radio, and the connections they stand for.
Sockets ==
    /\ rsock \in [Sd -> Record]
    /\ nbytes \in 0 .. MaxBytes /\ nconn \in 0 .. MaxConns /\ pending \in 0 .. nconn
    /\ \A n \in Sd : rsock[n].taken <= rsock[n].sent /\ rsock[n].sent <= nbytes
    /\ \A n \in Sd : IsOpen(n) => rsock[n].conn \in 1 .. (nconn - pending)
    /\ \A n, m \in Sd : IsOpen(n) /\ IsOpen(m) /\ rsock[n].conn = rsock[m].conn => n = m
    /\ \A n \in Sd : rsock[n].fin => IsOpen(n)

\* A socket whose closing has been answered.
Closing(n) == call.op = "closesocket" /\ call.sd = n /\ call.done

Client == [sock : Sd \cup {NoSd}, buf : Seq(Connections \X Nat), idx : 0 .. BufSize]

\* The clients and the listener hold sockets of the radio.
Holders ==
    /\ clients \in [Slots -> Client]
    /\ \A c \in Slots : Len(clients[c].buf) <= BufSize
    /\ {listenSocket, soc} \subseteq Sd \cup {NoSd}
    /\ listenSocket # NoSd => rsock[listenSocket].st = "listening"
    /\ phase = "begin" /\ soc # NoSd => rsock[soc].st \in {"fresh", "listening"}
    /\ \A c \in Slots : clients[c].sock # NoSd =>
          IsOpen(clients[c].sock) \/ Closing(clients[c].sock)
    /\ OneOwner

Message == [kind : {"answer", "close"}, val : Int, data : Seq(Connections \X Nat)]
IsAnswer(m) == m.kind = "answer"

\* What the answer to the command that is out may say.
Fits(m) ==
    /\ Len(m.data) <= BufSize
    /\ call.op \in {"timeouts", "setsockopt", "bind", "closesocket"} => m.val \in {0, -1}
    /\ call.op = "socket" => m.val = -1 \/ (m.val \in Sd /\ rsock[m.val].st = "fresh")
    /\ call.op = "listen" => m.val = -1 \/ (m.val = 0 /\ rsock[call.sd].st = "listening")
    /\ call.op = "accept" =>
          \/ m.val \in {-1, SOC_IN_PROGRESS}
          \/ /\ IsOpen(m.val) /\ rsock[m.val].taken = 0 /\ handed[rsock[m.val].conn] = 0
             /\ m.val # listenSocket
             /\ \A c \in Slots : clients[c].sock # m.val
    /\ call.op = "closesocket" => m.val = -1 \/ rsock[call.sd].st = "free"
    /\ call.op = "recv" =>
          LET k == rsock[call.sd].conn IN
          /\ m.val = ERROR_SOCKET_INACTIVE => m.data = <<>>
          /\ \A j \in 1 .. Len(m.data) : m.data[j] = <<k, handed[k] + j>>
          /\ handed[k] + Len(m.data) = rsock[call.sd].taken

\* At most one answer is on its way, to the command that is out.
Answers ==
    /\ toHost \in Seq(Message)
    /\ \A j \in 1 .. Len(toHost) : IsAnswer(toHost[j]) =>
          /\ call.done /\ Fits(toHost[j])
          /\ \A k \in 1 .. Len(toHost) : IsAnswer(toHost[k]) => k = j

\* An event is about the connection its socket has, or had when the answer
\* behind it closed it.
Events ==
    \A j \in 1 .. Len(toHost) : ~IsAnswer(toHost[j]) =>
        /\ toHost[j].val \in Sd
        /\ \/ rsock[toHost[j].val].fin
           \/ /\ Closing(toHost[j].val)
              /\ \A k \in 1 .. Len(toHost) : IsAnswer(toHost[k]) => j < k

\* So is a flag, unless read() has closed the socket and left it.
Flags ==
    /\ closed_sockets \in [Sd -> BOOLEAN] /\ stale \subseteq Sd
    /\ \A n \in Sd : closed_sockets[n] => n \in stale \/ rsock[n].fin \/ Closing(n)

\* The bytes in the buffer of a client are those after the last one that was
\* handed to the program, up to the last one the radio has given.
Receiving(n) == call.op = "recv" /\ call.sd = n /\ call.done
Left(cl) == IF cl.idx < Len(cl.buf) THEN Len(cl.buf) - cl.idx ELSE 0
BytesOf(cl) ==
    LET k == rsock[cl.sock].conn IN
    /\ \A j \in 1 .. Len(cl.buf) : j > cl.idx => cl.buf[j] = <<k, handed[k] + (j - cl.idx)>>
    /\ ~Receiving(cl.sock) => handed[k] + Left(cl) = rsock[cl.sock].taken
Bytes ==
    /\ handed \in [Connections -> 0 .. MaxBytes]
    /\ \A c \in Connections : c > nconn - pending => handed[c] = 0
    /\ \A c \in Slots : IsOpen(clients[c].sock) => BytesOf(clients[c])

\* A socket that is lost, or will be when the refusal on its way arrives.
Refused(n) ==
    /\ \E k \in 1 .. Len(toHost) : IsAnswer(toHost[k]) /\ toHost[k].val = -1
    /\ call.sd = n /\ (call.op = "closesocket" \/ phase = "begin")
LostSoon == Lost \cup {n \in Sd : rsock[n].st # "free" /\ Refused(n)}

Counts ==
    /\ ended \in {0, 1} /\ faults \in 0 .. MaxFaults
    /\ inactive \subseteq 0 .. 7 /\ txError \in BOOLEAN
    /\ Cardinality(LostSoon) <= faults

ServerInv ==
    /\ Control /\ Waits /\ Sockets /\ Holders
    /\ Answers /\ Events /\ Flags /\ Bytes /\ Counts

-----------------------------------------------------------------------------
(* Where the program goes.                                                 *)

\* The program turns to a client, and does not wait.
Turns == /\ phase' \in {"accept", "choose", "use", "write"} /\ step' = "connected"
         /\ i' \in Slots

LEMMA SlotFacts == MaxClients \in Nat \ {0} /\ 1 \in Slots /\ MaxClients \in Slots
BY ClientAssumption DEF ClientAssumption, Slots

\* Outside begin the methods are called on a client of the table.
LEMMA CurIsSlot == Control /\ phase # "begin" => Cur \in Slots /\ i \in Slots
BY DEF Control, Cur

LEMMA NextClientTurns ==
    ASSUME Control, phase # "begin", NextClient
    PROVE  Turns
<1>1. i \in Slots /\ phase \in {"accept", "choose", "use", "write"}
  BY CurIsSlot DEF Control
<1>2. i < MaxClients => i + 1 \in Slots
  BY <1>1, SlotFacts DEF Slots
<1> QED BY <1>1, <1>2, SlotFacts DEF NextClient, Goto, Turns

LEMMA OnConnectedMoves ==
    ASSUME Control, phase # "begin", OnConnected
    PROVE  \/ Turns
           \/ phase' = phase /\ i' = i /\ step' \in {"send", "available"}
<1>1. CASE phase = "accept"
  BY <1>1, NextClientTurns DEF OnConnected
<1>2. CASE phase # "accept"
  BY <1>2 DEF OnConnected, Step, Goto
<1> QED BY <1>1, <1>2

LEMMA OnDisconnectedMoves ==
    ASSUME Control, phase # "begin", OnDisconnected
    PROVE  \/ Turns
           \/ phase' = phase /\ i' = i /\ step' = "accept"
<1>1. CASE phase = "accept"
  BY <1>1 DEF OnDisconnected, Step, Goto
<1>2. CASE phase # "accept"
  BY <1>2, NextClientTurns DEF OnDisconnected
<1> QED BY <1>1, <1>2

LEMMA OnAvailableMoves ==
    ASSUME Control, phase # "begin", OnAvailable
    PROVE  /\ picked' \in Slots
           /\ \/ Turns
              \/ phase' = phase /\ i' = i /\ step' = "read" /\ picked' = picked
BY CurIsSlot DEF OnAvailable, Goto, Step, Turns, Control

LEMMA CallTypes ==
    /\ NoCall \in Calls
    /\ \A op \in Ops, n \in Sd \cup {NoSd} : [op |-> op, sd |-> n, done |-> FALSE] \in Calls
<1>1. \A op \in Ops, n \in Sd \cup {NoSd} : [op |-> op, sd |-> n, done |-> FALSE] \in Calls
  BY DEF Calls
<1>2. PICK op \in Ops : op = "none"
  BY DEF Ops
<1>3. NoCall = [op |-> op, sd |-> NoSd, done |-> FALSE]
  BY <1>2 DEF NoCall
<1> QED BY <1>1, <1>3

\* A client is turned to with nothing known of it.
LEMMA TurnsControl ==
    ASSUME Control, Waits, Turns, picked' \in Slots, call' = NoCall
    PROVE  Control' /\ Waits'
<1>1. call' \in Calls
  BY CallTypes
<1> QED BY <1>1 DEF Control, Waits, Turns, Steps, Idle, WithSocket

\* The program goes on with the client it is with.
Stays == phase' = phase /\ i' = i /\ picked' = picked /\ UNCHANGED <<soc, listenSocket>>

LEMMA StaysCur == Stays => Cur' = Cur
BY DEF Stays, Cur

\* It keeps it, and does not wait.
LEMMA StaysIdle ==
    ASSUME Control, Waits, Stays, phase # "begin", call' = NoCall,
           step' \in {"testflag", "available", "read", "close", "send"},
           clients'[Cur].sock # NoSd
    PROVE  Control' /\ Waits'
<1>1. call' \in Calls
  BY CallTypes
<1>2. Sock' # NoSd
  BY StaysCur DEF Sock
<1> QED BY <1>1, <1>2 DEF Control, Waits, Stays, Steps, Idle, WithSocket

\* It has none, and is about to accept.
LEMMA StaysAccept ==
    ASSUME Control, Waits, Stays, phase # "begin", call' = NoCall, step' = "accept",
           clients'[Cur].sock = NoSd
    PROVE  Control' /\ Waits'
<1>1. call' \in Calls
  BY CallTypes
<1>2. Sock' = NoSd
  BY StaysCur DEF Sock
<1> QED BY <1>1, <1>2 DEF Control, Waits, Stays, Steps, Idle, WithSocket

\* It waits for the command about the socket of the client.
LEMMA StaysWaiting ==
    ASSUME Control, Waits, Stays, phase # "begin", UNCHANGED clients, Sock \in Sd,
           NEW op \in Ops, call' = [op |-> op, sd |-> Sock, done |-> FALSE],
           \/ step' \in {"selected", "polled"} /\ op = "select"
           \/ step' \in {"closing", "dropping"} /\ op = "closesocket"
           \/ step' = "receiving" /\ op = "recv" /\ ~Buffered
           \/ step' = "sending" /\ op = "send"
    PROVE  Control' /\ Waits'
<1>1. call' \in Calls
  BY CallTypes
<1>2. call'.op = op /\ call'.sd = Sock
  OBVIOUS
<1>3. Sock' = Sock /\ Buffered' = Buffered /\ Sock # NoSd
  BY StaysCur, SocketAssumption DEF Sock, Buffered, SocketAssumption, NoSd
<1> QED BY <1>1, <1>2, <1>3 DEF Control, Waits, Stays, Steps, Idle, WithSocket

\* The answer is the only one, and to the command that is out.
LEMMA AnswerTaken ==
    ASSUME Answers, NEW op, Answered(op)
    PROVE  /\ call.op = op /\ call.done /\ Fits(Answer)
           /\ 1 \in 1 .. Len(toHost) /\ Answer = toHost[1] /\ IsAnswer(toHost[1])
           /\ Answer \in Message
           /\ toHost' \in Seq(Message) /\ Len(toHost') = Len(toHost) - 1
           /\ \A k \in 1 .. Len(toHost') :
                 k + 1 \in 1 .. Len(toHost) /\ toHost'[k] = toHost[k + 1] /\ ~IsAnswer(toHost'[k])
<1>1. PICK q \in Seq(Message) : q = toHost /\ q # <<>>
  BY DEF Answers, Answered
<1>2. PICK L \in Nat : L = Len(q) /\ L >= 1
  BY <1>1, LenProperties, EmptySeq
<1>3. /\ Head(q) = q[1] /\ q[1] \in Message /\ Tail(q) \in Seq(Message) /\ Len(Tail(q)) = L - 1
      /\ \A k \in 1 .. (L - 1) : Tail(q)[k] = q[k + 1]
  BY <1>1, <1>2, HeadTailProperties, ElementOfSeq
<1>4. IsAnswer(q[1])
  BY <1>1, <1>3 DEF Answered, IsAnswer
<1>5. 1 \in 1 .. L
  BY <1>2
<1>6. call.done /\ Fits(q[1]) /\ \A k \in 1 .. L : IsAnswer(q[k]) => k = 1
  BY <1>1, <1>2, <1>4, <1>5 DEF Answers
<1>7. \A k \in 1 .. (L - 1) : k + 1 \in 1 .. L /\ k + 1 # 1
  BY <1>2
<1>8. \A k \in 1 .. (L - 1) : ~IsAnswer(Tail(q)[k])
  BY <1>3, <1>6, <1>7
<1>9. toHost' = Tail(q)
  BY <1>1 DEF Answered
<1> QED BY <1>1, <1>2, <1>3, <1>4, <1>5, <1>6, <1>7, <1>8, <1>9 DEF Answered, Answer

LEMMA BeginCallsAre ==
    /\ Len(BeginCalls) = 5 /\ BeginCalls[1] = "timeouts" /\ BeginCalls[2] = "socket"
    /\ BeginCalls[3] = "setsockopt" /\ BeginCalls[4] = "bind" /\ BeginCalls[5] = "listen"
BY DEF BeginCalls

LEMMA BeginControl ==
    ASSUME Control, Waits, Answers, soc \in Sd \cup {NoSd}, BeginCall \/ BeginAnswered
    PROVE  Control' /\ Waits'
<1>0. Control /\ phase = "begin" /\ i \in 1 .. 5
  BY DEF BeginCall, BeginAnswered, Control
<1>1. CASE BeginCall
  <2>1. BeginCalls[i] \in Ops
    BY <1>0, BeginCallsAre DEF Ops
  <2>2. call' = [op |-> BeginCalls[i], sd |-> soc, done |-> FALSE]
    BY <1>1 DEF BeginCall, Out, Command
  <2>3. call' \in Calls
    BY <2>1, <2>2, CallTypes
  <2>4. call'.op = BeginCalls[i] /\ call'.sd = soc
    BY <2>2
  <2>5. /\ phase' = phase /\ i' = i /\ step' = "called"
        /\ UNCHANGED <<clients, listenSocket, soc, picked>>
    BY <1>1 DEF BeginCall, Step, Goto
  <2> QED BY <1>0, <2>3, <2>4, <2>5 DEF Control, Waits, Steps, Idle, WithSocket
<1>2. CASE BeginAnswered
  <2>1. Answered(BeginCalls[i]) /\ call' = NoCall /\ UNCHANGED <<picked, clients>>
    BY <1>2 DEF BeginAnswered, In, Answered
  <2>2. PICK r \in Int : r = Answer.val
    BY <2>1, AnswerTaken DEF Message
  <2>3. BeginCalls[i] = "socket" => r = -1 \/ r \in Sd
    BY <2>1, <2>2, AnswerTaken DEF Fits
  <2>4. /\ IF BeginCalls[i] = "socket" THEN soc' = (IF r < 0 THEN soc ELSE r)
                                       ELSE soc' = soc
        /\ listenSocket' = IF BeginCalls[i] = "listen" /\ r >= 0 THEN soc ELSE listenSocket
        /\ IF r < 0 \/ i = Len(BeginCalls)
           THEN Goto("accept", 1, "connected") ELSE Goto("begin", i + 1, "call")
    BY <1>2, <2>2 DEF BeginAnswered
  <2>5. CASE r < 0 \/ i = 5
    <3>1. Turns /\ picked' \in Slots
      BY <2>1, <2>4, <2>5, BeginCallsAre, SlotFacts DEF Turns, Goto, Control
    <3> QED BY <2>1, <3>1, TurnsControl
  <2>6. CASE ~(r < 0 \/ i = 5)
    <3>1. phase' = "begin" /\ i' = i + 1 /\ step' = "call"
      BY <2>4, <2>6, BeginCallsAre DEF Goto
    <3>2. i + 1 \in 1 .. 5
      BY <1>0, <2>6
    <3>3. listenSocket' = NoSd
      <4>1. BeginCalls[i] # "listen"
        BY <1>0, <2>6, BeginCallsAre
      <4> QED BY <1>0, <2>4, <4>1 DEF Control
    <3>4. (i + 1 <= 2 => soc' = NoSd) /\ (i + 1 > 2 => soc' \in Sd)
      <4>1. CASE i = 1
        BY <1>0, <2>4, <4>1, BeginCallsAre DEF Control
      <4>2. CASE i = 2
        <5>1. soc' = r /\ r \in Sd
          BY <2>3, <2>4, <2>6, <4>2, BeginCallsAre
        <5> QED BY <4>2, <5>1
      <4>3. CASE i > 2
        <5>1. BeginCalls[i] # "socket"
          BY <1>0, <4>3, BeginCallsAre
        <5> QED BY <1>0, <2>4, <4>3, <5>1 DEF Control
      <4> QED BY <1>0, <4>1, <4>2, <4>3
    <3>5. call' \in Calls
      BY <2>1, CallTypes
    <3>6. picked' \in Slots
      BY <2>1 DEF Control
    <3>7. Control'
      BY <3>1, <3>2, <3>3, <3>4, <3>6 DEF Control, Steps, Idle, WithSocket
    <3>8. Waits'
      BY <2>1, <3>1, <3>5 DEF Waits, Idle
    <3> QED BY <3>7, <3>8
  <2> QED BY <2>5, <2>6
<1> QED BY <1>1, <1>2

\* Where an action of connected() and available() leads.
LEMMA MovesControl ==
    ASSUME Control, Waits, phase # "begin", call' = NoCall, UNCHANGED <<soc, listenSocket>>,
           \/ Turns /\ picked' \in Slots
           \/ /\ Stays /\ clients'[Cur].sock # NoSd
              /\ step' \in {"testflag", "available", "read", "close", "send"}
           \/ Stays /\ step' = "accept" /\ clients'[Cur].sock = NoSd
    PROVE  Control' /\ Waits'
BY TurnsControl, StaysIdle, StaysAccept

LEMMA SetClientSets ==
    ASSUME Control, phase # "begin", clients \in [Slots -> Client], NEW cl, SetClient(cl)
    PROVE  /\ Cur \in Slots /\ clients'[Cur] = cl /\ DOMAIN clients' = Slots
           /\ \A c \in Slots \ {Cur} : clients'[c] = clients[c]
           /\ cl \in Client => clients' \in [Slots -> Client]
<1>1. Cur \in Slots
  BY CurIsSlot
<1>2. clients' = [clients EXCEPT ![Cur] = cl]
  BY DEF SetClient
<1> QED BY <1>1, <1>2

\* The client of a step that has a socket has one of the radio's numbers.
LEMMA SockIsNumber ==
    ASSUME Control, phase # "begin", clients \in [Slots -> Client]
    PROVE  /\ Cur \in Slots /\ clients[Cur] \in Client /\ Sock = clients[Cur].sock
           /\ Sock \in Sd \cup {NoSd}
           /\ step \in WithSocket => Sock \in Sd
<1>1. Cur \in Slots
  BY CurIsSlot
<1>2. clients[Cur] \in Client /\ Sock = clients[Cur].sock
  BY <1>1 DEF Sock
<1> QED BY <1>1, <1>2 DEF Control, Client

LEMMA NumbersAre == Sd \subseteq 0 .. 7 /\ NoSd \notin Sd
BY SocketAssumption DEF SocketAssumption, NoSd

LEMMA ConnectedControl ==
    ASSUME Control, Waits, clients \in [Slots -> Client],
           \/ Connected_NoSocket \/ Connected_Buffered \/ Connected_Select
           \/ Connected_Selected \/ Connected_TestFlag \/ Connected_Closed
    PROVE  Control' /\ Waits'
<1>0. step \in {"connected", "selected", "testflag", "closing"}
  BY DEF Connected_NoSocket, Connected_Buffered, Connected_Select, Connected_Selected,
         Connected_TestFlag, Connected_Closed
<1>1. phase # "begin"
  BY <1>0 DEF Control
<1>2. Cur \in Slots /\ Sock = clients[Cur].sock /\ Sock \in Sd \cup {NoSd}
      /\ (step \in WithSocket => Sock \in Sd)
  BY <1>1, SockIsNumber
<1>3. CASE Connected_NoSocket
  <2>1. /\ call' = call /\ step = "connected" /\ Sock = NoSd /\ OnDisconnected
        /\ UNCHANGED <<soc, listenSocket, clients, picked>>
    BY <1>3 DEF Connected_NoSocket, Table, apiVars
  <2>2. call' = NoCall
    BY <2>1 DEF Waits, Idle
  <2>3. Turns \/ (phase' = phase /\ i' = i /\ step' = "accept")
    BY <1>1, <2>1, OnDisconnectedMoves
  <2>4. picked' \in Slots
    BY <2>1 DEF Control
  <2> QED BY <1>1, <1>2, <2>1, <2>2, <2>3, <2>4, MovesControl DEF Stays
<1>4. CASE Connected_Buffered
  <2>1. /\ call' = call /\ step = "connected" /\ Sock # NoSd /\ OnConnected
        /\ UNCHANGED <<soc, listenSocket, clients, picked>>
    BY <1>4 DEF Connected_Buffered, Table, apiVars
  <2>2. call' = NoCall
    BY <2>1 DEF Waits, Idle
  <2>3. Turns \/ (phase' = phase /\ i' = i /\ step' \in {"send", "available"})
    BY <1>1, <2>1, OnConnectedMoves
  <2>4. picked' \in Slots
    BY <2>1 DEF Control
  <2> QED BY <1>1, <1>2, <2>1, <2>2, <2>3, <2>4, MovesControl DEF Stays
<1>5. CASE Connected_Select
  <2>1. /\ call' = [op |-> "select", sd |-> Sock, done |-> FALSE]
        /\ Sock # NoSd /\ step' = "selected" /\ Stays /\ UNCHANGED clients
    BY <1>5 DEF Connected_Select, Out, Command, Step, Goto, Stays, Table
  <2>2. "select" \in Ops
    BY DEF Ops
  <2> QED BY <1>1, <1>2, <2>1, <2>2, StaysWaiting
<1>6. CASE Connected_Selected
  <2>1. /\ call' = NoCall /\ step = "selected"
        /\ OnConnected \/ Step("testflag")
        /\ UNCHANGED <<soc, listenSocket, clients, picked>>
    BY <1>6 DEF Connected_Selected, In, Answered, Table
  <2>2. \/ Turns
        \/ phase' = phase /\ i' = i /\ step' \in {"send", "available", "testflag"}
    BY <1>1, <2>1, OnConnectedMoves DEF Step, Goto
  <2>3. Sock \in Sd /\ picked' \in Slots
    BY <1>2, <2>1 DEF WithSocket, Control
  <2>4. clients'[Cur].sock # NoSd
    BY <1>2, <2>1, <2>3, NumbersAre
  <2>5. \/ Turns /\ picked' \in Slots
        \/ /\ Stays /\ clients'[Cur].sock # NoSd
           /\ step' \in {"testflag", "available", "read", "close", "send"}
    BY <2>1, <2>2, <2>3, <2>4 DEF Stays
  <2> QED BY <1>1, <2>1, <2>5, MovesControl
<1>7. CASE Connected_TestFlag
  <2>0. step = "testflag" /\ Sock \in Sd
    BY <1>2, <1>7 DEF Connected_TestFlag, WithSocket
  <2>1. CASE closed_sockets[Sock]
    <3>1. /\ call' = [op |-> "closesocket", sd |-> Sock, done |-> FALSE]
          /\ step' = "closing" /\ Stays /\ UNCHANGED clients
      BY <1>7, <2>1 DEF Connected_TestFlag, Out, Command, Step, Goto, Stays, Table
    <3>2. "closesocket" \in Ops
      BY DEF Ops
    <3> QED BY <1>1, <2>0, <3>1, <3>2, StaysWaiting
  <2>2. CASE ~closed_sockets[Sock]
    <3>1. /\ call' = call /\ OnConnected
          /\ UNCHANGED <<soc, listenSocket, clients, picked>>
      BY <1>7, <2>2 DEF Connected_TestFlag, Table, apiVars
    <3>2. call' = NoCall
      BY <2>0, <3>1 DEF Waits, Idle
    <3>3. Turns \/ (phase' = phase /\ i' = i /\ step' \in {"send", "available"})
      BY <1>1, <3>1, OnConnectedMoves
    <3>4. clients'[Cur].sock # NoSd /\ picked' \in Slots
      BY <1>2, <2>0, <3>1, NumbersAre DEF Control
    <3> QED BY <1>1, <3>1, <3>2, <3>3, <3>4, MovesControl DEF Stays
  <2> QED BY <2>1, <2>2
<1>8. CASE Connected_Closed
  <2>1. /\ call' = NoCall /\ step = "closing" /\ OnDisconnected
        /\ SetClient([clients[Cur] EXCEPT !.sock = NoSd])
        /\ UNCHANGED <<soc, listenSocket, picked>>
    BY <1>8 DEF Connected_Closed, In, Answered, Table
  <2>2. clients'[Cur] = [clients[Cur] EXCEPT !.sock = NoSd] /\ clients[Cur] \in Client
    BY <1>1, <2>1, SetClientSets
  <2>3. clients'[Cur].sock = NoSd
    BY <2>2 DEF Client
  <2>4. Turns \/ (phase' = phase /\ i' = i /\ step' = "accept")
    BY <1>1, <2>1, OnDisconnectedMoves
  <2>5. picked' \in Slots
    BY <2>1 DEF Control
  <2> QED BY <1>1, <2>1, <2>3, <2>4, <2>5, MovesControl DEF Stays
<1> QED BY <1>3, <1>4, <1>5, <1>6, <1>7, <1>8

LEMMA AcceptControl ==
    ASSUME Control, Waits, clients \in [Slots -> Client],
           listenSocket \in Sd \cup {NoSd}, AcceptCall \/ Accept
    PROVE  Control' /\ Waits'
<1>1. step \in {"accept", "accepting"} /\ phase # "begin"
  BY DEF AcceptCall, Accept, Control
<1>2. CASE AcceptCall
  <2>1. /\ call' = [op |-> "accept", sd |-> listenSocket, done |-> FALSE]
        /\ step = "accept" /\ step' = "accepting" /\ Stays /\ UNCHANGED clients
    BY <1>2 DEF AcceptCall, Out, Command, Step, Goto, Stays, Table
  <2>2. call'.op = "accept" /\ call'.sd = listenSocket
    BY <2>1
  <2>3. "accept" \in Ops
    BY DEF Ops
  <2>4. call' \in Calls
    BY <2>1, <2>3, CallTypes
  <2>5. Sock' = Sock /\ Sock = NoSd
    BY <2>1, StaysCur DEF Sock, Control
  <2>6. Control'
    BY <1>1, <2>1, <2>5 DEF Control, Stays, Steps, WithSocket
  <2>7. Waits'
    BY <2>1, <2>2, <2>4 DEF Waits, Stays, Idle
  <2> QED BY <2>6, <2>7
<1>3. CASE Accept
  <2>1. call' = NoCall /\ NextClient /\ UNCHANGED <<picked, soc, listenSocket>>
    BY <1>3 DEF Accept, In, Answered, Table
  <2>2. Turns /\ picked' \in Slots
    BY <1>1, <2>1, NextClientTurns DEF Control
  <2> QED BY <2>1, <2>2, TurnsControl
<1> QED BY <1>2, <1>3

LEMMA AvailableControl ==
    ASSUME Control, Waits, clients \in [Slots -> Client],
           Available_Buffered \/ Available_Select \/ Available_Selected
    PROVE  Control' /\ Waits'
<1>1. step \in {"available", "polled"} /\ phase # "begin"
  BY DEF Available_Buffered, Available_Select, Available_Selected, Control
<1>2. Cur \in Slots /\ Sock = clients[Cur].sock /\ Sock \in Sd
  BY <1>1, SockIsNumber DEF WithSocket
<1>3. CASE Available_Select
  <2>1. /\ call' = [op |-> "select", sd |-> Sock, done |-> FALSE]
        /\ step' = "polled" /\ Stays /\ UNCHANGED clients
    BY <1>3 DEF Available_Select, Out, Command, Step, Goto, Stays, Table
  <2>2. "select" \in Ops
    BY DEF Ops
  <2> QED BY <1>1, <1>2, <2>1, <2>2, StaysWaiting
<1>4. CASE Available_Buffered \/ Available_Selected
  <2>1. call' = NoCall
    BY <1>4 DEF Available_Buffered, Available_Selected, In, Answered, Waits, Idle, apiVars
  <2>2. /\ OnAvailable \/ (NextClient /\ UNCHANGED picked)
        /\ UNCHANGED <<soc, listenSocket, clients>>
    BY <1>4 DEF Available_Buffered, Available_Selected, Table
  <2>3. /\ picked' \in Slots
        /\ \/ Turns
           \/ phase' = phase /\ i' = i /\ step' = "read" /\ picked' = picked
    BY <1>1, <2>2, OnAvailableMoves, NextClientTurns DEF Control
  <2>4. clients'[Cur].sock # NoSd
    BY <1>2, <2>2, NumbersAre
  <2> QED BY <1>1, <2>1, <2>2, <2>3, <2>4, MovesControl DEF Stays
<1> QED BY <1>3, <1>4

LEMMA ReadControl ==
    ASSUME Control, Waits, clients \in [Slots -> Client],
           Read_Buffered \/ Read_Recv \/ Read_Received \/ Close \/ Closed
    PROVE  Control' /\ Waits'
<1>1. step \in {"read", "receiving", "close", "dropping"} /\ phase # "begin"
  BY DEF Read_Buffered, Read_Recv, Read_Received, Close, Closed, Control
<1>2. Cur \in Slots /\ Sock = clients[Cur].sock /\ Sock \in Sd /\ clients[Cur] \in Client
  BY <1>1, SockIsNumber DEF WithSocket
<1>3. CASE Read_Buffered \/ Closed
  <2>1. call' = NoCall
    BY <1>3 DEF Read_Buffered, Closed, In, Answered, Waits, Idle, apiVars
  <2>2. WriteAll /\ UNCHANGED picked
    BY <1>3 DEF Read_Buffered, Closed
  <2>3. Turns /\ picked' \in Slots
    BY <2>2, SlotFacts DEF WriteAll, Goto, Turns, Control
  <2> QED BY <2>1, <2>3, TurnsControl
<1>4. CASE Read_Recv
  <2>1. /\ call' = [op |-> "recv", sd |-> Sock, done |-> FALSE] /\ ~Buffered
        /\ step' = "receiving" /\ Stays /\ UNCHANGED clients
    BY <1>4 DEF Read_Recv, Out, Command, Step, Goto, Stays, Table
  <2>2. "recv" \in Ops
    BY DEF Ops
  <2> QED BY <1>1, <1>2, <2>1, <2>2, StaysWaiting
<1>5. CASE Read_Received
  <2>1. /\ call' = NoCall /\ Stays /\ step' \in {"close", "read"}
        /\ \/ SetClient([clients[Cur] EXCEPT !.buf = <<>>])
           \/ SetClient([clients[Cur] EXCEPT !.buf = Answer.data, !.idx = 0])
    BY <1>5 DEF Read_Received, Answered, Step, Goto, Stays, Table
  <2>2. \/ clients'[Cur] = [clients[Cur] EXCEPT !.buf = <<>>]
        \/ clients'[Cur] = [clients[Cur] EXCEPT !.buf = Answer.data, !.idx = 0]
    BY <1>1, <2>1, SetClientSets
  <2>3. clients'[Cur].sock = Sock
    BY <1>2, <2>2 DEF Client
  <2>4. clients'[Cur].sock # NoSd
    BY <1>2, <2>3, NumbersAre
  <2> QED BY <1>1, <2>1, <2>4, StaysIdle
<1>6. CASE Close
  <2>1. /\ call' = [op |-> "closesocket", sd |-> Sock, done |-> FALSE]
        /\ step' = "dropping" /\ Stays /\ UNCHANGED clients
    BY <1>6 DEF Close, Out, Command, Step, Goto, Stays, Table
  <2>2. "closesocket" \in Ops
    BY DEF Ops
  <2> QED BY <1>1, <1>2, <2>1, <2>2, StaysWaiting
<1> QED BY <1>3, <1>4, <1>5, <1>6

LEMMA WriteControl ==
    ASSUME Control, Waits, clients \in [Slots -> Client],
           Write_Refused \/ Write_Send \/ Write_Sent
    PROVE  Control' /\ Waits'
<1>1. step \in {"send", "sending"} /\ phase # "begin"
  BY DEF Write_Refused, Write_Send, Write_Sent, Control
<1>2. Sock \in Sd
  BY <1>1, SockIsNumber DEF WithSocket
<1>3. CASE Write_Send
  <2>1. /\ call' = [op |-> "send", sd |-> Sock, done |-> FALSE]
        /\ step' = "sending" /\ Stays /\ UNCHANGED clients
    BY <1>3 DEF Write_Send, Out, Command, Step, Goto, Stays, Table
  <2>2. "send" \in Ops
    BY DEF Ops
  <2> QED BY <1>1, <1>2, <2>1, <2>2, StaysWaiting
<1>4. CASE Write_Refused \/ Write_Sent
  <2>1. call' = NoCall
    BY <1>4 DEF Write_Refused, Write_Sent, In, Answered, Waits, Idle
  <2>2. NextClient /\ UNCHANGED picked
    BY <1>4 DEF Write_Refused, Write_Sent
  <2>3. Turns /\ picked' \in Slots
    BY <1>1, <2>2, NextClientTurns DEF Control
  <2> QED BY <2>1, <2>3, TurnsControl
<1> QED BY <1>3, <1>4

\* A step of the environment moves nothing of the program, and changes of
\* the command at most whether it is answered.
LEMMA EnvironmentControl ==
    ASSUME Control, Waits, UNCHANGED progVars,
           call' = call \/ (call # NoCall /\ call' = [call EXCEPT !.done = TRUE])
    PROVE  Control' /\ Waits'
<1>1. /\ UNCHANGED <<clients, listenSocket, soc, phase, i, step, picked>>
      /\ Sock' = Sock /\ Buffered' = Buffered
  BY DEF progVars, Sock, Buffered, Cur
<1>2. call \in Calls
  BY DEF Waits
<1>3. /\ call' \in Calls /\ call'.op = call.op /\ call'.sd = call.sd
      /\ call = NoCall => call' = NoCall
  BY <1>2 DEF Calls
<1>4. Control'
  BY <1>1 DEF Control
<1>5. Waits'
  BY <1>1, <1>3 DEF Waits
<1> QED BY <1>4, <1>5

-----------------------------------------------------------------------------
(* The sockets that are lost.                                              *)

\* Nobody holds n, and no answer on its way brings it.
Unheld(n) ==
    /\ \A c \in Slots : clients[c].sock # n
    /\ n # listenSocket
    /\ phase = "begin" => n # soc
    /\ call.op \in {"socket", "accept"} =>
          \A k \in 1 .. Len(toHost) : IsAnswer(toHost[k]) => toHost[k].val # n

LEMMA InLostSoon ==
    Answers => \A n : n \in LostSoon <=> /\ n \in Sd /\ rsock[n].st # "free"
                                         /\ Unheld(n) \/ Refused(n)
<1> SUFFICES ASSUME Answers, NEW n
             PROVE  n \in LostSoon <=> /\ n \in Sd /\ rsock[n].st # "free"
                                       /\ Unheld(n) \/ Refused(n)
  OBVIOUS
<1>1. DOMAIN toHost = 1 .. Len(toHost)
  BY LenProperties DEF Answers
<1>2. n \in Sd => (n \notin Known <=> Unheld(n))
  BY <1>1, NumbersAre DEF Known, Unheld, IsAnswer
<1> QED BY <1>2 DEF LostSoon, Lost

LEMMA LostSoonIsFinite == LostSoon \subseteq Sd /\ IsFiniteSet(LostSoon)
<1>1. LostSoon \subseteq Sd
  BY DEF LostSoon, Lost
<1>2. IsFiniteSet(0 .. 7)
  <2>1. \A a, b \in Int : IsFiniteSet(a .. b)
    BY FS_Interval
  <2>2. 0 \in Int /\ 7 \in Int
    OBVIOUS
  <2> QED BY <2>1, <2>2, Zenon
<1>3. LostSoon \subseteq 0 .. 7
  BY <1>1, NumbersAre
<1> QED BY <1>1, <1>2, <1>3, FS_Subset

LEMMA LostSoonShrinks ==
    ASSUME Cardinality(LostSoon) <= faults, faults \in Nat, faults' \in {faults, faults + 1},
           LostSoon' \subseteq LostSoon
    PROVE  Cardinality(LostSoon') <= faults'
<1>1. IsFiniteSet(LostSoon)
  BY LostSoonIsFinite
<1>2. /\ Cardinality(LostSoon') <= Cardinality(LostSoon)
      /\ IsFiniteSet(LostSoon')
  BY <1>1, FS_Subset
<1>3. Cardinality(LostSoon) \in Nat /\ Cardinality(LostSoon') \in Nat
  BY <1>1, <1>2, FS_CardinalityType
<1> QED BY <1>2, <1>3

LEMMA LostSoonGrows ==
    ASSUME Cardinality(LostSoon) <= faults, faults \in Nat, faults' = faults + 1,
           NEW n, LostSoon' \subseteq LostSoon \cup {n}
    PROVE  Cardinality(LostSoon') <= faults'
<1>1. IsFiniteSet(LostSoon)
  BY LostSoonIsFinite
<1>2. PICK S : S = LostSoon \cup {n}
  OBVIOUS
<1>3. /\ IsFiniteSet(S)
      /\ Cardinality(S) = Cardinality(LostSoon) \/ Cardinality(S) = Cardinality(LostSoon) + 1
  BY <1>1, <1>2, FS_AddElement
<1>4. /\ Cardinality(LostSoon') <= Cardinality(S)
      /\ IsFiniteSet(LostSoon')
  BY <1>2, <1>3, FS_Subset
<1>5. Cardinality(LostSoon) \in Nat /\ Cardinality(LostSoon') \in Nat /\ Cardinality(S) \in Nat
  BY <1>1, <1>3, <1>4, FS_CardinalityType
<1> QED BY <1>3, <1>4, <1>5

-----------------------------------------------------------------------------
(* The steps of the program that leave the table and the connections.      *)

DataKept == UNCHANGED <<rsock, pending, nconn, nbytes, ended, closed_sockets,
                        clients, listenSocket, soc, handed, stale>>
Begun == phase' = "begin" <=> phase = "begin"

LEMMA NobodyAnswers ==
    ASSUME Answers, ~call.done
    PROVE  \A k \in 1 .. Len(toHost) : ~IsAnswer(toHost[k])
BY DEF Answers

\* No command is out, and one may be sent.
LEMMA QuietKeeps ==
    ASSUME ServerInv, DataKept, Begun, ~call.done, ~call'.done, UNCHANGED <<toHost, faults>>,
           inactive' \subseteq 0 .. 7, txError' \in BOOLEAN
    PROVE  Sockets' /\ Holders' /\ Answers' /\ Events' /\ Flags' /\ Bytes' /\ Counts'
<1>1. \A k \in 1 .. Len(toHost) : ~IsAnswer(toHost[k])
  BY NobodyAnswers DEF ServerInv
<1>2. Sockets'
  BY DEF ServerInv, Sockets, DataKept, IsOpen
<1>3. Holders'
  BY DEF ServerInv, Holders, DataKept, Begun, IsOpen, Closing, OneOwner
<1>4. Answers'
  BY <1>1 DEF ServerInv, Answers
<1>5. Events'
  BY DEF ServerInv, Events, DataKept, Closing
<1>6. Flags'
  BY DEF ServerInv, Flags, DataKept, Closing
<1>7. Bytes'
  BY DEF ServerInv, Bytes, DataKept, IsOpen, BytesOf, Left, Receiving
<1>8. LostSoon' \subseteq LostSoon
  <2>1. (Answers => \A n : n \in LostSoon <=> /\ n \in Sd /\ rsock[n].st # "free"
                                              /\ Unheld(n) \/ Refused(n))'
    BY InLostSoon, PTL
  <2>2. ASSUME NEW n \in LostSoon' PROVE n \in LostSoon
    <3>1. n \in Sd /\ rsock[n].st # "free" /\ (Unheld(n) \/ Refused(n))'
      BY <1>4, <2>1, <2>2 DEF DataKept
    <3>2. ~Refused(n)'
      BY <1>1 DEF Refused
    <3>3. Unheld(n)
      BY <1>1, <3>1, <3>2 DEF Unheld, DataKept, Begun
    <3> QED BY <3>1, <3>3, InLostSoon DEF ServerInv
  <2> QED BY <2>2
<1>9. Counts'
  BY <1>8, LostSoonShrinks DEF ServerInv, Counts, DataKept
<1> QED BY <1>2, <1>3, <1>4, <1>5, <1>6, <1>7, <1>9

\* An answer is taken: none is on its way any more, and every event that is
\* left is about the connection its socket has.
LEMMA AnswerEvents ==
    ASSUME ServerInv, NEW op, Answered(op), UNCHANGED <<rsock, pending, nconn, nbytes>>
    PROVE  /\ Sockets' /\ Answers' /\ Events'
           /\ \A k \in 1 .. Len(toHost') : ~IsAnswer(toHost'[k]) /\ rsock[toHost'[k].val].fin
           /\ call' = NoCall /\ ~call'.done /\ call'.op = "none"
<1>1. /\ 1 \in 1 .. Len(toHost) /\ IsAnswer(toHost[1])
      /\ toHost' \in Seq(Message)
      /\ \A k \in 1 .. Len(toHost') :
            k + 1 \in 1 .. Len(toHost) /\ toHost'[k] = toHost[k + 1] /\ ~IsAnswer(toHost'[k])
  BY AnswerTaken DEF ServerInv
<1>2. call' = NoCall /\ ~call'.done /\ call'.op = "none"
  BY DEF Answered, NoCall
<1>3. Sockets'
  BY DEF ServerInv, Sockets, IsOpen
<1>4. Answers'
  BY <1>1 DEF Answers
<1>5. ASSUME NEW k \in 1 .. Len(toHost')
      PROVE  toHost'[k].val \in Sd /\ rsock[toHost'[k].val].fin
  <2>1. PICK j \in 1 .. Len(toHost) : j = k + 1 /\ toHost'[k] = toHost[j] /\ ~IsAnswer(toHost[j])
    BY <1>1
  <2>2. ~(j < 1) /\ Len(toHost') \in Nat
    BY <2>1, <1>1, LenProperties
  <2>3. toHost[j].val \in Sd /\ rsock[toHost[j].val].fin
    BY <1>1, <2>1, <2>2 DEF ServerInv, Events
  <2> QED BY <2>1, <2>3
<1>6. Events'
  BY <1>5 DEF Events
<1> QED BY <1>1, <1>2, <1>3, <1>4, <1>5, <1>6

\* The answer to a command that only asks, or has brought nothing.
LEMMA AnswerKeeps ==
    ASSUME ServerInv, DataKept, Begun, NEW op, Answered(op), op \notin {"closesocket", "recv"},
           op \in {"socket", "accept"} => Answer.val \notin Sd,
           phase = "begin" => phase' = "begin",
           faults' \in {faults, faults + 1}, faults' <= MaxFaults,
           inactive' \subseteq 0 .. 7, txError' \in BOOLEAN
    PROVE  Sockets' /\ Holders' /\ Answers' /\ Events' /\ Flags' /\ Bytes' /\ Counts'
<1>1. /\ Sockets' /\ Answers' /\ Events'
      /\ \A k \in 1 .. Len(toHost') : ~IsAnswer(toHost'[k])
      /\ call' = NoCall /\ ~call'.done /\ call'.op = "none"
  BY AnswerEvents DEF DataKept
<1>2. call.op = op /\ Answer = toHost[1] /\ IsAnswer(toHost[1]) /\ 1 \in 1 .. Len(toHost)
  BY AnswerTaken DEF ServerInv
<1>3. Holders'
  BY <1>1, <1>2 DEF ServerInv, Holders, DataKept, Begun, IsOpen, Closing, OneOwner
<1>4. Flags'
  BY <1>1, <1>2 DEF ServerInv, Flags, DataKept, Closing
<1>5. Bytes'
  BY <1>1, <1>2 DEF ServerInv, Bytes, DataKept, IsOpen, BytesOf, Left, Receiving
<1>6. LostSoon' \subseteq LostSoon
  <2>1. (Answers => \A n : n \in LostSoon <=> /\ n \in Sd /\ rsock[n].st # "free"
                                              /\ Unheld(n) \/ Refused(n))'
    BY InLostSoon, PTL
  <2>2. ASSUME NEW n \in LostSoon' PROVE n \in LostSoon
    <3>1. n \in Sd /\ rsock[n].st # "free" /\ (Unheld(n) \/ Refused(n))'
      BY <1>1, <2>1, <2>2 DEF DataKept
    <3>2. ~Refused(n)'
      BY <1>1 DEF Refused
    <3>3. op \in {"socket", "accept"} =>
            \A k \in 1 .. Len(toHost) : IsAnswer(toHost[k]) => toHost[k].val # n
      BY <1>2, <3>1 DEF ServerInv, Answers
    <3>4. Unheld(n)
      BY <1>2, <3>1, <3>2, <3>3 DEF Unheld, DataKept, Begun
    <3> QED BY <3>1, <3>4, InLostSoon DEF ServerInv
  <2> QED BY <2>2
<1>7. faults' \in 0 .. MaxFaults /\ ended' \in {0, 1}
  BY SocketAssumption DEF ServerInv, Counts, DataKept, SocketAssumption
<1>8. Counts'
  BY <1>6, <1>7, LostSoonShrinks DEF ServerInv, Counts
<1> QED BY <1>1, <1>3, <1>4, <1>5, <1>8

-----------------------------------------------------------------------------
(* The steps of the program that change the table.                         *)

LEMMA UnusedClient ==
    ASSUME NEW n \in Sd \cup {NoSd}
    PROVE  /\ [Unused EXCEPT !.sock = n] \in Client
           /\ [Unused EXCEPT !.sock = n] = [sock |-> n, buf |-> <<>>, idx |-> 0]
<1>1. [Unused EXCEPT !.sock = n] = [sock |-> n, buf |-> <<>>, idx |-> 0]
  BY DEF Unused
<1>2. <<>> \in Seq(Connections \X Nat)
  BY EmptySeq
<1>3. 0 \in 0 .. BufSize
  BY SocketAssumption DEF SocketAssumption
<1> QED BY <1>1, <1>2, <1>3 DEF Client

\* A client whose closesocket is answered gives its socket up, and with it
\* the flag, or the memory of the flag (stale).
LEMMA GivenUp ==
    ASSUME ServerInv, phase # "begin", phase' # "begin", Answered("closesocket"),
           call.sd = Sock, Sock \in Sd, SetClient([clients[Cur] EXCEPT !.sock = NoSd]),
           UNCHANGED <<rsock, pending, nconn, nbytes, ended, faults, listenSocket, soc,
                       handed, txError>>,
           inactive' = StatusAfterClose(Sock),
           \/ /\ closed_sockets' = [closed_sockets EXCEPT ![Sock] = FALSE]
              /\ stale' = stale \ {Sock}
           \/ UNCHANGED closed_sockets /\ stale' = stale \cup {Sock}
    PROVE  Sockets' /\ Holders' /\ Answers' /\ Events' /\ Flags' /\ Bytes' /\ Counts'
<1>1. /\ Sockets' /\ Answers' /\ Events'
      /\ \A k \in 1 .. Len(toHost') : ~IsAnswer(toHost'[k])
      /\ call' = NoCall /\ ~call'.done /\ call'.op = "none"
  BY AnswerEvents
<1>2. /\ call.op = "closesocket" /\ Fits(toHost[1]) /\ IsAnswer(toHost[1])
      /\ 1 \in 1 .. Len(toHost)
  BY AnswerTaken DEF ServerInv
<1>3. clients[Cur] \in Client /\ clients[Cur].sock = Sock
  BY SockIsNumber DEF ServerInv, Holders
<1>4. PICK cl \in Client : /\ cl = [clients[Cur] EXCEPT !.sock = NoSd]
                           /\ cl.sock = NoSd /\ cl.buf = clients[Cur].buf
  BY <1>3 DEF Client
<1>5. /\ Cur \in Slots /\ clients'[Cur] = cl /\ clients' \in [Slots -> Client]
      /\ \A c \in Slots \ {Cur} : clients'[c] = clients[c]
  BY <1>4, SetClientSets DEF ServerInv, Holders
<1>6. \A c \in Slots : clients'[c].sock # NoSd =>
        c # Cur /\ clients'[c] = clients[c] /\ clients[c].sock # Sock
  <2>1. \A c \in Slots \ {Cur} : clients[c].sock # Sock
    BY <1>3, <1>5, NumbersAre DEF ServerInv, Holders, OneOwner
  <2> QED BY <1>4, <1>5, <2>1
<1>7. Holders'
  <2>1. \A c \in Slots : clients'[c].sock # NoSd => IsOpen(clients[c].sock)'
    BY <1>2, <1>6 DEF ServerInv, Holders, Closing, IsOpen
  <2>2. OneOwner'
    BY <1>6 DEF ServerInv, Holders, OneOwner
  <2>3. \A c \in Slots : Len(clients'[c].buf) <= BufSize
    BY <1>4, <1>5 DEF ServerInv, Holders
  <2>4. listenSocket # NoSd => rsock[listenSocket].st = "listening"
    BY DEF ServerInv, Holders
  <2> QED BY <1>5, <2>1, <2>2, <2>3, <2>4 DEF ServerInv, Holders
<1>8. Flags'
  BY <1>1, <1>2 DEF ServerInv, Flags, Closing
<1>9. Bytes'
  <2>1. ASSUME NEW c \in Slots, IsOpen(clients[c].sock)'
        PROVE  BytesOf(clients[c])' /\ clients'[c] = clients[c]
    <3>1. clients'[c].sock # NoSd
      BY <2>1, NumbersAre DEF IsOpen
    <3>2. clients'[c] = clients[c] /\ IsOpen(clients[c].sock)
      BY <1>6, <2>1, <3>1 DEF IsOpen
    <3> QED BY <1>1, <1>2, <3>2 DEF ServerInv, Bytes, BytesOf, Left, Receiving
  <2> QED BY <1>5, <2>1 DEF ServerInv, Bytes, BytesOf, Left, Receiving
<1>10. LostSoon' \subseteq LostSoon
  <2>1. (Answers => \A n : n \in LostSoon <=> /\ n \in Sd /\ rsock[n].st # "free"
                                              /\ Unheld(n) \/ Refused(n))'
    BY InLostSoon, PTL
  <2>2. ASSUME NEW n \in LostSoon' PROVE n \in LostSoon
    <3>1. n \in Sd /\ rsock[n].st # "free" /\ (Unheld(n) \/ Refused(n))'
      BY <1>1, <2>1, <2>2
    <3>2. ~Refused(n)'
      BY <1>1 DEF Refused
    <3>3. CASE n = Sock
      <4>1. toHost[1].val = -1
        BY <1>2, <3>1, <3>3 DEF Fits
      <4>2. Refused(n)
        BY <1>2, <3>3, <4>1 DEF Refused
      <4> QED BY <3>1, <4>2, InLostSoon DEF ServerInv
    <3>4. CASE n # Sock
      <4>1. \A c \in Slots : clients[c].sock # n
        BY <1>3, <1>5, <3>1, <3>2, <3>4 DEF Unheld
      <4>2. Unheld(n)
        BY <1>2, <3>1, <3>2, <4>1 DEF Unheld
      <4> QED BY <3>1, <4>2, InLostSoon DEF ServerInv
    <3> QED BY <3>3, <3>4
  <2> QED BY <2>2
<1>11. inactive' \subseteq 0 .. 7
  BY NumbersAre DEF StatusAfterClose, ServerInv, Counts
<1>12. faults \in Nat
  BY SocketAssumption DEF ServerInv, Counts, SocketAssumption
<1>13. Cardinality(LostSoon') <= faults'
  BY <1>10, <1>12, LostSoonShrinks DEF ServerInv, Counts
<1>14. Counts'
  BY <1>11, <1>13 DEF ServerInv, Counts
<1> QED BY <1>1, <1>7, <1>8, <1>9, <1>14

\* A client gets the socket the radio has accepted for it.
LEMMA AcceptKeeps ==
    ASSUME ServerInv, Accept
    PROVE  Sockets' /\ Holders' /\ Answers' /\ Events' /\ Flags' /\ Bytes' /\ Counts'
<1>0. step = "accepting" /\ phase # "begin" /\ Control
  BY DEF Accept, ServerInv, Control
<1>1. /\ Answered("accept") /\ NextClient
      /\ UNCHANGED <<rsock, pending, nconn, nbytes, ended, faults, listenSocket, soc,
                     handed, stale, txError, closed_sockets>>
  BY DEF Accept, In, Radio, Table, hist
<1>2. phase' # "begin"
  BY <1>0, <1>1, NextClientTurns DEF Turns
<1>3. inactive' \subseteq 0 .. 7
  BY DEF Accept, StatusAfterAccept, ServerInv, Counts
<1>4. /\ call.op = "accept" /\ Fits(toHost[1]) /\ IsAnswer(toHost[1])
      /\ 1 \in 1 .. Len(toHost) /\ Answer = toHost[1]
  BY <1>1, AnswerTaken DEF ServerInv
<1>5. txError' \in BOOLEAN /\ faults' = faults /\ faults <= MaxFaults /\ faults \in Nat
  BY <1>1, SocketAssumption DEF ServerInv, Counts, SocketAssumption
<1>6. CASE ~(Answer.val > -1)
  <2>1. UNCHANGED clients
    BY <1>6 DEF Accept
  <2>2. Answer.val \notin Sd
    <3>1. Answer.val \in Int
      BY <1>1, AnswerTaken DEF ServerInv, Message
    <3> QED BY <1>6, <3>1, NumbersAre
  <2>3. DataKept /\ Begun
    BY <1>0, <1>1, <1>2, <2>1 DEF DataKept, Begun
  <2> QED BY <1>0, <1>1, <1>3, <1>5, <2>2, <2>3, AnswerKeeps
<1>7. CASE Answer.val > -1
  <2>1. PICK m : m = Answer.val
    OBVIOUS
  <2>2. /\ IsOpen(m) /\ rsock[m].taken = 0 /\ handed[rsock[m].conn] = 0
        /\ m # listenSocket /\ \A c \in Slots : clients[c].sock # m
    BY <1>4, <1>7, <2>1 DEF Fits, SOC_IN_PROGRESS
  <2>3. m \in Sd /\ m # NoSd
    BY <2>2, NumbersAre DEF IsOpen
  <2>4. PICK cl \in Client : cl = [sock |-> m, buf |-> <<>>, idx |-> 0] /\ SetClient(cl)
    BY <1>7, <2>1, <2>3, UnusedClient DEF Accept
  <2>5. cl.sock = m /\ cl.buf = <<>> /\ cl.idx = 0 /\ Len(cl.buf) = 0
    BY <2>4
  <2>6. /\ Cur \in Slots /\ clients'[Cur] = cl /\ clients' \in [Slots -> Client]
        /\ \A c \in Slots \ {Cur} : clients'[c] = clients[c]
    BY <1>0, <2>4, SetClientSets DEF ServerInv, Holders
  <2>7. /\ Sockets' /\ Answers' /\ Events'
        /\ \A k \in 1 .. Len(toHost') : ~IsAnswer(toHost'[k])
        /\ call' = NoCall /\ ~call'.done /\ call'.op = "none"
    BY <1>1, AnswerEvents
  <2>8. Holders'
    <3>1. \A c \in Slots : clients'[c].sock # NoSd => IsOpen(clients[c].sock)'
      BY <1>1, <1>4, <2>2, <2>5, <2>6 DEF ServerInv, Holders, Closing, IsOpen
    <3>2. OneOwner'
      BY <1>1, <2>2, <2>5, <2>6 DEF ServerInv, Holders, OneOwner
    <3>3. \A c \in Slots : Len(clients'[c].buf) <= BufSize
      BY <2>5, <2>6, SocketAssumption DEF ServerInv, Holders, SocketAssumption
    <3>4. listenSocket # NoSd => rsock[listenSocket].st = "listening"
      BY DEF ServerInv, Holders
    <3> QED BY <1>1, <1>2, <2>6, <3>1, <3>2, <3>3, <3>4 DEF ServerInv, Holders
  <2>9. Flags'
    BY <1>1, <1>4, <2>7 DEF ServerInv, Flags, Closing
  <2>10. Bytes'
    <3>1. ASSUME NEW c \in Slots, IsOpen(clients[c].sock)'
          PROVE  BytesOf(clients[c])'
      <4>1. CASE c = Cur
        BY <1>1, <2>2, <2>5, <2>6, <4>1 DEF BytesOf, Left
      <4>2. CASE c # Cur
        <5>1. clients'[c] = clients[c] /\ IsOpen(clients[c].sock)
          BY <1>1, <2>6, <3>1, <4>2 DEF IsOpen
        <5> QED BY <1>1, <1>4, <2>7, <5>1 DEF ServerInv, Bytes, BytesOf, Left, Receiving
      <4> QED BY <4>1, <4>2
    <3>2. /\ handed' \in [Connections -> 0 .. MaxBytes]
          /\ \A c \in Connections : c > nconn' - pending' => handed'[c] = 0
      BY <1>1 DEF ServerInv, Bytes
    <3> QED BY <2>7, <3>1, <3>2 DEF Bytes, BytesOf, Left, Receiving
  <2>11. LostSoon' \subseteq LostSoon
    <3>1. (Answers => \A n : n \in LostSoon <=> /\ n \in Sd /\ rsock[n].st # "free"
                                                /\ Unheld(n) \/ Refused(n))'
      BY InLostSoon, PTL
    <3>2. ASSUME NEW n \in LostSoon' PROVE n \in LostSoon
      <4>1. n \in Sd /\ rsock[n].st # "free" /\ (Unheld(n) \/ Refused(n))'
        BY <1>1, <2>7, <3>1, <3>2
      <4>2. ~Refused(n)'
        BY <2>7 DEF Refused
      <4>3. n # m /\ \A c \in Slots \ {Cur} : clients[c].sock # n
        BY <2>5, <2>6, <4>1, <4>2 DEF Unheld
      <4>4. clients[Cur].sock # n
        BY <1>0, <4>1, NumbersAre DEF Control, Sock
      <4>5. \A k \in 1 .. Len(toHost) : IsAnswer(toHost[k]) => toHost[k].val # n
        BY <1>4, <2>1, <4>3 DEF ServerInv, Answers
      <4>6. Unheld(n)
        BY <1>0, <1>1, <4>1, <4>2, <4>3, <4>4, <4>5 DEF Unheld
      <4> QED BY <4>1, <4>6, InLostSoon DEF ServerInv
    <3> QED BY <3>2
  <2>12. Cardinality(LostSoon') <= faults'
    BY <1>5, <2>11, LostSoonShrinks DEF ServerInv, Counts
  <2>13. Counts'
    BY <1>1, <1>3, <2>12 DEF ServerInv, Counts
  <2> QED BY <2>7, <2>8, <2>9, <2>10, <2>13
<1> QED BY <1>6, <1>7

\* recv has filled the buffer of the client, or failed and left it empty.
LEMMA ReceivedKeeps ==
    ASSUME ServerInv, Read_Received
    PROVE  Sockets' /\ Holders' /\ Answers' /\ Events' /\ Flags' /\ Bytes' /\ Counts'
<1>0. step = "receiving" /\ phase # "begin" /\ Control /\ Waits
  BY DEF Read_Received, ServerInv, Control
<1>1. /\ Answered("recv") /\ AfterRecv /\ phase' = phase
      /\ UNCHANGED <<rsock, pending, nconn, nbytes, ended, listenSocket, soc,
                     handed, stale, txError, closed_sockets>>
  BY DEF Read_Received, Table, hist, Step, Goto
<1>2. /\ call.op = "recv" /\ call.done /\ Fits(toHost[1]) /\ IsAnswer(toHost[1])
      /\ 1 \in 1 .. Len(toHost) /\ Answer = toHost[1] /\ Answer \in Message
  BY <1>1, AnswerTaken DEF ServerInv
<1>3. /\ Sockets' /\ Answers' /\ Events'
      /\ \A k \in 1 .. Len(toHost') : ~IsAnswer(toHost'[k])
      /\ call' = NoCall /\ ~call'.done /\ call'.op = "none"
  BY <1>1, AnswerEvents
<1>4. /\ clients[Cur] \in Client /\ clients[Cur].sock = Sock /\ Sock \in Sd
      /\ call.sd = Sock /\ ~Buffered
  BY <1>0, SockIsNumber DEF ServerInv, Holders, Waits, WithSocket, Control
<1>5. PICK m : m = toHost[1]
  OBVIOUS
<1>6. m.data \in Seq(Connections \X Nat) /\ Len(m.data) \in Nat /\ Len(m.data) <= BufSize
  BY <1>2, <1>5, LenProperties DEF Message, Fits
<1>7. PICK cl : /\ SetClient(cl)
                /\ \/ /\ Answer.val = ERROR_SOCKET_INACTIVE
                      /\ cl = [clients[Cur] EXCEPT !.buf = <<>>]
                   \/ cl = [clients[Cur] EXCEPT !.buf = Answer.data, !.idx = 0]
  BY DEF Read_Received
<1>8. /\ cl.sock = Sock /\ cl.buf = m.data /\ cl.idx \in 0 .. BufSize
      /\ cl.idx = 0 \/ Len(m.data) = 0
      /\ cl \in Client
  <2>1. 0 \in 0 .. BufSize
    BY SocketAssumption DEF SocketAssumption
  <2>2. CASE Answer.val = ERROR_SOCKET_INACTIVE /\ cl = [clients[Cur] EXCEPT !.buf = <<>>]
    <3>1. m.data = <<>> /\ Len(m.data) = 0
      BY <1>2, <1>5, <2>2 DEF Fits
    <3> QED BY <1>4, <1>6, <2>2, <3>1 DEF Client
  <2>3. CASE cl = [clients[Cur] EXCEPT !.buf = Answer.data, !.idx = 0]
    BY <1>2, <1>4, <1>5, <1>6, <2>1, <2>3 DEF Client
  <2> QED BY <1>7, <2>2, <2>3
<1>9. /\ Cur \in Slots /\ clients'[Cur] = cl /\ clients' \in [Slots -> Client]
      /\ \A c \in Slots \ {Cur} : clients'[c] = clients[c]
  BY <1>0, <1>7, <1>8, SetClientSets DEF ServerInv, Holders
<1>10. \A c \in Slots : clients'[c].sock = clients[c].sock
  BY <1>4, <1>8, <1>9
<1>11. Holders'
  <2>1. \A c \in Slots : clients'[c].sock # NoSd => IsOpen(clients[c].sock)'
    BY <1>1, <1>2, <1>10 DEF ServerInv, Holders, Closing, IsOpen
  <2>2. OneOwner'
    BY <1>1, <1>10 DEF ServerInv, Holders, OneOwner
  <2>3. \A c \in Slots : Len(clients'[c].buf) <= BufSize
    BY <1>6, <1>8, <1>9 DEF ServerInv, Holders
  <2>4. listenSocket # NoSd => rsock[listenSocket].st = "listening"
    BY DEF ServerInv, Holders
  <2> QED BY <1>1, <1>9, <2>1, <2>2, <2>3, <2>4 DEF ServerInv, Holders
<1>12. Flags'
  BY <1>1, <1>2, <1>3 DEF ServerInv, Flags, Closing
<1>13. Bytes'
  <2>1. ASSUME NEW c \in Slots, IsOpen(clients[c].sock)'
        PROVE  BytesOf(clients[c])'
    <3>1. IsOpen(clients[c].sock)
      BY <1>1, <1>10, <2>1 DEF IsOpen
    <3>2. CASE c = Cur
      <4>1. PICK k : k = rsock[Sock].conn
        OBVIOUS
      <4>2. /\ \A j \in 1 .. Len(m.data) : m.data[j] = <<k, handed[k] + j>>
            /\ handed[k] + Len(m.data) = rsock[Sock].taken
        BY <1>2, <1>4, <1>5, <4>1 DEF Fits
      <4>3. \A j \in 1 .. Len(m.data) : j - cl.idx = j
        BY <1>6, <1>8
      <4>4. \A j \in 1 .. Len(m.data) : m.data[j] = <<k, handed[k] + (j - cl.idx)>>
        BY <4>2, <4>3
      <4>5. Left(cl) = Len(m.data)
        BY <1>6, <1>8 DEF Left
      <4> QED BY <1>1, <1>8, <1>9, <3>2, <4>1, <4>2, <4>4, <4>5 DEF BytesOf, Left
    <3>3. CASE c # Cur
      <4>1. clients'[c] = clients[c]
        BY <1>9, <3>3
      <4>2. clients[c].sock # NoSd
        BY <3>1, NumbersAre DEF IsOpen
      <4>3. clients[c].sock # Sock
        BY <1>4, <1>9, <3>3, <4>2 DEF ServerInv, Holders, OneOwner
      <4>4. BytesOf(clients[c]) /\ ~Receiving(clients[c].sock)
        BY <1>4, <3>1, <4>3 DEF ServerInv, Bytes, Receiving
      <4> QED BY <1>1, <4>1, <4>4 DEF BytesOf, Left
    <3> QED BY <3>2, <3>3
  <2>2. /\ handed' \in [Connections -> 0 .. MaxBytes]
        /\ \A c \in Connections : c > nconn' - pending' => handed'[c] = 0
    BY <1>1 DEF ServerInv, Bytes
  <2> QED BY <2>1, <2>2 DEF Bytes
<1>14. LostSoon' \subseteq LostSoon
  <2>1. (Answers => \A n : n \in LostSoon <=> /\ n \in Sd /\ rsock[n].st # "free"
                                              /\ Unheld(n) \/ Refused(n))'
    BY InLostSoon, PTL
  <2>2. ASSUME NEW n \in LostSoon' PROVE n \in LostSoon
    <3>1. n \in Sd /\ rsock[n].st # "free" /\ (Unheld(n) \/ Refused(n))'
      BY <1>1, <1>3, <2>1, <2>2
    <3>2. ~Refused(n)'
      BY <1>3 DEF Refused
    <3>3. Unheld(n)
      BY <1>1, <1>2, <1>10, <3>1, <3>2 DEF Unheld
    <3> QED BY <3>1, <3>3, InLostSoon DEF ServerInv
  <2> QED BY <2>2
<1>15. /\ faults' \in {faults, faults + 1} /\ faults \in Nat /\ faults' \in 0 .. MaxFaults
       /\ inactive' \subseteq 0 .. 7
  <2>1. faults \in 0 .. MaxFaults /\ inactive \subseteq 0 .. 7
    BY DEF ServerInv, Counts
  <2>2. MaxFaults \in Nat
    BY SocketAssumption DEF SocketAssumption
  <2>3. \/ faults' = faults /\ inactive' = inactive
        \/ faults < MaxFaults /\ faults' = faults + 1 /\ inactive' = inactive \cup {0}
    BY <1>1 DEF AfterRecv
  <2>4. 0 \in 0 .. 7
    OBVIOUS
  <2>5. inactive' \subseteq 0 .. 7
    BY <2>1, <2>3, <2>4, Zenon
  <2> QED BY <2>1, <2>2, <2>3, <2>5
<1>16. Cardinality(LostSoon') <= faults'
  BY <1>14, <1>15, LostSoonShrinks DEF ServerInv, Counts
<1>17. Counts'
  BY <1>1, <1>15, <1>16 DEF ServerInv, Counts
<1> QED BY <1>3, <1>11, <1>12, <1>13, <1>17

\* The byte at the index of an open client is the next of its connection.
LEMMA NextByte ==
    ASSUME ServerInv, step = "read", Buffered
    PROVE  LET cl == clients[Cur]
               k  == rsock[Sock].conn
           IN  /\ Cur \in Slots /\ cl \in Client /\ cl.sock = Sock /\ IsOpen(Sock)
               /\ cl.idx \in Nat /\ Len(cl.buf) \in Nat /\ cl.idx + 1 <= Len(cl.buf)
               /\ k \in Connections /\ handed[k] \in Nat
               /\ cl.buf[cl.idx + 1] = <<k, handed[k] + 1>>
               /\ BytesOf(cl) /\ ~Receiving(Sock)
<1>1. phase # "begin" /\ call = NoCall
  BY DEF ServerInv, Control, Waits, Idle
<1>2. /\ Cur \in Slots /\ clients[Cur] \in Client /\ clients[Cur].sock = Sock
      /\ Sock \in Sd /\ Sock # NoSd
  BY <1>1, SockIsNumber, NumbersAre DEF ServerInv, Holders, WithSocket
<1>3. ~Receiving(Sock) /\ ~Closing(Sock)
  BY <1>1 DEF NoCall, Receiving, Closing
<1>4. IsOpen(Sock)
  BY <1>2, <1>3 DEF ServerInv, Holders
<1>5. BytesOf(clients[Cur])
  BY <1>2, <1>4 DEF ServerInv, Bytes
<1>6. PICK x, L \in Nat : x = clients[Cur].idx /\ L = Len(clients[Cur].buf)
  BY <1>2, LenProperties DEF Client
<1>7. x + 1 \in 1 .. L /\ x + 1 > x /\ (x + 1) - x = 1
  BY <1>6 DEF Buffered
<1>8. PICK j \in 1 .. L : j = x + 1
  BY <1>7
<1>9. PICK k : k = rsock[Sock].conn
  OBVIOUS
<1>10. clients[Cur].buf[j] = <<k, handed[k] + (j - x)>>
  BY <1>2, <1>5, <1>6, <1>7, <1>8, <1>9 DEF BytesOf
<1>11. clients[Cur].buf[x + 1] = <<k, handed[k] + 1>>
  BY <1>7, <1>8, <1>10
<1>12. k \in Connections
  BY <1>2, <1>4, <1>9 DEF ServerInv, Sockets, Record, Connections, IsOpen
<1>13. handed[k] \in Nat
  BY <1>12 DEF ServerInv, Bytes
<1> QED BY <1>2, <1>3, <1>4, <1>5, <1>6, <1>7, <1>9, <1>11, <1>12, <1>13

\* read() hands the next byte of the buffer to the program.
LEMMA HandedKeeps ==
    ASSUME ServerInv, Read_Buffered
    PROVE  Sockets' /\ Holders' /\ Answers' /\ Events' /\ Flags' /\ Bytes' /\ Counts'
<1>0. step = "read" /\ Buffered /\ phase # "begin" /\ Control
  BY DEF Read_Buffered, ServerInv, Control
<1>1. PICK o, k : o = clients[Cur] /\ k = rsock[Sock].conn
  OBVIOUS
<1>2. /\ Cur \in Slots /\ o \in Client /\ o.sock = Sock /\ IsOpen(Sock)
      /\ o.idx \in Nat /\ Len(o.buf) \in Nat /\ o.idx + 1 <= Len(o.buf)
      /\ k \in Connections /\ handed[k] \in Nat
      /\ o.buf[o.idx + 1] = <<k, handed[k] + 1>>
      /\ BytesOf(o) /\ ~Receiving(Sock)
  BY <1>0, <1>1, NextByte
<1>3. /\ SetClient([o EXCEPT !.idx = @ + 1])
      /\ handed' = [handed EXCEPT ![k] = @ + 1]
      /\ phase' = "write"
      /\ UNCHANGED <<apiVars, listenSocket, soc, stale>>
  BY <1>1, <1>2 DEF Read_Buffered, Table, WriteAll, Goto
<1>4. UNCHANGED <<rsock, pending, nconn, nbytes, ended, faults, toHost, call,
                  closed_sockets, inactive, txError>>
  BY <1>3 DEF apiVars
<1>5. call = NoCall /\ ~call.done
  BY <1>0 DEF ServerInv, Waits, Idle, NoCall
<1>6. \A j \in 1 .. Len(toHost) : ~IsAnswer(toHost[j])
  BY <1>5, NobodyAnswers DEF ServerInv
<1>7. PICK cl \in Client : /\ cl = [o EXCEPT !.idx = @ + 1]
                           /\ cl.sock = Sock /\ cl.buf = o.buf /\ cl.idx = o.idx + 1
  <2>1. PICK y : y = o.idx + 1
    OBVIOUS
  <2>2. y \in 0 .. BufSize
    <3>1. Len(o.buf) <= BufSize
      BY <1>1, <1>2 DEF ServerInv, Holders
    <3> QED BY <1>2, <2>1, <3>1, SocketAssumption DEF SocketAssumption
  <2>3. [o EXCEPT !.idx = y] \in Client
    BY <1>2, <2>2 DEF Client
  <2>4. [o EXCEPT !.idx = @ + 1] = [o EXCEPT !.idx = y]
    BY <1>2, <2>1 DEF Client
  <2>5. /\ [o EXCEPT !.idx = y].sock = Sock /\ [o EXCEPT !.idx = y].buf = o.buf
        /\ [o EXCEPT !.idx = y].idx = y
    BY <1>2 DEF Client
  <2> QED BY <2>1, <2>3, <2>4, <2>5
<1>8. /\ clients'[Cur] = cl /\ clients' \in [Slots -> Client]
      /\ \A c \in Slots \ {Cur} : clients'[c] = clients[c]
  BY <1>0, <1>3, <1>7, SetClientSets DEF ServerInv, Holders
<1>9. \A c \in Slots : clients'[c].sock = clients[c].sock /\ clients'[c].buf = clients[c].buf
  BY <1>1, <1>2, <1>7, <1>8
<1>10. Sockets'
  BY <1>4 DEF ServerInv, Sockets, IsOpen
<1>11. Holders'
  <2>1. \A c \in Slots : clients'[c].sock # NoSd => IsOpen(clients[c].sock)'
    BY <1>4, <1>5, <1>9 DEF ServerInv, Holders, Closing, IsOpen
  <2>2. OneOwner'
    BY <1>3, <1>9 DEF ServerInv, Holders, OneOwner
  <2>3. \A c \in Slots : Len(clients'[c].buf) <= BufSize
    BY <1>9 DEF ServerInv, Holders
  <2>4. listenSocket # NoSd => rsock[listenSocket].st = "listening"
    BY DEF ServerInv, Holders
  <2> QED BY <1>3, <1>4, <1>8, <2>1, <2>2, <2>3, <2>4 DEF ServerInv, Holders
<1>12. Answers'
  BY <1>4, <1>6 DEF ServerInv, Answers
<1>13. Events'
  BY <1>4 DEF ServerInv, Events, Closing
<1>14. Flags'
  BY <1>3, <1>4 DEF ServerInv, Flags, Closing
<1>15. Bytes'
  <2>1. handed[k] + Left(o) = rsock[Sock].taken
    BY <1>1, <1>2 DEF BytesOf
  <2>2. Left(o) = Len(o.buf) - o.idx
    BY <1>2 DEF Left
  <2>3. /\ rsock[Sock].taken \in Nat /\ rsock[Sock].taken <= rsock[Sock].sent
        /\ rsock[Sock].sent <= nbytes /\ nbytes <= MaxBytes
        /\ rsock[Sock].sent \in Nat /\ nbytes \in Nat
    BY <1>2 DEF ServerInv, Sockets, IsOpen, Record
  <2>4. handed[k] + 1 \in 0 .. MaxBytes
    <3>1. PICK h, x, L, t, b \in Nat : /\ h = handed[k] /\ x = o.idx /\ L = Len(o.buf)
                                      /\ t = rsock[Sock].taken /\ b = rsock[Sock].sent
      BY <1>2, <2>3
    <3>2. h + (L - x) = t /\ x + 1 <= L /\ t <= b
      BY <1>2, <2>1, <2>2, <2>3, <3>1
    <3>3. PICK M, B \in Nat : M = MaxBytes /\ B = nbytes
      BY <2>3, SocketAssumption DEF SocketAssumption
    <3>4. b <= B /\ B <= M
      BY <2>3, <3>1, <3>3
    <3>5. h + 1 <= M
      BY <3>2, <3>4
    <3>6. h + 1 \in 0 .. M
      BY <3>5
    <3> QED BY <3>1, <3>3, <3>6
  <2>5. handed' \in [Connections -> 0 .. MaxBytes]
    BY <1>3, <2>4 DEF ServerInv, Bytes
  <2>6. k <= nconn - pending
    BY <1>1, <1>2 DEF ServerInv, Sockets, IsOpen
  <2>7. \A c \in Connections : handed'[c] = IF c = k THEN handed[k] + 1 ELSE handed[c]
    BY <1>3 DEF ServerInv, Bytes
  <2>8. \A c \in Connections : c > nconn - pending => handed'[c] = 0
    <3>1. k \in Int /\ nconn \in Int /\ pending \in Int
      BY <1>2 DEF Connections, ServerInv, Sockets
    <3>2. ~(k > nconn - pending)
      BY <2>6, <3>1
    <3> QED BY <2>7, <3>2 DEF ServerInv, Bytes
  <2>9. ASSUME NEW c \in Slots, IsOpen(clients[c].sock)'
        PROVE  BytesOf(clients[c])'
    <3>1. IsOpen(clients[c].sock)
      BY <1>4, <1>9, <2>9 DEF IsOpen
    <3>2. CASE c = Cur
      <4>1. PICK x, L \in Nat : x = o.idx /\ L = Len(o.buf) /\ x + 1 <= L
        BY <1>2
      <4>2. PICK h \in Nat : h = handed[k] /\ handed'[k] = h + 1
        BY <1>2, <2>7
      <4>3. ASSUME NEW j \in 1 .. L, j > x + 1
            PROVE  o.buf[j] = <<k, (h + 1) + (j - (x + 1))>>
        <5>1. j > x /\ (h + 1) + (j - (x + 1)) = h + (j - x)
          BY <4>3
        <5> QED BY <1>1, <1>2, <4>1, <4>2, <5>1 DEF BytesOf
      <4>4. (IF x + 1 < L THEN L - (x + 1) ELSE 0) = L - (x + 1)
        BY <4>1
      <4>5. (h + 1) + (L - (x + 1)) = rsock[Sock].taken
        <5>1. h + (L - x) = rsock[Sock].taken
          BY <2>1, <2>2, <4>1, <4>2
        <5>2. (h + 1) + (L - (x + 1)) = h + (L - x)
          OBVIOUS
        <5> QED BY <5>1, <5>2
      <4>6. rsock'[clients'[c].sock].conn = k /\ clients'[c] = cl
        BY <1>1, <1>4, <1>7, <1>8, <3>2
      <4> QED BY <1>4, <1>7, <4>1, <4>2, <4>3, <4>4, <4>5, <4>6 DEF BytesOf, Left
    <3>3. CASE c # Cur
      <4>1. clients'[c] = clients[c]
        BY <1>8, <3>3
      <4>2. clients[c].sock # NoSd
        BY <3>1, NumbersAre DEF IsOpen
      <4>3. clients[c].sock # Sock
        BY <1>1, <1>2, <3>3, <4>2 DEF ServerInv, Holders, OneOwner
      <4>4. rsock[clients[c].sock].conn # k
        BY <1>1, <1>2, <3>1, <4>3 DEF ServerInv, Sockets, IsOpen
      <4>5. rsock[clients[c].sock].conn \in Connections
        BY <3>1 DEF ServerInv, Sockets, Record, Connections, IsOpen
      <4>6. BytesOf(clients[c]) /\ ~Receiving(clients[c].sock)
        BY <1>5, <3>1 DEF ServerInv, Bytes, Receiving, NoCall
      <4> QED BY <1>4, <2>7, <4>1, <4>4, <4>5, <4>6 DEF BytesOf, Left
    <3> QED BY <3>2, <3>3
  <2> QED BY <1>4, <2>5, <2>8, <2>9 DEF Bytes
<1>16. LostSoon' \subseteq LostSoon
  <2>1. (Answers => \A n : n \in LostSoon <=> /\ n \in Sd /\ rsock[n].st # "free"
                                              /\ Unheld(n) \/ Refused(n))'
    BY InLostSoon, PTL
  <2>2. ASSUME NEW n \in LostSoon' PROVE n \in LostSoon
    <3>1. n \in Sd /\ rsock[n].st # "free" /\ (Unheld(n) \/ Refused(n))'
      BY <1>4, <1>12, <2>1, <2>2
    <3>2. ~Refused(n)'
      BY <1>4, <1>6 DEF Refused
    <3>3. Unheld(n)
      BY <1>0, <1>3, <1>4, <1>9, <3>1, <3>2 DEF Unheld
    <3> QED BY <3>1, <3>3, InLostSoon DEF ServerInv
  <2> QED BY <2>2
<1>17. faults \in Nat
  BY SocketAssumption DEF ServerInv, Counts, SocketAssumption
<1>18. Cardinality(LostSoon') <= faults'
  BY <1>4, <1>16, <1>17, LostSoonShrinks DEF ServerInv, Counts
<1>19. Counts'
  BY <1>4, <1>18 DEF ServerInv, Counts
<1> QED BY <1>10, <1>11, <1>12, <1>13, <1>14, <1>15, <1>19

\* begin opens the socket of the listener, and keeps it if nothing is refused.
LEMMA BeginKeeps ==
    ASSUME ServerInv, BeginAnswered
    PROVE  Sockets' /\ Holders' /\ Answers' /\ Events' /\ Flags' /\ Bytes' /\ Counts'
<1>0. step = "called" /\ phase = "begin" /\ i \in 1 .. 5 /\ Control /\ Waits
  BY DEF BeginAnswered, ServerInv, Control
<1>1. /\ Answered(BeginCalls[i])
      /\ UNCHANGED <<rsock, pending, nconn, nbytes, ended, faults, txError,
                     closed_sockets, clients, handed, stale>>
  BY DEF BeginAnswered, In, Radio, hist
<1>2. PICK r \in Int : r = Answer.val
  BY <1>1, AnswerTaken DEF ServerInv, Message
<1>3. /\ call.op = BeginCalls[i] /\ call.sd = soc /\ Fits(toHost[1]) /\ IsAnswer(toHost[1])
      /\ 1 \in 1 .. Len(toHost) /\ toHost[1].val = r
  BY <1>0, <1>1, <1>2, AnswerTaken DEF ServerInv, Waits
<1>4. /\ Sockets' /\ Answers' /\ Events'
      /\ \A k \in 1 .. Len(toHost') : ~IsAnswer(toHost'[k])
      /\ call' = NoCall /\ ~call'.done /\ call'.op = "none"
  BY <1>1, AnswerEvents
<1>5. BeginCalls[i] \notin {"closesocket", "recv", "accept"}
      /\ BeginCalls[i] \in {"timeouts", "socket", "setsockopt", "bind", "listen"}
  BY <1>0, BeginCallsAre
<1>6. BeginCalls[i] = "socket" =>
        soc = NoSd /\ (r = -1 \/ (r \in Sd /\ rsock[r].st = "fresh"))
  BY <1>0, <1>3, BeginCallsAre DEF Fits, Control
<1>7. BeginCalls[i] = "listen" => (r = -1 \/ rsock[soc].st = "listening")
  BY <1>3 DEF Fits
<1>8. r < 0 => r = -1
  BY <1>3, <1>5, <1>6, NumbersAre DEF Fits
<1>9. /\ IF BeginCalls[i] = "socket" THEN soc' = (IF r < 0 THEN soc ELSE r)
                                     ELSE soc' = soc
      /\ listenSocket' = IF BeginCalls[i] = "listen" /\ r >= 0 THEN soc ELSE listenSocket
      /\ IF r < 0 \/ i = Len(BeginCalls)
         THEN Goto("accept", 1, "connected") ELSE Goto("begin", i + 1, "call")
  BY <1>2 DEF BeginAnswered
<1>10. listenSocket = NoSd /\ soc \in Sd \cup {NoSd}
  BY <1>0 DEF Control, ServerInv, Holders
<1>11. {listenSocket', soc'} \subseteq Sd \cup {NoSd}
  BY <1>6, <1>8, <1>9, <1>10
<1>12. listenSocket' # NoSd => listenSocket' = soc /\ rsock[soc].st = "listening"
  BY <1>7, <1>9, <1>10
<1>13. \A c \in Slots : clients[c].sock # NoSd => IsOpen(clients[c].sock)
  BY <1>3, <1>5 DEF ServerInv, Holders, Closing
<1>14. Holders'
  <2>1. \A c \in Slots : clients'[c].sock # NoSd => IsOpen(clients[c].sock)'
    BY <1>1, <1>13 DEF IsOpen
  <2>2. OneOwner'
    <3>1. \A c \in Slots : clients[c].sock # NoSd => clients[c].sock # listenSocket'
      BY <1>12, <1>13 DEF IsOpen
    <3> QED BY <1>1, <3>1 DEF ServerInv, Holders, OneOwner
  <2>3. soc' # NoSd => rsock[soc'].st \in {"fresh", "listening"}
    BY <1>0, <1>6, <1>8, <1>9 DEF ServerInv, Holders
  <2> QED BY <1>1, <1>11, <1>12, <2>1, <2>2, <2>3 DEF ServerInv, Holders
<1>15. Flags'
  BY <1>1, <1>3, <1>4, <1>5 DEF ServerInv, Flags, Closing
<1>16. Bytes'
  BY <1>1, <1>3, <1>4, <1>5 DEF ServerInv, Bytes, IsOpen, BytesOf, Left, Receiving
<1>17. LostSoon' \subseteq LostSoon
  <2>1. (Answers => \A n : n \in LostSoon <=> /\ n \in Sd /\ rsock[n].st # "free"
                                              /\ Unheld(n) \/ Refused(n))'
    BY InLostSoon, PTL
  <2>2. ASSUME NEW n \in LostSoon' PROVE n \in LostSoon
    <3>1. n \in Sd /\ rsock[n].st # "free" /\ (Unheld(n) \/ Refused(n))' /\ n # NoSd
      BY <1>1, <1>4, <2>1, <2>2, NumbersAre
    <3>2. ~Refused(n)'
      BY <1>4 DEF Refused
    <3>3. \A c \in Slots : clients[c].sock # n
      BY <1>1, <3>1, <3>2 DEF Unheld
    <3>4. CASE r < 0 /\ n = soc
      <4>1. Refused(n)
        BY <1>0, <1>3, <1>8, <3>4 DEF Refused
      <4> QED BY <3>1, <4>1, InLostSoon DEF ServerInv
    <3>5. CASE r < 0 /\ n # soc
      <4>1. r \notin Sd /\ r # n
        BY <1>8, <3>1, <3>5, NumbersAre
      <4>2. \A k \in 1 .. Len(toHost) : IsAnswer(toHost[k]) => toHost[k].val # n
        BY <1>3, <4>1 DEF ServerInv, Answers
      <4>3. Unheld(n)
        BY <1>10, <3>1, <3>3, <3>5, <4>2 DEF Unheld
      <4> QED BY <3>1, <4>3, InLostSoon DEF ServerInv
    <3>6. CASE ~(r < 0) /\ i = 5
      <4>1. listenSocket' = soc /\ call.op = "listen"
        BY <1>3, <1>9, <3>6, BeginCallsAre
      <4>2. n # soc
        BY <3>1, <3>2, <4>1 DEF Unheld
      <4>3. Unheld(n)
        BY <1>10, <3>1, <3>3, <4>1, <4>2 DEF Unheld
      <4> QED BY <3>1, <4>3, InLostSoon DEF ServerInv
    <3>7. CASE ~(r < 0) /\ i # 5
      <4>1. phase' = "begin"
        BY <1>9, <3>7, BeginCallsAre DEF Goto
      <4>2. n # soc'
        BY <3>1, <3>2, <4>1 DEF Unheld
      <4>3. n # soc
        BY <1>6, <1>9, <3>1, <4>2
      <4>4. call.op \in {"socket", "accept"} =>
              \A k \in 1 .. Len(toHost) : IsAnswer(toHost[k]) => toHost[k].val # n
        BY <1>3, <1>5, <1>9, <3>7, <4>2 DEF ServerInv, Answers
      <4>5. Unheld(n)
        BY <1>10, <3>1, <3>3, <4>3, <4>4 DEF Unheld
      <4> QED BY <3>1, <4>5, InLostSoon DEF ServerInv
    <3> QED BY <3>4, <3>5, <3>6, <3>7
  <2> QED BY <2>2
<1>18. inactive' \subseteq 0 .. 7
  BY DEF BeginAnswered, StatusAfterSocket, ServerInv, Counts
<1>19. faults \in Nat
  BY SocketAssumption DEF ServerInv, Counts, SocketAssumption
<1>20. Cardinality(LostSoon') <= faults'
  BY <1>1, <1>17, <1>19, LostSoonShrinks DEF ServerInv, Counts
<1>21. Counts'
  BY <1>1, <1>18, <1>20 DEF ServerInv, Counts
<1> QED BY <1>4, <1>14, <1>15, <1>16, <1>21

-----------------------------------------------------------------------------
(* The steps of the program.                                               *)

\* begin is over once and for all.
LEMMA BeginIsOver ==
    ASSUME Control, Program, phase # "begin"
    PROVE  phase' # "begin"
<1>1. NextClient => phase' # "begin"
  BY NextClientTurns DEF Turns
<1>2. OnConnected => phase' # "begin"
  BY OnConnectedMoves DEF Turns
<1>3. OnDisconnected => phase' # "begin"
  BY OnDisconnectedMoves DEF Turns
<1>4. OnAvailable => phase' # "begin"
  BY OnAvailableMoves DEF Turns
<1>5. \A s : Step(s) => phase' # "begin"
  BY DEF Step, Goto
<1>6. CASE BeginCall \/ BeginAnswered
  BY <1>6 DEF BeginCall, BeginAnswered
<1>7. CASE \/ Connected_NoSocket \/ Connected_Buffered \/ Connected_Select
           \/ Connected_Selected \/ Connected_TestFlag \/ Connected_Closed
  BY <1>7, <1>2, <1>3, <1>5
  DEF Connected_NoSocket, Connected_Buffered, Connected_Select, Connected_Selected,
      Connected_TestFlag, Connected_Closed
<1>8. CASE AcceptCall \/ Accept
  BY <1>8, <1>1, <1>5 DEF AcceptCall, Accept
<1>9. CASE Available_Buffered \/ Available_Select \/ Available_Selected
  BY <1>9, <1>1, <1>4, <1>5 DEF Available_Buffered, Available_Select, Available_Selected
<1>10. CASE Read_Buffered \/ Read_Recv \/ Read_Received \/ Close \/ Closed
  BY <1>10, <1>5 DEF Read_Buffered, Read_Recv, Read_Received, Close, Closed, WriteAll, Goto
<1>11. CASE Write_Refused \/ Write_Send \/ Write_Sent
  BY <1>11, <1>1, <1>5 DEF Write_Refused, Write_Send, Write_Sent
<1> QED BY <1>6, <1>7, <1>8, <1>9, <1>10, <1>11 DEF Program

LEMMA ProgramControl ==
    ASSUME ServerInv, Program
    PROVE  Control' /\ Waits'
<1>1. /\ Control /\ Waits /\ Answers /\ clients \in [Slots -> Client]
      /\ soc \in Sd \cup {NoSd} /\ listenSocket \in Sd \cup {NoSd}
  BY DEF ServerInv, Holders
<1> QED
  BY <1>1, BeginControl, ConnectedControl, AcceptControl, AvailableControl, ReadControl,
     WriteControl DEF Program

\* The steps that only move, or send a command.
Quiet ==
    \/ BeginCall \/ Connected_NoSocket \/ Connected_Buffered \/ Connected_Select
    \/ Connected_TestFlag \/ AcceptCall \/ Available_Buffered \/ Available_Select
    \/ Read_Recv \/ Close \/ Write_Refused \/ Write_Send

LEMMA QuietStep ==
    ASSUME ServerInv, Quiet
    PROVE  Sockets' /\ Holders' /\ Answers' /\ Events' /\ Flags' /\ Bytes' /\ Counts'
<1>1. Control /\ Waits /\ inactive \subseteq 0 .. 7 /\ txError \in BOOLEAN
  BY DEF ServerInv, Counts
<1>2. step \in Idle
  BY DEF Quiet, Idle, BeginCall, Connected_NoSocket, Connected_Buffered, Connected_Select,
         Connected_TestFlag, AcceptCall, Available_Buffered, Available_Select,
         Read_Recv, Close, Write_Refused, Write_Send
<1>3. ~call.done
  BY <1>1, <1>2 DEF Waits, NoCall
<1>4. \A op, n : Out(op, n) =>
        /\ ~call'.done
        /\ UNCHANGED <<rsock, pending, nconn, nbytes, ended, faults, toHost, closed_sockets,
                       inactive, txError>>
  BY DEF Out, Command, Radio
<1>5. UNCHANGED apiVars =>
        UNCHANGED <<rsock, pending, nconn, nbytes, ended, faults, toHost, call, closed_sockets,
                    inactive, txError>>
  BY DEF apiVars
<1>6. /\ DataKept /\ ~call'.done /\ UNCHANGED <<toHost, faults, inactive>>
      /\ txError' = txError \/ txError' = FALSE
  <2>1. CASE Write_Refused
    BY <1>3, <2>1 DEF Write_Refused, Radio, Table, hist, DataKept
  <2>2. CASE Connected_TestFlag
    BY <1>3, <1>4, <1>5, <2>2 DEF Connected_TestFlag, Table, hist, DataKept
  <2>3. CASE Connected_NoSocket \/ Connected_Buffered \/ Available_Buffered
    BY <1>3, <1>5, <2>3 DEF Connected_NoSocket, Connected_Buffered, Available_Buffered, Table,
                            hist, DataKept
  <2>4. CASE \/ BeginCall \/ Connected_Select \/ AcceptCall \/ Available_Select
             \/ Read_Recv \/ Close \/ Write_Send
    BY <1>4, <2>4 DEF BeginCall, Connected_Select, AcceptCall, Available_Select, Read_Recv,
                      Close, Write_Send, Table, hist, DataKept
  <2> QED BY <2>1, <2>2, <2>3, <2>4 DEF Quiet
<1>7. Begun
  <2>1. Program
    BY DEF Quiet, Program
  <2>2. phase # "begin" => phase' # "begin"
    BY <1>1, <2>1, BeginIsOver
  <2>3. phase = "begin" => BeginCall
    BY <1>1 DEF Quiet, Control, Connected_NoSocket, Connected_Buffered, Connected_Select,
         Connected_TestFlag, AcceptCall, Available_Buffered, Available_Select,
         Read_Recv, Close, Write_Refused, Write_Send
  <2> QED BY <2>2, <2>3 DEF Begun, BeginCall, Step, Goto
<1>8. txError' \in BOOLEAN
  BY <1>1, <1>6
<1> QED BY <1>1, <1>3, <1>6, <1>7, <1>8, QuietKeeps

\* The answer of select or send, which only tells where to go.
LEMMA AskedStep ==
    ASSUME ServerInv, Connected_Selected \/ Available_Selected \/ Write_Sent
    PROVE  Sockets' /\ Holders' /\ Answers' /\ Events' /\ Flags' /\ Bytes' /\ Counts'
<1>1. /\ Control /\ inactive \subseteq 0 .. 7 /\ txError \in BOOLEAN
      /\ faults \in 0 .. MaxFaults /\ MaxFaults \in Nat
  BY SocketAssumption DEF ServerInv, Counts, SocketAssumption
<1>2. phase # "begin" /\ phase' # "begin"
  <2>1. Program
    BY DEF Program
  <2>2. phase # "begin"
    BY <1>1 DEF Connected_Selected, Available_Selected, Write_Sent, Control
  <2> QED BY <1>1, <2>1, <2>2, BeginIsOver
<1>3. PICK op \in {"select", "send"} : In(op)
  BY DEF Connected_Selected, Available_Selected, Write_Sent
<1>4. /\ Answered(op) /\ DataKept /\ faults' = faults
  BY <1>3 DEF In, Radio, Connected_Selected, Available_Selected, Write_Sent, Table, hist, DataKept
<1>5. inactive' \subseteq 0 .. 7 /\ txError' \in BOOLEAN
  BY <1>1 DEF Connected_Selected, Available_Selected, Write_Sent
<1>6. op \notin {"closesocket", "recv"} /\ op \notin {"socket", "accept"}
  BY <1>3
<1>7. faults' \in {faults, faults + 1} /\ faults' <= MaxFaults /\ Begun
  BY <1>1, <1>2, <1>4 DEF Begun
<1> QED BY <1>2, <1>4, <1>5, <1>6, <1>7, AnswerKeeps

LEMMA ClosedStep ==
    ASSUME ServerInv, Connected_Closed \/ Closed
    PROVE  Sockets' /\ Holders' /\ Answers' /\ Events' /\ Flags' /\ Bytes' /\ Counts'
<1>1. phase # "begin" /\ phase' # "begin"
  <2>1. Program
    BY DEF Program
  <2>2. Control
    BY DEF ServerInv
  <2>3. phase # "begin"
    BY <2>2 DEF Connected_Closed, Closed, Control
  <2> QED BY <2>1, <2>2, <2>3, BeginIsOver
<1>2. step \in {"closing", "dropping"}
  BY DEF Connected_Closed, Closed
<1>3. Sock \in Sd /\ call.sd = Sock
  BY <1>1, <1>2, SockIsNumber DEF ServerInv, Holders, Waits, WithSocket
<1>4. /\ Answered("closesocket") /\ SetClient([clients[Cur] EXCEPT !.sock = NoSd])
      /\ UNCHANGED <<rsock, pending, nconn, nbytes, ended, faults, listenSocket, soc,
                     handed, txError>>
      /\ inactive' = StatusAfterClose(Sock)
  BY DEF Connected_Closed, Closed, In, Radio, Table
<1>5. \/ /\ closed_sockets' = [closed_sockets EXCEPT ![Sock] = FALSE]
         /\ stale' = stale \ {Sock}
      \/ UNCHANGED closed_sockets /\ stale' = stale \cup {Sock}
  BY DEF Connected_Closed, Closed
<1> QED BY <1>1, <1>3, <1>4, <1>5, GivenUp

LEMMA ProgramKeeps == ServerInv /\ Program => ServerInv'
<1> SUFFICES ASSUME ServerInv, Program PROVE ServerInv'
  OBVIOUS
<1>1. Control' /\ Waits'
  BY ProgramControl
<1>2. Sockets' /\ Holders' /\ Answers' /\ Events' /\ Flags' /\ Bytes' /\ Counts'
  BY QuietStep, AskedStep, ClosedStep, BeginKeeps, AcceptKeeps, HandedKeeps, ReceivedKeeps
  DEF Program, Quiet
<1> QED BY <1>1, <1>2 DEF ServerInv

-----------------------------------------------------------------------------
(* The steps of the radio, the peers and the interrupt handler.            *)

\* Whose command is out.
LEMMA CallOwners ==
    ASSUME ServerInv
    PROVE  /\ call.op \in {"timeouts", "setsockopt", "bind", "socket", "listen"} =>
                phase = "begin" /\ step = "called" /\ i \in 1 .. 5
                /\ call.op = BeginCalls[i] /\ call.sd = soc
           /\ call.op = "accept" => step = "accepting" /\ call.sd = listenSocket
           /\ call.op \in {"select", "recv", "send", "closesocket"} =>
                phase # "begin" /\ Sock \in Sd /\ call.sd = Sock
           /\ call.op = "recv" => ~Buffered
           /\ call.op # "none" \/ call = NoCall
<1>1. Control /\ Waits /\ clients \in [Slots -> Client]
  BY DEF ServerInv, Holders
<1>2. /\ phase = "begin" <=> step \in {"call", "called"}
      /\ phase # "begin" /\ step \in WithSocket => Sock \in Sd
      /\ phase = "begin" => i \in 1 .. 5
      /\ step = "receiving" => ~Buffered
  BY <1>1, SockIsNumber DEF Control
<1>3. CASE step \in Idle
  BY <1>1, <1>3 DEF Waits, NoCall
<1>4. CASE step = "called"
  <2>1. i \in 1 .. 5 /\ call.op = BeginCalls[i] /\ call.sd = soc
    BY <1>1, <1>2, <1>4 DEF Waits
  <2>2. BeginCalls[i] \in {"timeouts", "setsockopt", "bind", "socket", "listen"}
    BY <2>1, BeginCallsAre
  <2> QED BY <1>2, <1>4, <2>1, <2>2
<1>5. CASE step \in {"selected", "polled", "closing", "dropping", "receiving", "sending"}
  <2>1. phase # "begin" /\ Sock \in Sd
    BY <1>2, <1>5 DEF WithSocket
  <2> QED BY <1>1, <1>2, <1>5, <2>1 DEF Waits
<1>6. CASE step = "accepting"
  BY <1>1, <1>6 DEF Waits
<1> QED BY <1>1, <1>3, <1>4, <1>5, <1>6 DEF Control, Steps

\* What a step outside the program leaves alone.
LEMMA ProgKept ==
    ASSUME UNCHANGED progVars
    PROVE  /\ UNCHANGED <<clients, listenSocket, soc, phase, i, step, picked, handed, stale>>
           /\ Sock' = Sock /\ Cur' = Cur
BY DEF progVars, hist, Sock, Cur

\* Another message is on its way, behind the others.
LEMMA Appended ==
    ASSUME Answers, NEW m \in Message, toHost' = Append(toHost, m)
    PROVE  /\ toHost' \in Seq(Message) /\ Len(toHost) \in Nat
           /\ Len(toHost') = Len(toHost) + 1
           /\ \A k \in 1 .. Len(toHost) : k \in 1 .. Len(toHost') /\ toHost'[k] = toHost[k]
           /\ toHost'[Len(toHost) + 1] = m
           /\ \A k \in 1 .. Len(toHost') : k \in 1 .. Len(toHost) \/ k = Len(toHost) + 1
<1>1. PICK q \in Seq(Message) : q = toHost
  BY DEF Answers
<1>2. PICK L \in Nat : L = Len(q)
  BY LenProperties
<1>3. /\ Append(q, m) \in Seq(Message) /\ Len(Append(q, m)) = L + 1
      /\ \A k \in 1 .. L : Append(q, m)[k] = q[k]
      /\ Append(q, m)[L + 1] = m
  BY <1>2, AppendProperties
<1>4. /\ \A k \in 1 .. L : k \in 1 .. (L + 1)
      /\ \A k \in 1 .. (L + 1) : k \in 1 .. L \/ k = L + 1
  OBVIOUS
<1> QED BY <1>1, <1>2, <1>3, <1>4

\* The records of the sockets keep their states, connections and what has
\* been taken of them; a connection that has ended stays so.
RecordsKeep ==
    \A n \in Sd : /\ rsock'[n].st = rsock[n].st /\ rsock'[n].conn = rsock[n].conn
                  /\ rsock'[n].taken = rsock[n].taken
                  /\ rsock[n].fin => rsock'[n].fin

LEMMA RecordsKept ==
    ASSUME ServerInv, RecordsKeep, UNCHANGED progVars, nconn' - pending' = nconn - pending
    PROVE  /\ \A n : IsOpen(n)' <=> IsOpen(n)
           /\ UNCHANGED call => Holders' /\ Bytes'
<1>1. UNCHANGED <<clients, listenSocket, soc, phase, handed, stale>>
  BY ProgKept
<1>2. \A n : IsOpen(n)' <=> IsOpen(n)
  BY DEF RecordsKeep, IsOpen
<1>3. ASSUME UNCHANGED call PROVE Holders'
  <2>1. \A n : Closing(n)' <=> Closing(n)
    BY <1>3 DEF Closing
  <2>2. /\ listenSocket # NoSd => rsock'[listenSocket].st = "listening"
        /\ phase = "begin" /\ soc # NoSd => rsock'[soc].st \in {"fresh", "listening"}
    BY DEF ServerInv, Holders, RecordsKeep
  <2> QED BY <1>1, <1>2, <2>1, <2>2 DEF ServerInv, Holders, OneOwner
<1>4. ASSUME UNCHANGED call PROVE Bytes'
  <2>1. ASSUME NEW c \in Slots, IsOpen(clients[c].sock)'
        PROVE  BytesOf(clients[c])'
    <3>1. IsOpen(clients[c].sock) /\ clients[c].sock \in Sd
      BY <1>1, <1>2, <2>1 DEF IsOpen
    <3>2. BytesOf(clients[c])
      BY <3>1 DEF ServerInv, Bytes
    <3>3. /\ rsock'[clients[c].sock].conn = rsock[clients[c].sock].conn
          /\ rsock'[clients[c].sock].taken = rsock[clients[c].sock].taken
      BY <3>1 DEF RecordsKeep
    <3>4. Receiving(clients[c].sock)' <=> Receiving(clients[c].sock)
      BY <1>1, <1>4 DEF Receiving
    <3> QED BY <1>1, <3>2, <3>3, <3>4 DEF BytesOf, Left
  <2>2. /\ handed' \in [Connections -> 0 .. MaxBytes]
        /\ \A c \in Connections : c > nconn' - pending' => handed'[c] = 0
    BY <1>1 DEF ServerInv, Bytes
  <2> QED BY <2>1, <2>2 DEF Bytes
<1> QED BY <1>2, <1>3, <1>4

\* A connection is made, gets a byte or ends: of the messages, only the
\* event of an end may be new.
LEMMA PeerKeeps ==
    ASSUME ServerInv, UNCHANGED progVars, RecordsKeep, Sockets',
           UNCHANGED <<call, ended, closed_sockets, inactive, txError>>,
           nconn' - pending' = nconn - pending,
           faults' \in {faults, faults + 1}, faults' <= MaxFaults,
           \/ UNCHANGED toHost
           \/ \E m \in Message : /\ toHost' = Append(toHost, m)
                                 /\ ~IsAnswer(m) /\ m.val \in Sd /\ rsock'[m.val].fin
    PROVE  ServerInv'
<1>1. Control' /\ Waits'
  BY EnvironmentControl DEF ServerInv
<1>2. UNCHANGED <<clients, listenSocket, soc, phase, handed, stale>>
  BY ProgKept
<1>3. /\ Holders' /\ Bytes'
      /\ \A n : IsOpen(n)' <=> IsOpen(n)
  BY RecordsKept
<1>4. /\ toHost' \in Seq(Message) /\ Len(toHost) \in Nat
      /\ \A k \in 1 .. Len(toHost) : k \in 1 .. Len(toHost') /\ toHost'[k] = toHost[k]
      /\ \A k \in 1 .. Len(toHost') :
            \/ k \in 1 .. Len(toHost)
            \/ ~IsAnswer(toHost'[k]) /\ toHost'[k].val \in Sd /\ rsock'[toHost'[k].val].fin
  <2>1. CASE UNCHANGED toHost
    BY <2>1, LenProperties DEF ServerInv, Answers
  <2>2. CASE ~UNCHANGED toHost
    <3>1. PICK m \in Message : /\ toHost' = Append(toHost, m)
                               /\ ~IsAnswer(m) /\ m.val \in Sd /\ rsock'[m.val].fin
      BY <2>2
    <3>2. /\ toHost' \in Seq(Message) /\ Len(toHost) \in Nat
          /\ \A k \in 1 .. Len(toHost) : k \in 1 .. Len(toHost') /\ toHost'[k] = toHost[k]
          /\ toHost'[Len(toHost) + 1] = m
          /\ \A k \in 1 .. Len(toHost') : k \in 1 .. Len(toHost) \/ k = Len(toHost) + 1
      BY <3>1, Appended DEF ServerInv
    <3> QED BY <3>1, <3>2
  <2> QED BY <2>1, <2>2
<1>5. \A k \in 1 .. Len(toHost') :
        IsAnswer(toHost'[k]) => k \in 1 .. Len(toHost) /\ toHost'[k] = toHost[k]
  BY <1>4
<1>6. Answers'
  <2>1. ASSUME NEW m, Fits(m), call.done PROVE Fits(m)'
    <3>1. /\ call.op = "socket" => m.val = -1 \/ (m.val \in Sd /\ rsock'[m.val].st = "fresh")
      BY <2>1 DEF Fits, RecordsKeep
    <3>2. call.op = "listen" => m.val = -1 \/ (m.val = 0 /\ rsock'[call.sd].st = "listening")
      <4>1. call.op = "listen" /\ m.val # -1 => call.sd \in Sd
        <5>1. call.op = "listen" => phase = "begin" /\ i \in 1 .. 5 /\ call.op = BeginCalls[i] /\ call.sd = soc
          BY CallOwners
        <5>2. call.op = "listen" => i > 2 /\ phase = "begin" /\ call.sd = soc
          BY <5>1, BeginCallsAre
        <5> QED BY <5>2 DEF ServerInv, Control
      <4> QED BY <2>1, <4>1 DEF Fits, RecordsKeep
    <3>3. call.op = "accept" =>
            \/ m.val \in {-1, SOC_IN_PROGRESS}
            \/ /\ IsOpen(m.val)' /\ rsock'[m.val].taken = 0 /\ handed'[rsock'[m.val].conn] = 0
               /\ m.val # listenSocket' /\ \A c \in Slots : clients'[c].sock # m.val
      BY <1>2, <1>3, <2>1 DEF Fits, RecordsKeep, IsOpen
    <3>4. call.op \in {"recv", "closesocket"} => call.sd \in Sd
      BY CallOwners
    <3>5. call.op = "closesocket" => m.val = -1 \/ rsock'[call.sd].st = "free"
      BY <2>1, <3>4 DEF Fits, RecordsKeep
    <3>6. call.op = "recv" =>
            LET k == rsock'[call.sd].conn IN
            /\ m.val = ERROR_SOCKET_INACTIVE => m.data = <<>>
            /\ \A j \in 1 .. Len(m.data) : m.data[j] = <<k, handed'[k] + j>>
            /\ handed'[k] + Len(m.data) = rsock'[call.sd].taken
      BY <1>2, <2>1, <3>4 DEF Fits, RecordsKeep
    <3> QED BY <2>1, <3>1, <3>2, <3>3, <3>5, <3>6 DEF Fits
  <2> QED BY <1>4, <1>5, <2>1 DEF ServerInv, Answers
<1>7. Events'
  <2>1. ASSUME NEW j \in 1 .. Len(toHost'), ~IsAnswer(toHost'[j]), j \in 1 .. Len(toHost)
        PROVE  toHost'[j].val \in Sd /\ \/ rsock'[toHost'[j].val].fin
                                        \/ /\ Closing(toHost[j].val)'
                                           /\ \A k \in 1 .. Len(toHost') :
                                                 IsAnswer(toHost'[k]) => j < k
    <3>1. PICK n : n = toHost[j].val
      OBVIOUS
    <3>2. toHost'[j].val = n /\ ~IsAnswer(toHost[j])
      BY <1>4, <2>1, <3>1
    <3>3. /\ n \in Sd
          /\ \/ rsock[n].fin
             \/ Closing(n) /\ \A k \in 1 .. Len(toHost) : IsAnswer(toHost[k]) => j < k
      BY <2>1, <3>1, <3>2 DEF ServerInv, Events
    <3>4. CASE rsock[n].fin
      BY <3>2, <3>3, <3>4 DEF RecordsKeep
    <3>5. CASE Closing(n) /\ \A k \in 1 .. Len(toHost) : IsAnswer(toHost[k]) => j < k
      <4>1. Closing(n)'
        BY <3>5 DEF Closing
      <4>2. \A k \in 1 .. Len(toHost') : IsAnswer(toHost'[k]) => j < k
        BY <1>5, <3>5
      <4> QED BY <3>2, <3>3, <4>1, <4>2
    <3> QED BY <3>3, <3>4, <3>5
  <2>2. ASSUME NEW j \in 1 .. Len(toHost'), ~IsAnswer(toHost'[j]), j \notin 1 .. Len(toHost)
        PROVE  toHost'[j].val \in Sd /\ rsock'[toHost'[j].val].fin
    BY <1>4, <2>2
  <2> QED BY <2>1, <2>2 DEF Events
<1>8. Flags'
  BY <1>2 DEF ServerInv, Flags, RecordsKeep, Closing
<1>9. LostSoon' \subseteq LostSoon
  <2>1. (Answers => \A n : n \in LostSoon <=> /\ n \in Sd /\ rsock[n].st # "free"
                                              /\ Unheld(n) \/ Refused(n))'
    BY InLostSoon, PTL
  <2>2. ASSUME NEW n \in LostSoon' PROVE n \in LostSoon
    <3>1. n \in Sd /\ rsock[n].st # "free" /\ (Unheld(n) \/ Refused(n))'
      BY <1>6, <2>1, <2>2 DEF RecordsKeep
    <3>2. Unheld(n)' => Unheld(n)
      BY <1>2, <1>4 DEF Unheld
    <3>3. Refused(n)' => Refused(n)
      BY <1>2, <1>5 DEF Refused
    <3> QED BY <3>1, <3>2, <3>3, InLostSoon DEF ServerInv
  <2> QED BY <2>2
<1>10. faults' \in 0 .. MaxFaults /\ faults \in Nat
  BY SocketAssumption DEF ServerInv, Counts, SocketAssumption
<1>11. Cardinality(LostSoon') <= faults'
  BY <1>9, <1>10, LostSoonShrinks DEF ServerInv, Counts
<1>12. Counts'
  BY <1>10, <1>11 DEF ServerInv, Counts
<1> QED BY <1>1, <1>3, <1>6, <1>7, <1>8, <1>12 DEF ServerInv

LEMMA PeerConnectsKeeps ==
    ASSUME ServerInv, UNCHANGED progVars, PeerConnects
    PROVE  ServerInv'
<1>1. PICK a, p \in Nat : a = nconn /\ p = pending /\ p <= a /\ a < MaxConns /\ MaxConns \in Nat
  BY SocketAssumption DEF ServerInv, Sockets, PeerConnects, SocketAssumption
<1>2. /\ nconn' = a + 1 /\ pending' = p + 1
      /\ UNCHANGED <<rsock, nbytes, ended, faults, toHost, call, closed_sockets, inactive, txError>>
  BY <1>1 DEF PeerConnects
<1>3. /\ a + 1 \in 0 .. MaxConns /\ p + 1 \in 0 .. (a + 1)
      /\ (a + 1) - (p + 1) = a - p
  BY <1>1
<1>4. Sockets'
  BY <1>1, <1>2, <1>3 DEF ServerInv, Sockets, IsOpen
<1>5. RecordsKeep
  BY <1>2 DEF RecordsKeep
<1>6. faults' \in {faults, faults + 1} /\ faults' <= MaxFaults
  BY <1>2, SocketAssumption DEF ServerInv, Counts, SocketAssumption
<1> QED BY <1>1, <1>2, <1>3, <1>4, <1>5, <1>6, PeerKeeps

\* What happens to one open connection, r being its record after it.
LEMMA RecordChanges ==
    ASSUME ServerInv, NEW n \in Sd, IsOpen(n), NEW r \in Record, rsock' = [rsock EXCEPT ![n] = r],
           r.st = "open", r.conn = rsock[n].conn, r.taken = rsock[n].taken,
           rsock[n].fin => r.fin, rsock[n].sent <= r.sent,
           UNCHANGED <<nconn, pending>>, nbytes' \in 0 .. MaxBytes, nbytes <= nbytes', r.sent <= nbytes'
    PROVE  RecordsKeep /\ Sockets' /\ rsock'[n] = r
<1>1. rsock \in [Sd -> Record] /\ rsock[n].st = "open"
  BY DEF ServerInv, Sockets, IsOpen
<1>2. rsock'[n] = r /\ \A m \in Sd : m # n => rsock'[m] = rsock[m]
  BY <1>1
<1>3. RecordsKeep
  BY <1>1, <1>2 DEF RecordsKeep
<1>4. \A m : IsOpen(m)' <=> IsOpen(m)
  BY <1>3 DEF RecordsKeep, IsOpen
<1>5. ASSUME NEW m \in Sd
      PROVE  rsock'[m].taken <= rsock'[m].sent /\ rsock'[m].sent <= nbytes'
  <2>1. PICK t, s, b \in Nat : t = rsock[m].taken /\ s = rsock[m].sent /\ b = nbytes /\ t <= s /\ s <= b
    BY DEF ServerInv, Sockets, Record
  <2>2. PICK x, y \in Nat : x = r.sent /\ y = nbytes' /\ x <= y
    BY DEF Record
  <2>3. CASE m = n
    BY <1>2, <2>1, <2>2, <2>3
  <2>4. CASE m # n
    BY <1>2, <2>1, <2>2, <2>4
  <2> QED BY <2>3, <2>4
<1>6. rsock' \in [Sd -> Record]
  BY <1>1
<1>7. \A m \in Sd : rsock'[m].fin => IsOpen(m)'
  BY <1>1, <1>2, <1>4 DEF ServerInv, Sockets
<1>8. Sockets'
  BY <1>3, <1>4, <1>5, <1>6, <1>7 DEF ServerInv, Sockets, RecordsKeep
<1> QED BY <1>2, <1>3, <1>8

LEMMA ConnectionKeeps ==
    ASSUME ServerInv, UNCHANGED progVars, NEW n \in Sd,
           PeerSends(n) \/ PeerCloses(n) \/ ConnectionDies(n)
    PROVE  ServerInv'
<1>1. IsOpen(n) /\ rsock \in [Sd -> Record] /\ rsock[n] \in Record
  BY DEF ServerInv, Sockets, PeerSends, PeerCloses, ConnectionDies, Live
<1>2. PICK t, s, b, M \in Nat : /\ t = rsock[n].taken /\ s = rsock[n].sent /\ b = nbytes
                                /\ M = MaxBytes /\ s <= b /\ b <= M
  BY <1>1, SocketAssumption DEF ServerInv, Sockets, Record, SocketAssumption
<1>3. UNCHANGED <<nconn, pending, ended, call, closed_sockets, inactive, txError>>
      /\ nconn' - pending' = nconn - pending
  BY DEF PeerSends, PeerCloses, ConnectionDies
<1>4. faults \in Nat /\ faults <= MaxFaults /\ MaxFaults \in Nat
  BY SocketAssumption DEF ServerInv, Counts, SocketAssumption
<1>5. CASE PeerSends(n)
  <2>1. PICK x : x = s + 1
    OBVIOUS
  <2>2. PICK r : r = [rsock[n] EXCEPT !.sent = x]
    OBVIOUS
  <2>3. b < M /\ nbytes' = b + 1 /\ UNCHANGED <<toHost, faults>>
        /\ rsock' = [rsock EXCEPT ![n].sent = @ + 1]
    BY <1>2, <1>5 DEF PeerSends
  <2>4. rsock' = [rsock EXCEPT ![n] = r]
    BY <1>1, <1>2, <2>1, <2>2, <2>3
  <2>5. x \in 0 .. M /\ s <= x /\ x <= b + 1 /\ b <= b + 1 /\ b + 1 \in 0 .. M
    BY <1>2, <2>1, <2>3
  <2>6. /\ r \in Record /\ r.st = "open" /\ r.conn = rsock[n].conn /\ r.taken = rsock[n].taken
        /\ r.fin = rsock[n].fin /\ r.sent = x
    BY <1>1, <1>2, <2>2, <2>5 DEF Record, IsOpen
  <2>7. RecordsKeep /\ Sockets'
    BY <1>1, <1>2, <1>3, <2>3, <2>4, <2>5, <2>6, RecordChanges
  <2> QED BY <1>3, <1>4, <2>3, <2>7, PeerKeeps
<1>6. CASE PeerCloses(n)
  <2>1. PICK r : r = [rsock[n] EXCEPT !.fin = TRUE]
    OBVIOUS
  <2>2. PICK m : m = [kind |-> "close", val |-> n, data |-> <<>>]
    OBVIOUS
  <2>3. /\ rsock' = [rsock EXCEPT ![n] = r] /\ toHost' = Append(toHost, m)
        /\ UNCHANGED <<nbytes, faults>>
    BY <1>1, <1>6, <2>1, <2>2 DEF PeerCloses
  <2>4. /\ r \in Record /\ r.st = "open" /\ r.conn = rsock[n].conn /\ r.taken = rsock[n].taken
        /\ r.fin /\ r.sent = s
    BY <1>1, <1>2, <2>1 DEF Record, IsOpen
  <2>5. nbytes' \in 0 .. MaxBytes /\ nbytes <= nbytes' /\ rsock[n].sent <= r.sent
        /\ r.sent <= nbytes'
    BY <1>2, <2>3, <2>4
  <2>6. RecordsKeep /\ Sockets' /\ rsock'[n] = r
    BY <1>1, <1>3, <2>3, <2>4, <2>5, RecordChanges
  <2>7. m \in Message /\ ~IsAnswer(m) /\ m.val = n
    <3>1. n \in Int /\ <<>> \in Seq(Connections \X Nat)
      BY NumbersAre, EmptySeq
    <3> QED BY <2>2, <3>1 DEF Message, IsAnswer
  <2> QED BY <1>3, <1>4, <2>3, <2>4, <2>6, <2>7, PeerKeeps
<1>7. CASE ConnectionDies(n)
  <2>1. PICK r : r = [rsock[n] EXCEPT !.dead = TRUE]
    OBVIOUS
  <2>3. /\ rsock' = [rsock EXCEPT ![n] = r] /\ faults < MaxFaults /\ faults' = faults + 1
        /\ UNCHANGED <<nbytes, toHost>>
    BY <1>1, <1>7, <2>1 DEF ConnectionDies
  <2>4. /\ r \in Record /\ r.st = "open" /\ r.conn = rsock[n].conn /\ r.taken = rsock[n].taken
        /\ r.fin = rsock[n].fin /\ r.sent = s
    BY <1>1, <1>2, <2>1 DEF Record, IsOpen
  <2>5. nbytes' \in 0 .. MaxBytes /\ nbytes <= nbytes' /\ rsock[n].sent <= r.sent
        /\ r.sent <= nbytes'
    BY <1>2, <2>3, <2>4
  <2>6. RecordsKeep /\ Sockets'
    BY <1>1, <1>3, <2>3, <2>4, <2>5, RecordChanges
  <2>7. faults' <= MaxFaults
    BY <1>4, <2>3
  <2> QED BY <1>3, <1>4, <2>3, <2>6, <2>7, PeerKeeps
<1> QED BY <1>5, <1>6, <1>7

\* The interrupt handler takes an event and sets the flag of its socket.
LEMMA CallbackKeeps ==
    ASSUME ServerInv, UNCHANGED progVars, CC3000_UsynchCallback
    PROVE  ServerInv'
<1>1. /\ UNCHANGED <<clients, listenSocket, soc, phase, handed, stale>>
      /\ UNCHANGED <<rsock, pending, nconn, nbytes, ended, faults, call, inactive, txError>>
  BY ProgKept DEF CC3000_UsynchCallback
<1>2. Control' /\ Waits'
  BY <1>1, EnvironmentControl DEF ServerInv
<1>3. PICK q \in Seq(Message) : q = toHost /\ q # <<>>
  BY DEF ServerInv, Answers, CC3000_UsynchCallback
<1>4. PICK L \in Nat : L = Len(q) /\ L >= 1
  BY <1>3, LenProperties, EmptySeq
<1>5. /\ Head(q) = q[1] /\ q[1] \in Message /\ Tail(q) \in Seq(Message) /\ Len(Tail(q)) = L - 1
      /\ \A k \in 1 .. (L - 1) : Tail(q)[k] = q[k + 1]
  BY <1>3, <1>4, HeadTailProperties, ElementOfSeq
<1>6. PICK M \in Nat : M = Len(Tail(q)) /\ M + 1 = L
  BY <1>4, <1>5
<1>7. toHost' = Tail(q) /\ ~IsAnswer(q[1])
      /\ closed_sockets' = [closed_sockets EXCEPT ![q[1].val] = TRUE]
  BY <1>3, <1>5 DEF CC3000_UsynchCallback, IsAnswer
<1>8. \A k \in 1 .. M : k + 1 \in 1 .. L /\ Tail(q)[k] = q[k + 1]
  BY <1>4, <1>5, <1>6
<1>9. ASSUME NEW k \in 1 .. L, IsAnswer(q[k])
      PROVE  \E j \in 1 .. M : j + 1 = k /\ Tail(q)[j] = q[k]
  <2>1. k # 1
    BY <1>7, <1>9
  <2>2. PICK j \in 1 .. M : j + 1 = k
    <3>1. k - 1 \in 1 .. M /\ (k - 1) + 1 = k
      BY <1>6, <2>1
    <3> QED BY <3>1
  <2> QED BY <1>8, <2>2
<1>10. Sockets' /\ Holders' /\ Bytes'
  BY <1>1 DEF ServerInv, Sockets, Holders, Bytes, IsOpen, Closing, OneOwner, BytesOf, Left, Receiving
<1>11. Answers'
  <2>1. ASSUME NEW m PROVE Fits(m)' <=> Fits(m)
    BY <1>1 DEF Fits, IsOpen
  <2>2. ASSUME NEW j \in 1 .. M, IsAnswer(Tail(q)[j])
        PROVE  /\ call.done /\ Fits(Tail(q)[j])
               /\ \A k \in 1 .. M : IsAnswer(Tail(q)[k]) => k = j
    <3>1. j + 1 \in 1 .. L /\ Tail(q)[j] = q[j + 1] /\ IsAnswer(q[j + 1])
      BY <1>8, <2>2
    <3>2. /\ call.done /\ Fits(q[j + 1])
          /\ \A k \in 1 .. L : IsAnswer(q[k]) => k = j + 1
      BY <1>3, <1>4, <3>1 DEF ServerInv, Answers
    <3>3. ASSUME NEW k \in 1 .. M, IsAnswer(Tail(q)[k]) PROVE k = j
      <4>1. k + 1 \in 1 .. L /\ IsAnswer(q[k + 1])
        BY <1>8, <3>3
      <4>2. k + 1 = j + 1
        BY <3>2, <4>1
      <4> QED BY <4>2
    <3> QED BY <3>1, <3>2, <3>3
  <2> QED BY <1>1, <1>5, <1>6, <1>7, <2>1, <2>2 DEF Answers
<1>12. Events'
  <2>1. ASSUME NEW j \in 1 .. M, ~IsAnswer(Tail(q)[j])
        PROVE  /\ Tail(q)[j].val \in Sd
               /\ \/ rsock[Tail(q)[j].val].fin
                  \/ /\ Closing(Tail(q)[j].val)
                     /\ \A k \in 1 .. M : IsAnswer(Tail(q)[k]) => j < k
    <3>1. j + 1 \in 1 .. L /\ Tail(q)[j] = q[j + 1] /\ ~IsAnswer(q[j + 1])
      BY <1>8, <2>1
    <3>2. /\ q[j + 1].val \in Sd
          /\ \/ rsock[q[j + 1].val].fin
             \/ /\ Closing(q[j + 1].val)
                /\ \A k \in 1 .. L : IsAnswer(q[k]) => j + 1 < k
      BY <1>3, <1>4, <3>1 DEF ServerInv, Events
    <3>3. (\A k \in 1 .. L : IsAnswer(q[k]) => j + 1 < k)
            => \A k \in 1 .. M : IsAnswer(Tail(q)[k]) => j < k
      <4>1. ASSUME \A k \in 1 .. L : IsAnswer(q[k]) => j + 1 < k,
                   NEW k \in 1 .. M, IsAnswer(Tail(q)[k])
            PROVE  j < k
        <5>1. k + 1 \in 1 .. L /\ IsAnswer(q[k + 1])
          BY <1>8, <4>1
        <5>2. j + 1 < k + 1
          BY <4>1, <5>1
        <5> QED BY <5>2
      <4> QED BY <4>1
    <3> QED BY <3>1, <3>2, <3>3
  <2> QED BY <1>1, <1>6, <1>7, <2>1 DEF Events, Closing
<1>13. Flags'
  <2>1. 1 \in 1 .. L
    BY <1>4
  <2>2. q[1].val \in Sd /\ (rsock[q[1].val].fin \/ Closing(q[1].val))
    BY <1>3, <1>4, <1>7, <2>1 DEF ServerInv, Events
  <2> QED BY <1>1, <1>7, <2>2 DEF ServerInv, Flags, Closing
<1>14. LostSoon' \subseteq LostSoon
  <2>1. (Answers => \A n : n \in LostSoon <=> /\ n \in Sd /\ rsock[n].st # "free"
                                              /\ Unheld(n) \/ Refused(n))'
    BY InLostSoon, PTL
  <2>2. ASSUME NEW n \in LostSoon' PROVE n \in LostSoon
    <3>1. n \in Sd /\ rsock[n].st # "free" /\ (Unheld(n) \/ Refused(n))'
      BY <1>1, <1>11, <2>1, <2>2
    <3>2. ASSUME Unheld(n)' PROVE Unheld(n)
      <4>1. call.op \in {"socket", "accept"} =>
              \A k \in 1 .. M : IsAnswer(Tail(q)[k]) => Tail(q)[k].val # n
        BY <1>1, <1>6, <1>7, <3>2 DEF Unheld
      <4>2. call.op \in {"socket", "accept"} =>
              \A k \in 1 .. L : IsAnswer(q[k]) => q[k].val # n
        BY <1>9, <4>1
      <4> QED BY <1>1, <1>3, <1>4, <3>2, <4>2 DEF Unheld
    <3>3. ASSUME Refused(n)' PROVE Refused(n)
      <4>1. PICK k \in 1 .. M : IsAnswer(Tail(q)[k]) /\ Tail(q)[k].val = -1
        BY <1>6, <1>7, <3>3 DEF Refused
      <4>2. k + 1 \in 1 .. L /\ IsAnswer(q[k + 1]) /\ q[k + 1].val = -1
        BY <1>8, <4>1
      <4> QED BY <1>1, <1>3, <1>4, <3>3, <4>2 DEF Refused
    <3> QED BY <3>1, <3>2, <3>3, InLostSoon DEF ServerInv
  <2> QED BY <2>2
<1>15. faults \in Nat
  BY SocketAssumption DEF ServerInv, Counts, SocketAssumption
<1>16. Cardinality(LostSoon') <= faults'
  BY <1>1, <1>14, <1>15, LostSoonShrinks DEF ServerInv, Counts
<1>17. Counts'
  BY <1>1, <1>16 DEF ServerInv, Counts
<1> QED BY <1>2, <1>10, <1>11, <1>12, <1>13, <1>17 DEF ServerInv

\* The interrupt handler takes the completion of a send to a socket that has
\* become inactive: no answer is left, and the program goes on waiting.
LEMMA SendLostKeeps ==
    ASSUME ServerInv, UNCHANGED progVars, SendLost
    PROVE  ServerInv'
<1>1. /\ UNCHANGED <<clients, listenSocket, soc, phase, handed, stale>>
      /\ UNCHANGED <<rsock, pending, nconn, nbytes, ended, faults, call, closed_sockets>>
  BY ProgKept DEF SendLost
<1>2. Control' /\ Waits'
  BY <1>1, EnvironmentControl DEF ServerInv
<1>3. PICK q \in Seq(Message) : q = toHost /\ q # <<>> /\ IsAnswer(Head(q))
  BY DEF ServerInv, Answers, SendLost, IsAnswer
<1>4. PICK L \in Nat : L = Len(q) /\ L >= 1
  BY <1>3, LenProperties, EmptySeq
<1>5. /\ Head(q) = q[1] /\ Tail(q) \in Seq(Message) /\ Len(Tail(q)) = L - 1
      /\ \A k \in 1 .. (L - 1) : Tail(q)[k] = q[k + 1]
  BY <1>3, <1>4, HeadTailProperties, ElementOfSeq
<1>6. PICK M \in Nat : M = Len(Tail(q)) /\ M + 1 = L
  BY <1>4, <1>5
<1>7. /\ toHost' = Tail(q) /\ call.op = "send"
      /\ inactive' = inactive \cup {call.sd} /\ txError' \in BOOLEAN
  BY <1>3 DEF SendLost
<1>8. ASSUME NEW k \in 1 .. M
      PROVE  k + 1 \in 1 .. L /\ Tail(q)[k] = q[k + 1] /\ ~IsAnswer(Tail(q)[k])
  <2>1. k + 1 \in 1 .. L /\ Tail(q)[k] = q[k + 1] /\ 1 \in 1 .. L /\ k + 1 # 1
    BY <1>4, <1>5, <1>6
  <2>2. IsAnswer(q[k + 1]) => k + 1 = 1
    BY <1>3, <1>4, <1>5, <2>1 DEF ServerInv, Answers
  <2> QED BY <2>1, <2>2
<1>9. Sockets' /\ Holders' /\ Bytes' /\ Flags'
  BY <1>1 DEF ServerInv, Sockets, Holders, Bytes, Flags, IsOpen, Closing, OneOwner, BytesOf,
              Left, Receiving
<1>10. Answers'
  BY <1>5, <1>6, <1>7, <1>8 DEF Answers
<1>11. Events'
  <2>1. ASSUME NEW j \in 1 .. M
        PROVE  Tail(q)[j].val \in Sd /\ rsock[Tail(q)[j].val].fin
    <3>1. j + 1 \in 1 .. L /\ Tail(q)[j] = q[j + 1] /\ ~IsAnswer(q[j + 1])
      BY <1>8
    <3>2. ~Closing(q[j + 1].val)
      BY <1>7 DEF Closing
    <3> QED BY <1>3, <1>4, <3>1, <3>2 DEF ServerInv, Events
  <2> QED BY <1>1, <1>6, <1>7, <2>1 DEF Events
<1>12. LostSoon' \subseteq LostSoon
  <2>1. (Answers => \A n : n \in LostSoon <=> /\ n \in Sd /\ rsock[n].st # "free"
                                              /\ Unheld(n) \/ Refused(n))'
    BY InLostSoon, PTL
  <2>2. ASSUME NEW n \in LostSoon' PROVE n \in LostSoon
    <3>1. n \in Sd /\ rsock[n].st # "free" /\ (Unheld(n) \/ Refused(n))'
      BY <1>1, <1>10, <2>1, <2>2
    <3>2. ~Refused(n)'
      BY <1>6, <1>7, <1>8 DEF Refused
    <3>3. Unheld(n)' => Unheld(n)
      BY <1>1, <1>7 DEF Unheld
    <3> QED BY <3>1, <3>2, <3>3, InLostSoon DEF ServerInv
  <2> QED BY <2>2
<1>13. faults \in Nat
  BY SocketAssumption DEF ServerInv, Counts, SocketAssumption
<1>14. Cardinality(LostSoon') <= faults'
  BY <1>1, <1>12, <1>13, LostSoonShrinks DEF ServerInv, Counts
<1>15. inactive' \subseteq 0 .. 7
  BY <1>7, CallOwners, NumbersAre DEF ServerInv, Counts
<1>16. Counts'
  BY <1>1, <1>7, <1>14, <1>15 DEF ServerInv, Counts
<1> QED BY <1>2, <1>9, <1>10, <1>11, <1>16 DEF ServerInv

\* The answer of the radio to the command that is out, behind the events.
Answering(m) ==
    /\ call # NoCall /\ ~call.done /\ call' = [call EXCEPT !.done = TRUE]
    /\ m \in Message /\ IsAnswer(m) /\ toHost' = Append(toHost, m)
    /\ UNCHANGED <<nconn, nbytes, ended, closed_sockets, inactive, txError>>
    /\ UNCHANGED progVars

LEMMA AnsweringFacts ==
    ASSUME ServerInv, NEW m, Answering(m)
    PROVE  /\ UNCHANGED <<clients, listenSocket, soc, phase, i, step, handed, stale>>
           /\ call'.op = call.op /\ call'.sd = call.sd /\ call'.done
           /\ \A n : ~Closing(n) /\ ~Receiving(n)
           /\ \A n : Closing(n)' <=> call.op = "closesocket" /\ call.sd = n
           /\ \A n : Receiving(n)' <=> call.op = "recv" /\ call.sd = n
           /\ Control' /\ Waits'
           /\ toHost' \in Seq(Message) /\ Len(toHost) \in Nat
           /\ Len(toHost') = Len(toHost) + 1 /\ toHost'[Len(toHost) + 1] = m
           /\ \A k \in 1 .. Len(toHost) : /\ k \in 1 .. Len(toHost') /\ k < Len(toHost) + 1
                                          /\ toHost'[k] = toHost[k] /\ ~IsAnswer(toHost[k])
           /\ \A k \in 1 .. Len(toHost') : k \in 1 .. Len(toHost) \/ k = Len(toHost) + 1
<1>1. UNCHANGED <<clients, listenSocket, soc, phase, i, step, handed, stale>>
  BY ProgKept DEF Answering, progVars
<1>2. call'.op = call.op /\ call'.sd = call.sd /\ call'.done
  BY DEF Answering, ServerInv, Waits, Calls
<1>3. Control' /\ Waits'
  BY EnvironmentControl DEF Answering, ServerInv
<1>4. \A n : ~Closing(n) /\ ~Receiving(n)
  BY DEF Answering, Closing, Receiving
<1>5. /\ \A n : Closing(n)' <=> call.op = "closesocket" /\ call.sd = n
      /\ \A n : Receiving(n)' <=> call.op = "recv" /\ call.sd = n
  BY <1>2 DEF Closing, Receiving
<1>6. /\ toHost' \in Seq(Message) /\ Len(toHost) \in Nat
      /\ Len(toHost') = Len(toHost) + 1 /\ toHost'[Len(toHost) + 1] = m
      /\ \A k \in 1 .. Len(toHost) : k \in 1 .. Len(toHost') /\ toHost'[k] = toHost[k]
      /\ \A k \in 1 .. Len(toHost') : k \in 1 .. Len(toHost) \/ k = Len(toHost) + 1
  BY Appended DEF Answering, ServerInv
<1>7. \A k \in 1 .. Len(toHost) : ~IsAnswer(toHost[k]) /\ k < Len(toHost) + 1
  <2>1. \A k \in 1 .. Len(toHost) : k < Len(toHost) + 1
    BY <1>6
  <2> QED BY <2>1, NobodyAnswers DEF Answering, ServerInv
<1> QED BY <1>1, <1>2, <1>3, <1>4, <1>5, <1>6, <1>7

\* What the answer must not break, and what it may lose.
LEMMA AnsweringKeeps ==
    ASSUME ServerInv, NEW m, Answering(m), Fits(m)',
           \A n \in Sd : rsock[n].fin =>
              rsock'[n].fin \/ (call.op = "closesocket" /\ call.sd = n)
    PROVE  /\ Control' /\ Waits' /\ Answers' /\ Events' /\ Flags'
           /\ \A n \in LostSoon' :
                 /\ n \in Sd /\ rsock'[n].st # "free"
                 /\ \/ Unheld(n) /\ (call.op \in {"socket", "accept"} => m.val # n)
                    \/ m.val = -1 /\ call.sd = n /\ (call.op = "closesocket" \/ phase = "begin")
<1>1. /\ UNCHANGED <<clients, listenSocket, soc, phase, i, step, handed, stale>>
      /\ call'.op = call.op /\ call'.sd = call.sd /\ call'.done
      /\ Control' /\ Waits' /\ UNCHANGED closed_sockets
  BY AnsweringFacts DEF Answering
<1>2. /\ \A n : ~Closing(n)
      /\ \A n : Closing(n)' <=> call.op = "closesocket" /\ call.sd = n
  BY AnsweringFacts
<1>3. PICK L \in Nat : L = Len(toHost)
  BY AnsweringFacts
<1>4. /\ toHost' \in Seq(Message) /\ Len(toHost') = L + 1
      /\ toHost'[L + 1] = m /\ IsAnswer(m)
      /\ \A k \in 1 .. L : k < L + 1 /\ toHost'[k] = toHost[k] /\ ~IsAnswer(toHost[k])
      /\ \A k \in 1 .. (L + 1) : k \in 1 .. L \/ k = L + 1
      /\ L + 1 \in 1 .. (L + 1)
  BY <1>3, AnsweringFacts DEF Answering
<1>5. \A k \in 1 .. (L + 1) : IsAnswer(toHost'[k]) <=> k = L + 1
  BY <1>4
<1>6. Answers'
  BY <1>1, <1>4, <1>5 DEF Answers
<1>7. Events'
  <2>1. ASSUME NEW j \in 1 .. L
        PROVE  /\ toHost[j].val \in Sd
               /\ \/ rsock'[toHost[j].val].fin
                  \/ call.op = "closesocket" /\ call.sd = toHost[j].val
    BY <1>2, <1>3, <1>4, <2>1 DEF ServerInv, Events
  <2>2. ASSUME NEW j \in 1 .. (L + 1), ~IsAnswer(toHost'[j])
        PROVE  j \in 1 .. L /\ toHost'[j] = toHost[j]
               /\ \A k \in 1 .. (L + 1) : IsAnswer(toHost'[k]) => j < k
    BY <1>4, <1>5, <2>2
  <2> QED BY <1>2, <1>4, <2>1, <2>2 DEF Events
<1>8. Flags'
  BY <1>1, <1>2 DEF ServerInv, Flags
<1>9. (Answers => \A n : n \in LostSoon <=> /\ n \in Sd /\ rsock[n].st # "free"
                                            /\ Unheld(n) \/ Refused(n))'
  BY InLostSoon, PTL
<1>10. ASSUME NEW n \in LostSoon'
       PROVE  /\ n \in Sd /\ rsock'[n].st # "free"
              /\ \/ Unheld(n) /\ (call.op \in {"socket", "accept"} => m.val # n)
                 \/ m.val = -1 /\ call.sd = n /\ (call.op = "closesocket" \/ phase = "begin")
  <2>1. n \in Sd /\ rsock'[n].st # "free" /\ (Unheld(n) \/ Refused(n))'
    BY <1>6, <1>9, <1>10
  <2>2. ASSUME Unheld(n)'
        PROVE  Unheld(n) /\ (call.op \in {"socket", "accept"} => m.val # n)
    BY <1>1, <1>3, <1>4, <2>2 DEF Unheld
  <2>3. ASSUME Refused(n)'
        PROVE  m.val = -1 /\ call.sd = n /\ (call.op = "closesocket" \/ phase = "begin")
    BY <1>1, <1>4, <1>5, <2>3 DEF Refused
  <2> QED BY <2>1, <2>2, <2>3
<1> QED BY <1>1, <1>6, <1>7, <1>8, <1>10

\* An answer that changes no socket: that of a command that only asks, or has
\* failed; if begin or closesocket is refused, it counts as a fault.
LEMMA SaysKeeps ==
    ASSUME ServerInv, NEW m, Answering(m), Fits(m)', UNCHANGED <<rsock, pending>>,
           faults' \in {faults, faults + 1}, faults' <= MaxFaults,
           m.val = -1 /\ (call.op = "closesocket" \/ phase = "begin") =>
              faults' = faults + 1 \/ call.sd \notin Sd
    PROVE  ServerInv'
<1>1. /\ UNCHANGED <<clients, listenSocket, soc, phase, handed>>
      /\ UNCHANGED <<nconn, nbytes, ended, inactive, txError>>
  BY AnsweringFacts DEF Answering
<1>2. \A n : ~Closing(n) /\ ~Receiving(n)
  BY AnsweringFacts
<1>3. /\ Control' /\ Waits' /\ Answers' /\ Events' /\ Flags'
      /\ \A n \in LostSoon' :
            /\ n \in Sd /\ rsock'[n].st # "free"
            /\ \/ Unheld(n) /\ (call.op \in {"socket", "accept"} => m.val # n)
               \/ m.val = -1 /\ call.sd = n /\ (call.op = "closesocket" \/ phase = "begin")
  BY AnsweringKeeps
<1>4. Sockets'
  BY <1>1 DEF ServerInv, Sockets, IsOpen
<1>5. Holders'
  BY <1>1, <1>2 DEF ServerInv, Holders, IsOpen, OneOwner
<1>6. Bytes'
  BY <1>1, <1>2 DEF ServerInv, Bytes, IsOpen, BytesOf, Left
<1>7. LostSoon' \subseteq LostSoon \cup {call.sd}
  BY <1>3, InLostSoon DEF ServerInv
<1>8. \/ faults' = faults + 1
      \/ faults' = faults /\ LostSoon' \subseteq LostSoon
  BY <1>3, InLostSoon DEF ServerInv
<1>9. faults \in Nat /\ faults' \in 0 .. MaxFaults
  BY SocketAssumption DEF ServerInv, Counts, SocketAssumption
<1>10. Cardinality(LostSoon') <= faults'
  BY <1>7, <1>8, <1>9, LostSoonShrinks, LostSoonGrows DEF ServerInv, Counts
<1>11. Counts'
  BY <1>1, <1>9, <1>10 DEF ServerInv, Counts
<1> QED BY <1>3, <1>4, <1>5, <1>6, <1>11 DEF ServerInv

\* The message of an outcome.
MessageOf(o) == [kind |-> "answer", val |-> o.val, data |-> o.data]

LEMMA RadioAnswering ==
    ASSUME NEW o, RadioAnswers(o), call # NoCall, ~call.done, UNCHANGED progVars,
           o.val \in Int, o.data \in Seq(Connections \X Nat)
    PROVE  /\ Answering(MessageOf(o)) /\ rsock' = o.rsock /\ pending' = o.pending
           /\ MessageOf(o).val = o.val /\ MessageOf(o).data = o.data
BY DEF RadioAnswers, MessageOf, Answering, Message, IsAnswer

LEMMA RadioSays ==
    ASSUME NEW v \in Int, RadioAnswers(Says(v)), call # NoCall, ~call.done, UNCHANGED progVars
    PROVE  \E m : /\ Answering(m) /\ UNCHANGED <<rsock, pending>>
                  /\ m.val = v /\ m.data = <<>>
<1>1. /\ Says(v).val = v /\ Says(v).data = <<>>
      /\ Says(v).rsock = rsock /\ Says(v).pending = pending
  BY DEF Says, Gives
<1>2. <<>> \in Seq(Connections \X Nat)
  BY EmptySeq
<1> QED BY <1>1, <1>2, RadioAnswering

\* What the radio holds for a connection and the client has not asked for.
LEMMA UnreadIs ==
    ASSUME NEW n \in Sd, rsock[n].conn \in Connections,
           NEW t \in Nat, t = rsock[n].taken, NEW s \in Nat, s = rsock[n].sent, t <= s
    PROVE  /\ Unread(n) \in Seq(Connections \X Nat) /\ Len(Unread(n)) = s - t
           /\ \A j \in 1 .. (s - t) : Unread(n)[j] = <<rsock[n].conn, t + j>>
<1>1. PICK k \in Connections : k = rsock[n].conn
  OBVIOUS
<1>2. PICK N \in Nat : N = s - t
  OBVIOUS
<1>3. PICK f : f = [j \in 1 .. N |-> <<k, t + j>>]
  OBVIOUS
<1>4. Unread(n) = f
  BY <1>1, <1>2, <1>3 DEF Unread
<1>5. \A j \in 1 .. N : <<k, t + j>> \in Connections \X Nat
  OBVIOUS
<1>6. f \in [1 .. N -> Connections \X Nat]
  BY <1>3, <1>5
<1>7. f \in Seq(Connections \X Nat)
  BY <1>6, SeqDef
<1>8. Len(f) = N
  <2>1. PICK M \in Nat : M = Len(f) /\ DOMAIN f = 1 .. M
    BY <1>7, LenProperties
  <2>2. \A j : j \in 1 .. M <=> j \in 1 .. N
    BY <1>6, <2>1
  <2>3. (M >= 1 => M \in 1 .. N) /\ (N >= 1 => N \in 1 .. M)
    BY <2>2
  <2> QED BY <2>1, <2>3
<1> QED BY <1>1, <1>2, <1>3, <1>4, <1>7, <1>8

\* The socket a command reads or closes is that of a client that has it open.
LEMMA SockIsOpen ==
    ASSUME ServerInv, ~call.done, call.op \in {"select", "recv", "send", "closesocket"}
    PROVE  /\ phase # "begin" /\ Sock \in Sd /\ call.sd = Sock /\ IsOpen(Sock)
           /\ Cur \in Slots /\ clients[Cur] \in Client /\ clients[Cur].sock = Sock
           /\ \A c \in Slots \ {Cur} : clients[c].sock # Sock
           /\ Sock # listenSocket /\ rsock[Sock] \in Record /\ rsock[Sock].conn \in Connections
<1>1. phase # "begin" /\ Sock \in Sd /\ call.sd = Sock
  BY CallOwners
<1>2. Cur \in Slots /\ clients[Cur] \in Client /\ clients[Cur].sock = Sock
  BY <1>1, SockIsNumber DEF ServerInv, Holders
<1>3. Sock # NoSd
  BY <1>1, NumbersAre
<1>4. IsOpen(Sock)
  BY <1>2, <1>3 DEF ServerInv, Holders, Closing
<1>5. Sock # listenSocket /\ \A c \in Slots \ {Cur} : clients[c].sock # Sock
  BY <1>2, <1>3 DEF ServerInv, Holders, OneOwner
<1>6. rsock[Sock] \in Record /\ rsock[Sock].conn \in Connections
  BY <1>1, <1>4 DEF ServerInv, Sockets, Record, Connections, IsOpen
<1> QED BY <1>1, <1>2, <1>4, <1>5, <1>6

\* Before recv the client has handed out all the radio has given it.
LEMMA AllHanded ==
    ASSUME ServerInv, ~call.done, call.op = "recv"
    PROVE  LET k == rsock[Sock].conn IN
           /\ handed[k] \in Nat /\ handed[k] = rsock[Sock].taken
           /\ ~(clients[Cur].idx < Len(clients[Cur].buf))
<1>1. /\ IsOpen(Sock) /\ Cur \in Slots /\ clients[Cur] \in Client /\ clients[Cur].sock = Sock
      /\ rsock[Sock].conn \in Connections /\ ~Buffered
  BY SockIsOpen, CallOwners
<1>2. BytesOf(clients[Cur]) /\ ~Receiving(Sock)
  BY <1>1 DEF ServerInv, Bytes, Receiving
<1>3. ~(clients[Cur].idx < Len(clients[Cur].buf))
  BY <1>1 DEF Buffered
<1>4. PICK k \in Connections : k = rsock[Sock].conn
  BY <1>1
<1>5. handed[k] + 0 = rsock[Sock].taken
  BY <1>1, <1>2, <1>3, <1>4 DEF BytesOf, Left
<1>6. handed[k] \in Nat
  BY DEF ServerInv, Bytes
<1> QED BY <1>3, <1>4, <1>5, <1>6

\* The commands whose answer changes no socket.
LEMMA AskedKeeps ==
    ASSUME ServerInv, NEW v \in Int, RadioAnswers(Says(v)), call # NoCall, ~call.done,
           UNCHANGED progVars, UNCHANGED faults,
           \/ call.op \in {"timeouts", "setsockopt", "bind"} /\ v = 0
           \/ call.op = "accept" /\ v \in {-1, SOC_IN_PROGRESS}
           \/ call.op \in {"select", "recv", "send"}
    PROVE  ServerInv'
<1>1. PICK m : /\ Answering(m) /\ UNCHANGED <<rsock, pending>>
               /\ m.val = v /\ m.data = <<>>
  BY RadioSays
<1>2. /\ UNCHANGED <<clients, listenSocket, soc, phase, handed>>
      /\ call'.op = call.op /\ call'.sd = call.sd
  BY <1>1, AnsweringFacts
<1>3. Len(m.data) = 0 /\ BufSize \in Nat
  BY <1>1, SocketAssumption DEF SocketAssumption
<1>4. call.op = "recv" => LET k == rsock[call.sd].conn IN handed[k] + 0 = rsock[call.sd].taken
  BY SockIsOpen, AllHanded
<1>5. Fits(m)'
  BY <1>1, <1>2, <1>3, <1>4 DEF Fits
<1>6. ~(v = -1 /\ (call.op = "closesocket" \/ phase = "begin"))
  BY CallOwners DEF ServerInv, Control
<1>7. faults' \in {faults, faults + 1} /\ faults' <= MaxFaults
  BY SocketAssumption DEF ServerInv, Counts, SocketAssumption
<1> QED BY <1>1, <1>5, <1>6, <1>7, SaysKeeps

\* A refusal: of closesocket, which leaves the socket, of a recv, or of a step
\* of begin.
LEMMA RefusalKeeps ==
    ASSUME ServerInv, UNCHANGED progVars, RadioRefuses
    PROVE  ServerInv'
<1>1. /\ call.op \in Refusable /\ ~call.done /\ RadioAnswers(Says(-1))
      /\ \/ faults < MaxFaults /\ faults' = faults + 1
         \/ call.op = "socket" /\ faults' = faults
  BY DEF RadioRefuses
<1>2. call # NoCall
  BY <1>1 DEF Refusable, NoCall
<1>3. PICK m : /\ Answering(m) /\ UNCHANGED <<rsock, pending>>
               /\ m.val = -1 /\ m.data = <<>>
  BY <1>1, <1>2, RadioSays
<1>4. /\ UNCHANGED <<clients, listenSocket, soc, phase, handed>>
      /\ call'.op = call.op /\ call'.sd = call.sd
  BY <1>3, AnsweringFacts
<1>5. Len(m.data) = 0 /\ BufSize \in Nat
  BY <1>3, SocketAssumption DEF SocketAssumption
<1>6. Fits(m)'
  <2>1. call.op = "recv" => LET k == rsock[call.sd].conn IN handed[k] + 0 = rsock[call.sd].taken
    BY <1>1, SockIsOpen, AllHanded
  <2> QED BY <1>1, <1>3, <1>4, <1>5, <2>1 DEF Fits, Refusable
<1>7. call.op = "socket" => call.sd \notin Sd
  <2>1. ASSUME call.op = "socket" PROVE i = 2 /\ phase = "begin" /\ call.sd = soc
    BY <2>1, CallOwners, BeginCallsAre
  <2> QED BY <2>1, NumbersAre DEF ServerInv, Control
<1>8. faults' \in {faults, faults + 1} /\ faults' <= MaxFaults
  BY <1>1, SocketAssumption DEF ServerInv, Counts, SocketAssumption
<1> QED BY <1>1, <1>3, <1>6, <1>7, <1>8, SaysKeeps

\* The answer of a command that was executed and has changed one socket, r
\* being its record after it.  A socket that was free is in the answer.
LEMMA ChangeKeeps ==
    ASSUME ServerInv, NEW m, Answering(m), Fits(m)', m.val # -1, UNCHANGED faults,
           NEW n \in Sd, NEW r, rsock' = [rsock EXCEPT ![n] = r], Sockets',
           rsock[n].fin => r.fin \/ (call.op = "closesocket" /\ call.sd = n),
           rsock[n].st = "free" => call.op \in {"socket", "accept"} /\ m.val = n,
           listenSocket = n => r.st = "listening",
           phase = "begin" /\ soc = n => r.st \in {"fresh", "listening"},
           \A c \in Slots : clients[c].sock = n =>
              \/ r.st = "open" /\ BytesOf(clients[c])'
              \/ call.op = "closesocket" /\ call.sd = n /\ r.st = "free",
           \A c \in Connections : c > nconn' - pending' => c > nconn - pending
    PROVE  ServerInv'
<1>1. /\ UNCHANGED <<clients, listenSocket, soc, phase, handed>>
      /\ UNCHANGED <<nconn, nbytes, ended, inactive, txError>>
  BY AnsweringFacts DEF Answering
<1>2. /\ \A x : ~Closing(x) /\ ~Receiving(x)
      /\ \A x : Closing(x)' <=> call.op = "closesocket" /\ call.sd = x
  BY AnsweringFacts
<1>3. rsock'[n] = r /\ \A x \in Sd : x # n => rsock'[x] = rsock[x]
  BY DEF ServerInv, Sockets
<1>4. /\ Control' /\ Waits' /\ Answers' /\ Events' /\ Flags'
      /\ \A x \in LostSoon' :
            /\ x \in Sd /\ rsock'[x].st # "free"
            /\ \/ Unheld(x) /\ (call.op \in {"socket", "accept"} => m.val # x)
               \/ m.val = -1 /\ call.sd = x /\ (call.op = "closesocket" \/ phase = "begin")
  <2>1. \A x \in Sd : rsock[x].fin =>
           rsock'[x].fin \/ (call.op = "closesocket" /\ call.sd = x)
    BY <1>3
  <2> QED BY <2>1, AnsweringKeeps
<1>5. \A x \in Sd : x # n => (IsOpen(x)' <=> IsOpen(x))
  BY <1>3 DEF IsOpen
<1>6. Holders'
  <2>1. ASSUME NEW c \in Slots, clients[c].sock # NoSd
        PROVE  IsOpen(clients[c].sock)' \/ Closing(clients[c].sock)'
    <3>1. clients[c].sock \in Sd /\ IsOpen(clients[c].sock)
      BY <1>2, <2>1 DEF ServerInv, Holders, IsOpen
    <3>2. CASE clients[c].sock # n
      BY <1>1, <1>5, <3>1, <3>2
    <3>3. CASE clients[c].sock = n
      BY <1>1, <1>2, <1>3, <3>3 DEF IsOpen
    <3> QED BY <3>2, <3>3
  <2>2. listenSocket # NoSd => rsock'[listenSocket].st = "listening"
    BY <1>3 DEF ServerInv, Holders
  <2>3. phase = "begin" /\ soc # NoSd => rsock'[soc].st \in {"fresh", "listening"}
    BY <1>3 DEF ServerInv, Holders
  <2>4. \A c \in Slots : clients'[c].sock # NoSd =>
          IsOpen(clients[c].sock)' \/ Closing(clients[c].sock)'
    BY <1>1, <2>1
  <2>5. OneOwner'
    BY <1>1 DEF ServerInv, Holders, OneOwner
  <2> QED BY <1>1, <2>2, <2>3, <2>4, <2>5 DEF ServerInv, Holders
<1>7. Bytes'
  <2>1. ASSUME NEW c \in Slots, IsOpen(clients[c].sock)'
        PROVE  BytesOf(clients[c])'
    <3>1. clients[c].sock \in Sd
      BY <1>1, <2>1 DEF IsOpen
    <3>2. CASE clients[c].sock = n
      BY <1>1, <1>3, <2>1, <3>2 DEF IsOpen
    <3>3. CASE clients[c].sock # n
      <4>1. IsOpen(clients[c].sock) /\ rsock'[clients[c].sock] = rsock[clients[c].sock]
        BY <1>1, <1>3, <1>5, <2>1, <3>1, <3>3
      <4>2. BytesOf(clients[c]) /\ ~Receiving(clients[c].sock)
        BY <1>2, <4>1 DEF ServerInv, Bytes
      <4> QED BY <1>1, <4>1, <4>2 DEF BytesOf, Left
    <3> QED BY <3>2, <3>3
  <2>2. /\ handed' \in [Connections -> 0 .. MaxBytes]
        /\ \A c \in Connections : c > nconn' - pending' => handed'[c] = 0
    BY <1>1 DEF ServerInv, Bytes
  <2> QED BY <2>1, <2>2 DEF Bytes
<1>8. ASSUME NEW x \in LostSoon' PROVE x \in LostSoon
  <2>1. x \in Sd /\ rsock'[x].st # "free" /\ Unheld(x)
        /\ (call.op \in {"socket", "accept"} => m.val # x)
    BY <1>4, <1>8
  <2>2. rsock[x].st # "free"
    BY <1>3, <2>1
  <2> QED BY <2>1, <2>2, InLostSoon DEF ServerInv
<1>9. faults \in Nat /\ LostSoon' \subseteq LostSoon
  BY <1>8, SocketAssumption DEF ServerInv, Counts, SocketAssumption
<1>10. Cardinality(LostSoon') <= faults'
  BY <1>9, LostSoonShrinks DEF ServerInv, Counts
<1>11. Counts'
  BY <1>1, <1>10 DEF ServerInv, Counts
<1> QED BY <1>4, <1>6, <1>7, <1>11 DEF ServerInv

LEMMA RecordsAre ==
    /\ Free \in Record /\ Free.st = "free" /\ ~Free.fin
    /\ Opened \in Record /\ Opened.st = "fresh" /\ ~Opened.fin
    /\ \A c \in 0 .. MaxConns :
          /\ Accepted(c) \in Record /\ Accepted(c).st = "open" /\ Accepted(c).conn = c
          /\ Accepted(c).taken = 0 /\ Accepted(c).sent = 0 /\ ~Accepted(c).fin
    /\ Free.taken = 0 /\ Free.sent = 0 /\ Opened.taken = 0 /\ Opened.sent = 0
<1>1. 0 \in 0 .. MaxConns /\ 0 \in 0 .. MaxBytes
  BY SocketAssumption DEF SocketAssumption
<1>2. Free \in Record
  BY <1>1 DEF Free, Record
<1> QED BY <1>1, <1>2 DEF Free, Opened, Accepted, Record

\* A socket that is not open before and after leaves the connections alone.
LEMMA ClosedSocketChanges ==
    ASSUME ServerInv, NEW n \in Sd, NEW r \in Record, rsock' = [rsock EXCEPT ![n] = r],
           r.st # "open", ~r.fin, r.taken <= r.sent, r.sent <= nbytes,
           UNCHANGED <<nconn, pending, nbytes>>
    PROVE  Sockets'
<1>1. rsock \in [Sd -> Record]
  BY DEF ServerInv, Sockets
<1>2. rsock'[n] = r /\ \A x \in Sd : x # n => rsock'[x] = rsock[x]
  BY <1>1
<1>3. rsock' \in [Sd -> Record]
  BY <1>1
<1>4. \A x \in Sd : /\ IsOpen(x)' => x # n /\ IsOpen(x) /\ rsock'[x] = rsock[x]
                    /\ rsock'[x].fin => x # n /\ rsock[x].fin /\ rsock'[x] = rsock[x]
  BY <1>2 DEF IsOpen
<1>5. \A x \in Sd : rsock'[x].fin => IsOpen(x)'
  BY <1>4 DEF ServerInv, Sockets, IsOpen
<1>6. \A x \in Sd : rsock'[x].taken <= rsock'[x].sent /\ rsock'[x].sent <= nbytes
  BY <1>2 DEF ServerInv, Sockets
<1>7. \A x \in Sd : IsOpen(x)' => rsock'[x].conn \in 1 .. (nconn - pending)
  BY <1>4 DEF ServerInv, Sockets
<1>8. \A x, y \in Sd : IsOpen(x)' /\ IsOpen(y)' /\ rsock'[x].conn = rsock'[y].conn => x = y
  BY <1>4 DEF ServerInv, Sockets
<1> QED BY <1>3, <1>5, <1>6, <1>7, <1>8 DEF ServerInv, Sockets

\* The radio gives a new socket any of its free numbers.
LEMMA SocketKeeps ==
    ASSUME ServerInv, call.op = "socket", ~call.done, UNCHANGED progVars, UNCHANGED faults,
           NEW n \in FreeSds,
           RadioAnswers(Gives(n, <<>>, [rsock EXCEPT ![n] = Opened], pending))
    PROVE  ServerInv'
<1>1. n \in Sd /\ rsock[n].st = "free" /\ n # -1 /\ n \in Int
  BY NumbersAre DEF FreeSds
<1>2. PICK o : o = Gives(n, <<>>, [rsock EXCEPT ![n] = Opened], pending)
  OBVIOUS
<1>3. o.val = n /\ o.data = <<>> /\ o.rsock = [rsock EXCEPT ![n] = Opened] /\ o.pending = pending
  BY <1>2 DEF Gives
<1>4. PICK m : m = MessageOf(o)
  OBVIOUS
<1>5. /\ Answering(m) /\ rsock' = [rsock EXCEPT ![n] = Opened] /\ pending' = pending
      /\ m.val = n /\ m.data = <<>>
  <2>1. call # NoCall /\ <<>> \in Seq(Connections \X Nat)
    BY EmptySeq DEF NoCall
  <2> QED BY <1>1, <1>2, <1>3, <1>4, <2>1, RadioAnswering
<1>6. UNCHANGED <<nconn, pending, nbytes>>
  BY <1>5 DEF Answering
<1>7. rsock \in [Sd -> Record] /\ nbytes \in Nat
  BY DEF ServerInv, Sockets
<1>8. Sockets'
  <2>1. Opened.taken <= Opened.sent /\ Opened.sent <= nbytes
    BY <1>7, RecordsAre
  <2> QED BY <1>1, <1>5, <1>6, <2>1, RecordsAre, ClosedSocketChanges
<1>9. call'.op = "socket" /\ rsock'[n] = Opened
  BY <1>1, <1>5, <1>7, AnsweringFacts
<1>10. Fits(m)'
  <2>1. Len(m.data) = 0 /\ BufSize \in Nat
    BY <1>5, SocketAssumption DEF SocketAssumption
  <2> QED BY <1>1, <1>5, <1>9, <2>1, RecordsAre DEF Fits
<1>11. phase = "begin" /\ soc = NoSd /\ listenSocket = NoSd
  <2>1. phase = "begin" /\ i = 2
    BY CallOwners, BeginCallsAre
  <2> QED BY <2>1 DEF ServerInv, Control
<1>12. \A c \in Slots : clients[c].sock # n
  BY <1>1, NumbersAre DEF ServerInv, Holders, IsOpen, Closing
<1>13. ~rsock[n].fin
  BY <1>1 DEF ServerInv, Sockets, IsOpen
<1> QED BY <1>1, <1>5, <1>6, <1>8, <1>10, <1>11, <1>12, <1>13, NumbersAre, ChangeKeeps

\* The socket of begin becomes the listener.
LEMMA ListenKeeps ==
    ASSUME ServerInv, call.op = "listen", ~call.done, UNCHANGED progVars, UNCHANGED faults,
           NEW n, n = call.sd,
           RadioAnswers(Gives(0, <<>>, [rsock EXCEPT ![n].st = "listening"], pending))
    PROVE  ServerInv'
<1>1. phase = "begin" /\ i \in 1 .. 5 /\ call.sd = soc /\ i > 2
  BY CallOwners, BeginCallsAre
<1>2. /\ n \in Sd /\ n = soc /\ n # NoSd /\ listenSocket = NoSd
      /\ rsock[n].st \in {"fresh", "listening"}
  BY <1>1, NumbersAre DEF ServerInv, Control, Holders
<1>3. PICK o : o = Gives(0, <<>>, [rsock EXCEPT ![n].st = "listening"], pending)
  OBVIOUS
<1>4. o.val = 0 /\ o.data = <<>> /\ o.rsock = [rsock EXCEPT ![n].st = "listening"]
      /\ o.pending = pending
  BY <1>3 DEF Gives
<1>5. PICK m : m = MessageOf(o)
  OBVIOUS
<1>6. /\ Answering(m) /\ rsock' = [rsock EXCEPT ![n].st = "listening"] /\ pending' = pending
      /\ m.val = 0 /\ m.data = <<>>
  <2>1. call # NoCall /\ <<>> \in Seq(Connections \X Nat)
    BY EmptySeq DEF NoCall
  <2>2. RadioAnswers(o)
    BY <1>3
  <2>3. o.val \in Int
    BY <1>4
  <2> QED BY <1>4, <1>5, <2>1, <2>2, <2>3, RadioAnswering
<1>7. rsock \in [Sd -> Record] /\ rsock[n] \in Record
  BY <1>2 DEF ServerInv, Sockets
<1>8. PICK r : r = [rsock[n] EXCEPT !.st = "listening"]
  OBVIOUS
<1>9. /\ r \in Record /\ r.st = "listening" /\ r.fin = rsock[n].fin
      /\ r.taken = rsock[n].taken /\ r.sent = rsock[n].sent
  BY <1>7, <1>8 DEF Record
<1>10. rsock' = [rsock EXCEPT ![n] = r]
  BY <1>2, <1>6, <1>7, <1>8
<1>11. ~rsock[n].fin
  BY <1>2 DEF ServerInv, Sockets, IsOpen
<1>12. UNCHANGED <<nconn, pending, nbytes>>
  BY <1>6 DEF Answering
<1>13. Sockets'
  <2>1. r.taken <= r.sent /\ r.sent <= nbytes
    BY <1>2, <1>9 DEF ServerInv, Sockets
  <2> QED BY <1>2, <1>9, <1>10, <1>11, <1>12, <2>1, ClosedSocketChanges
<1>14. call'.op = "listen" /\ call'.sd = n /\ rsock'[n] = r
  BY <1>1, <1>2, <1>6, <1>7, <1>10, AnsweringFacts
<1>15. Fits(m)'
  <2>1. Len(m.data) = 0 /\ BufSize \in Nat
    BY <1>6, SocketAssumption DEF SocketAssumption
  <2> QED BY <1>6, <1>9, <1>14, <2>1 DEF Fits
<1>16. \A c \in Slots : clients[c].sock # n
  BY <1>2, NumbersAre DEF ServerInv, Holders, IsOpen, Closing
<1>17. m.val # -1 /\ rsock[n].st # "free" /\ Answering(m)
  BY <1>2, <1>6
<1> QED BY <1>2, <1>9, <1>10, <1>11, <1>12, <1>13, <1>15, <1>16, <1>17, ChangeKeeps

\* The socket of a client is closed.
LEMMA CloseKeeps ==
    ASSUME ServerInv, call.op = "closesocket", ~call.done, UNCHANGED progVars, UNCHANGED faults,
           NEW n, n = call.sd,
           RadioAnswers(Gives(0, <<>>, [rsock EXCEPT ![n] = Free], pending))
    PROVE  ServerInv'
<1>1. n = call.sd
  OBVIOUS
<1>2. /\ n \in Sd /\ n = Sock /\ IsOpen(n) /\ n # listenSocket /\ phase # "begin"
      /\ \A c \in Slots \ {Cur} : clients[c].sock # n
  BY <1>1, SockIsOpen
<1>3. PICK o : o = Gives(0, <<>>, [rsock EXCEPT ![n] = Free], pending)
  OBVIOUS
<1>4. o.val = 0 /\ o.data = <<>> /\ o.rsock = [rsock EXCEPT ![n] = Free] /\ o.pending = pending
  BY <1>3 DEF Gives
<1>5. PICK m : m = MessageOf(o)
  OBVIOUS
<1>6. /\ Answering(m) /\ rsock' = [rsock EXCEPT ![n] = Free] /\ pending' = pending
      /\ m.val = 0 /\ m.data = <<>>
  <2>1. call # NoCall /\ <<>> \in Seq(Connections \X Nat)
    BY EmptySeq DEF NoCall
  <2>2. RadioAnswers(o)
    BY <1>3
  <2>3. o.val \in Int
    BY <1>4
  <2> QED BY <1>4, <1>5, <2>1, <2>2, <2>3, RadioAnswering
<1>7. rsock \in [Sd -> Record] /\ nbytes \in Nat
  BY DEF ServerInv, Sockets
<1>8. UNCHANGED <<nconn, pending, nbytes>>
  BY <1>6 DEF Answering
<1>9. Sockets'
  <2>1. Free.taken <= Free.sent /\ Free.sent <= nbytes
    BY <1>7, RecordsAre
  <2> QED BY <1>2, <1>6, <1>8, <2>1, RecordsAre, ClosedSocketChanges
<1>10. call'.op = "closesocket" /\ call'.sd = n /\ rsock'[n] = Free
  BY <1>1, <1>2, <1>6, <1>7, AnsweringFacts
<1>11. Fits(m)'
  <2>1. Len(m.data) = 0 /\ BufSize \in Nat
    BY <1>6, SocketAssumption DEF SocketAssumption
  <2> QED BY <1>6, <1>10, <2>1, RecordsAre DEF Fits
<1>12. m.val # -1 /\ rsock[n].st # "free"
  BY <1>2, <1>6 DEF IsOpen
<1> QED BY <1>1, <1>2, <1>6, <1>8, <1>9, <1>11, <1>12, RecordsAre, ChangeKeeps

\* The oldest connection nobody has accepted gets a socket.
LEMMA AcceptedKeeps ==
    ASSUME ServerInv, call.op = "accept", ~call.done, UNCHANGED progVars, UNCHANGED faults,
           pending # 0, NEW n \in NextSd,
           RadioAnswers(Gives(n, <<>>, [rsock EXCEPT ![n] = Accepted(nconn - pending + 1)],
                              pending - 1))
    PROVE  ServerInv'
<1>1. n \in Sd /\ rsock[n].st = "free" /\ n # -1 /\ n \in Int
  BY NumbersAre DEF NextSd, FreeSds
<1>2. PICK a, p \in Nat : a = nconn /\ p = pending /\ p <= a /\ a <= MaxConns /\ p >= 1
  BY SocketAssumption DEF ServerInv, Sockets, SocketAssumption
<1>3. PICK k : k = a - p + 1
  OBVIOUS
<1>4. /\ k \in 0 .. MaxConns /\ k \in Connections /\ k > a - p
      /\ p - 1 \in 0 .. a /\ a - (p - 1) = k /\ k \in 1 .. k
      /\ \A x \in 1 .. (a - p) : x \in 1 .. k /\ x # k
      /\ \A x \in Connections : x > k => x > a - p
  BY <1>2, <1>3, SocketAssumption DEF Connections, SocketAssumption
<1>5. PICK r : r = Accepted(k)
  OBVIOUS
<1>6. r \in Record /\ r.st = "open" /\ r.conn = k /\ r.taken = 0 /\ r.sent = 0 /\ ~r.fin
  BY <1>4, <1>5, RecordsAre
<1>7. PICK o : o = Gives(n, <<>>, [rsock EXCEPT ![n] = r], p - 1)
  OBVIOUS
<1>8. o.val = n /\ o.data = <<>> /\ o.rsock = [rsock EXCEPT ![n] = r] /\ o.pending = p - 1
  BY <1>7 DEF Gives
<1>9. PICK m : m = MessageOf(o)
  OBVIOUS
<1>10. /\ Answering(m) /\ rsock' = [rsock EXCEPT ![n] = r] /\ pending' = p - 1
       /\ m.val = n /\ m.data = <<>>
  <2>1. call # NoCall /\ <<>> \in Seq(Connections \X Nat)
    BY EmptySeq DEF NoCall
  <2>2. RadioAnswers(o)
    BY <1>2, <1>3, <1>5, <1>7
  <2>3. o.val \in Int
    BY <1>1, <1>8
  <2> QED BY <1>8, <1>9, <2>1, <2>2, <2>3, RadioAnswering
<1>11. UNCHANGED <<nconn, nbytes>>
  BY <1>10 DEF Answering
<1>12. rsock \in [Sd -> Record] /\ nbytes \in Nat
  BY DEF ServerInv, Sockets
<1>13. rsock'[n] = r /\ \A x \in Sd : x # n => rsock'[x] = rsock[x]
  BY <1>1, <1>10, <1>12
<1>14. \A x \in Sd : IsOpen(x)' <=> x = n \/ IsOpen(x)
  BY <1>6, <1>13 DEF IsOpen
<1>15. ~IsOpen(n) /\ ~rsock[n].fin
  BY <1>1 DEF ServerInv, Sockets, IsOpen
<1>16. \A x \in Sd : IsOpen(x) => rsock[x].conn \in 1 .. (a - p)
  BY <1>2 DEF ServerInv, Sockets
<1>17. Sockets'
  <2>1. rsock' \in [Sd -> Record]
    BY <1>6, <1>10, <1>12
  <2>2. ASSUME NEW x \in Sd
        PROVE  /\ rsock'[x].taken <= rsock'[x].sent /\ rsock'[x].sent <= nbytes'
               /\ rsock'[x].fin => IsOpen(x)'
    BY <1>6, <1>11, <1>12, <1>13, <1>14 DEF ServerInv, Sockets
  <2>3. ASSUME NEW x \in Sd, IsOpen(x)'
        PROVE  rsock'[x].conn \in 1 .. k
    BY <1>4, <1>6, <1>13, <1>14, <1>16, <2>3
  <2>4. ASSUME NEW x \in Sd, NEW y \in Sd, IsOpen(x)', IsOpen(y)',
               rsock'[x].conn = rsock'[y].conn
        PROVE  x = y
    <3>1. CASE x # n /\ y # n
      <4>1. IsOpen(x) /\ IsOpen(y) /\ rsock[x].conn = rsock[y].conn
        BY <1>13, <1>14, <2>4, <3>1
      <4> QED BY <4>1 DEF ServerInv, Sockets
    <3>2. CASE x = n /\ y # n
      BY <1>4, <1>6, <1>13, <1>14, <1>16, <2>4, <3>2
    <3>3. CASE x # n /\ y = n
      BY <1>4, <1>6, <1>13, <1>14, <1>16, <2>4, <3>3
    <3> QED BY <3>1, <3>2, <3>3
  <2>5. pending' \in 0 .. nconn' /\ nconn' - pending' = k
    BY <1>2, <1>4, <1>10, <1>11
  <2> QED BY <1>11, <2>1, <2>2, <2>3, <2>4, <2>5 DEF ServerInv, Sockets
<1>18. /\ step = "accepting" /\ phase # "begin" /\ n # listenSocket
       /\ \A c \in Slots : clients[c].sock # n
  <2>1. step = "accepting" /\ phase # "begin"
    BY CallOwners DEF ServerInv, Control
  <2>2. n # listenSocket /\ \A c \in Slots : clients[c].sock # n
    BY <1>1, <1>15, NumbersAre DEF ServerInv, Holders, IsOpen, Closing
  <2> QED BY <2>1, <2>2
<1>19. /\ UNCHANGED <<clients, listenSocket, handed>> /\ call'.op = "accept"
  BY <1>10, AnsweringFacts
<1>20. Fits(m)'
  <2>1. Len(m.data) = 0 /\ BufSize \in Nat
    BY <1>10, SocketAssumption DEF SocketAssumption
  <2>2. handed[k] = 0
    BY <1>2, <1>4 DEF ServerInv, Bytes
  <2>3. IsOpen(n)' /\ rsock'[n].taken = 0 /\ handed'[rsock'[n].conn] = 0
    BY <1>1, <1>6, <1>13, <1>14, <1>19, <2>2
  <2> QED BY <1>10, <1>18, <1>19, <2>1, <2>3 DEF Fits
<1>21. \A c \in Connections : c > nconn' - pending' => c > nconn - pending
  BY <1>2, <1>4, <1>10, <1>11
<1>22. Answering(m) /\ m.val = n /\ m.val # -1
  BY <1>1, <1>10
<1> QED BY <1>1, <1>10, <1>15, <1>17, <1>18, <1>20, <1>21, <1>22, ChangeKeeps

\* The radio gives the next k bytes of a connection.
LEMMA RecvKeeps ==
    ASSUME ServerInv, call.op = "recv", ~call.done, UNCHANGED progVars, UNCHANGED faults,
           NEW n, n = call.sd, NEW k \in Nat, k >= 1, k <= Len(Unread(n)), k <= BufSize,
           RadioAnswers(Gives(k, SubSeq(Unread(n), 1, k), [rsock EXCEPT ![n].taken = @ + k],
                              pending))
    PROVE  ServerInv'
<1>1. /\ n \in Sd /\ n = Sock /\ IsOpen(n) /\ n # listenSocket /\ phase # "begin"
      /\ \A c \in Slots \ {Cur} : clients[c].sock # n
      /\ Cur \in Slots /\ clients[Cur].sock = n /\ clients[Cur] \in Client
      /\ rsock[n] \in Record /\ rsock[n].conn \in Connections
  BY SockIsOpen
<1>2. PICK t, s, b \in Nat : /\ t = rsock[n].taken /\ s = rsock[n].sent /\ b = nbytes
                             /\ t <= s /\ s <= b /\ b <= MaxBytes
  BY <1>1, SocketAssumption DEF ServerInv, Sockets, Record, SocketAssumption
<1>3. PICK q : q = rsock[n].conn
  OBVIOUS
<1>4. PICK u : u = Unread(n)
  OBVIOUS
<1>5. /\ u \in Seq(Connections \X Nat) /\ Len(u) = s - t
      /\ \A j \in 1 .. (s - t) : u[j] = <<q, t + j>>
  BY <1>1, <1>2, <1>3, <1>4, UnreadIs, SMTT(15)
<1>6. PICK d : d = SubSeq(u, 1, k)
  OBVIOUS
<1>7. k <= s - t /\ \A j \in 1 .. k : j \in 1 .. (s - t) /\ 1 + j - 1 = j
  BY <1>2, <1>4, <1>5
<1>8. /\ d \in Seq(Connections \X Nat) /\ Len(d) = k
      /\ \A j \in 1 .. k : d[j] = u[j]
  <2>1. \A j \in 1 .. k : u[j] \in Connections \X Nat
    BY <1>5, <1>7, ElementOfSeq
  <2>2. /\ d \in Seq(Connections \X Nat) /\ Len(d) = (IF 1 <= k THEN k - 1 + 1 ELSE 0)
        /\ \A j \in 1 .. (k - 1 + 1) : d[j] = u[1 + j - 1]
    BY <1>6, <2>1, SubSeqProperties, SMTT(15)
  <2>3. k - 1 + 1 = k
    OBVIOUS
  <2> QED BY <1>7, <2>2, <2>3
<1>9. PICK x : x = t + k
  OBVIOUS
<1>10. PICK r : r = [rsock[n] EXCEPT !.taken = x]
  OBVIOUS
<1>11. x \in 0 .. MaxBytes /\ x <= s
  <2>1. PICK M \in Nat : M = MaxBytes
    BY SocketAssumption DEF SocketAssumption
  <2>2. k <= s - t /\ s <= b /\ b <= M
    BY <1>2, <1>7, <2>1
  <2>3. t + k <= s /\ t + k \in 0 .. M
    BY <2>2
  <2> QED BY <1>9, <2>1, <2>3
<1>12. /\ r \in Record /\ r.st = "open" /\ r.conn = q /\ r.fin = rsock[n].fin
       /\ r.taken = x /\ r.sent = s
  BY <1>1, <1>2, <1>3, <1>10, <1>11 DEF Record, IsOpen
<1>13. rsock \in [Sd -> Record]
  BY DEF ServerInv, Sockets
<1>14. [rsock EXCEPT ![n].taken = @ + k] = [rsock EXCEPT ![n] = r]
  BY <1>1, <1>2, <1>9, <1>10, <1>13
<1>15. PICK o : o = Gives(k, d, [rsock EXCEPT ![n].taken = @ + k], pending)
  OBVIOUS
<1>16. o.val = k /\ o.data = d /\ o.rsock = [rsock EXCEPT ![n] = r] /\ o.pending = pending
  BY <1>14, <1>15 DEF Gives
<1>17. PICK m : m = MessageOf(o)
  OBVIOUS
<1>18. /\ Answering(m) /\ rsock' = [rsock EXCEPT ![n] = r] /\ pending' = pending
       /\ m.val = k /\ m.data = d
  <2>1. call # NoCall
    BY DEF NoCall
  <2>2. RadioAnswers(o)
    BY <1>4, <1>6, <1>15
  <2>3. o.val \in Int
    BY <1>16
  <2> QED BY <1>8, <1>16, <1>17, <2>1, <2>2, <2>3, RadioAnswering
<1>19. UNCHANGED <<nconn, pending, nbytes>>
  BY <1>18 DEF Answering
<1>20. rsock'[n] = r /\ \A y \in Sd : y # n => rsock'[y] = rsock[y]
  BY <1>1, <1>13, <1>18
<1>21. \A y \in Sd : (IsOpen(y)' <=> IsOpen(y)) /\ rsock'[y].conn = rsock[y].conn
                     /\ rsock'[y].fin = rsock[y].fin
  BY <1>1, <1>3, <1>12, <1>20 DEF IsOpen
<1>22. Sockets'
  <2>1. rsock' \in [Sd -> Record]
    BY <1>12, <1>13, <1>18
  <2>2. ASSUME NEW y \in Sd
        PROVE  rsock'[y].taken <= rsock'[y].sent /\ rsock'[y].sent <= nbytes'
    <3>1. CASE y = n
      BY <1>2, <1>11, <1>12, <1>19, <1>20, <3>1
    <3>2. CASE y # n
      BY <1>19, <1>20, <3>2 DEF ServerInv, Sockets
    <3> QED BY <3>1, <3>2
  <2> QED BY <1>19, <1>21, <2>1, <2>2 DEF ServerInv, Sockets
<1>23. /\ UNCHANGED <<clients, listenSocket, handed>> /\ call'.op = "recv" /\ call'.sd = n
       /\ Receiving(n)'
  BY <1>18, AnsweringFacts
<1>24. handed[q] \in Nat /\ handed[q] = t /\ ~(clients[Cur].idx < Len(clients[Cur].buf))
  BY <1>1, <1>2, <1>3, AllHanded
<1>25. Fits(m)'
  <2>1. Len(m.data) <= BufSize /\ m.val # ERROR_SOCKET_INACTIVE /\ Len(m.data) = k
    BY <1>8, <1>18 DEF ERROR_SOCKET_INACTIVE
  <2>2. \A j \in 1 .. k : m.data[j] = <<q, t + j>>
    BY <1>5, <1>7, <1>8, <1>18
  <2>3. handed'[q] = t /\ t + k = rsock'[n].taken /\ rsock'[n].conn = q
    BY <1>9, <1>12, <1>20, <1>23, <1>24
  <2> QED BY <1>23, <2>1, <2>2, <2>3 DEF Fits
<1>26. BytesOf(clients[Cur])'
  <2>1. clients'[Cur'] = clients[Cur]
    BY <1>23, ProgKept
  <2>2. Len(clients[Cur].buf) \in Nat /\ clients[Cur].idx \in Nat
    BY <1>1, LenProperties DEF Client
  <2>3. \A j \in 1 .. Len(clients[Cur].buf) : ~(j > clients[Cur].idx)
    BY <1>24, <2>2
  <2> QED BY <1>1, <1>23, <2>1, <2>3 DEF BytesOf
<1>27. \A c \in Slots : clients[c].sock = n => BytesOf(clients[c])'
  <2>1. ASSUME NEW c \in Slots, clients[c].sock = n PROVE BytesOf(clients[c])'
    <3>1. c = Cur
      BY <1>1, <2>1
    <3>2. Cur' = Cur
      BY ProgKept
    <3> QED BY <1>23, <1>26, <3>1, <3>2
  <2> QED BY <2>1
<1>28. Answering(m) /\ m.val # -1 /\ rsock[n].st # "free"
  BY <1>1, <1>18 DEF IsOpen
<1> QED BY <1>1, <1>12, <1>18, <1>19, <1>22, <1>25, <1>27, <1>28, ChangeKeeps

LEMMA ExecuteKeeps ==
    ASSUME ServerInv, UNCHANGED progVars, RadioExecutes
    PROVE  ServerInv'
<1>1. PICK o \in Outcomes(call.op, call.sd) : RadioAnswers(o)
  BY DEF RadioExecutes
<1>2. PICK n : n = call.sd
  OBVIOUS
<1>3. call # NoCall /\ ~call.done /\ UNCHANGED faults
  BY DEF RadioExecutes
<1>4. call.op \in Ops /\ call.op # "none"
  BY <1>3, CallOwners DEF ServerInv, Waits, Calls
<1>5. ended \in {0, 1} /\ ended \in Int /\ -1 \in Int /\ SOC_IN_PROGRESS \in Int
      /\ ERROR_SOCKET_INACTIVE \in Int
  BY DEF ServerInv, Counts, SOC_IN_PROGRESS, ERROR_SOCKET_INACTIVE
<1>6. CASE call.op \in {"timeouts", "setsockopt", "bind"}
  <2>1. o = Says(0)
    BY <1>1, <1>6 DEF Outcomes
  <2> QED BY <1>1, <1>3, <1>6, <2>1, AskedKeeps
<1>7. CASE call.op = "socket"
  <2>1. PICK m \in FreeSds : o = Gives(m, <<>>, [rsock EXCEPT ![m] = Opened], pending)
    BY <1>1, <1>7 DEF Outcomes
  <2> QED BY <1>1, <1>3, <1>7, <2>1, SocketKeeps
<1>8. CASE call.op = "listen"
  <2>1. o = Gives(0, <<>>, [rsock EXCEPT ![n].st = "listening"], pending)
    BY <1>1, <1>2, <1>8 DEF Outcomes
  <2> QED BY <1>1, <1>2, <1>3, <1>8, <2>1, ListenKeeps
<1>9. CASE call.op = "accept"
  <2>1. \/ \E v \in {-1, SOC_IN_PROGRESS} : o = Says(v)
        \/ /\ pending # 0
           /\ \E m \in NextSd :
                 o = Gives(m, <<>>, [rsock EXCEPT ![m] = Accepted(nconn - pending + 1)],
                           pending - 1)
    BY <1>1, <1>9 DEF Outcomes
  <2>2. ASSUME NEW v \in {-1, SOC_IN_PROGRESS}, o = Says(v) PROVE ServerInv'
    BY <1>1, <1>3, <1>5, <1>9, <2>2, AskedKeeps
  <2>3. ASSUME pending # 0, NEW m \in NextSd,
               o = Gives(m, <<>>, [rsock EXCEPT ![m] = Accepted(nconn - pending + 1)],
                         pending - 1)
        PROVE  ServerInv'
    BY <1>1, <1>3, <1>9, <2>3, AcceptedKeeps
  <2> QED BY <2>1, <2>2, <2>3
<1>10. CASE call.op \in {"select", "send"}
  <2>1. \E v \in {0, 1, ended, ERROR_SOCKET_INACTIVE} : o = Says(v)
    BY <1>1, <1>10 DEF Outcomes
  <2>2. PICK v \in Int : o = Says(v)
    BY <1>5, <2>1
  <2> QED BY <1>1, <1>3, <1>10, <2>2, AskedKeeps
<1>11. CASE call.op = "recv"
  <2>1. PICK k : k = IF Len(Unread(n)) < BufSize THEN Len(Unread(n)) ELSE BufSize
    OBVIOUS
  <2>2. \/ \E v \in {-1, ERROR_SOCKET_INACTIVE} : o = Says(v)
        \/ /\ k # 0
           /\ o = Gives(k, SubSeq(Unread(n), 1, k), [rsock EXCEPT ![n].taken = @ + k], pending)
    BY <1>1, <1>2, <1>11, <2>1 DEF Outcomes
  <2>3. Len(Unread(n)) \in Nat /\ BufSize \in Nat
    <3>1. /\ n \in Sd /\ rsock[n] \in Record /\ rsock[n].conn \in Connections
      BY <1>2, <1>3, <1>11, SockIsOpen
    <3>2. PICK t, s \in Nat : t = rsock[n].taken /\ s = rsock[n].sent /\ t <= s
      BY <3>1 DEF ServerInv, Sockets, Record
    <3>3. Len(Unread(n)) = s - t
      BY <3>1, <3>2, UnreadIs
    <3> QED BY <3>2, <3>3, SocketAssumption DEF SocketAssumption
  <2>4. k \in Nat /\ k <= Len(Unread(n)) /\ k <= BufSize
    BY <2>1, <2>3
  <2>5. ASSUME NEW v \in {-1, ERROR_SOCKET_INACTIVE}, o = Says(v) PROVE ServerInv'
    BY <1>1, <1>3, <1>5, <1>11, <2>5, AskedKeeps
  <2>6. ASSUME k # 0,
               o = Gives(k, SubSeq(Unread(n), 1, k), [rsock EXCEPT ![n].taken = @ + k], pending)
        PROVE  ServerInv'
    <3>1. k >= 1
      BY <2>4, <2>6
    <3> QED BY <1>1, <1>2, <1>3, <1>11, <2>4, <2>6, <3>1, RecvKeeps
  <2> QED BY <2>2, <2>5, <2>6
<1>12. CASE call.op = "closesocket"
  <2>1. o = Gives(0, <<>>, [rsock EXCEPT ![n] = Free], pending)
    BY <1>1, <1>2, <1>12 DEF Outcomes
  <2> QED BY <1>1, <1>2, <1>3, <1>12, <2>1, CloseKeeps
<1> QED BY <1>4, <1>6, <1>7, <1>8, <1>9, <1>10, <1>11, <1>12 DEF Ops

LEMMA EnvironmentKeeps == ServerInv /\ Environment /\ UNCHANGED progVars => ServerInv'
BY PeerConnectsKeeps, ConnectionKeeps, ExecuteKeeps, RefusalKeeps, CallbackKeeps, SendLostKeeps
DEF Environment, Interrupt

-----------------------------------------------------------------------------
(* The theorems.                                                           *)

LEMMA InitEstablishes == ServerInit => ServerInv
<1> SUFFICES ASSUME ServerInit PROVE ServerInv
  OBVIOUS
<1>1. /\ rsock = [n \in Sd |-> Free] /\ pending = 0 /\ nconn = 0 /\ nbytes = 0
      /\ ended \in {0, 1} /\ faults = 0 /\ toHost = <<>> /\ call = NoCall
      /\ closed_sockets = [n \in Sd |-> FALSE] /\ inactive = 0 .. 7 /\ txError = FALSE
      /\ clients = [c \in Slots |-> Unused] /\ listenSocket = NoSd /\ soc = NoSd
      /\ phase = "begin" /\ i = 1 /\ step = "call" /\ picked = 1
      /\ handed = [c \in Connections |-> 0] /\ stale = {}
  BY DEF ServerInit, ApiInit
<1>2. /\ MaxConns \in Nat /\ MaxBytes \in Nat /\ MaxFaults \in Nat /\ BufSize \in Nat
      /\ 0 \in 0 .. MaxBytes /\ 0 \in 0 .. MaxConns /\ 0 \in 0 .. MaxFaults /\ 0 \in 0 .. BufSize
  BY SocketAssumption DEF SocketAssumption
<1>3. Control
  BY <1>1, SlotFacts DEF Control, Steps, Idle, WithSocket
<1>4. Waits
  BY <1>1, CallTypes DEF Waits, Idle
<1>5. Sockets
  BY <1>1, <1>2, RecordsAre DEF Sockets, IsOpen
<1>6. Unused \in Client /\ Unused.sock = NoSd /\ Len(Unused.buf) = 0
  BY <1>2, EmptySeq DEF Unused, Client
<1>7. Holders
  BY <1>1, <1>2, <1>6 DEF Holders, OneOwner
<1>8. toHost \in Seq(Message) /\ Len(toHost) = 0
  BY <1>1, EmptySeq
<1>9. Answers /\ Events
  BY <1>8 DEF Answers, Events
<1>10. Flags
  BY <1>1 DEF Flags
<1>11. Bytes
  BY <1>1, <1>2, RecordsAre DEF Bytes, IsOpen
<1>12. Cardinality(LostSoon) <= faults
  <2>1. \A n \in Sd : rsock[n].st = "free"
    BY <1>1, RecordsAre
  <2>2. LostSoon = {}
    BY <2>1 DEF LostSoon, Lost
  <2> QED BY <1>1, <2>2, FS_EmptySet
<1>13. Counts
  BY <1>1, <1>2, <1>12 DEF Counts
<1> QED BY <1>3, <1>4, <1>5, <1>7, <1>9, <1>10, <1>11, <1>13 DEF ServerInv

LEMMA StutterKeeps == ServerInv /\ UNCHANGED serverVars => ServerInv'
<1> SUFFICES ASSUME ServerInv, UNCHANGED serverVars PROVE ServerInv'
  OBVIOUS
<1>1. /\ UNCHANGED <<rsock, pending, nconn, nbytes, ended, faults, toHost, call,
                     closed_sockets, inactive, txError>>
      /\ UNCHANGED <<clients, listenSocket, soc, phase, i, step, picked, handed, stale>>
  BY DEF serverVars, apiVars, progVars, hist
<1>2. Control' /\ Waits'
  BY <1>1 DEF ServerInv, Control, Waits, Sock, Buffered, Cur
<1>3. Sockets' /\ Holders' /\ Events' /\ Flags' /\ Bytes'
  BY <1>1 DEF ServerInv, Sockets, Holders, Events, Flags, Bytes, IsOpen, Closing, OneOwner,
              BytesOf, Left, Receiving
<1>4. Answers'
  BY <1>1 DEF ServerInv, Answers, Fits, IsOpen
<1>5. LostSoon' = LostSoon
  BY <1>1 DEF LostSoon, Lost, Known, Refused
<1>6. Counts'
  BY <1>1, <1>5 DEF ServerInv, Counts
<1> QED BY <1>2, <1>3, <1>4, <1>6 DEF ServerInv

LEMMA ServerInvariant == ServerSpec => []ServerInv
<1>1. ServerInit => ServerInv
  BY InitEstablishes
<1>2. ServerInv /\ [ServerNext]_serverVars => ServerInv'
  BY ProgramKeeps, EnvironmentKeeps, StutterKeeps DEF ServerNext
<1> QED BY <1>1, <1>2, PTL DEF ServerSpec

\* What the invariant says of the types, and of the sockets nobody knows of.
LEMMA InvariantTypes == ServerInv => ServerTypeOK
<1> SUFFICES ASSUME ServerInv PROVE ServerTypeOK
  OBVIOUS
<1>1. rsock \in [Sd -> Record]
  BY DEF ServerInv, Sockets
<1>2. /\ nbytes \in 0 .. MaxBytes /\ nconn \in 0 .. MaxConns /\ pending \in 0 .. MaxConns
  <2>1. PICK a, p, M \in Nat : a = nconn /\ p = pending /\ M = MaxConns /\ p <= a /\ a <= M
    BY SocketAssumption DEF ServerInv, Sockets, SocketAssumption
  <2>2. p \in 0 .. M
    BY <2>1
  <2> QED BY <2>1, <2>2 DEF ServerInv, Sockets
<1>3. /\ ended \in {0, 1} /\ faults \in 0 .. MaxFaults /\ inactive \subseteq 0 .. 7
      /\ txError \in BOOLEAN /\ closed_sockets \in [Sd -> BOOLEAN] /\ stale \subseteq Sd
      /\ handed \in [Connections -> 0 .. MaxBytes] /\ picked \in Slots
      /\ {listenSocket, soc} \subseteq Sd \cup {NoSd}
  BY DEF ServerInv, Counts, Flags, Bytes, Control, Holders
<1>4. call.sd \in Sd \cup {NoSd}
  BY DEF ServerInv, Waits, Calls
<1>5. \A c \in Slots : /\ clients[c].sock \in Sd \cup {NoSd}
                       /\ Len(clients[c].buf) <= BufSize
                       /\ clients[c].idx \in 0 .. BufSize
  BY DEF ServerInv, Holders, Client
<1> QED BY <1>1, <1>2, <1>3, <1>4, <1>5 DEF ServerTypeOK, Record

LEMMA InvariantLost == ServerInv => FewLost
<1> SUFFICES ASSUME ServerInv PROVE FewLost
  OBVIOUS
<1>1. IsFiniteSet(LostSoon) /\ Lost \subseteq LostSoon
  BY LostSoonIsFinite DEF LostSoon
<1>2. IsFiniteSet(Lost) /\ Cardinality(Lost) <= Cardinality(LostSoon)
  BY <1>1, FS_Subset
<1>3. Cardinality(Lost) \in Nat /\ Cardinality(LostSoon) \in Nat
  BY <1>1, <1>2, FS_CardinalityType
<1>4. Cardinality(LostSoon) <= faults /\ faults \in Nat
  BY SocketAssumption DEF ServerInv, Counts, SocketAssumption
<1> QED BY <1>2, <1>3, <1>4 DEF FewLost

\* The variables of the radio, the driver and the table keep their types:
\* an index never runs past its buffer, nor a buffer past RXBUFFERSIZE.
THEOREM ServerTypeCorrect == ServerSpec => []ServerTypeOK
BY ServerInvariant, InvariantTypes, PTL

\* However connections end and numbers are reused, no socket number belongs
\* to two clients or to a client and the listener, and of the radio's sockets
\* one at most is lost by each refused command.
THEOREM ClientsSoundThm == ServerSpec => []ClientsSound
<1>1. ServerInv => ClientsSound
  BY InvariantTypes, InvariantLost DEF ClientsSound, ServerInv, Holders
<1> QED BY <1>1, ServerInvariant, PTL

\* connected() closes a connection that has ended, or one whose number read()
\* has closed before and left flagged; no other.
LEMMA ClosesForCause ==
    ASSUME ServerInv, [ServerNext]_serverVars, step = "testflag", step' = "closing"
    PROVE  ~Live(Sock) \/ Sock \in stale
<1>1. ~UNCHANGED serverVars
  BY DEF serverVars, progVars
<1>2. ~UNCHANGED progVars
  BY DEF progVars
<1>3. Program
  BY <1>1, <1>2 DEF ServerNext
<1>4. Connected_TestFlag
  BY <1>3
  DEF Program, BeginCall, BeginAnswered, Connected_NoSocket, Connected_Buffered,
      Connected_Select, Connected_Selected, Connected_Closed, AcceptCall, Accept,
      Available_Buffered, Available_Select, Available_Selected, Read_Buffered, Read_Recv,
      Read_Received, Close, Closed, Write_Refused, Write_Send, Write_Sent
<1>5. Control /\ phase # "begin"
  BY DEF ServerInv, Control
<1>6. Sock \in Sd
  BY <1>5, SockIsNumber DEF ServerInv, Holders, WithSocket
<1>7. closed_sockets[Sock]
  <2>1. ASSUME ~closed_sockets[Sock] PROVE step' # "closing"
    <3>1. OnConnected
      BY <1>4, <2>1 DEF Connected_TestFlag
    <3> QED BY <1>5, <3>1, OnConnectedMoves DEF Turns
  <2> QED BY <2>1
<1>8. call = NoCall
  BY DEF ServerInv, Waits, Idle
<1>9. ~Closing(Sock)
  BY <1>8 DEF Closing, NoCall
<1> QED BY <1>6, <1>7, <1>9 DEF ServerInv, Flags, Live

THEOREM ClosedForCauseThm == ServerSpec => ClosedForCause
<1>1. ServerInv /\ [ServerNext]_serverVars
        => [step = "testflag" /\ step' = "closing" => ~Live(Sock) \/ Sock \in stale]_serverVars
  BY ClosesForCause
<1> QED BY <1>1, ServerInvariant, PTL DEF ServerSpec, ClosedForCause

\* A step that counts a byte of a connection hands the program the next byte
\* of that connection, from the client that has it.
LEMMA HandsNextByte ==
    ASSUME ServerInv, [ServerNext]_serverVars, NEW c \in Connections, handed'[c] # handed[c]
    PROVE  /\ clients[Cur].buf[clients[Cur].idx + 1] = <<c, handed[c] + 1>>
           /\ rsock[Sock].conn = c
<1>1. Program
  BY DEF ServerNext, serverVars, progVars, hist
<1>2. Read_Buffered
  BY <1>1
  DEF Program, BeginCall, BeginAnswered, Connected_NoSocket, Connected_Buffered, hist,
      Connected_Select, Connected_Selected, Connected_TestFlag, Connected_Closed, AcceptCall,
      Accept, Available_Buffered, Available_Select, Available_Selected, Read_Recv,
      Read_Received, Close, Closed, Write_Refused, Write_Send, Write_Sent
<1>3. PICK k : k = rsock[Sock].conn
  OBVIOUS
<1>4. /\ k \in Connections
      /\ clients[Cur].buf[clients[Cur].idx + 1] = <<k, handed[k] + 1>>
  BY <1>2, <1>3, NextByte DEF Read_Buffered
<1>5. handed' = [handed EXCEPT ![k] = @ + 1]
  BY <1>2, <1>4 DEF Read_Buffered
<1>6. c = k
  BY <1>5 DEF ServerInv, Bytes
<1> QED BY <1>3, <1>4, <1>6

\* The program reads the bytes of a connection in the order in which they
\* were sent, each once, and as no other connection's.
THEOREM BytesInOrderThm == ServerSpec => BytesInOrder
<1>1. ServerInv /\ [ServerNext]_serverVars
        => [\A c \in Connections : handed'[c] # handed[c] =>
              clients[Cur].buf[clients[Cur].idx + 1] = <<c, handed[c] + 1>>
              /\ rsock[Sock].conn = c]_serverVars
  BY HandsNextByte
<1> QED BY <1>1, ServerInvariant, PTL DEF ServerSpec, BytesInOrder
=============================================================================
