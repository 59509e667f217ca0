----------------------------- MODULE ServerTable -----------------------------
(***************************************************************************)
(* Adafruit_CC3000_Server with its table of clients, driven by the loop of *)
(* the example ChatServer: begin, and then for ever the first client that  *)
(* has something to read is read, one byte, and the byte is written to all *)
(* clients.  A client is Adafruit_CC3000_Client: a socket number and a     *)
(* buffer.  Every call of the radio and every test of closed_sockets is a  *)
(* step of its own.                                                        *)
(***************************************************************************)
EXTENDS SocketApi, FiniteSets

CONSTANT MaxClients     \* MAX_SERVER_CLIENTS
ASSUME ClientAssumption == MaxClients \in Nat \ {0}

VARIABLES
    clients,        \* _clients
    listenSocket,   \* _listenSocket, NoSd for its initial 65535
    soc,            \* the socket begin has opened
    phase,          \* begin; accept, choose: in available(); use: in the
                    \* client it returned; write: in write()
    i,              \* the index the phase has reached
    step,           \* where the program is in the methods of the client
    picked,         \* the client returned by available()
    handed,         \* history: bytes of each connection the program has read
    stale           \* history: numbers closed with their flag still set

hist == <<handed, stale>>
progVars == <<clients, listenSocket, soc, phase, i, step, picked, hist>>
serverVars == <<apiVars, progVars>>

Slots == 1 .. MaxClients
Unused == [sock |-> NoSd, buf |-> <<>>, idx |-> 0]

ServerInit ==
    /\ ApiInit
    /\ clients = [c \in Slots |-> Unused] /\ listenSocket = NoSd /\ soc = NoSd
    /\ phase = "begin" /\ i = 1 /\ step = "call" /\ picked = 1
    /\ handed = [c \in Connections |-> 0] /\ stale = {}

(* The client the methods are called on, and where control goes.            *)
Cur == IF phase = "use" THEN picked ELSE i
Sock == clients[Cur].sock
Buffered == clients[Cur].idx < Len(clients[Cur].buf)
SetClient(cl) == clients' = [clients EXCEPT ![Cur] = cl]

Goto(p, k, s) == phase' = p /\ i' = k /\ step' = s
Step(s) == Goto(phase, i, s)
NextClient ==
    IF phase # "use" /\ i < MaxClients THEN Goto(phase, i + 1, "connected")
    ELSE IF phase = "accept" THEN Goto("choose", 1, "connected")
    ELSE Goto("accept", 1, "connected")

(* Frames: a command goes out; an answer comes in; no traffic.              *)
Radio == UNCHANGED <<rsock, pending, nconn, nbytes, ended, faults>>
Out(op, n) == Command(op, n) /\ Radio /\ UNCHANGED <<toHost, closed_sockets, inactive, txError>>
In(op) == Answered(op) /\ Radio
Table == UNCHANGED <<listenSocket, soc>>

-----------------------------------------------------------------------------
(* begin: the first refusal returns, and what was opened stays open.        *)

BeginCalls == <<"timeouts", "socket", "setsockopt", "bind", "listen">>

BeginCall ==
    /\ phase = "begin" /\ step = "call"
    /\ Out(BeginCalls[i], soc) /\ Step("called")
    /\ UNCHANGED <<clients, listenSocket, soc, picked, hist>>

BeginAnswered ==
    /\ phase = "begin" /\ step = "called" /\ In(BeginCalls[i])
    /\ LET r == Answer.val IN
       /\ IF BeginCalls[i] = "socket"
          THEN inactive' = StatusAfterSocket(r) /\ soc' = (IF r < 0 THEN soc ELSE r)
          ELSE UNCHANGED <<inactive, soc>>
       /\ listenSocket' = IF BeginCalls[i] = "listen" /\ r >= 0 THEN soc ELSE listenSocket
       /\ IF r < 0 \/ i = Len(BeginCalls)
          THEN Goto("accept", 1, "connected") ELSE Goto("begin", i + 1, "call")
    /\ UNCHANGED <<txError, closed_sockets, clients, picked, hist>>

-----------------------------------------------------------------------------
(* connected(): available(), and if that is 0 the flag.  What is done with  *)
(* the result depends on the phase.                                         *)

OnConnected_firstonly ==
    CASE phase = "accept" -> Goto("choose", 1, "connected")
      [] phase = "write"  -> Step("send")
      [] OTHER            -> Step("available")

OnConnected ==
    CASE phase = "accept" -> NextClient
      [] phase = "write"  -> Step("send")
      [] OTHER            -> Step("available")

OnDisconnected == IF phase = "accept" THEN Step("accept") ELSE NextClient

Connected_NoSocket ==
    /\ step = "connected" /\ Sock = NoSd /\ OnDisconnected
    /\ UNCHANGED apiVars /\ Table /\ UNCHANGED <<clients, picked, hist>>

Connected_Buffered ==
    /\ step = "connected" /\ Sock # NoSd /\ Buffered /\ OnConnected
    /\ UNCHANGED apiVars /\ Table /\ UNCHANGED <<clients, picked, hist>>

Connected_Select ==
    /\ step = "connected" /\ Sock # NoSd /\ ~Buffered
    /\ Out("select", Sock) /\ Step("selected")
    /\ Table /\ UNCHANGED <<clients, picked, hist>>

Connected_Selected_noflag ==
    /\ step = "selected" /\ In("select") /\ OnConnected
    /\ Table /\ UNCHANGED <<closed_sockets, inactive, txError, clients, picked, hist>>

Connected_Selected ==
    /\ step = "selected" /\ In("select")
    /\ IF Answer.val = 1 THEN OnConnected ELSE Step("testflag")
    /\ Table /\ UNCHANGED <<closed_sockets, inactive, txError, clients, picked, hist>>

Connected_TestFlag ==
    /\ step = "testflag"
    /\ IF closed_sockets[Sock]
       THEN Out("closesocket", Sock) /\ Step("closing")
       ELSE OnConnected /\ UNCHANGED apiVars
    /\ Table /\ UNCHANGED <<clients, picked, hist>>

Connected_Closed_kept ==
    /\ step = "closing" /\ In("closesocket")
    /\ inactive' = StatusAfterClose(Sock)
    /\ closed_sockets' = [closed_sockets EXCEPT ![Sock] = FALSE]
    /\ stale' = stale \ {Sock}
    /\ OnDisconnected
    /\ Table /\ UNCHANGED <<clients, txError, picked, handed>>

Connected_Closed_flagged ==
    /\ step = "closing" /\ In("closesocket")
    /\ inactive' = StatusAfterClose(Sock)
    /\ stale' = stale \ {Sock}
    /\ SetClient([clients[Cur] EXCEPT !.sock = NoSd])
    /\ OnDisconnected
    /\ Table /\ UNCHANGED <<closed_sockets, txError, picked, handed>>

Connected_Closed ==
    /\ step = "closing" /\ In("closesocket")
    /\ inactive' = StatusAfterClose(Sock)
    /\ closed_sockets' = [closed_sockets EXCEPT ![Sock] = FALSE]
    /\ stale' = stale \ {Sock}
    /\ SetClient([clients[Cur] EXCEPT !.sock = NoSd])
    /\ OnDisconnected
    /\ Table /\ UNCHANGED <<txError, picked, handed>>

-----------------------------------------------------------------------------
(* acceptNewConnections for a client that is not connected.                 *)

AcceptCall ==
    /\ step = "accept" /\ Out("accept", listenSocket) /\ Step("accepting")
    /\ Table /\ UNCHANGED <<clients, picked, hist>>

Accept ==
    /\ step = "accepting" /\ In("accept")
    /\ inactive' = StatusAfterAccept(listenSocket, Answer.val)
    /\ IF Answer.val > -1 THEN SetClient([Unused EXCEPT !.sock = Answer.val])
                          ELSE UNCHANGED clients
    /\ NextClient
    /\ Table /\ UNCHANGED <<closed_sockets, txError, picked, hist>>

-----------------------------------------------------------------------------
(* available() of a client that is connected: in Server::available() it     *)
(* picks the client, in the loop it allows the read.                        *)

OnAvailable ==
    IF phase = "choose" THEN Goto("use", i, "connected") /\ picked' = i
                        ELSE Step("read") /\ UNCHANGED picked

Available_Buffered ==
    /\ step = "available" /\ Buffered /\ OnAvailable
    /\ UNCHANGED apiVars /\ Table /\ UNCHANGED <<clients, hist>>

Available_Select ==
    /\ step = "available" /\ ~Buffered
    /\ Out("select", Sock) /\ Step("polled")
    /\ Table /\ UNCHANGED <<clients, picked, hist>>

Available_Selected ==
    /\ step = "polled" /\ In("select")
    /\ IF Answer.val = 1 THEN OnAvailable ELSE NextClient /\ UNCHANGED picked
    /\ Table /\ UNCHANGED <<closed_sockets, inactive, txError, clients, hist>>

-----------------------------------------------------------------------------
(* read(): from the buffer, or after filling it.  On -57 the client is      *)
(* closed and 0 is returned; any other failure is tried again.              *)

WriteAll == Goto("write", 1, "connected")

Read_Buffered_again ==
    /\ step = "read" /\ Buffered
    /\ LET cl == clients[Cur] IN
       /\ WriteAll
       /\ handed' = [handed EXCEPT ![cl.buf[cl.idx + 1][1]] = @ + 1]
    /\ UNCHANGED apiVars /\ Table /\ UNCHANGED <<clients, picked, stale>>

Read_Buffered ==
    /\ step = "read" /\ Buffered
    /\ LET cl == clients[Cur] IN
       /\ SetClient([cl EXCEPT !.idx = @ + 1])
       /\ WriteAll
       /\ handed' = [handed EXCEPT ![cl.buf[cl.idx + 1][1]] = @ + 1]
    /\ UNCHANGED apiVars /\ Table /\ UNCHANGED <<picked, stale>>

Read_Recv ==
    /\ step = "read" /\ ~Buffered
    /\ Out("recv", Sock) /\ Step("receiving")
    /\ Table /\ UNCHANGED <<clients, picked, hist>>

Read_Received ==
    /\ step = "receiving" /\ Answered("recv") /\ UNCHANGED <<rsock, pending, nconn, nbytes, ended>>
    /\ AfterRecv
    /\ IF Answer.val = ERROR_SOCKET_INACTIVE
       THEN Step("close") /\ SetClient([clients[Cur] EXCEPT !.buf = <<>>])
       ELSE Step("read") /\ SetClient([clients[Cur] EXCEPT !.buf = Answer.data, !.idx = 0])
    /\ Table /\ UNCHANGED <<closed_sockets, txError, picked, hist>>

Close ==
    /\ step = "close" /\ Out("closesocket", Sock) /\ Step("dropping")
    /\ Table /\ UNCHANGED <<clients, picked, hist>>

Closed ==
    /\ step = "dropping" /\ In("closesocket")
    /\ inactive' = StatusAfterClose(Sock)
    /\ stale' = stale \cup {Sock}
    /\ SetClient([clients[Cur] EXCEPT !.sock = NoSd])
    /\ WriteAll
    /\ Table /\ UNCHANGED <<closed_sockets, txError, picked, handed>>

-----------------------------------------------------------------------------
(* write(): send to every client that is connected, whatever comes back.    *)

Write_Refused ==
    /\ step = "send" /\ SendRefused(Sock)
    /\ txError' = FALSE /\ NextClient
    /\ Radio /\ UNCHANGED <<toHost, call, closed_sockets, inactive>>
    /\ Table /\ UNCHANGED <<clients, picked, hist>>

Write_Send ==
    /\ step = "send" /\ ~SendRefused(Sock)
    /\ Out("send", Sock) /\ Step("sending")
    /\ Table /\ UNCHANGED <<clients, picked, hist>>

Write_Sent ==
    /\ step = "sending" /\ In("send") /\ Answer.val # ERROR_SOCKET_INACTIVE
    /\ NextClient
    /\ Table /\ UNCHANGED <<closed_sockets, inactive, txError, clients, picked, hist>>

Program ==
    \/ BeginCall \/ BeginAnswered
    \/ Connected_NoSocket \/ Connected_Buffered \/ Connected_Select
    \/ Connected_Selected \/ Connected_TestFlag \/ Connected_Closed
    \/ AcceptCall \/ Accept
    \/ Available_Buffered \/ Available_Select \/ Available_Selected
    \/ Read_Buffered \/ Read_Recv \/ Read_Received \/ Close \/ Closed
    \/ Write_Refused \/ Write_Send \/ Write_Sent

ServerNext == Program \/ (Environment /\ UNCHANGED progVars)

ServerSpec == ServerInit /\ [][ServerNext]_serverVars
ServerFairSpec == ServerSpec /\ EnvironmentFairness /\ WF_serverVars(Program)

-----------------------------------------------------------------------------
(* Types of the variables of both modules.                                  *)
ServerTypeOK ==
    /\ rsock \in [Sd -> [st : {"free", "fresh", "listening", "open"},
                         conn : 0 .. MaxConns, sent : 0 .. MaxBytes,
                         taken : 0 .. MaxBytes, fin : BOOLEAN, dead : BOOLEAN]]
    /\ nbytes \in 0 .. MaxBytes /\ pending \in 0 .. MaxConns /\ nconn \in 0 .. MaxConns
    /\ ended \in {0, 1} /\ faults \in 0 .. MaxFaults
    /\ closed_sockets \in [Sd -> BOOLEAN] /\ inactive \subseteq 0 .. 7
    /\ txError \in BOOLEAN /\ call.sd \in Sd \cup {NoSd}
    /\ \A c \in Slots : /\ clients[c].sock \in Sd \cup {NoSd}
                        /\ Len(clients[c].buf) <= BufSize
                        /\ clients[c].idx \in 0 .. BufSize
    /\ {listenSocket, soc} \subseteq Sd \cup {NoSd}
    /\ picked \in Slots /\ handed \in [Connections -> 0 .. MaxBytes] /\ stale \subseteq Sd

(* A socket number belongs to one client at most, and never to a client and *)
(* to the listener, although numbers are reused as soon as they are closed. *)
OneOwner ==
    \A c \in Slots : clients[c].sock # NoSd =>
        /\ clients[c].sock # listenSocket
        /\ \A d \in Slots \ {c} : clients[d].sock # clients[c].sock

(* A socket of the radio that no client and no listener knows of has been   *)
(* lost by a refused command, one at most by each: begin leaves its socket  *)
(* open when a later command of it is refused.                              *)
Known == {clients[c].sock : c \in Slots} \cup {listenSocket}
         \cup (IF phase = "begin" THEN {soc} ELSE {})
         \cup {toHost[k].val : k \in {j \in DOMAIN toHost :
                  toHost[j].kind = "answer" /\ call.op \in {"socket", "accept"}}}
Lost == {n \in Sd : rsock[n].st # "free"} \ Known
FewLost == Cardinality(Lost) <= faults

(* connected() closes a connection only after its peer has closed it or it  *)
(* has died, unless its number was closed by read() before: that leaves the *)
(* flag behind.                                                              *)
ClosedForCause ==
    [][step = "testflag" /\ step' = "closing" => ~Live(Sock) \/ Sock \in stale]_serverVars

(* The bytes of a connection are read in the order in which they were sent, *)
(* each once, and by no other connection's client, whatever the filling of  *)
(* the buffer and the reuse of numbers.                                      *)
BytesInOrder ==
    [][\A c \in Connections : handed'[c] # handed[c] =>
          clients[Cur].buf[clients[Cur].idx + 1] = <<c, handed[c] + 1>>
          /\ rsock[Sock].conn = c]_serverVars

(* When its peer has closed it, a client is given up in the end, by the     *)
(* flag or by the error of a read, if select goes on telling the same and   *)
(* the program does not hang in a send to a socket that has become inactive.*)
PeerHasClosed == \E c \in Slots : clients[c].sock \in {n \in Sd : rsock[n].fin}
CloseNoticed == PeerHasClosed ~> ~PeerHasClosed \/ Hung

(* A connection that waits is accepted as long as there is room for it and  *)
(* the program does not hang in a send.                                     *)
PendingAccepted ==
    pending > 0 ~> \/ pending = 0 \/ listenSocket = NoSd \/ FreeSds = {} \/ Hung
                   \/ \A c \in Slots : clients[c].sock # NoSd

(* What the comment on write promises, "write data to all connected         *)
(* clients": a client that is live when its turn comes is sent the byte.    *)
LiveClientsWritten ==
    [][step = "send" /\ step' # "send" /\ Live(Sock) => call'.op = "send"]_serverVars

(* What the comment in connected() says, "No more data, and closed!".       *)
ClosedWhenDrained ==
    [][step = "testflag" /\ step' = "closing" /\ ~rsock[Sock].dead => Unread(Sock) = <<>>]_serverVars

(* "Return true if the referenced client is connected."                     *)
LiveStaysConnected ==
    [][step = "testflag" /\ step' = "closing" => ~Live(Sock)]_serverVars

(* What available, connected, read and the callback keep of the table.      *)
ClientsSound == ServerTypeOK /\ OneOwner /\ FewLost

=============================================================================
