------------------------------ MODULE SocketApi ------------------------------
(***************************************************************************)
(* The sockets of the CC3000 as a program sees them through                *)
(* utility/socket.cpp, with what the driver remembers about them: the      *)
(* status bits of utility/evnt_handler.cpp and the flags closed_sockets,   *)
(* which the event callback of Adafruit_CC3000.cpp sets.  Below this level *)
(* is HciLink; here a command and its answer are one message each way, and *)
(* what the radio sends arrives in order.  An event is taken by the        *)
(* interrupt handler at any moment, also while no command is out.          *)
(***************************************************************************)
EXTENDS Integers, Sequences

CONSTANTS
    Sd,             \* the radio's socket numbers, 0 .. 7 in the driver
    BufSize,        \* RXBUFFERSIZE
    MaxConns,       \* bound: connections made by peers
    MaxBytes,       \* bound: bytes sent by peers
    MaxFaults       \* bound: commands that fail and connections that die

ASSUME SocketAssumption ==
    /\ Sd \subseteq 0 .. 7
    /\ {BufSize, MaxConns, MaxBytes} \subseteq Nat \ {0}
    /\ MaxFaults \in Nat

VARIABLES
    rsock,          \* the radio's sockets
    pending,        \* connections nobody has accepted
    nconn,          \* connections made so far
    nbytes,         \* bytes sent by peers so far
    ended,          \* what select says of a connection that has ended, 0 or 1
    faults,         \* faults so far
    toHost,         \* events and answers on their way to the program
    call,           \* the command the program waits for
    closed_sockets, \* the flags set by the event "TCP close wait"
    inactive,       \* socket_active_status: the numbers marked inactive
    txError         \* slTransmitDataError # 0

apiVars == <<rsock, pending, nconn, nbytes, ended, faults, toHost, call, closed_sockets,
             inactive, txError>>

NoSd == -1
SOC_IN_PROGRESS == -2
ERROR_SOCKET_INACTIVE == -57

Connections == 1 .. MaxConns
Free == [st |-> "free", conn |-> 0, sent |-> 0, taken |-> 0,
         fin |-> FALSE, dead |-> FALSE]
Opened == [Free EXCEPT !.st = "fresh"]
Accepted(c) == [Free EXCEPT !.st = "open", !.conn = c]
NoCall == [op |-> "none", sd |-> NoSd, done |-> FALSE]

FreeSds == {n \in Sd : rsock[n].st = "free"}
NextSd == {n \in FreeSds : \A m \in FreeSds : n <= m}
IsOpen(n) == n \in Sd /\ rsock[n].st = "open"
Live(n) == IsOpen(n) /\ ~rsock[n].fin /\ ~rsock[n].dead

(* A byte is named by its connection and its position in it. *)
Unread(n) == LET r == rsock[n] IN
    [k \in 1 .. (r.sent - r.taken) |-> <<r.conn, r.taken + k>>]

ApiInit ==
    /\ rsock = [n \in Sd |-> Free]
    /\ pending = 0 /\ nconn = 0 /\ nbytes = 0 /\ ended \in {0, 1} /\ faults = 0
    /\ toHost = <<>> /\ call = NoCall
    /\ closed_sockets = [n \in Sd |-> FALSE]
    /\ inactive = 0 .. 7
    /\ txError = FALSE

-----------------------------------------------------------------------------
(* The radio and the peers. *)

PeerConnects ==
    /\ nconn < MaxConns /\ \E n \in Sd : rsock[n].st = "listening"
    /\ nconn' = nconn + 1 /\ pending' = pending + 1
    /\ UNCHANGED <<rsock, nbytes, ended, faults, toHost, call, closed_sockets, inactive, txError>>

PeerSends(n) ==
    /\ Live(n) /\ nbytes < MaxBytes
    /\ nbytes' = nbytes + 1 /\ rsock' = [rsock EXCEPT ![n].sent = @ + 1]
    /\ UNCHANGED <<pending, nconn, ended, faults, toHost, call, closed_sockets, inactive, txError>>

PeerCloses(n) ==
    /\ Live(n)
    /\ rsock' = [rsock EXCEPT ![n].fin = TRUE]
    /\ toHost' = Append(toHost, [kind |-> "close", val |-> n, data |-> <<>>])
    /\ UNCHANGED <<pending, nconn, nbytes, ended, faults, call, closed_sockets, inactive, txError>>

(* The radio gives a connection up without telling, as after its inactivity *)
(* timeout.                                                                  *)
ConnectionDies(n) ==
    /\ IsOpen(n) /\ ~rsock[n].dead /\ faults < MaxFaults
    /\ rsock' = [rsock EXCEPT ![n].dead = TRUE]
    /\ faults' = faults + 1
    /\ UNCHANGED <<pending, nconn, nbytes, ended, toHost, call, closed_sockets, inactive, txError>>

(* What a command may give: its answer and the sockets and the number of    *)
(* unaccepted connections after it.  The radio gives a socket any number    *)
(* that is free, and a connection the lowest.                               *)
Gives(v, d, rs, p) == [val |-> v, data |-> d, rsock |-> rs, pending |-> p]
Says(v) == Gives(v, <<>>, rsock, pending)

Outcomes(op, n) ==
    CASE op = "socket" ->
           {Gives(m, <<>>, [rsock EXCEPT ![m] = Opened], pending) : m \in FreeSds}
      [] op \in {"timeouts", "setsockopt", "bind"} -> {Says(0)}
      [] op = "listen" ->
           {Gives(0, <<>>, [rsock EXCEPT ![n].st = "listening"], pending)}
      [] op = "accept" ->
           IF n \notin Sd \/ rsock[n].st # "listening" THEN {Says(-1)}
           ELSE IF pending = 0 \/ FreeSds = {} THEN {Says(SOC_IN_PROGRESS)}
           ELSE {Gives(m, <<>>, [rsock EXCEPT ![m] = Accepted(nconn - pending + 1)],
                       pending - 1) : m \in NextSd}
      [] op = "select" ->
           IF rsock[n].dead \/ (Unread(n) = <<>> /\ rsock[n].fin) THEN {Says(ended)}
           ELSE {Says(IF Unread(n) = <<>> THEN 0 ELSE 1)}
      [] op = "recv" ->
           LET k == IF Len(Unread(n)) < BufSize THEN Len(Unread(n)) ELSE BufSize IN
           IF rsock[n].dead \/ (k = 0 /\ rsock[n].fin)
           THEN {Says(ERROR_SOCKET_INACTIVE)}
           ELSE IF k = 0 THEN {}
           ELSE {Gives(k, SubSeq(Unread(n), 1, k),
                       [rsock EXCEPT ![n].taken = @ + k], pending)}
      [] op = "send" ->
           (IF rsock[n].dead THEN {} ELSE {Says(1)})
           \cup (IF Live(n) THEN {} ELSE {Says(ERROR_SOCKET_INACTIVE)})
      [] op = "closesocket" ->
           {Gives(0, <<>>, [rsock EXCEPT ![n] = Free], pending)}

(* Commands that can be refused; a refused closesocket leaves the socket.   *)
Refusable == {"timeouts", "socket", "setsockopt", "bind", "listen", "closesocket", "recv"}

RadioAnswers(o) ==
    /\ toHost' = Append(toHost, [kind |-> "answer", val |-> o.val, data |-> o.data])
    /\ rsock' = o.rsock /\ pending' = o.pending
    /\ call' = [call EXCEPT !.done = TRUE]
    /\ UNCHANGED <<nconn, nbytes, ended, closed_sockets, inactive, txError>>

RadioExecutes ==
    /\ call # NoCall /\ ~call.done
    /\ \E o \in Outcomes(call.op, call.sd) : RadioAnswers(o)
    /\ UNCHANGED faults

RadioRefuses ==
    /\ call.op \in Refusable /\ ~call.done
    /\ faults < MaxFaults \/ (call.op = "socket" /\ FreeSds = {})
    /\ faults' = IF faults < MaxFaults THEN faults + 1 ELSE faults
    /\ RadioAnswers(Says(-1))

-----------------------------------------------------------------------------
(* The driver. *)

(* CC3000_UsynchCallback, called from hci_unsol_event_handler.              *)
CC3000_UsynchCallback ==
    /\ toHost # <<>> /\ Head(toHost).kind = "close"
    /\ closed_sockets' = [closed_sockets EXCEPT ![Head(toHost).val] = TRUE]
    /\ toHost' = Tail(toHost)
    /\ UNCHANGED <<rsock, pending, nconn, nbytes, ended, faults, call, inactive, txError>>

Command(op, n) ==
    /\ call = NoCall
    /\ call' = [op |-> op, sd |-> n, done |-> FALSE]

Answered(op) ==
    /\ call.op = op /\ toHost # <<>> /\ Head(toHost).kind = "answer"
    /\ call' = NoCall /\ toHost' = Tail(toHost)
Answer == Head(toHost)

(* set_socket_active_status after socket and accept: on failure the number  *)
(* is not valid for socket, and accept marks the listening socket instead.  *)
StatusAfterSocket(r) == IF r \in 0 .. 7 THEN inactive \ {r} ELSE inactive
StatusAfterAccept(listener, r) ==
    IF r \in 0 .. 7 THEN inactive \ {r} ELSE inactive \cup ({listener} \cap (0 .. 7))
StatusAfterClose(n) == inactive \cup {n}

(* The event recv: the decoder compares a word behind the structure with    *)
(* -57, and if it is equal marks the socket whose number is the flags, 0.   *)
AfterRecv ==
    \/ UNCHANGED <<inactive, faults>>
    \/ faults < MaxFaults /\ faults' = faults + 1 /\ inactive' = inactive \cup {0}

(* HostFlowControlConsumeBuff, but for the buffers: an earlier failure is   *)
(* reported once, whatever the socket, and then an inactive socket.         *)
SendRefused(n) == txError \/ n \in inactive

(* hci_unsol_event_handler, also called by the interrupt handler, takes the *)
(* completion of a send whose socket is inactive: the program, which waits  *)
(* for it in simple_link_send, will not see it.                             *)
SendLost ==
    /\ call.op = "send" /\ toHost # <<>> /\ Head(toHost).kind = "answer"
    /\ Answer.val = ERROR_SOCKET_INACTIVE
    /\ toHost' = Tail(toHost)
    /\ inactive' = inactive \cup {call.sd} /\ txError' \in BOOLEAN
    /\ UNCHANGED <<rsock, pending, nconn, nbytes, ended, faults, call, closed_sockets>>

(* The program waits for an answer that has been and gone.                  *)
Hung == call.done /\ \A j \in DOMAIN toHost : toHost[j].kind # "answer"

Interrupt == CC3000_UsynchCallback \/ SendLost

Environment ==
    \/ PeerConnects
    \/ \E n \in Sd : PeerSends(n) \/ PeerCloses(n) \/ ConnectionDies(n)
    \/ RadioExecutes
    \/ RadioRefuses
    \/ Interrupt

EnvironmentFairness == WF_apiVars(RadioExecutes) /\ WF_apiVars(Interrupt)
=============================================================================
