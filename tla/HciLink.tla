------------------------------ MODULE HciLink ------------------------------
(***************************************************************************)
(* The driver of the CC3000 radio: the SPI layer (ccspi.cpp), the event    *)
(* layer (evnt_handler.cpp, hci.cpp) and the calls made through them       *)
(* (socket.cpp, wlan.cpp), down to the radio itself.                       *)
(*                                                                         *)
(* Two threads of control share the state: the program, which makes one    *)
(* call at a time and busy-waits for its end, and the handler SPI_IRQ of   *)
(* the interrupt pin, which runs between any two steps of the program      *)
(* while the interrupt is enabled and the radio holds the pin low.  What   *)
(* the radio sends goes through one receive buffer: an event the handler   *)
(* knows (buffers freed, connection lost, ...) is consumed in the          *)
(* interrupt, anything else stays until hci_event_handler takes it, with   *)
(* the interrupt disabled meanwhile.                                       *)
(*                                                                         *)
(* Parameters and results of calls are left out; a packet carries the      *)
(* number of the call it belongs to.  There is one socket.                 *)
(***************************************************************************)
EXTENDS Naturals, Sequences, FiniteSets

CONSTANTS
    Buffers,    \* transmit buffers of the radio
    MaxCalls,   \* bound: calls the program makes
    MaxUnsol,   \* bound: events the radio sends on its own
    MaxPatches, \* bound: patches the radio asks for
    Lossy,      \* a send may fail because the socket has become inactive
    Unknown,    \* the radio may send events the driver has no handler for
    Cached      \* ulSpiState, which is not volatile, may be kept in a register

ASSUME HciAssumption ==
    /\ Buffers \in Nat \ {0} /\ MaxCalls \in Nat
    /\ MaxUnsol \in Nat /\ MaxPatches \in Nat
    /\ Lossy \in BOOLEAN /\ Unknown \in BOOLEAN /\ Cached \in BOOLEAN

VARIABLES
    spi,        \* sSpiInformation.ulSpiState
    enabled,    \* ccspi_int_enabled: the interrupt is attached
    cs,         \* the chip select line is asserted
    full,       \* usEventOrDataReceived
    rx,         \* the packet in the receive buffer
    opcode,     \* usRxEventOpcode: the event waited for
    pending,    \* usRxDataPending
    free,       \* usNumberOfFreeBuffers
    txError,    \* slTransmitDataError # 0
    active,     \* the socket's bit of socket_active_status
    pc,         \* what the program is about to do
    calls,      \* number of calls made; the current one has this number
    kind,       \* of the current call
    answer,     \* the packet that was decoded last
    loaded,     \* the program's copy of free, in the middle of free--
    booted, ready, out, todo, used, patches, unsol, heard, executed,
    odd         \* history: the radio has sent an event without a handler

driver  == <<spi, enabled, cs, full, rx, opcode, pending, free, txError, active>>
program == <<pc, calls, kind, answer, loaded>>
radio   == <<booted, ready, out, todo, used, patches, unsol, odd, heard, executed>>
vars    == <<driver, program, radio>>

Kinds    == {"start", "readbuffers", "command", "recv", "send"}
Solicited == Kinds \cup {"data", "patches", "unknown"}
Handled  == {"free", "wlan", "lostsend"}

\* A packet of the radio: an event or data.  more: bytes follow a recv.
Packet == {p \in [op : Solicited \cup Handled, call : 0..MaxCalls, more : BOOLEAN] :
             p.more => p.op = "recv"}
NoPacket == [op |-> "unknown", call |-> 0, more |-> FALSE]

None == "none"

\* The program's points inside SpiWrite.
Writing == {"write", "enable", "pin", "copy", "txend"}
Stuck   == {"stuckinit", "stucktx"}

-----------------------------------------------------------------------------

Init ==
    /\ spi = "POWERUP" /\ enabled = TRUE /\ cs = FALSE
    /\ full = FALSE /\ rx = NoPacket
    /\ opcode = None /\ pending = FALSE
    /\ free = 0 /\ txError = FALSE /\ active = TRUE
    /\ pc = "boot" /\ calls = 0 /\ kind = "start" /\ answer = NoPacket /\ loaded = 0
    /\ booted = FALSE /\ ready = FALSE /\ out = << >> /\ todo = << >>
    /\ used = 0 /\ patches = 0 /\ unsol = 0 /\ odd = FALSE /\ heard = << >> /\ executed = FALSE

\* The interrupt pin: the radio has come up and nothing has been written to
\* it, it accepts the write it was selected for, or it has something to send.
PinLow ==
    \/ booted /\ heard = << >>
    \/ ready
    \/ out # << >>

\* The packet being written: a patch while the call waits for its event.
Outgoing == [op |-> IF opcode = None THEN kind ELSE "patches", call |-> calls]

\* The bytes written reach the radio if it is selected.
Transmit ==
    IF cs
    THEN /\ heard' = Append(heard, Outgoing)
         /\ todo' = Append(todo, Outgoing)
         /\ used' = IF Outgoing.op = "send" THEN used + 1 ELSE used
         /\ ready' = FALSE
    ELSE UNCHANGED <<heard, todo, used, ready>>

-----------------------------------------------------------------------------
(* SPI_IRQ: one atomic step, with SpiReceiveHandler and what it calls.     *)

\* The first interrupt after the power-up.
IrqPowerUp ==
    /\ spi = "POWERUP"
    /\ spi' = "INITIALIZED"
    /\ UNCHANGED <<enabled, cs, full, rx, opcode, pending, free, txError, active, radio>>

\* Mutant of IrqWrite: the radio stays selected.
IrqWrite_selected ==
    /\ spi = "WRITE_IRQ"
    /\ Transmit
    /\ spi' = "IDLE"
    /\ UNCHANGED <<enabled, cs, full, rx, opcode, pending, free, txError, active,
                   booted, out, patches, unsol, odd, executed>>

\* The radio accepts a write.
IrqWrite ==
    /\ spi = "WRITE_IRQ"
    /\ Transmit
    /\ spi' = "IDLE" /\ cs' = FALSE
    /\ UNCHANGED <<enabled, full, rx, opcode, pending, free, txError, active,
                   booted, out, patches, unsol, odd, executed>>

\* hci_unsol_event_handler on an event it knows.
HandleUnsolicited(p) ==
    /\ free' = IF p.op = "free" THEN free + 1 ELSE free
    /\ txError' = (txError \/ p.op = "lostsend")
    /\ active' = (active /\ p.op # "lostsend")

\* Mutant of IrqReceive: the interrupt stays on with a packet in the buffer.
IrqReceive_enabled ==
    /\ spi = "IDLE" /\ out # << >>
    /\ rx' = Head(out) /\ out' = Tail(out)
    /\ IF rx'.op \in Handled
       THEN HandleUnsolicited(rx') /\ full' = FALSE
       ELSE full' = TRUE /\ UNCHANGED <<free, txError, active>>
    /\ UNCHANGED <<spi, enabled, cs, opcode, pending,
                   booted, ready, todo, used, patches, unsol, odd, heard, executed>>

\* A packet is read into the buffer, over whatever is there.  SpiPauseSpi
\* turns the interrupt off, and hci_unsolicited_event_handler turns it on
\* again when the packet was an event with a handler.
IrqReceive ==
    /\ spi = "IDLE" /\ out # << >>
    /\ rx' = Head(out) /\ out' = Tail(out)
    /\ IF rx'.op \in Handled
       THEN HandleUnsolicited(rx') /\ full' = FALSE /\ enabled' = TRUE
       ELSE full' = TRUE /\ enabled' = FALSE /\ UNCHANGED <<free, txError, active>>
    /\ UNCHANGED <<spi, cs, opcode, pending,
                   booted, ready, todo, used, patches, unsol, odd, heard, executed>>

SPI_IRQ ==
    /\ enabled /\ PinLow
    /\ IrqPowerUp \/ IrqWrite \/ IrqReceive
    /\ UNCHANGED program

-----------------------------------------------------------------------------
(* The program: one call after another.                                    *)

\* wlan_start has seen the pin go low.
Boot ==
    /\ pc = "boot" /\ PinLow
    /\ pc' = "ready"
    /\ UNCHANGED <<driver, calls, kind, answer, loaded, radio>>

\* wlan_start makes the first two calls; then the application is free.
Call(k) ==
    /\ pc = "ready" /\ calls < MaxCalls
    /\ k = "start" <=> calls = 0
    /\ k = "readbuffers" <=> calls = 1
    /\ calls' = calls + 1 /\ kind' = k /\ executed' = FALSE
    /\ pc' = IF k = "send" THEN "consume" ELSE "write"
    /\ UNCHANGED <<driver, answer, loaded,
                   booted, ready, out, todo, used, patches, unsol, odd, heard>>

\* HostFlowControlConsumeBuff: the last failure is reported once, an
\* inactive socket always.
Refuse ==
    /\ pc = "consume"
    /\ txError \/ ~active
    /\ txError' = FALSE
    /\ pc' = "ready"
    /\ UNCHANGED <<spi, enabled, cs, full, rx, opcode, pending, free, active,
                   calls, kind, answer, loaded, radio>>

\* A buffer is free: usNumberOfFreeBuffers-- reads ...
ConsumeLoad ==
    /\ pc = "consume"
    /\ ~txError /\ active
    /\ free > 0
    /\ loaded' = free
    /\ pc' = "decrement"
    /\ UNCHANGED <<driver, calls, kind, answer, radio>>

\* Mutant of ConsumeStore: the buffer is not taken.
ConsumeStore_kept ==
    /\ pc = "decrement"
    /\ free' = loaded
    /\ pc' = "write"
    /\ UNCHANGED <<spi, enabled, cs, full, rx, opcode, pending, txError, active,
                   calls, kind, answer, loaded, radio>>

\* ... and writes.  An interrupt in between is forgotten.
ConsumeStore ==
    /\ pc = "decrement"
    /\ free' = loaded - 1
    /\ pc' = "write"
    /\ UNCHANGED <<spi, enabled, cs, full, rx, opcode, pending, txError, active,
                   calls, kind, answer, loaded, radio>>

\* After SpiWrite: the call sets the opcode it waits for; a patch has been
\* sent from within hci_event_handler.
AfterWrite == IF opcode = None THEN "event" ELSE "check"

\* SpiWrite in the state the power-up left; SpiFirstWrite selects the radio.
WriteFirst ==
    /\ pc = "write" /\ spi = "INITIALIZED"
    /\ heard' = Append(heard, Outgoing) /\ todo' = Append(todo, Outgoing)
    /\ spi' = "IDLE"
    /\ pc' = AfterWrite
    /\ UNCHANGED <<enabled, cs, full, rx, opcode, pending, free, txError, active,
                   calls, kind, answer, loaded,
                   booted, ready, out, used, patches, unsol, odd, executed>>

\* SpiWrite with the interrupt disabled: the packet is set up and the radio
\* selected.
WriteSelect ==
    /\ pc = "write" /\ spi = "IDLE"
    /\ enabled' = FALSE
    /\ spi' = "WRITE_IRQ" /\ cs' = TRUE
    /\ pc' = "enable"
    /\ UNCHANGED <<full, rx, opcode, pending, free, txError, active,
                   calls, kind, answer, loaded, radio>>

\* The interrupt is enabled, even if it was not before.
WriteEnable ==
    /\ pc = "enable"
    /\ enabled' = TRUE
    /\ pc' = "pin"
    /\ UNCHANGED <<spi, cs, full, rx, opcode, pending, free, txError, active,
                   calls, kind, answer, loaded, radio>>

\* The check for a missing interrupt.
WritePin ==
    /\ pc = "pin"
    /\ pc' = IF PinLow THEN "copy" ELSE "txend"
    /\ UNCHANGED <<driver, calls, kind, answer, loaded, radio>>

WriteCopy ==
    /\ pc = "copy"
    /\ Transmit
    /\ spi' = "IDLE" /\ cs' = FALSE
    /\ pc' = "txend"
    /\ UNCHANGED <<enabled, full, rx, opcode, pending, free, txError, active,
                   calls, kind, answer, loaded, booted, out, patches, unsol, odd, executed>>

\* The wait for the end of the transaction.
WriteEnd ==
    /\ pc = "txend" /\ spi = "IDLE"
    /\ pc' = AfterWrite
    /\ UNCHANGED <<driver, calls, kind, answer, loaded, radio>>

\* A busy-wait on a variable that is not volatile: the value found first may
\* be the only one ever looked at.
WriteStuck ==
    /\ Cached
    /\ \/ pc = "write" /\ spi = "POWERUP" /\ pc' = "stuckinit"
       \/ pc = "txend" /\ spi # "IDLE" /\ pc' = "stucktx"
    /\ UNCHANGED <<driver, calls, kind, answer, loaded, radio>>


\* SimpleLinkWaitEvent.
WaitEvent ==
    /\ pc = "event"
    /\ opcode' = kind
    /\ pc' = "poll"
    /\ UNCHANGED <<spi, enabled, cs, full, rx, pending, free, txError, active,
                   calls, kind, answer, loaded, radio>>

\* Mutant of Decode: any event ends the wait.
Decode_any ==
    /\ pc = "poll" /\ full
    /\ answer' = rx
    /\ opcode'  = IF rx.op = "data" THEN opcode ELSE None
    /\ pending' = (pending /\ rx.op # "data")
    /\ free' = IF rx.op = "readbuffers" THEN Buffers ELSE free
    /\ active' \in IF rx.op = "recv" THEN {active, FALSE} ELSE {active}
    /\ pc' = "release"
    /\ UNCHANGED <<spi, enabled, cs, full, rx, txError, calls, kind, loaded, radio>>

\* hci_event_handler finds a packet in the buffer and decodes it.  What it
\* takes for the length of a recv lies beyond the structure it has filled
\* in, so that the socket may be marked inactive.
Decode ==
    /\ pc = "poll" /\ full
    /\ answer' = rx
    /\ opcode'  = IF rx.op = opcode THEN None ELSE opcode
    /\ pending' = (pending /\ rx.op # "data")
    /\ free' = IF rx.op = "readbuffers" THEN Buffers ELSE free
    /\ active' \in IF rx.op = "recv" THEN {active, FALSE} ELSE {active}
    /\ pc' = "release"
    /\ UNCHANGED <<spi, enabled, cs, full, rx, txError, calls, kind, loaded, radio>>

\* Mutant of Release: the interrupt stays off.
Release_paused ==
    /\ pc = "release"
    /\ full' = FALSE
    /\ pc' = IF answer.op = "patches" THEN "patch" ELSE "check"
    /\ UNCHANGED <<spi, enabled, cs, rx, opcode, pending, free, txError, active,
                   calls, kind, answer, loaded, radio>>

\* The buffer is given back and the interrupt enabled.
Release ==
    /\ pc = "release"
    /\ full' = FALSE /\ enabled' = TRUE
    /\ pc' = IF answer.op = "patches" THEN "patch" ELSE "check"
    /\ UNCHANGED <<spi, cs, rx, opcode, pending, free, txError, active,
                   calls, kind, answer, loaded, radio>>

\* Only now the request for a patch is looked up, in the same buffer.  If an
\* event has been read over it, the byte that is there may be the kind of a
\* patch, and one is sent, or not, and hci_event_handler goes on.
ServePatch ==
    /\ pc = "patch"
    /\ \/ rx.op # "data" /\ pc' = "write"
       \/ rx # answer /\ pc' = "check"
    /\ UNCHANGED <<driver, calls, kind, answer, loaded, radio>>

\* hci_event_handler goes on until nothing is waited for.
GoOn ==
    /\ pc = "check"
    /\ opcode # None \/ pending
    /\ pc' = "poll"
    /\ UNCHANGED <<driver, calls, kind, answer, loaded, radio>>

\* simple_link_recv: the bytes follow the event (SimpleLinkWaitData).
WaitData ==
    /\ pc = "check"
    /\ opcode = None /\ ~pending
    /\ answer.op = "recv" /\ answer.more
    /\ pending' = TRUE
    /\ pc' = "poll"
    /\ UNCHANGED <<spi, enabled, cs, full, rx, opcode, free, txError, active,
                   calls, kind, answer, loaded, radio>>

Return ==
    /\ pc = "check"
    /\ opcode = None /\ ~pending
    /\ ~(answer.op = "recv" /\ answer.more)
    /\ pc' = "ready"
    /\ UNCHANGED <<driver, calls, kind, answer, loaded, radio>>

-----------------------------------------------------------------------------
(* The radio, as its driver uses it.                                       *)

RadioUp ==
    /\ ~booted
    /\ booted' = TRUE
    /\ UNCHANGED <<driver, program, ready, out, todo, used, patches, unsol, odd, heard, executed>>

\* The selected radio accepts a write.
RadioReady ==
    /\ cs /\ ~ready
    /\ ready' = TRUE
    /\ UNCHANGED <<driver, program, booted, out, todo, used, patches, unsol, odd, heard, executed>>

\* What the radio answers to a packet: a recv may be followed by its bytes,
\* and a send may find that its socket has become inactive.
Reply(p, op, more) == [op |-> op, call |-> p.call, more |-> more]
Answers(p) ==
    { <<Reply(p, IF p.op = "patches" THEN "start" ELSE p.op, FALSE)>> }
    \cup (IF p.op = "recv"
          THEN { <<Reply(p, "recv", TRUE), Reply(p, "data", FALSE)>> } ELSE {})
    \cup (IF p.op = "send" /\ Lossy THEN { <<Reply(p, "lostsend", FALSE)>> } ELSE {})

RadioExecute ==
    /\ todo # << >>
    /\ todo' = Tail(todo)
    /\ \E a \in Answers(Head(todo)) : out' = out \o a
    /\ executed' = TRUE
    /\ UNCHANGED <<driver, program, booted, ready, used, patches, unsol, odd, heard>>

\* Before it starts the radio may ask for patches.
RadioAskPatch ==
    /\ todo # << >> /\ Head(todo).op \in {"start", "patches"}
    /\ patches < MaxPatches
    /\ patches' = patches + 1
    /\ todo' = Tail(todo)
    /\ out' = Append(out, [op |-> "patches", call |-> Head(todo).call, more |-> FALSE])
    /\ UNCHANGED <<driver, program, booted, ready, used, unsol, odd, heard, executed>>

RadioFree ==
    /\ used > 0
    /\ used' = used - 1
    /\ out' = Append(out, [op |-> "free", call |-> 0, more |-> FALSE])
    /\ UNCHANGED <<driver, program, booted, ready, todo, patches, unsol, odd, heard, executed>>

RadioUnsolicited ==
    /\ heard # << >> /\ unsol < MaxUnsol
    /\ unsol' = unsol + 1
    /\ \E op \in {"wlan"} \cup (IF Unknown THEN {"unknown"} ELSE {}) :
          /\ out' = Append(out, [op |-> op, call |-> 0, more |-> FALSE])
          /\ odd' = (odd \/ op = "unknown")
    /\ UNCHANGED <<driver, program, booted, ready, todo, used, patches, heard, executed>>

-----------------------------------------------------------------------------

SpiWrite == WriteFirst \/ WriteSelect \/ WriteEnable \/ WritePin \/ WriteCopy \/ WriteEnd

Step ==
    \/ Boot \/ Refuse \/ ConsumeLoad \/ ConsumeStore
    \/ SpiWrite \/ WaitEvent \/ Decode \/ Release \/ ServePatch \/ GoOn \/ WaitData \/ Return

Radio == RadioReady \/ RadioExecute \/ RadioAskPatch

Next ==
    \/ SPI_IRQ
    \/ Step \/ WriteStuck
    \/ \E k \in Kinds : Call(k)
    \/ RadioUp \/ Radio \/ RadioFree \/ RadioUnsolicited

Spec == Init /\ [][Next]_vars

(* The program and the interrupt run; the radio comes up, accepts writes,  *)
(* executes what it has accepted and gives its buffers back.               *)
FairSpec ==
    /\ Spec
    /\ WF_vars(Step) /\ WF_vars(SPI_IRQ)
    /\ WF_vars(RadioUp) /\ WF_vars(Radio) /\ WF_vars(RadioFree)

-----------------------------------------------------------------------------

(* The types of the variables.                                             *)
TypeOK ==
    /\ spi \in {"POWERUP", "INITIALIZED", "IDLE", "WRITE_IRQ"}
    /\ enabled \in BOOLEAN /\ cs \in BOOLEAN /\ full \in BOOLEAN
    /\ rx \in Packet /\ answer \in Packet
    /\ opcode \in Kinds \cup {None} /\ pending \in BOOLEAN
    /\ free \in Nat /\ loaded \in Nat
    /\ txError \in BOOLEAN /\ active \in BOOLEAN
    /\ pc \in {"boot", "ready", "consume", "decrement", "event", "poll",
               "release", "patch", "check"} \cup Writing \cup Stuck
    /\ calls \in 0..MaxCalls /\ kind \in Kinds
    /\ booted \in BOOLEAN /\ ready \in BOOLEAN /\ executed \in BOOLEAN
    /\ out \in Seq(Packet)
    /\ todo  \in Seq([op : Kinds \cup {"patches"}, call : 1..MaxCalls])
    /\ heard \in Seq([op : Kinds \cup {"patches"}, call : 1..MaxCalls])
    /\ used \in Nat /\ patches \in 0..MaxPatches /\ unsol \in 0..MaxUnsol /\ odd \in BOOLEAN


(* The driver never sends the radio more data than the radio has buffers   *)
(* for, although its count of the free ones is kept by the program and by  *)
(* the interrupt without a lock (HostFlowControlConsumeBuff,               *)
(* socket.cpp:123-187).                                                    *)
BuffersRespected == used <= Buffers

(* However the interrupt and the check for a missing interrupt fall, each  *)
(* packet reaches the radio exactly once (SpiWrite, ccspi.cpp:303-376): no *)
(* call is lost before its event is awaited, none is heard twice.          *)
WrittenOnce ==
    /\ \A i, j \in 1..Len(heard) :
          heard[i].op # "patches" /\ heard[i] = heard[j] => i = j
    /\ pc \in {"event", "poll", "release", "patch", "check"} =>
          \E i \in 1..Len(heard) : heard[i] = [op |-> kind, call |-> calls]
    /\ Cardinality({i \in 1..Len(heard) : heard[i].op = "patches"}) <= patches

(* The packet the program decodes last when a call returns is the answer   *)
(* to that very call, and the bytes of a recv are those of that recv       *)
(* (hci_event_handler, evnt_handler.cpp:236-494).                          *)
AnswerIsOurs ==
    pc = "check" /\ opcode = None /\ ~pending =>
        /\ answer.call = calls
        /\ answer.op = kind \/ (kind = "recv" /\ answer.op = "data")

(* While the radio sends only events that have a handler, nothing the      *)
(* program waits for is overwritten in the receive buffer: a packet that   *)
(* is not consumed in the interrupt stays there until it is decoded.       *)
BufferKept ==
    [][~odd /\ full /\ ~(pc = "release" /\ pc' # pc) => full' /\ rx' = rx]_vars

(* A selected radio is deselected again, and the receive buffer holds only *)
(* what the program has to decode.                                         *)
BusReleased ==
    /\ spi = "IDLE" => ~cs
    /\ full => rx.op \in Solicited

(* The driver keeps the promise of RemoteCall.                             *)
Remote == INSTANCE RemoteCall WITH
    phase <- IF pc \in {"boot", "ready"} THEN "none"
             ELSE IF executed THEN "executed" ELSE "issued"

CallsImplemented == Remote!Spec

\* What the program has not decoded yet.
InBuffer == full /\ pc # "release"

\* A patch the radio has asked for is still to be written to it.
PatchComing ==
    \/ \E i \in 1..Len(out) : out[i].op = "patches"
    \/ InBuffer /\ rx.op = "patches"
    \/ pc \in {"release", "patch"} /\ answer.op = "patches"
    \/ (pc \in {"write", "stuckinit"} \/ cs) /\ opcode # None

\* A request for a patch was overwritten, and the radio waits for ever.
PatchMissed ==
    ~PatchComing /\ Cardinality({i \in 1..Len(heard) : heard[i].op = "patches"}) < patches

(* Every call but a send returns, whatever events with a handler the radio *)
(* sends meanwhile, unless one of them overwrites a request for a patch, or *)
(* the compiler keeps the state of the SPI layer in a register and the      *)
(* program looks at nothing else any more.                                  *)
CallReturns ==
    (pc \notin {"boot", "ready"} /\ kind # "send")
        ~> (pc = "ready" \/ pc \in Stuck \/ odd \/ PatchMissed)

(* A request for a patch that was taken out of the buffer is answered ("we *)
(* need to handle this event after the ResumeSPi", evnt_handler.cpp:479).   *)
PatchServed == [][pc = "patch" /\ pc' # "patch" => pc' = "write"]_vars

(* A send that the radio has executed returns ("Return the number of bytes *)
(* transmitted, or -1 if an error occurred", socket.cpp).                  *)
SendReturns == (pc = "poll" /\ kind = "send") ~> pc = "ready"

\* Buffers freed by events the program has not seen yet.
Coming == Cardinality({i \in 1..Len(out) : out[i].op = "free"})

(* When no send is under way the count of free buffers agrees with the     *)
(* radio's ("Keep track on the number of packets transmitted and update    *)
(* the number of free buffer in the SL device", evnt_handler.cpp:740-741). *)
BuffersCounted ==
    pc = "ready" /\ calls >= 2 => free + used + Coming = Buffers

(* What the program and the interrupt together keep of the link.            *)
LinkSound == TypeOK /\ WrittenOnce /\ BusReleased

=============================================================================
