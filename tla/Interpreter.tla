---------------------------- MODULE Interpreter ----------------------------
(***************************************************************************)
(* The command interpreter of the sketch: loop() and doCommand             *)
(* (CPX_cpp.ino:301-408) with the control effects of the handlers of       *)
(* Lang.cpp, and the host at the other end of the serial line or the TCP   *)
(* connection.                                                             *)
(*                                                                         *)
(* The host sends blocks (one command, or a batch), the device reads one,  *)
(* acknowledges a batch, executes it and answers with the result of its    *)
(* last command.  A batch looks for input before every command and gives   *)
(* up when there is any.  "notify" sends a request to the proxy and takes  *)
(* the next frame it reads for the reply.                                  *)
(*                                                                         *)
(* A frame arrives in two units: the four length characters (part 1) and   *)
(* the body (part 2).  What a handler computes (pins, EEPROM, symbols, R)  *)
(* is left out: a command is described by its effect on control.           *)
(***************************************************************************)
EXTENDS JumpTable

CONSTANTS
    NoLabel,    \* the label of an unlabelled command
    NoCount,    \* the count of an uncounted goto
    Blocks,     \* the blocks the host may send
    MaxSends,   \* bound: how many blocks the host sends
    MaxAsked,   \* bound: notify requests the proxy has not yet replied to
    Polite      \* the host awaits the answer to a block before the next

VARIABLES
    wire,       \* units sent to the device and not yet arrived
    inbox,      \* units arrived and not yet read
    sent,       \* history: the blocks sent; the i-th has id i
    asked,      \* notify requests the proxy has not replied to
    answers,    \* history: the answers transmitted to each block
    status,     \* what the device is doing
    current,    \* the id of the block read last; 0 is a proxy reply
    pc,         \* index of the next command
    returns     \* class of the text in the buffer returns

deviceVars == <<status, current, pc, returns>>
vars == <<tableVars, wire, inbox, sent, asked, answers, deviceVars>>

Ids   == 0..MaxSends
Ops   == {"plain", "bad", "auth", "denied", "trigger", "timedtrigger", "notify", "goto"}
Units == [id : Ids, part : {1, 2}]

Command == [op : Ops, label : Labels \cup {NoLabel}, where : Labels,
            count : CInt \cup {NoCount}]

Block == {b \in [batch : BOOLEAN, cmds : Seq(Command)] : b.batch \/ Len(b.cmds) = 1}

ASSUME BlocksAssumption == Blocks \subseteq Block
ASSUME BoundsAssumption == MaxSends \in Nat /\ MaxAsked \in Nat /\ Polite \in BOOLEAN
ASSUME MarkersAssumption == NoCount \notin CInt /\ NoLabel \notin Labels

Frame(id) == << [id |-> id, part |-> 1], [id |-> id, part |-> 2] >>

-----------------------------------------------------------------------------

(* A proxy reply read as a block has no "command": doCommand's first error *)
(* (CPX_cpp.ino:393-396).                                                  *)
Cmds    == IF current = 0 THEN << >> ELSE sent[current].cmds
IsBatch == current # 0 /\ sent[current].batch
Len1    == IF IsBatch THEN Len(Cmds) ELSE 1

Op == IF current = 0 THEN "bad" ELSE Cmds[pc].op

Busy == status \in {"running", "triggering", "notifying"}

\* The next command is reached: a batch has just found no input.
Ready(op) ==
    /\ status = "running" /\ pc <= Len1
    /\ Op = op
    /\ IsBatch => inbox = << >>

\* What findIndex returns: the first command with the label.
Targets(l)   == {i \in 1..Len(Cmds) : Cmds[i].label = l}
FindIndex(l) == CHOOSE i \in Targets(l) : \A j \in Targets(l) : i <= j

Answer(a) == answers' = [answers EXCEPT ![current] = Append(@, a)]

\* The text the handler leaves in returns; the next command.
Advance(text) == returns' = text /\ pc' = pc + 1

\* The label a goto leaves behind: a single command ignores it, a batch
\* continues at the label or ends with the error "No such label".
JumpTo(l) ==
    IF ~IsBatch THEN Advance("ok")
    ELSE IF Targets(l) # {} THEN pc' = FindIndex(l) /\ returns' = "ok"
    ELSE pc' = Len1 + 1 /\ returns' = "error"

-----------------------------------------------------------------------------

Init ==
    /\ TableInit
    /\ wire = << >> /\ inbox = << >> /\ sent = << >>
    /\ asked = 0
    /\ answers = [i \in Ids |-> << >>]
    /\ status = "idle" /\ current = 0 /\ pc = 1 /\ returns = "none"

\* A handler that answers: ping, the reads and writes of pins, EEPROM and
\* symbols, delay, print, call, send-callback.
Plain ==
    /\ Ready("plain")
    /\ Advance("ok")
    /\ UNCHANGED <<tableVars, wire, inbox, sent, asked, answers, status, current>>

\* No "command", an unknown one, an unknown symbol or function.  A batch
\* goes on with the next command.
Bad ==
    /\ Ready("bad")
    /\ Advance("error")
    /\ UNCHANGED <<tableVars, wire, inbox, sent, asked, answers, status, current>>

\* auth with value true empties returns.
Auth ==
    /\ Ready("auth")
    /\ Advance("none")
    /\ UNCHANGED <<tableVars, wire, inbox, sent, asked, answers, status, current>>

\* auth with value false never returns.
Denied ==
    /\ Ready("denied")
    /\ status' = "halted"
    /\ UNCHANGED <<tableVars, wire, inbox, sent, asked, answers, current, pc, returns>>

Trigger ==
    /\ Ready("trigger") \/ Ready("timedtrigger")
    /\ status' = "triggering"
    /\ UNCHANGED <<tableVars, wire, inbox, sent, asked, answers, current, pc, returns>>

\* The pin changes, or a positive timeout passes.
TriggerDone ==
    /\ status = "triggering"
    /\ status' = "running"
    /\ Advance("ok")
    /\ UNCHANGED <<tableVars, wire, inbox, sent, asked, answers, current>>

TriggerTimeout == TriggerDone /\ Op = "timedtrigger"

\* Mutant of Notify: the device goes on without the reply.
Notify_async ==
    /\ Ready("notify")
    /\ asked < MaxAsked
    /\ asked' = asked + 1
    /\ Advance("ok")
    /\ UNCHANGED <<tableVars, wire, inbox, sent, answers, status, current>>

\* sendCPmessage transmits the request and enters readBlock.
Notify ==
    /\ Ready("notify")
    /\ asked < MaxAsked
    /\ asked' = asked + 1
    /\ status' = "notifying"
    /\ UNCHANGED <<tableVars, wire, inbox, sent, answers, current, pc, returns>>

\* The frame readBlock returns is copied into returns, whatever it is.
TakeReply ==
    /\ status = "notifying"
    /\ Len(inbox) >= 2 /\ Head(inbox).part = 1
    /\ inbox' = Tail(Tail(inbox))
    /\ status' = "running"
    /\ Advance("ok")
    /\ UNCHANGED <<tableVars, wire, sent, asked, answers, current>>

GotoAlways ==
    /\ Ready("goto")
    /\ Cmds[pc].count = NoCount
    /\ JumpTo(Cmds[pc].where)
    /\ UNCHANGED <<tableVars, wire, inbox, sent, asked, answers, status, current>>

\* Mutant of GotoCounted: every execution registers the label anew.
GotoCounted_registers ==
    /\ Ready("goto")
    /\ Cmds[pc].count # NoCount
    /\ Len(jumps) < JumpSlots
    /\ jumps' = Append(jumps, [label |-> Cmds[pc].where, count |-> Cmds[pc].count - 1])
    /\ Advance("ok")
    /\ UNCHANGED <<overrun, taken, granted, wrapped>>
    /\ UNCHANGED <<wire, inbox, sent, asked, answers, status, current>>

\* Mutant of GotoCounted: the count is ignored.
GotoCounted_forever ==
    /\ Ready("goto")
    /\ Cmds[pc].count # NoCount
    /\ JumpTo(Cmds[pc].where)
    /\ UNCHANGED <<tableVars, wire, inbox, sent, asked, answers, status, current>>

GotoCounted ==
    /\ Ready("goto")
    /\ Cmds[pc].count # NoCount
    /\ Visit(Cmds[pc].where, Cmds[pc].count)
    /\ IF Jumps(Cmds[pc].where, Cmds[pc].count)
       THEN JumpTo(Cmds[pc].where)
       ELSE Advance("ok")
    /\ status' = IF overrun' THEN "overrun" ELSE status
    /\ UNCHANGED <<wire, inbox, sent, asked, answers, current>>

\* Mutant of Finish: an error text is dropped.
Finish_mute ==
    /\ status = "running" /\ pc > Len1
    /\ IF returns # "ok" THEN UNCHANGED answers ELSE Answer("result")
    /\ status' = "idle"
    /\ UNCHANGED <<tableVars, wire, inbox, sent, asked, current, pc, returns>>

\* The end of loop(): an empty text is not transmitted.
Finish ==
    /\ status = "running" /\ pc > Len1
    /\ IF returns = "none" THEN UNCHANGED answers
       ELSE Answer(IF returns = "error" THEN "error" ELSE "result")
    /\ status' = "idle"
    /\ UNCHANGED <<tableVars, wire, inbox, sent, asked, current, pc, returns>>

\* Mutant of Interrupt: the "return" after it is forgotten.
Interrupt_goes_on ==
    /\ status = "running" /\ IsBatch /\ pc <= Len1
    /\ inbox # << >>
    /\ Answer("interrupt")
    /\ inbox' = << >>
    /\ UNCHANGED <<tableVars, wire, sent, asked, status, current, pc, returns>>


\* A batch finds input before a command: it answers and gives up.
Interrupt ==
    /\ status = "running" /\ IsBatch /\ pc <= Len1
    /\ inbox # << >>
    /\ Answer("interrupt")
    /\ status' = "draining"
    /\ UNCHANGED <<tableVars, wire, inbox, sent, asked, current, pc, returns>>

\* What has arrived when the loop after that answer ends is thrown away; more
\* may have come since the answer was transmitted.
Drain ==
    /\ status = "draining"
    /\ inbox' = << >>
    /\ status' = "idle"
    /\ UNCHANGED <<tableVars, wire, sent, asked, answers, current, pc, returns>>

\* Mutant of ReadBlock: a batch is acknowledged with a final answer.
ReadBlock_answers ==
    /\ status = "idle"
    /\ Len(inbox) >= 2 /\ Head(inbox).part = 1
    /\ inbox' = Tail(Tail(inbox))
    /\ NewBlock
    /\ current' = Head(inbox).id
    /\ pc' = 1
    /\ status' = "running"
    /\ returns' = "ok"
    /\ UNCHANGED <<wire, sent, asked>>
    /\ answers' = IF IsBatch' THEN [answers EXCEPT ![current'] = Append(@, "result")]
                              ELSE answers

\* The top of loop(): readBlock, parse, and the acknowledgment of a batch.
ReadBlock ==
    /\ status = "idle"
    /\ Len(inbox) >= 2 /\ Head(inbox).part = 1
    /\ inbox' = Tail(Tail(inbox))
    /\ NewBlock
    /\ current' = Head(inbox).id
    /\ pc' = 1
    /\ status' = "running"
    /\ returns' = "ok"
    /\ UNCHANGED <<wire, sent, asked>>
    /\ answers' = IF IsBatch' THEN [answers EXCEPT ![current'] = Append(@, "ack")]
                              ELSE answers

\* readBlock takes the four characters it finds for a length; from the
\* middle of a frame on, what it reads is not modelled any further.
LoseFraming ==
    /\ status \in {"idle", "notifying"}
    /\ inbox # << >> /\ Head(inbox).part = 2
    /\ status' = "desync"
    /\ UNCHANGED <<tableVars, wire, inbox, sent, asked, answers, current, pc, returns>>

-----------------------------------------------------------------------------

\* auth is the one block that is never answered.
Silent(b) == ~b.batch /\ b.cmds[1].op = "auth"

Final == {"result", "error", "interrupt"}

\* The host has the last answer to block i.
Complete(i) ==
    \/ \E k \in 1..Len(answers[i]) : answers[i][k] \in Final
    \/ i <= Len(sent) /\ Silent(sent[i])

HostSend(b) ==
    /\ Len(sent) < MaxSends
    /\ Polite => \A i \in 1..Len(sent) : Complete(i)
    /\ sent' = Append(sent, b)
    /\ wire' = wire \o Frame(Len(sent) + 1)
    /\ UNCHANGED <<tableVars, inbox, asked, answers, deviceVars>>

ProxyReply ==
    /\ asked > 0
    /\ asked' = asked - 1
    /\ wire' = wire \o Frame(0)
    /\ UNCHANGED <<tableVars, inbox, sent, answers, deviceVars>>

Deliver ==
    /\ wire # << >>
    /\ inbox' = Append(inbox, Head(wire))
    /\ wire' = Tail(wire)
    /\ UNCHANGED <<tableVars, sent, asked, answers, deviceVars>>

Execute ==
    \/ Plain \/ Bad \/ Auth \/ Denied \/ Trigger \/ TriggerTimeout
    \/ Notify \/ TakeReply \/ GotoAlways \/ GotoCounted

Device == Execute \/ Finish \/ Interrupt \/ Drain \/ ReadBlock \/ LoseFraming

Next ==
    \/ Device
    \/ TriggerDone
    \/ \E b \in Blocks : HostSend(b)
    \/ ProxyReply
    \/ Deliver

Spec == Init /\ [][Next]_vars

(* The sketch is one loop that runs until it waits for input or a pin; the *)
(* link delivers what was sent and the proxy answers a notify.  Nobody has *)
(* to send a block, and a pin need not ever change.                        *)
Fairness == WF_vars(Device) /\ WF_vars(Deliver) /\ WF_vars(ProxyReply)

FairSpec == Spec /\ Fairness
-----------------------------------------------------------------------------

(* The types of the variables; the jump table has its own.                 *)
TypeOK ==
    /\ TableTypeOK
    /\ wire \in Seq(Units) /\ inbox \in Seq(Units)
    /\ sent \in Seq(Blocks) /\ Len(sent) <= MaxSends
    /\ asked \in 0..MaxAsked
    /\ answers \in [Ids -> Seq(Final \cup {"ack"})]
    /\ status \in {"idle", "running", "triggering", "notifying",
                   "draining", "halted", "overrun", "desync"}
    /\ current \in 0..Len(sent)
    /\ pc \in Nat \ {0}
    /\ returns \in {"none", "ok", "error"}

(* Each block gets at most one final answer; a batch gets its              *)
(* acknowledgment first, a single command none, and the answer to the      *)
(* block being executed is still to come.  Whatever the host sends         *)
(* meanwhile (loop(), CPX_cpp.ino:301-383).                                *)
OneAnswerPerBlock ==
    /\ \A i \in 1..Len(sent) :
         answers[i] \in IF sent[i].batch
                        THEN {<< >>, <<"ack">>} \cup {<<"ack", f>> : f \in Final}
                        ELSE {<< >>, <<"result">>, <<"error">>}
    /\ \A i \in Ids : i > Len(sent) => answers[i] = << >>
    /\ Busy /\ current # 0 => answers[current] = IF IsBatch THEN <<"ack">> ELSE << >>

InFlight(i) == \E u \in 1..Len(inbox \o wire) : (inbox \o wire)[u].id = i

(* With a host that awaits its answers no block gets lost: a block that    *)
(* was sent is on its way, being executed, or completely answered; no      *)
(* interrupt throws it away and no notify takes it for a reply.            *)
NoBlockLost ==
    Polite => \A i \in 1..Len(sent) :
        \/ InFlight(i) \/ Complete(i)
        \/ current = i /\ status # "idle"

(* With such a host a notify gets the proxy's reply: there is one          *)
(* outstanding request or reply exactly while the device waits for it, no  *)
(* block can be read instead, and the stream never loses its framing.      *)
RepliesPaired ==
    Polite =>
        /\ status # "desync"
        /\ status = "notifying" <=> asked > 0 \/ InFlight(0)
        /\ status = "notifying" => \A i \in 1..Len(sent) : ~InFlight(i)

OnlyGoto(g) ==
    /\ IsBatch
    /\ {k \in 1..Len1 : Cmds[k].op = "goto"} = {g}
    /\ Cmds[g].count # NoCount
    /\ \E k \in 1..g : k \in Targets(Cmds[g].where)

Completed(g) ==
    /\ status = "running" /\ pc > Len1
    /\ OnlyGoto(g)

(* A batch whose only goto has a count c of 1, 3 or more and names a label *)
(* at or before it jumps exactly c - 1 times when it is left to run, so    *)
(* that its body is executed c times ("Blink 10 times", test.rb:17-28).    *)
LoopRunsCountTimes ==
    \A g \in 1..Len(Cmds) :
        Completed(g) /\ Cmds[g].count >= 1 /\ Cmds[g].count # 2
            => taken[Cmds[g].where] = Cmds[g].count - 1

(* The same for every count that is at least 1, as test.rb and cpx.rb      *)
(* present it.                                                             *)
EveryLoopRunsCountTimes ==
    \A g \in 1..Len(Cmds) :
        Completed(g) /\ Cmds[g].count >= 1
            => taken[Cmds[g].where] = Cmds[g].count - 1

(* After an interrupt the device waits for a command ("the input to CPX is *)
(* discarded and enters the waiting for command state", cpx.doc): what it  *)
(* reads next is the beginning of a frame.                                 *)
FramingKept == status # "desync"

\* Nothing in the program waits for the outside or loops unconditionally.
Bounded ==
    \A k \in 1..Len(Cmds) :
        /\ Cmds[k].op \notin {"trigger", "notify", "denied"}
        /\ Cmds[k].op = "goto" /\ IsBatch => Cmds[k].count # NoCount

(* A program with counted gotos only comes to its end, without an          *)
(* interrupt, however its loops are nested and share their labels.         *)
CountedProgramsEnd == (Busy /\ Bounded) ~> ~Busy

\* Every wait in the program has an end.
Stoppable == \A k \in 1..Len(Cmds) : Cmds[k].op \notin {"trigger", "denied"}

\* No notify is executed again and again.
NotifiesOnce ==
    \/ \A k \in 1..Len(Cmds) : Cmds[k].op # "notify"
    \/ \A k \in 1..Len(Cmds) : Cmds[k].op # "goto"


(* The same wherever the batch is: a notify in an endless loop may take    *)
(* every frame for its reply.                                              *)
InputAlwaysStops == (Busy /\ Stoppable /\ inbox # << >>) ~> ~Busy

(* With a host that awaits its answers the device keeps the protocol's     *)
(* promise: the two take turns, and every block that ends is responded to. *)
Awaited == \E i \in 1..Len(sent) : ~Complete(i)

Protocol == INSTANCE Transaction WITH
    turn  <- IF Awaited THEN "device" ELSE "host",
    acked <- Awaited /\ answers[Len(sent)] = <<"ack">>

TransactionImplemented == Protocol!Spec

=============================================================================
