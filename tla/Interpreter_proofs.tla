------------------------- MODULE Interpreter_proofs -------------------------
(***************************************************************************)
(* Proofs about Interpreter, for every set of programs, every number of    *)
(* blocks and every host.                                                  *)
(***************************************************************************)
EXTENDS Interpreter, JumpTable_proofs

Answers == Final \cup {"ack"}

(* A head is the first unit of a block's frame.  In a stream of units      *)
(* every head belongs to a block that was sent, has no answer yet and is   *)
(* not being executed, and no block has two heads.                         *)
IsHead(u) == u.part = 1 /\ u.id # 0

Unread(i) ==
    /\ i <= Len(sent)
    /\ answers[i] = << >>
    /\ Busy => current # i

HeadsUnread(s) == \A k \in 1..Len(s) : IsHead(s[k]) => Unread(s[k].id)

HeadsOnce(s) ==
    \A k, m \in 1..Len(s) :
        IsHead(s[k]) /\ IsHead(s[m]) /\ s[k].id = s[m].id => k = m

HeadsApart(s, t) ==
    \A k \in 1..Len(s), m \in 1..Len(t) :
        IsHead(s[k]) /\ IsHead(t[m]) => s[k].id # t[m].id

StreamInv ==
    /\ HeadsUnread(inbox) /\ HeadsUnread(wire)
    /\ HeadsOnce(inbox) /\ HeadsOnce(wire)
    /\ HeadsApart(inbox, wire)

IInv == TypeOK /\ OneAnswerPerBlock /\ StreamInv

-----------------------------------------------------------------------------
(* The program being executed.                                             *)

LEMMA CurrentBlock ==
    ASSUME TypeOK, current # 0
    PROVE  /\ current \in 1..Len(sent)
           /\ sent[current] \in Block
           /\ Cmds = sent[current].cmds
           /\ Cmds \in Seq(Command)
<1>1. current \in 1..Len(sent)
  BY DEF TypeOK
<1>2. sent[current] \in Blocks
  BY <1>1, ElementOfSeq DEF TypeOK
<1>3. sent[current] \in Block
  BY <1>2, BlocksAssumption
<1>4. Cmds = sent[current].cmds
  BY Zenon DEF Cmds
<1>5. sent[current].cmds \in Seq(Command)
  BY <1>3 DEF Block
<1> QED
  BY <1>1, <1>3, <1>4, <1>5

(* A command that is ready is one of the block's; the reply of the proxy   *)
(* (block 0) is none but a bad one.                                        *)
LEMMA ReadyCommand ==
    ASSUME TypeOK, NEW op, Ready(op), op # "bad"
    PROVE  /\ current # 0 /\ pc \in 1..Len(Cmds)
           /\ Cmds[pc] \in Command /\ Cmds[pc].op = op
<1>1. current # 0 /\ Cmds[pc].op = op
  BY DEF Ready, Op
<1>2. Cmds \in Seq(Command) /\ sent[current] \in Block /\ Cmds = sent[current].cmds
  BY <1>1, CurrentBlock
<1>3. Len1 = Len(Cmds)
  <2>1. sent[current].batch \/ Len(Cmds) = 1
    BY <1>2 DEF Block
  <2>2. CASE sent[current].batch
    BY <1>1, <2>2 DEF Len1, IsBatch
  <2>3. CASE ~sent[current].batch
    BY <2>1, <2>3 DEF Len1, IsBatch
  <2> QED
    BY <2>2, <2>3
<1>4. pc \in 1..Len(Cmds)
  BY <1>2, <1>3, LenProperties DEF Ready, TypeOK
<1> QED
  BY <1>1, <1>2, <1>4, ElementOfSeq

LEMMA Len1Type ==
    ASSUME TypeOK
    PROVE  Len1 \in Nat
<1>1. CASE IsBatch
  BY <1>1, CurrentBlock, LenProperties DEF Len1, IsBatch
<1> QED
  BY <1>1 DEF Len1

(* findIndex returns the index of a command when there is one with the     *)
(* label.                                                                  *)
LEMMA FindIndexType ==
    ASSUME TypeOK, current # 0, NEW l \in Labels, Targets(l) # {}
    PROVE  FindIndex(l) \in 1..Len(Cmds)
<1>1. Targets(l) \in SUBSET (1..Len(Cmds)) /\ Targets(l) \in SUBSET Nat
  BY DEF Targets
<1>2. \E i \in Targets(l) : \A j \in Targets(l) : i <= j
  BY <1>1, Minimum
<1> QED
  BY <1>1, <1>2 DEF FindIndex

LEMMA AdvanceType ==
    ASSUME TypeOK, NEW t \in {"none", "ok", "error"}, Advance(t)
    PROVE  pc' \in Nat \ {0} /\ returns' \in {"none", "ok", "error"}
<1>1. pc \in Nat
  BY DEF TypeOK
<1> QED
  BY <1>1 DEF Advance

LEMMA JumpToType ==
    ASSUME TypeOK, current # 0, NEW l \in Labels, JumpTo(l)
    PROVE  pc' \in Nat \ {0} /\ returns' \in {"none", "ok", "error"}
<1>1. CASE ~IsBatch
  BY <1>1, AdvanceType DEF JumpTo
<1>2. CASE IsBatch /\ Targets(l) # {}
  BY <1>2, FindIndexType DEF JumpTo
<1>3. CASE IsBatch /\ Targets(l) = {}
  BY <1>3, Len1Type DEF JumpTo
<1> QED
  BY <1>1, <1>2, <1>3

LEMMA AnswerType ==
    ASSUME TypeOK, NEW a \in Answers, Answer(a)
    PROVE  /\ answers' \in [Ids -> Seq(Answers)]
           /\ answers'[current] = Append(answers[current], a)
           /\ \A i \in Ids : i # current => answers'[i] = answers[i]
<1>1. answers \in [Ids -> Seq(Answers)] /\ current \in Ids
  BY BoundsAssumption, LenProperties DEF TypeOK, Answers, Ids
<1>2. Append(answers[current], a) \in Seq(Answers)
  BY <1>1, AppendProperties
<1> QED
  BY <1>1, <1>2 DEF Answer

-----------------------------------------------------------------------------
(* Steps on the units of a stream.                                         *)

LEMMA FrameUnits ==
    ASSUME NEW i \in Ids
    PROVE  /\ Frame(i) \in Seq(Units) /\ Len(Frame(i)) = 2
           /\ Frame(i)[1] = [id |-> i, part |-> 1]
           /\ Frame(i)[2] = [id |-> i, part |-> 2]
BY DEF Frame, Units

(* readBlock takes two units.                                              *)
LEMMA TakeFrame ==
    ASSUME TypeOK, Len(inbox) >= 2
    PROVE  /\ Head(inbox) = inbox[1] /\ Head(inbox) \in Units
           /\ Tail(Tail(inbox)) \in Seq(Units)
           /\ Len(Tail(Tail(inbox))) = Len(inbox) - 2
           /\ \A k \in 1..Len(inbox) - 2 : Tail(Tail(inbox))[k] = inbox[k + 2]
<1>1. inbox \in Seq(Units) /\ inbox # << >>
  BY EmptySeq DEF TypeOK
<1>2. /\ Tail(inbox) \in Seq(Units) /\ Len(Tail(inbox)) = Len(inbox) - 1
      /\ \A k \in 1..Len(inbox) - 1 : Tail(inbox)[k] = inbox[k + 1]
  BY <1>1, HeadTailProperties
<1>3. Tail(inbox) # << >>
  <2>1. Len(inbox) \in Nat
    BY <1>1, LenProperties
  <2>2. Len(Tail(inbox)) # 0
    BY <1>2, <2>1
  <2> QED
    BY <2>2, EmptySeq
<1>4. /\ Tail(Tail(inbox)) \in Seq(Units)
      /\ Len(Tail(Tail(inbox))) = Len(inbox) - 2
      /\ \A k \in 1..Len(inbox) - 2 : Tail(Tail(inbox))[k] = Tail(inbox)[k + 1]
  BY <1>1, <1>2, <1>3, HeadTailProperties, LenProperties
<1>5. \A k \in 1..Len(inbox) - 2 : Tail(inbox)[k + 1] = inbox[k + 2]
  BY <1>1, <1>2, LenProperties
<1>6. Head(inbox) = inbox[1] /\ Head(inbox) \in Units
  BY <1>1, HeadTailProperties
<1> QED
  BY <1>4, <1>5, <1>6

-----------------------------------------------------------------------------
(* Type correctness, one step per action.                                  *)

LEMMA InitTypeOK == Init => TypeOK
<1> SUFFICES ASSUME Init PROVE TypeOK
  OBVIOUS
<1>1. TableTypeOK
  BY InitTableInv DEF Init, TableInv
<1>2. << >> \in Seq(Answers) /\ << >> \in Seq(Units) /\ << >> \in Seq(Blocks)
  BY EmptySeq
<1>3. answers \in [Ids -> Seq(Answers)]
  BY <1>2 DEF Init
<1>4. /\ wire \in Seq(Units) /\ inbox \in Seq(Units)
      /\ sent \in Seq(Blocks) /\ Len(sent) = 0
  BY <1>2 DEF Init
<1> QED
  BY <1>1, <1>3, <1>4, BoundsAssumption DEF Init, TypeOK, Answers

LEMMA TableUnchanged ==
    ASSUME TableTypeOK, UNCHANGED tableVars
    PROVE  TableTypeOK'
BY DEF TableTypeOK, tableVars

LEMMA GotoCountedTable ==
    ASSUME TypeOK, GotoCounted
    PROVE  /\ Cmds[pc].where \in Labels /\ Cmds[pc].count \in CInt
           /\ Visit(Cmds[pc].where, Cmds[pc].count)
<1>1. Cmds[pc] \in Command
  BY ReadyCommand DEF GotoCounted
<1> QED
  BY <1>1 DEF GotoCounted, Command

LEMMA ExecuteTypeOK == TypeOK /\ (Execute \/ TriggerDone) => TypeOK'
<1> SUFFICES ASSUME TypeOK, Execute \/ TriggerDone PROVE TypeOK'
  OBVIOUS
<1>0. TableTypeOK
  BY DEF TypeOK
<1>1. ASSUME UNCHANGED <<tableVars, wire, inbox, sent, asked, answers, status, current>>,
             pc' \in Nat \ {0}, returns' \in {"none", "ok", "error"}
      PROVE  TypeOK'
  BY <1>0, <1>1, TableUnchanged DEF TypeOK
<1>2. CASE Plain
  BY <1>1, <1>2, AdvanceType DEF Plain
<1>3. CASE Bad
  BY <1>1, <1>3, AdvanceType DEF Bad
<1>4. CASE Auth
  BY <1>1, <1>4, AdvanceType DEF Auth
<1>5. CASE GotoAlways
  <2>1. current # 0 /\ Cmds[pc] \in Command
    BY <1>5, ReadyCommand DEF GotoAlways
  <2>2. Cmds[pc].where \in Labels
    BY <2>1 DEF Command
  <2> QED
    BY <1>1, <1>5, <2>1, <2>2, JumpToType DEF GotoAlways
<1>6. ASSUME UNCHANGED <<tableVars, wire, inbox, sent, answers, current, pc, returns>>,
             asked' \in 0..MaxAsked,
             status' \in {"triggering", "notifying", "halted"}
      PROVE  TypeOK'
  BY <1>0, <1>6, TableUnchanged DEF TypeOK
<1>7. CASE Denied
  BY <1>6, <1>7 DEF Denied, TypeOK
<1>8. CASE Trigger
  BY <1>6, <1>8 DEF Trigger, TypeOK
<1>9. CASE Notify
  <2>1. asked' \in 0..MaxAsked
    BY <1>9, BoundsAssumption DEF Notify, TypeOK
  <2> QED
    BY <1>6, <1>9, <2>1 DEF Notify
<1>10. CASE TriggerDone \/ TriggerTimeout
  <2>1. TriggerDone
    BY <1>10 DEF TriggerTimeout
  <2>2. pc' \in Nat \ {0} /\ returns' \in {"none", "ok", "error"}
    BY <2>1, AdvanceType DEF TriggerDone
  <2> QED
    BY <1>0, <2>1, <2>2, TableUnchanged DEF TriggerDone, TypeOK
<1>11. CASE TakeReply
  <2>1. pc' \in Nat \ {0} /\ returns' \in {"none", "ok", "error"}
    BY <1>11, AdvanceType DEF TakeReply
  <2>2. inbox' \in Seq(Units)
    BY <1>11, TakeFrame DEF TakeReply
  <2> QED
    BY <1>0, <1>11, <2>1, <2>2, TableUnchanged DEF TakeReply, TypeOK
<1>12. CASE GotoCounted
  <2>1. current # 0
    BY <1>12, ReadyCommand DEF GotoCounted
  <2>2. pc' \in Nat \ {0} /\ returns' \in {"none", "ok", "error"}
    <3>1. CASE JumpTo(Cmds[pc].where)
      BY <1>12, <2>1, <3>1, GotoCountedTable, JumpToType
    <3>2. CASE Advance("ok")
      BY <3>2, AdvanceType
    <3> QED
      BY <1>12, <3>1, <3>2 DEF GotoCounted
  <2>3. TableTypeOK'
    BY <1>0, <1>12, GotoCountedTable, VisitTableTypeOK
  <2>4. status' \in {"overrun", "running"}
    BY <1>12 DEF GotoCounted, Ready
  <2> QED
    BY <1>12, <2>2, <2>3, <2>4 DEF GotoCounted, TypeOK
<1> QED
  BY <1>2, <1>3, <1>4, <1>5, <1>7, <1>8, <1>9, <1>10, <1>11, <1>12 DEF Execute

LEMMA FinishTypeOK == TypeOK /\ Finish => TypeOK'
<1> SUFFICES ASSUME TypeOK, Finish PROVE TypeOK'
  OBVIOUS
<1>1. answers' \in [Ids -> Seq(Answers)]
  <2>1. CASE returns = "none"
    BY <2>1 DEF Finish, TypeOK, Answers
  <2>2. CASE returns # "none"
    <3>1. PICK a \in {"error", "result"} : Answer(a)
      BY <2>2 DEF Finish
    <3>2. a \in Answers
      BY DEF Answers, Final
    <3> QED
      BY <3>1, <3>2, AnswerType
  <2> QED
    BY <2>1, <2>2
<1>2. TableTypeOK'
  BY TableUnchanged DEF Finish, TypeOK
<1> QED
  BY <1>1, <1>2 DEF Finish, TypeOK, Answers

LEMMA InterruptTypeOK == TypeOK /\ Interrupt => TypeOK'
<1> SUFFICES ASSUME TypeOK, Interrupt PROVE TypeOK'
  OBVIOUS
<1>1. "interrupt" \in Answers
  BY DEF Answers, Final
<1>2. answers' \in [Ids -> Seq(Answers)]
  BY <1>1, AnswerType DEF Interrupt
<1>3. TableTypeOK'
  BY TableUnchanged DEF Interrupt, TypeOK
<1> QED
  BY <1>2, <1>3 DEF Interrupt, TypeOK, Answers

LEMMA DrainTypeOK == TypeOK /\ Drain => TypeOK'
<1> SUFFICES ASSUME TypeOK, Drain PROVE TypeOK'
  OBVIOUS
<1>1. TableTypeOK' /\ inbox' \in Seq(Units)
  BY TableUnchanged, EmptySeq DEF Drain, TypeOK
<1> QED
  BY <1>1 DEF Drain, TypeOK

(* The head that readBlock takes names the block it executes next.         *)
LEMMA ReadBlockEffect ==
    ASSUME TypeOK, StreamInv, ReadBlock
    PROVE  /\ current' \in 0..Len(sent)
           /\ current' # 0 => IsHead(inbox[1]) /\ Unread(current') /\ inbox[1].id = current'
           /\ ~IsBatch' => answers' = answers
           /\ IsBatch' =>
                /\ current' # 0 /\ current' \in Ids
                /\ answers' = [answers EXCEPT ![current'] = Append(@, "ack")]
<1>1. Head(inbox) = inbox[1] /\ inbox[1] \in Units /\ 1 \in 1..Len(inbox)
  BY TakeFrame, LenProperties DEF ReadBlock, TypeOK
<1>2. current' = inbox[1].id /\ inbox[1].part = 1 /\ current' \in Ids
  BY <1>1 DEF ReadBlock, Units
<1>3. current' # 0 => IsHead(inbox[1]) /\ Unread(current')
  BY <1>1, <1>2 DEF StreamInv, HeadsUnread, IsHead
<1>4. current' \in 0..Len(sent)
  <2>1. Len(sent) \in Nat
    BY LenProperties DEF TypeOK
  <2> QED
    BY <1>2, <1>3, <2>1, BoundsAssumption DEF Unread, Ids
<1>5. IsBatch' => current' # 0
  BY DEF IsBatch
<1> QED
  BY <1>2, <1>3, <1>4, <1>5 DEF ReadBlock

LEMMA ReadBlockTypeOK == TypeOK /\ StreamInv /\ ReadBlock => TypeOK'
<1> SUFFICES ASSUME TypeOK, StreamInv, ReadBlock PROVE TypeOK'
  OBVIOUS
<1>1. answers' \in [Ids -> Seq(Answers)]
  <2>1. answers \in [Ids -> Seq(Answers)] /\ "ack" \in Answers
    BY DEF TypeOK, Answers
  <2>2. CASE IsBatch'
    <3>1. current' \in Ids /\ Append(answers[current'], "ack") \in Seq(Answers)
      BY <2>1, <2>2, ReadBlockEffect, AppendProperties
    <3> QED
      BY <2>1, <2>2, <3>1, ReadBlockEffect
  <2> QED
    BY <2>1, <2>2, ReadBlockEffect
<1>2. TableTypeOK'
  BY NoCountsType, EmptyTable DEF ReadBlock, NewBlock, TypeOK, TableTypeOK
<1>3. inbox' \in Seq(Units)
  BY TakeFrame DEF ReadBlock
<1>4. current' \in 0..Len(sent)
  BY ReadBlockEffect
<1> QED
  BY <1>1, <1>2, <1>3, <1>4 DEF ReadBlock, TypeOK, Answers

LEMMA LoseFramingTypeOK == TypeOK /\ LoseFraming => TypeOK'
BY TableUnchanged DEF LoseFraming, TypeOK

LEMMA HostSendTypeOK ==
    ASSUME TypeOK, NEW b \in Blocks, HostSend(b)
    PROVE  TypeOK'
<1>1. Len(sent) \in Nat /\ Len(sent) + 1 \in Ids
  BY BoundsAssumption, LenProperties DEF HostSend, TypeOK, Ids
<1>2. wire' \in Seq(Units)
  BY <1>1, FrameUnits, ConcatProperties DEF HostSend, TypeOK
<1>3. /\ sent' \in Seq(Blocks) /\ Len(sent') = Len(sent) + 1
  BY AppendProperties DEF HostSend, TypeOK
<1>4. Len(sent') <= MaxSends /\ current \in 0..Len(sent')
  BY <1>1, <1>3, BoundsAssumption DEF HostSend, TypeOK
<1>5. TableTypeOK'
  BY TableUnchanged DEF HostSend, TypeOK
<1> QED
  BY <1>2, <1>3, <1>4, <1>5 DEF HostSend, deviceVars, TypeOK

LEMMA ProxyReplyTypeOK == TypeOK /\ ProxyReply => TypeOK'
<1> SUFFICES ASSUME TypeOK, ProxyReply PROVE TypeOK'
  OBVIOUS
<1>1. 0 \in Ids
  BY BoundsAssumption DEF Ids
<1>2. wire' \in Seq(Units)
  BY <1>1, FrameUnits, ConcatProperties DEF ProxyReply, TypeOK
<1>3. asked' \in 0..MaxAsked
  BY BoundsAssumption DEF ProxyReply, TypeOK
<1>4. TableTypeOK'
  BY TableUnchanged DEF ProxyReply, TypeOK
<1> QED
  BY <1>2, <1>3, <1>4 DEF ProxyReply, deviceVars, TypeOK

LEMMA DeliverTypeOK == TypeOK /\ Deliver => TypeOK'
<1> SUFFICES ASSUME TypeOK, Deliver PROVE TypeOK'
  OBVIOUS
<1>1. wire' \in Seq(Units) /\ inbox' \in Seq(Units)
  BY HeadTailProperties, AppendProperties DEF Deliver, TypeOK
<1>2. TableTypeOK'
  BY TableUnchanged DEF Deliver, TypeOK
<1> QED
  BY <1>1, <1>2 DEF Deliver, deviceVars, TypeOK

LEMMA NextTypeOK == TypeOK /\ StreamInv /\ [Next]_vars => TypeOK'
<1> SUFFICES ASSUME TypeOK, StreamInv, [Next]_vars PROVE TypeOK'
  OBVIOUS
<1>1. CASE UNCHANGED vars
  BY <1>1, TableUnchanged DEF vars, deviceVars, TypeOK
<1> QED
  BY <1>1, ExecuteTypeOK, FinishTypeOK, InterruptTypeOK, DrainTypeOK, ReadBlockTypeOK,
     LoseFramingTypeOK, HostSendTypeOK, ProxyReplyTypeOK, DeliverTypeOK
  DEF Next, Device

-----------------------------------------------------------------------------
(* One answer per block: the shape of the answers and the stream, one step *)
(* per action.                                                             *)

Shape(i) ==
    IF sent[i].batch THEN {<< >>, <<"ack">>} \cup {<<"ack", f>> : f \in Final}
                     ELSE {<< >>, <<"result">>, <<"error">>}

AnswersInv == OneAnswerPerBlock /\ StreamInv

LEMMA InitAnswersInv == Init => AnswersInv
BY DEF Init, AnswersInv, OneAnswerPerBlock, StreamInv, HeadsUnread, HeadsOnce,
       HeadsApart, Busy

(* A step that moves no unit, answers nothing and starts no block.         *)
LEMMA QuietAnswersInv ==
    ASSUME AnswersInv, UNCHANGED <<wire, inbox, sent, answers, current>>, Busy' => Busy
    PROVE  AnswersInv'
<1>1. IsBatch' = IsBatch
  BY DEF IsBatch
<1>2. OneAnswerPerBlock'
  BY <1>1 DEF AnswersInv, OneAnswerPerBlock
<1>3. \A i : Unread(i) => Unread(i)'
  BY DEF Unread
<1>4. StreamInv'
  BY <1>3 DEF AnswersInv, StreamInv, HeadsUnread, HeadsOnce, HeadsApart
<1> QED
  BY <1>2, <1>4 DEF AnswersInv

(* What remains of the stream when readBlock has taken a frame.            *)
LEMMA DroppedStream ==
    ASSUME TypeOK, StreamInv, Len(inbox) >= 2,
           NEW rest, rest = Tail(Tail(inbox))
    PROVE  /\ HeadsUnread(rest) /\ HeadsOnce(rest) /\ HeadsApart(rest, wire)
           /\ IsHead(inbox[1]) =>
                /\ \A k \in 1..Len(rest) : IsHead(rest[k]) => rest[k].id # inbox[1].id
                /\ \A k \in 1..Len(wire) : IsHead(wire[k]) => wire[k].id # inbox[1].id
<1>1. Len(inbox) \in Nat
  BY LenProperties DEF TypeOK
<1>2. /\ Len(rest) = Len(inbox) - 2
      /\ \A k \in 1..Len(rest) : k + 2 \in 1..Len(inbox) /\ rest[k] = inbox[k + 2]
  BY <1>1, TakeFrame
<1>3. HeadsUnread(rest) /\ HeadsApart(rest, wire)
  BY <1>2 DEF StreamInv, HeadsUnread, HeadsApart
<1>4. HeadsOnce(rest)
  <2> SUFFICES ASSUME NEW k \in 1..Len(rest), NEW m \in 1..Len(rest),
                      IsHead(rest[k]), IsHead(rest[m]), rest[k].id = rest[m].id
               PROVE  k = m
    BY DEF HeadsOnce
  <2>1. k + 2 = m + 2
    BY <1>2 DEF StreamInv, HeadsOnce
  <2> QED
    BY <1>1, <1>2, <2>1
<1>5. ASSUME IsHead(inbox[1]), NEW k \in 1..Len(rest), IsHead(rest[k])
      PROVE  rest[k].id # inbox[1].id
  <2>1. 1 \in 1..Len(inbox) /\ k + 2 \in 1..Len(inbox) /\ k + 2 # 1
    BY <1>1, <1>2
  <2> QED
    BY <1>2, <1>5, <2>1 DEF StreamInv, HeadsOnce
<1>6. ASSUME IsHead(inbox[1]), NEW k \in 1..Len(wire), IsHead(wire[k])
      PROVE  wire[k].id # inbox[1].id
  <2>1. 1 \in 1..Len(inbox)
    BY <1>1
  <2> QED
    BY <1>6, <2>1 DEF StreamInv, HeadsApart
<1> QED
  BY <1>3, <1>4, <1>5, <1>6

LEMMA TakeReplyAnswersInv ==
    ASSUME TypeOK, AnswersInv, TakeReply
    PROVE  AnswersInv'
<1>1. /\ UNCHANGED <<wire, sent, answers, current>>
      /\ Busy /\ inbox' = Tail(Tail(inbox)) /\ Len(inbox) >= 2
  BY DEF TakeReply, Busy
<1>2. OneAnswerPerBlock'
  BY <1>1 DEF AnswersInv, OneAnswerPerBlock, IsBatch
<1>3. \A i : Unread(i) => Unread(i)'
  BY <1>1 DEF Unread
<1>4. HeadsUnread(inbox') /\ HeadsOnce(inbox') /\ HeadsApart(inbox', wire)
  BY <1>1, DroppedStream DEF AnswersInv
<1>5. StreamInv'
  BY <1>1, <1>3, <1>4 DEF AnswersInv, StreamInv, HeadsUnread, HeadsOnce, HeadsApart
<1> QED
  BY <1>2, <1>5 DEF AnswersInv

LEMMA ExecuteAnswersInv ==
    ASSUME TypeOK, AnswersInv, Execute \/ TriggerDone \/ LoseFraming \/ UNCHANGED vars
    PROVE  AnswersInv'
<1>1. CASE Plain \/ Bad \/ Auth \/ GotoAlways
  BY <1>1, QuietAnswersInv DEF Plain, Bad, Auth, GotoAlways, Busy
<1>2. CASE Denied \/ Trigger \/ Notify
  BY <1>2, QuietAnswersInv DEF Denied, Trigger, Notify, Ready, Busy
<1>3. CASE TriggerDone \/ TriggerTimeout
  BY <1>3, QuietAnswersInv DEF TriggerDone, TriggerTimeout, Busy
<1>4. CASE GotoCounted
  BY <1>4, QuietAnswersInv DEF GotoCounted, Ready, Busy
<1>5. CASE LoseFraming
  BY <1>5, QuietAnswersInv DEF LoseFraming, Busy
<1>6. CASE UNCHANGED vars
  BY <1>6, QuietAnswersInv DEF vars, deviceVars, Busy
<1>7. CASE TakeReply
  BY <1>7, TakeReplyAnswersInv
<1> QED
  BY <1>1, <1>2, <1>3, <1>4, <1>5, <1>6, <1>7 DEF Execute

LEMMA AppendAnswer ==
    ASSUME NEW f \in Answers
    PROVE  Append(<< >>, f) = <<f>> /\ Append(<<"ack">>, f) = <<"ack", f>>
<1>1. "ack" \in Answers
  BY DEF Answers
<1>2. << >> \in Seq(Answers) /\ <<"ack">> \in Seq(Answers)
  BY <1>1
<1>3. <<f>> \in Seq(Answers) /\ <<"ack", f>> \in Seq(Answers)
  BY <1>1
<1>4. Append(<< >>, f) = <<f>>
  BY <1>2, <1>3, SeqEqual, AppendProperties
<1>5. Append(<<"ack">>, f) = <<"ack", f>>
  <2> DEFINE a == Append(<<"ack">>, f)
  <2>1. a \in Seq(Answers) /\ Len(a) = 2 /\ a[1] = "ack" /\ a[2] = f
    BY <1>2, AppendProperties
  <2> HIDE DEF a
  <2>2. a = <<"ack", f>>
    BY <1>3, <2>1, SeqEqual
  <2> QED
    BY <2>2 DEF a
<1> QED
  BY <1>4, <1>5

LEMMA UnitIds ==
    ASSUME NEW s \in Seq(Units)
    PROVE  \A k \in 1..Len(s) : s[k].id \in Ids
<1> TAKE k \in 1..Len(s)
<1>1. s[k] \in Units
  BY ElementOfSeq
<1> QED
  BY <1>1 DEF Units

(* The last answer to the current block, which is no longer executed: no   *)
(* head in the stream names it.                                            *)
LEMMA LastAnswer ==
    ASSUME TypeOK, AnswersInv, Busy, ~Busy', NEW f \in Final, Answer(f),
           ~IsBatch => f \in {"result", "error"},
           UNCHANGED <<wire, inbox, sent, current>>
    PROVE  AnswersInv'
<1>1. f \in Answers
  BY DEF Answers
<1>2. /\ answers'[current] = Append(answers[current], f)
      /\ \A i \in Ids : i # current => answers'[i] = answers[i]
  BY <1>1, AnswerType
<1>3. Len(sent) \in Nat /\ 1..Len(sent) \subseteq Ids
  BY BoundsAssumption, LenProperties DEF TypeOK, Ids
<1>4. OneAnswerPerBlock'
  <2>1. ASSUME NEW i \in 1..Len(sent) PROVE answers'[i] \in Shape(i)
    <3>1. CASE i # current
      BY <1>2, <1>3, <3>1 DEF AnswersInv, OneAnswerPerBlock, Shape
    <3>2. CASE i = current
      <4>1. current # 0 /\ answers[current] = IF IsBatch THEN <<"ack">> ELSE << >>
        BY <1>3, <3>2 DEF AnswersInv, OneAnswerPerBlock
      <4>2. answers'[i] = IF IsBatch THEN <<"ack", f>> ELSE <<f>>
        BY <1>1, <1>2, <3>2, <4>1, AppendAnswer
      <4>3. IsBatch <=> sent[i].batch
        BY <3>2, <4>1 DEF IsBatch
      <4>4. CASE IsBatch
        BY <4>2, <4>3, <4>4 DEF Shape
      <4>5. CASE ~IsBatch
        BY <4>2, <4>3, <4>5 DEF Shape
      <4> QED
        BY <4>4, <4>5
    <3> QED
      BY <3>1, <3>2
  <2>2. ASSUME NEW i \in Ids, i > Len(sent) PROVE answers'[i] = << >>
    <3>1. i # current
      BY <1>3, <2>2 DEF TypeOK
    <3> QED
      BY <1>2, <2>2, <3>1 DEF AnswersInv, OneAnswerPerBlock
  <2> QED
    BY <2>1, <2>2 DEF OneAnswerPerBlock, Shape
<1>5. \A i \in Ids : Unread(i) => Unread(i)'
  BY <1>2 DEF Unread
<1>6. StreamInv'
  <2>1. \A k \in 1..Len(inbox) : inbox[k].id \in Ids
    BY UnitIds DEF TypeOK
  <2>2. \A k \in 1..Len(wire) : wire[k].id \in Ids
    BY UnitIds DEF TypeOK
  <2> QED
    BY <1>5, <2>1, <2>2 DEF AnswersInv, StreamInv, HeadsUnread, HeadsOnce, HeadsApart
<1> QED
  BY <1>4, <1>6 DEF AnswersInv

LEMMA FinishAnswersInv ==
    ASSUME TypeOK, AnswersInv, Finish
    PROVE  AnswersInv'
<1>1. Busy /\ ~Busy'
  BY DEF Finish, Busy
<1>2. CASE returns = "none"
  BY <1>1, <1>2, QuietAnswersInv DEF Finish
<1>3. CASE returns # "none"
  <2>1. PICK f \in {"error", "result"} : Answer(f)
    BY <1>3 DEF Finish
  <2>2. f \in Final
    BY DEF Final
  <2> QED
    BY <1>1, <2>1, <2>2, LastAnswer DEF Finish
<1> QED
  BY <1>2, <1>3

LEMMA InterruptAnswersInv ==
    ASSUME TypeOK, AnswersInv, Interrupt
    PROVE  AnswersInv'
<1>1. Busy /\ ~Busy' /\ "interrupt" \in Final
  BY DEF Interrupt, Busy, Final
<1> QED
  BY <1>1, LastAnswer DEF Interrupt

LEMMA DrainAnswersInv ==
    ASSUME TypeOK, AnswersInv, Drain
    PROVE  AnswersInv'
<1>1. /\ UNCHANGED <<wire, sent, answers, current>>
      /\ ~Busy /\ ~Busy' /\ 1..Len(inbox') = {}
  BY DEF Drain, Busy
<1>2. OneAnswerPerBlock'
  BY <1>1 DEF AnswersInv, OneAnswerPerBlock
<1>3. \A i : Unread(i) => Unread(i)'
  BY <1>1 DEF Unread
<1> QED
  BY <1>1, <1>2, <1>3 DEF AnswersInv, StreamInv, HeadsUnread, HeadsOnce, HeadsApart

(* The block read is acknowledged when it is a batch; no other head in the *)
(* stream names it.                                                        *)
LEMMA ReadBlockAnswersInv ==
    ASSUME TypeOK, AnswersInv, ReadBlock
    PROVE  AnswersInv'
<1> PICK rest : rest = Tail(Tail(inbox))
  OBVIOUS
<1>1. /\ UNCHANGED <<wire, sent>> /\ inbox' = rest /\ Len(inbox) >= 2
      /\ ~Busy /\ Busy'
  BY DEF ReadBlock, Busy
<1>2. answers \in [Ids -> Seq(Answers)] /\ current' \in 0..Len(sent)
  BY ReadBlockEffect DEF AnswersInv, TypeOK, Answers
<1>3. Len(sent) \in Nat /\ 0..Len(sent) \subseteq Ids
  BY BoundsAssumption, LenProperties DEF TypeOK, Ids
<1>4. IsBatch' <=> current' # 0 /\ sent[current'].batch
  BY <1>1 DEF IsBatch
<1>5. current' # 0 => IsHead(inbox[1]) /\ inbox[1].id = current' /\ answers[current'] = << >>
  BY ReadBlockEffect DEF AnswersInv, Unread
<1>6. \A i \in Ids : i # current' => answers'[i] = answers[i]
  BY <1>2, ReadBlockEffect DEF AnswersInv
<1>7. current' # 0 => answers'[current'] = IF IsBatch' THEN <<"ack">> ELSE << >>
  <2>1. CASE IsBatch'
    <3>1. current' # 0 /\ answers' = [answers EXCEPT ![current'] = Append(@, "ack")]
      BY <2>1, ReadBlockEffect DEF AnswersInv
    <3>2. answers'[current'] = Append(answers[current'], "ack")
      BY <1>2, <1>3, <3>1
    <3>3. Append(<< >>, "ack") = <<"ack">>
      BY AppendAnswer DEF Answers
    <3> QED
      BY <1>5, <2>1, <3>1, <3>2, <3>3
  <2>2. CASE ~IsBatch'
    BY <1>5, <2>2, ReadBlockEffect DEF AnswersInv
  <2> QED
    BY <2>1, <2>2
<1>8. OneAnswerPerBlock'
  <2>1. ASSUME NEW i \in 1..Len(sent) PROVE answers'[i] \in Shape(i)
    <3>1. CASE i # current'
      <4>1. answers'[i] = answers[i]
        BY <1>3, <1>6, <3>1
      <4> QED
        BY <4>1 DEF AnswersInv, OneAnswerPerBlock, Shape
    <3>2. CASE i = current' /\ IsBatch'
      BY <1>4, <1>7, <3>2 DEF Shape
    <3>3. CASE i = current' /\ ~IsBatch'
      <4>1. i # 0 /\ ~sent[i].batch
        BY <1>3, <1>4, <3>3
      <4> QED
        BY <1>7, <3>3, <4>1 DEF Shape
    <3> QED
      BY <3>1, <3>2, <3>3
  <2>2. ASSUME NEW i \in Ids, i > Len(sent) PROVE answers'[i] = << >>
    <3>1. i # current'
      BY <1>2, <1>3, <2>2
    <3> QED
      BY <1>6, <2>2, <3>1 DEF AnswersInv, OneAnswerPerBlock
  <2> QED
    BY <1>1, <1>7, <2>1, <2>2 DEF OneAnswerPerBlock, Shape
<1>9. /\ HeadsUnread(rest) /\ HeadsOnce(rest) /\ HeadsApart(rest, wire)
      /\ current' # 0 =>
           /\ \A k \in 1..Len(rest) : IsHead(rest[k]) => rest[k].id # current'
           /\ \A k \in 1..Len(wire) : IsHead(wire[k]) => wire[k].id # current'
  BY <1>1, <1>5, DroppedStream DEF AnswersInv
<1>10. /\ \A k \in 1..Len(rest) : rest[k].id \in Ids
       /\ \A k \in 1..Len(wire) : wire[k].id \in Ids
  BY <1>1, TakeFrame, UnitIds DEF TypeOK
<1>11. ASSUME NEW i \in Ids, Unread(i), i # current' PROVE Unread(i)'
  BY <1>1, <1>6, <1>11 DEF Unread
<1>12. HeadsUnread(inbox)' /\ HeadsUnread(wire)'
  <2>1. \A k \in 1..Len(rest) : IsHead(rest[k]) => Unread(rest[k].id)'
    BY <1>9, <1>10, <1>11 DEF HeadsUnread, IsHead
  <2>2. ASSUME NEW k \in 1..Len(wire), IsHead(wire[k]), NEW i, i = wire[k].id
        PROVE  Unread(i)'
    <3>1. Unread(i) /\ i \in Ids
      BY <1>10, <2>2 DEF HeadsUnread, AnswersInv, StreamInv
    <3>2. i # current'
      BY <1>9, <2>2 DEF IsHead
    <3> QED
      BY <1>11, <3>1, <3>2
  <2> QED
    BY <1>1, <2>1, <2>2 DEF HeadsUnread
<1> QED
  BY <1>1, <1>8, <1>9, <1>12, SMTT(15)
  DEF AnswersInv, StreamInv, HeadsUnread, HeadsOnce, HeadsApart

(* A frame added to the stream: its first unit is its only head, and that  *)
(* of a new block has a name no other head has.                            *)
LEMMA AddedFrame ==
    ASSUME TypeOK, StreamInv, NEW n \in Ids, n = 0 \/ n = Len(sent) + 1,
           NEW w, w = wire \o Frame(n)
    PROVE  /\ HeadsOnce(w) /\ HeadsApart(inbox, w)
           /\ \A k \in 1..Len(w) : IsHead(w[k]) => Unread(w[k].id) \/ (n # 0 /\ w[k].id = n)
<1>1. Len(wire) \in Nat /\ Len(sent) \in Nat /\ Len(inbox) \in Nat
  BY LenProperties DEF TypeOK
<1>2. /\ Len(w) = Len(wire) + 2
      /\ \A k \in 1..Len(wire) : w[k] = wire[k]
      /\ w[Len(wire) + 1] = [id |-> n, part |-> 1]
      /\ w[Len(wire) + 2] = [id |-> n, part |-> 2]
  <2>1. wire \in Seq(Units)
    BY DEF TypeOK
  <2>2. PICK f : f = Frame(n)
    OBVIOUS
  <2>3. /\ f \in Seq(Units) /\ Len(f) = 2
        /\ f[1] = [id |-> n, part |-> 1] /\ f[2] = [id |-> n, part |-> 2]
    BY <2>2, FrameUnits
  <2>4. /\ Len(w) = Len(wire) + 2
        /\ \A k \in 1..Len(wire) + 2 :
             w[k] = IF k <= Len(wire) THEN wire[k] ELSE f[k - Len(wire)]
    <3>1. w = wire \o f
      BY <2>2
    <3>2. /\ Len(wire \o f) = Len(wire) + Len(f)
          /\ \A i \in 1..Len(wire) + Len(f) :
               (wire \o f)[i] = IF i <= Len(wire) THEN wire[i] ELSE f[i - Len(wire)]
      BY <2>1, <2>3, ConcatProperties
    <3> QED
      BY <2>3, <3>1, <3>2
  <2> QED
    BY <1>1, <2>3, <2>4
<1>3. ASSUME NEW k \in 1..Len(w), IsHead(w[k])
      PROVE  \/ k \in 1..Len(wire) /\ w[k] = wire[k]
             \/ k = Len(wire) + 1 /\ n = Len(sent) + 1 /\ w[k].id = n
  <2>1. CASE k <= Len(wire)
    BY <1>1, <1>2, <2>1
  <2>2. CASE k = Len(wire) + 1
    <3>1. w[k] = [id |-> n, part |-> 1]
      BY <1>2, <2>2
    <3> QED
      BY <1>3, <2>2, <3>1 DEF IsHead
  <2>3. CASE k = Len(wire) + 2
    <3>1. w[k] = [id |-> n, part |-> 2]
      BY <1>2, <2>3
    <3> QED
      BY <1>3, <3>1 DEF IsHead
  <2> QED
    BY <1>1, <1>2, <2>1, <2>2, <2>3
<1>4. \A k \in 1..Len(wire) : IsHead(wire[k]) => wire[k].id # Len(sent) + 1 /\ Unread(wire[k].id)
  BY <1>1 DEF StreamInv, HeadsUnread, Unread
<1>5. \A k \in 1..Len(inbox) : IsHead(inbox[k]) => inbox[k].id # Len(sent) + 1
  BY <1>1 DEF StreamInv, HeadsUnread, Unread
<1>6. HeadsOnce(w)
  <2> SUFFICES ASSUME NEW k \in 1..Len(w), NEW m \in 1..Len(w),
                      IsHead(w[k]), IsHead(w[m]), w[k].id = w[m].id
               PROVE  k = m
    BY DEF HeadsOnce
  <2>1. CASE k \in 1..Len(wire) /\ w[k] = wire[k]
    <3>1. m \in 1..Len(wire) /\ w[m] = wire[m]
      BY <1>1, <1>3, <1>4, <2>1
    <3> QED
      BY <2>1, <3>1 DEF StreamInv, HeadsOnce
  <2>2. CASE k = Len(wire) + 1 /\ n = Len(sent) + 1 /\ w[k].id = n
    BY <1>1, <1>3, <1>4, <2>2
  <2> QED
    BY <1>3, <2>1, <2>2
<1>7. HeadsApart(inbox, w)
  <2> SUFFICES ASSUME NEW k \in 1..Len(inbox), NEW m \in 1..Len(w),
                      IsHead(inbox[k]), IsHead(w[m])
               PROVE  inbox[k].id # w[m].id
    BY DEF HeadsApart
  <2>1. CASE m \in 1..Len(wire) /\ w[m] = wire[m]
    BY <2>1 DEF StreamInv, HeadsApart
  <2>2. CASE n = Len(sent) + 1 /\ w[m].id = n
    BY <1>1, <1>5, <2>2
  <2> QED
    BY <1>3, <2>1, <2>2
<1>8. ASSUME NEW k \in 1..Len(w), IsHead(w[k])
      PROVE  Unread(w[k].id) \/ (n # 0 /\ w[k].id = n)
  BY <1>1, <1>3, <1>4, <1>8
<1> QED
  BY <1>6, <1>7, <1>8

LEMMA HostSendAnswersInv ==
    ASSUME TypeOK, AnswersInv, NEW b \in Blocks, HostSend(b)
    PROVE  AnswersInv'
<1> DEFINE n == Len(sent) + 1
<1>1. /\ Len(sent) \in Nat /\ n \in Ids /\ n # 0 /\ current \in 0..Len(sent)
  BY BoundsAssumption, LenProperties DEF HostSend, TypeOK, Ids
<1>2. PICK w : w = wire \o Frame(n)
  OBVIOUS
<1>3. /\ wire' = w /\ UNCHANGED <<inbox, answers, status, current>>
      /\ sent' = Append(sent, b)
  BY <1>2 DEF HostSend, deviceVars
<1>4. /\ Len(sent') = n /\ sent'[n] = b
      /\ \A i \in 1..Len(sent) : sent'[i] = sent[i]
  BY <1>3, AppendProperties DEF TypeOK
<1>5. answers[n] = << >> /\ (Busy' <=> Busy)
  BY <1>1, <1>3 DEF AnswersInv, OneAnswerPerBlock, Busy
<1>6. OneAnswerPerBlock'
  <2>1. ASSUME NEW i \in 1..Len(sent') PROVE (answers[i] \in Shape(i))'
    <3>1. CASE i = n
      BY <1>3, <1>5, <3>1 DEF Shape
    <3>2. CASE i # n
      <4>1. i \in 1..Len(sent) /\ sent'[i] = sent[i]
        BY <1>1, <1>4, <3>2
      <4> QED
        BY <1>3, <4>1 DEF AnswersInv, OneAnswerPerBlock, Shape
    <3> QED
      BY <3>1, <3>2
  <2>2. ASSUME NEW i \in Ids, i > Len(sent') PROVE answers'[i] = << >>
    BY <1>1, <1>3, <1>4, <2>2 DEF AnswersInv, OneAnswerPerBlock, Ids
  <2>3. current # 0 => IsBatch' = IsBatch
    BY <1>1, <1>3, <1>4 DEF IsBatch
  <2>4. Busy' /\ current' # 0 => answers'[current'] = IF IsBatch' THEN <<"ack">> ELSE << >>
    BY <1>3, <1>5, <2>3 DEF AnswersInv, OneAnswerPerBlock
  <2> QED
    BY <2>1, <2>2, <2>4 DEF OneAnswerPerBlock, Shape
<1>7. HeadsOnce(w) /\ HeadsApart(inbox, w)
      /\ \A k \in 1..Len(w) : IsHead(w[k]) => Unread(w[k].id) \/ w[k].id = n
  BY <1>1, <1>2, AddedFrame DEF AnswersInv
<1>8. ASSUME NEW i \in Ids, Unread(i) \/ i = n PROVE Unread(i)'
  BY <1>1, <1>3, <1>4, <1>5, <1>8 DEF Unread, Ids
<1>9. HeadsUnread(inbox)' /\ HeadsUnread(wire)'
  <2>1. ASSUME NEW k \in 1..Len(inbox), IsHead(inbox[k]), NEW i, i = inbox[k].id
        PROVE  Unread(i)'
    BY <1>8, <2>1, UnitIds DEF TypeOK, AnswersInv, StreamInv, HeadsUnread
  <2>2. \A k \in 1..Len(w) : IsHead(w[k]) => Unread(w[k].id)'
    <3>1. w \in Seq(Units)
      BY <1>1, <1>2, FrameUnits, ConcatProperties DEF TypeOK
    <3> QED
      BY <1>7, <1>8, <3>1, UnitIds
  <2> QED
    BY <1>3, <2>1, <2>2 DEF HeadsUnread
<1> QED
  BY <1>3, <1>6, <1>7, <1>9
  DEF AnswersInv, StreamInv, HeadsUnread, HeadsOnce, HeadsApart

LEMMA ProxyReplyAnswersInv ==
    ASSUME TypeOK, AnswersInv, ProxyReply
    PROVE  AnswersInv'
<1>1. PICK w : w = wire \o Frame(0)
  OBVIOUS
<1>2. wire' = w /\ UNCHANGED <<inbox, sent, answers, status, current>>
  BY <1>1 DEF ProxyReply, deviceVars
<1>3. 0 \in Ids
  BY BoundsAssumption DEF Ids
<1>4. HeadsOnce(w) /\ HeadsApart(inbox, w) /\ HeadsUnread(w)
  BY <1>1, <1>3, AddedFrame DEF AnswersInv, HeadsUnread
<1>5. OneAnswerPerBlock'
  BY <1>2 DEF AnswersInv, OneAnswerPerBlock, Busy, IsBatch
<1>6. \A i : Unread(i) => Unread(i)'
  BY <1>2 DEF Unread, Busy
<1> QED
  BY <1>2, <1>4, <1>5, <1>6
  DEF AnswersInv, StreamInv, HeadsUnread, HeadsOnce, HeadsApart

(* A unit that arrives is a head of the one stream instead of the other.   *)
LEMMA DeliverAnswersInv ==
    ASSUME TypeOK, AnswersInv, Deliver
    PROVE  AnswersInv'
<1>1. PICK s, t : s = Append(inbox, Head(wire)) /\ t = Tail(wire)
  OBVIOUS
<1>2. /\ inbox' = s /\ wire' = t
      /\ UNCHANGED <<sent, answers, status, current>>
  BY <1>1 DEF Deliver, deviceVars
<1>3. Len(wire) \in Nat /\ Len(inbox) \in Nat /\ Len(wire) # 0
  BY LenProperties, EmptySeq DEF Deliver, TypeOK
<1>4. /\ Head(wire) = wire[1] /\ wire[1] \in Units
      /\ Len(t) = Len(wire) - 1 /\ \A k \in 1..Len(t) : t[k] = wire[k + 1]
  BY <1>1, HeadTailProperties DEF Deliver, TypeOK
<1>5. /\ Len(s) = Len(inbox) + 1 /\ s[Len(inbox) + 1] = wire[1]
      /\ \A k \in 1..Len(inbox) : s[k] = inbox[k]
  BY <1>1, <1>4, AppendProperties DEF TypeOK
<1>6. \A k \in 1..Len(s) : \/ k \in 1..Len(inbox) /\ s[k] = inbox[k]
                           \/ k = Len(inbox) + 1 /\ s[k] = wire[1]
  BY <1>3, <1>5
<1>7. 1 \in 1..Len(wire) /\ \A k \in 1..Len(t) : k + 1 \in 1..Len(wire) /\ k + 1 # 1
  BY <1>3, <1>4
<1>8. HeadsUnread(s) /\ HeadsUnread(t)
  <2>1. HeadsUnread(s)
    BY <1>6, <1>7 DEF AnswersInv, StreamInv, HeadsUnread
  <2>2. HeadsUnread(t)
    BY <1>4, <1>7 DEF AnswersInv, StreamInv, HeadsUnread
  <2> QED
    BY <2>1, <2>2
<1>9. HeadsOnce(s)
  <2> SUFFICES ASSUME NEW k \in 1..Len(s), NEW m \in 1..Len(s),
                      IsHead(s[k]), IsHead(s[m]), s[k].id = s[m].id
               PROVE  k = m
    BY DEF HeadsOnce
  <2> USE DEF AnswersInv, StreamInv
  <2>1. CASE k \in 1..Len(inbox) /\ s[k] = inbox[k] /\ m \in 1..Len(inbox) /\ s[m] = inbox[m]
    BY <2>1 DEF HeadsOnce
  <2>2. CASE k \in 1..Len(inbox) /\ s[k] = inbox[k] /\ m = Len(inbox) + 1 /\ s[m] = wire[1]
    BY <1>7, <2>2 DEF HeadsApart
  <2>3. CASE k = Len(inbox) + 1 /\ s[k] = wire[1] /\ m \in 1..Len(inbox) /\ s[m] = inbox[m]
    BY <1>7, <2>3 DEF HeadsApart
  <2> QED
    BY <1>6, <2>1, <2>2, <2>3
<1>10. HeadsOnce(t)
  <2> SUFFICES ASSUME NEW k \in 1..Len(t), NEW m \in 1..Len(t),
                      IsHead(t[k]), IsHead(t[m]), t[k].id = t[m].id
               PROVE  k = m
    BY DEF HeadsOnce
  <2>1. k + 1 = m + 1
    BY <1>4, <1>7 DEF AnswersInv, StreamInv, HeadsOnce
  <2> QED
    BY <1>3, <1>4, <2>1
<1>11. HeadsApart(s, t)
  <2> SUFFICES ASSUME NEW k \in 1..Len(s), NEW m \in 1..Len(t), IsHead(s[k]), IsHead(t[m])
               PROVE  s[k].id # t[m].id
    BY DEF HeadsApart
  <2>1. m + 1 \in 1..Len(wire) /\ m + 1 # 1 /\ t[m] = wire[m + 1]
    BY <1>4, <1>7
  <2>2. CASE k \in 1..Len(inbox) /\ s[k] = inbox[k]
    BY <2>1, <2>2 DEF AnswersInv, StreamInv, HeadsApart
  <2>3. CASE s[k] = wire[1]
    BY <1>7, <2>1, <2>3 DEF AnswersInv, StreamInv, HeadsOnce
  <2> QED
    BY <1>6, <2>2, <2>3
<1>12. OneAnswerPerBlock'
  BY <1>2 DEF AnswersInv, OneAnswerPerBlock, Busy, IsBatch
<1>13. \A i : Unread(i) => Unread(i)'
  BY <1>2 DEF Unread, Busy
<1> QED
  BY <1>2, <1>8, <1>9, <1>10, <1>11, <1>12, <1>13
  DEF AnswersInv, StreamInv, HeadsUnread, HeadsOnce, HeadsApart

-----------------------------------------------------------------------------
(* The theorems.                                                           *)

LEMMA InterpreterInductive ==
    TypeOK /\ AnswersInv /\ [Next]_vars => (TypeOK /\ AnswersInv)'
<1> SUFFICES ASSUME TypeOK, AnswersInv, [Next]_vars PROVE (TypeOK /\ AnswersInv)'
  OBVIOUS
<1>1. TypeOK'
  BY NextTypeOK DEF AnswersInv
<1>2. AnswersInv'
  BY ExecuteAnswersInv, FinishAnswersInv, InterruptAnswersInv, DrainAnswersInv, ReadBlockAnswersInv,
     HostSendAnswersInv, ProxyReplyAnswersInv, DeliverAnswersInv DEF Next, Device
<1> QED
  BY <1>1, <1>2

(* Every variable of the interpreter keeps its type, and the index of the  *)
(* next command stays a valid one (CPX_cpp.ino:301-383).                   *)
THEOREM InterpreterTypeCorrect == Spec => []TypeOK
<1>1. Init => TypeOK /\ AnswersInv
  BY InitTypeOK, InitAnswersInv
<1> QED
  BY <1>1, InterpreterInductive, PTL DEF Spec

(* However the host behaves, a block is answered at most once, a batch     *)
(* after its acknowledgment (CPX_cpp.ino:301-383).                         *)
THEOREM OneAnswerPerBlockThm == Spec => []OneAnswerPerBlock
<1>1. Init => TypeOK /\ AnswersInv
  BY InitTypeOK, InitAnswersInv
<1>2. AnswersInv => OneAnswerPerBlock
  BY DEF AnswersInv
<1> QED
  BY <1>1, <1>2, InterpreterInductive, PTL DEF Spec

(* A step of the interpreter is a step of the jump table or leaves it      *)
(* alone.                                                                  *)
LEMMA TableStep == TypeOK /\ [Next]_vars => [TableNext]_tableVars
<1> SUFFICES ASSUME TypeOK, [Next]_vars PROVE [TableNext]_tableVars
  OBVIOUS
<1>1. CASE GotoCounted
  BY <1>1, GotoCountedTable DEF TableNext
<1>2. CASE ReadBlock
  BY <1>2 DEF ReadBlock, TableNext
<1>3. CASE UNCHANGED vars
  BY <1>3 DEF vars
<1>4. CASE \/ Plain \/ Bad \/ Auth \/ Denied \/ Trigger \/ TriggerTimeout
           \/ Notify \/ TakeReply \/ GotoAlways \/ TriggerDone
  BY <1>4 DEF Plain, Bad, Auth, Denied, Trigger, TriggerTimeout, Notify, TakeReply,
              GotoAlways, TriggerDone
<1>5. CASE Finish \/ Interrupt \/ Drain \/ LoseFraming \/ ProxyReply \/ Deliver
  BY <1>5 DEF Finish, Interrupt, Drain, LoseFraming, ProxyReply, Deliver
<1>6. CASE \E b \in Blocks : HostSend(b)
  BY <1>6 DEF HostSend
<1> QED
  BY <1>1, <1>2, <1>3, <1>4, <1>5, <1>6 DEF Next, Device, Execute

(* What is proved of the jump table by itself holds within the interpreter. *)
LEMMA InterpreterTable == Spec => TableSpec
<1>1. Init => TableInit
  BY DEF Init
<1> QED
  BY <1>1, InterpreterTypeCorrect, TableStep, PTL DEF Spec, TableSpec

(* So what is proved of the jump table holds of every program: until a     *)
(* counter wraps around, a label is jumped to fewer times than its         *)
(* largest count, unless a jump without limit was asked for.               *)
THEOREM ProgramJumpsWithinCount == Spec => []JumpsWithinCount
BY InterpreterTable, JumpsWithinCountThm, PTL

-----------------------------------------------------------------------------
(* Loops.  A batch whose only goto is counted and goes back: the goto has   *)
(* not been reached, or the batch is in the loop and the jumps made and the *)
(* counter of the table's only entry make up the count, or the goto has     *)
(* been passed.  A command that waits is not the goto.                      *)

CountedLoop(g) == OnlyGoto(g) /\ Cmds[g].count >= 1 /\ Cmds[g].count # 2

BeforeLoop(g) == pc <= g /\ jumps = << >> /\ taken[Cmds[g].where] = 0

InLoop(g) ==
    /\ pc <= g /\ Len(jumps) = 1
    /\ jumps[1].label = Cmds[g].where /\ jumps[1].count >= 1
    /\ taken[Cmds[g].where] + jumps[1].count = Cmds[g].count

AfterLoop(g) == pc > g /\ taken[Cmds[g].where] = Cmds[g].count - 1

LoopInv ==
    Busy => \A g \in 1..Len(Cmds) : CountedLoop(g) =>
        /\ pc = g => status = "running"
        /\ pc <= g => ~wrapped /\ ~overrun
        /\ BeforeLoop(g) \/ InLoop(g) \/ AfterLoop(g)

(* The first visit of a loop registers the count less one.                 *)
LEMMA FirstVisit ==
    ASSUME TableTypeOK, NEW l \in Labels, NEW c \in CInt, c >= 1, Visit(l, c),
           ~wrapped, ~overrun, jumps = << >>
    PROVE  /\ ~wrapped' /\ ~overrun'
           /\ Len(jumps') = 1 /\ jumps'[1].label = l /\ jumps'[1].count = c - 1
           /\ Jumps(l, c) <=> c > 2
           /\ taken'[l] = IF c > 2 THEN taken[l] + 1 ELSE taken[l]
<1>1. Len(jumps) = 0 /\ Entries(l) = {}
  BY DEF Entries
<1>2. Registers(l) /\ c # IntMin /\ c \in Int
  BY <1>1, IntMaxAssumption DEF Registers, JumpCount, CInt, IntMin
<1>3. ~wrapped'
  BY <1>1, <1>2 DEF Visit
<1>4. ~overrun'
  BY <1>1, JumpSlotsAssumption DEF Visit
<1>5. Len(jumps') = 1 /\ jumps'[1].label = l /\ jumps'[1].count = c - 1
  BY <1>1, <1>2, <1>3, <1>4, VisitTable
<1>6. Jumps(l, c) <=> c > 2
  <2>1. Remaining(l, c) = c - 1
    BY <1>2, DecType DEF Remaining
  <2> QED
    BY <1>2, <2>1 DEF Jumps
<1>7. taken'[l] = IF c > 2 THEN taken[l] + 1 ELSE taken[l]
  BY <1>3, <1>6 DEF Visit, Count, TableTypeOK
<1> QED
  BY <1>3, <1>4, <1>5, <1>6, <1>7

(* Each further visit takes one off the counter.                           *)
LEMMA NextVisit ==
    ASSUME TableTypeOK, NEW l \in Labels, NEW c \in CInt, Visit(l, c),
           ~wrapped, ~overrun, Len(jumps) = 1, jumps[1].label = l,
           NEW k, k = jumps[1].count, k >= 1
    PROVE  /\ ~wrapped' /\ ~overrun' /\ k \in Int
           /\ Len(jumps') = 1 /\ jumps'[1].label = l /\ jumps'[1].count = k - 1
           /\ Jumps(l, c) <=> k > 1
           /\ taken'[l] = IF k > 1 THEN taken[l] + 1 ELSE taken[l]
<1>1. 1 \in Entries(l) /\ Entries(l) \subseteq {1}
  BY DEF Entries
<1>2. First(l) = 1 /\ Entries(l) # {}
  BY <1>1, FirstEntry
<1>3. JumpCount(l) = k /\ k \in CInt
  BY <1>2, JumpCountType
<1>4. k \in Int /\ k # IntMin /\ k # -1
  BY <1>3, IntMaxAssumption DEF CInt, IntMin
<1>5. ~Registers(l)
  BY <1>3, <1>4 DEF Registers
<1>6. ~wrapped' /\ ~overrun'
  BY <1>3, <1>4, <1>5 DEF Visit
<1>7. Len(jumps') = 1 /\ jumps'[1].label = l /\ jumps'[1].count = k - 1
  BY <1>2, <1>5, <1>6, VisitTable
<1>8. Jumps(l, c) <=> k > 1
  BY <1>3, <1>5 DEF Jumps, Remaining
<1>9. taken'[l] = IF k > 1 THEN taken[l] + 1 ELSE taken[l]
  BY <1>6, <1>8 DEF Visit, Count, TableTypeOK
<1> QED
  BY <1>4, <1>6, <1>7, <1>8, <1>9

(* In such a batch every goto is the counted one, and its label is found   *)
(* at or before it.                                                        *)
LEMMA LoopShape ==
    ASSUME TypeOK, NEW g \in 1..Len(Cmds), CountedLoop(g)
    PROVE  /\ IsBatch /\ current # 0 /\ Len1 = Len(Cmds) /\ Len(Cmds) \in Nat
           /\ Cmds[g].op = "goto" /\ Cmds[g].count # NoCount
           /\ Cmds[g].where \in Labels /\ Cmds[g].count \in CInt
           /\ \A k \in 1..Len(Cmds) : Cmds[k].op = "goto" => k = g
           /\ Targets(Cmds[g].where) # {} /\ FindIndex(Cmds[g].where) \in 1..g
<1>1. IsBatch /\ current # 0 /\ Len1 = Len(Cmds) /\ Cmds[g].count # NoCount
  BY DEF CountedLoop, OnlyGoto, IsBatch, Len1
<1>2. Cmds \in Seq(Command) /\ Len(Cmds) \in Nat
  BY <1>1, CurrentBlock, LenProperties
<1>3. Cmds[g] \in Command
  BY <1>2, ElementOfSeq
<1>4. Cmds[g].where \in Labels /\ Cmds[g].count \in CInt
  BY <1>1, <1>3 DEF Command
<1>5. {k \in 1..Len(Cmds) : Cmds[k].op = "goto"} = {g}
  BY <1>1 DEF CountedLoop, OnlyGoto
<1>6. PICK k \in 1..g : k \in Targets(Cmds[g].where)
  BY DEF CountedLoop, OnlyGoto
<1>7. FindIndex(Cmds[g].where) \in 1..g
  <2>1. Targets(Cmds[g].where) \in SUBSET Nat /\ Targets(Cmds[g].where) \subseteq 1..Len(Cmds)
    BY DEF Targets
  <2>2. \E i \in Targets(Cmds[g].where) : \A j \in Targets(Cmds[g].where) : i <= j
    BY <1>6, <2>1, Minimum
  <2>3. /\ FindIndex(Cmds[g].where) \in Targets(Cmds[g].where)
        /\ \A j \in Targets(Cmds[g].where) : FindIndex(Cmds[g].where) <= j
    BY <2>2 DEF FindIndex
  <2>4. FindIndex(Cmds[g].where) \in 1..Len(Cmds) /\ FindIndex(Cmds[g].where) <= k
    BY <1>6, <2>1, <2>3
  <2> QED
    BY <1>2, <1>6, <2>4
<1> QED
  BY <1>1, <1>2, <1>4, <1>5, <1>6, <1>7

(* The program does not change while it is executed.                       *)
LEMMA SameProgram ==
    ASSUME TypeOK, UNCHANGED current, UNCHANGED sent \/ \E blk \in Blocks : HostSend(blk)
    PROVE  /\ Cmds' = Cmds
           /\ \A g : CountedLoop(g)' <=> CountedLoop(g)
<1>1. current # 0 => sent'[current] = sent[current]
  <2>1. CASE UNCHANGED sent
    BY <2>1
  <2>2. CASE \E blk \in Blocks : HostSend(blk)
    BY <2>2, AppendProperties DEF HostSend, TypeOK
  <2> QED
    BY <2>1, <2>2
<1>2. Cmds' = Cmds /\ (IsBatch' <=> IsBatch)
  BY <1>1 DEF Cmds, IsBatch
<1>3. Len1' = Len1
  BY <1>2 DEF Len1
<1> QED
  BY <1>2, <1>3 DEF CountedLoop, OnlyGoto, Targets

(* A command other than the goto: the next one is reached.                 *)
LEMMA AdvanceLoop ==
    ASSUME TypeOK, LoopInv, Busy, UNCHANGED <<tableVars, sent, current>>, pc' = pc + 1,
           \A g \in 1..Len(Cmds) : CountedLoop(g) => pc # g,
           status' = "running"
    PROVE  LoopInv'
<1> SUFFICES ASSUME NEW g \in 1..Len(Cmds), CountedLoop(g)
             PROVE  /\ pc' <= g => ~wrapped /\ ~overrun
                    /\ (BeforeLoop(g) \/ InLoop(g) \/ AfterLoop(g))'
  BY SameProgram DEF LoopInv, tableVars
<1>1. pc \in Nat /\ g \in Nat /\ pc # g /\ Cmds' = Cmds
  BY SameProgram DEF TypeOK
<1>2. (pc' <= g <=> pc <= g) /\ (pc' > g <=> pc > g)
  BY <1>1
<1> QED
  BY <1>1, <1>2 DEF LoopInv, BeforeLoop, InLoop, AfterLoop, tableVars

(* A step that executes no command of the batch.                           *)
LEMMA StayLoop ==
    ASSUME TypeOK, LoopInv, UNCHANGED <<tableVars, current, pc>>,
           UNCHANGED sent \/ \E blk \in Blocks : HostSend(blk),
           Busy' => Busy,
           Busy' => \A g \in 1..Len(Cmds) : CountedLoop(g) /\ pc = g =>
                                               status' = status \/ status' = "running"
    PROVE  LoopInv'
<1> SUFFICES ASSUME Busy', NEW g \in 1..Len(Cmds), CountedLoop(g)
             PROVE  /\ pc = g => status' = "running"
                    /\ pc <= g => ~wrapped /\ ~overrun
                    /\ (BeforeLoop(g) \/ InLoop(g) \/ AfterLoop(g))'
  BY SameProgram DEF LoopInv, tableVars
<1>1. Cmds' = Cmds
  BY SameProgram
<1> QED
  BY <1>1 DEF LoopInv, BeforeLoop, InLoop, AfterLoop, tableVars

LEMMA GotoCountedLoop ==
    ASSUME TypeOK, LoopInv, GotoCounted
    PROVE  LoopInv'
<1>1. /\ UNCHANGED <<sent, current>> /\ status = "running" /\ Busy
      /\ status' = IF overrun' THEN "overrun" ELSE status
  BY DEF GotoCounted, Ready, Busy
<1> SUFFICES ASSUME NEW g \in 1..Len(Cmds), CountedLoop(g)
             PROVE  /\ status' = "running" /\ ~wrapped' /\ ~overrun'
                    /\ (BeforeLoop(g) \/ InLoop(g) \/ AfterLoop(g))'
  BY <1>1, SameProgram DEF LoopInv
<1>2. Cmds' = Cmds
  BY <1>1, SameProgram
<1>3. pc = g /\ g \in Nat
  BY LoopShape, ReadyCommand DEF GotoCounted
<1>4. PICK l, c : l = Cmds[g].where /\ c = Cmds[g].count
  OBVIOUS
<1>5. /\ l \in Labels /\ c \in CInt /\ Visit(l, c) /\ c >= 1 /\ c # 2 /\ c \in Int
  BY <1>3, <1>4, LoopShape DEF GotoCounted, CountedLoop, CInt
<1>6. ~wrapped /\ ~overrun /\ (BeforeLoop(g) \/ InLoop(g))
  BY <1>1, <1>3 DEF LoopInv, AfterLoop
<1>7. TableTypeOK /\ taken[l] \in Nat
  BY <1>5 DEF TypeOK, TableTypeOK
<1>8. /\ Jumps(l, c) => pc' \in 1..g
      /\ ~Jumps(l, c) => pc' = g + 1
  <2>1. Jumps(l, c) => JumpTo(l)
    BY <1>3, <1>4 DEF GotoCounted
  <2>2. JumpTo(l) => pc' = FindIndex(l)
    BY <1>4, LoopShape DEF JumpTo
  <2>3. ~Jumps(l, c) => pc' = g + 1
    BY <1>3, <1>4 DEF GotoCounted, Advance
  <2> QED
    BY <1>4, <2>1, <2>2, <2>3, LoopShape
<1>9. CASE BeforeLoop(g)
  <2>1. /\ ~wrapped' /\ ~overrun'
        /\ Len(jumps') = 1 /\ jumps'[1].label = l /\ jumps'[1].count = c - 1
        /\ Jumps(l, c) <=> c > 2
        /\ taken'[l] = IF c > 2 THEN taken[l] + 1 ELSE taken[l]
    BY <1>5, <1>6, <1>7, <1>9, FirstVisit DEF BeforeLoop
  <2>2. taken[l] = 0
    BY <1>4, <1>9 DEF BeforeLoop
  <2>3. CASE c > 2
    <3>1. pc' <= g /\ c - 1 >= 1 /\ taken'[l] + (c - 1) = c
      BY <1>3, <1>5, <1>8, <2>1, <2>2, <2>3
    <3>2. InLoop(g)'
      BY <1>2, <1>4, <2>1, <3>1 DEF InLoop
    <3> QED
      BY <1>1, <2>1, <3>2
  <2>4. CASE ~(c > 2)
    <3>1. pc' > g /\ taken'[l] = c - 1
      BY <1>3, <1>5, <1>8, <2>1, <2>2, <2>4
    <3>2. AfterLoop(g)'
      BY <1>2, <1>4, <3>1 DEF AfterLoop
    <3> QED
      BY <1>1, <2>1, <3>2
  <2> QED
    BY <2>3, <2>4
<1>10. CASE InLoop(g)
  <2>1. PICK k : k = jumps[1].count
    OBVIOUS
  <2>2. /\ Len(jumps) = 1 /\ jumps[1].label = l /\ k >= 1 /\ taken[l] + k = c
    BY <1>4, <1>10, <2>1 DEF InLoop
  <2>3. /\ ~wrapped' /\ ~overrun' /\ k \in Int
        /\ Len(jumps') = 1 /\ jumps'[1].label = l /\ jumps'[1].count = k - 1
        /\ Jumps(l, c) <=> k > 1
        /\ taken'[l] = IF k > 1 THEN taken[l] + 1 ELSE taken[l]
    BY <1>5, <1>6, <1>7, <2>1, <2>2, NextVisit
  <2>4. CASE k > 1
    <3>1. pc' <= g /\ k - 1 >= 1 /\ taken'[l] + (k - 1) = c
      BY <1>3, <1>5, <1>7, <1>8, <2>2, <2>3, <2>4
    <3>2. InLoop(g)'
      BY <1>2, <1>4, <2>3, <3>1 DEF InLoop
    <3> QED
      BY <1>1, <2>3, <3>2
  <2>5. CASE ~(k > 1)
    <3>1. pc' > g /\ taken'[l] = c - 1
      BY <1>3, <1>5, <1>7, <1>8, <2>2, <2>3, <2>5
    <3>2. AfterLoop(g)'
      BY <1>2, <1>4, <3>1 DEF AfterLoop
    <3> QED
      BY <1>1, <2>3, <3>2
  <2> QED
    BY <2>4, <2>5
<1> QED
  BY <1>6, <1>9, <1>10

LoopsNamed ==
    \A g \in 1..Len(Cmds) : CountedLoop(g) => g \in Nat \ {0} /\ Cmds[g].where \in Labels

LEMMA LoopLabels == TypeOK => LoopsNamed
BY LoopShape DEF LoopsNamed

LEMMA NextLoop == TypeOK /\ TypeOK' /\ LoopInv /\ [Next]_vars => LoopInv'
<1> SUFFICES ASSUME TypeOK, TypeOK', LoopInv, [Next]_vars PROVE LoopInv'
  OBVIOUS
<1>0. ASSUME NEW op \in Ops, op \notin {"goto", "bad"}, Ready(op),
             NEW g \in 1..Len(Cmds), CountedLoop(g)
      PROVE  pc # g
  BY <1>0, ReadyCommand, LoopShape
<1>1. CASE Plain
  BY <1>0, <1>1, AdvanceLoop DEF Plain, Ready, Busy, Advance, Ops
<1>2. CASE Auth
  BY <1>0, <1>2, AdvanceLoop DEF Auth, Ready, Busy, Advance, Ops
<1>3. CASE Bad
  <2>1. ASSUME NEW g \in 1..Len(Cmds), CountedLoop(g) PROVE pc # g
    BY <1>3, <2>1, LoopShape DEF Bad, Ready, Op
  <2> QED
    BY <1>3, <2>1, AdvanceLoop DEF Bad, Ready, Busy, Advance
<1>4. CASE TriggerDone \/ TriggerTimeout
  <2>1. TriggerDone
    BY <1>4 DEF TriggerTimeout
  <2>2. Busy /\ status # "running"
    BY <2>1 DEF TriggerDone, Busy
  <2> QED
    BY <2>1, <2>2, AdvanceLoop DEF TriggerDone, Advance, LoopInv
<1>5. CASE TakeReply
  <2>1. Busy /\ status # "running"
    BY <1>5 DEF TakeReply, Busy
  <2> QED
    BY <1>5, <2>1, AdvanceLoop DEF TakeReply, Advance, LoopInv
<1>6. CASE Trigger
  BY <1>0, <1>6, StayLoop DEF Trigger, Ready, Busy, Ops
<1>7. CASE Notify
  BY <1>0, <1>7, StayLoop DEF Notify, Ready, Busy, Ops
<1>8. CASE Denied \/ Finish \/ Interrupt \/ Drain \/ LoseFraming
  BY <1>8, StayLoop DEF Denied, Finish, Interrupt, Drain, LoseFraming, Busy
<1>9. CASE ProxyReply \/ Deliver
  BY <1>9, StayLoop DEF ProxyReply, Deliver, deviceVars, Busy
<1>10. CASE \E blk \in Blocks : HostSend(blk)
  <2>1. UNCHANGED <<tableVars, deviceVars>>
    BY <1>10 DEF HostSend
  <2> QED
    BY <1>10, <2>1, StayLoop DEF deviceVars, Busy
<1>11. CASE UNCHANGED vars
  BY <1>11, StayLoop DEF vars, deviceVars, Busy
<1>12. CASE GotoAlways
  <2>1. UNCHANGED <<sent, current>>
    BY <1>12 DEF GotoAlways
  <2>2. ASSUME NEW g \in 1..Len(Cmds), CountedLoop(g) PROVE FALSE
    <3>1. pc = g
      BY <1>12, <2>2, LoopShape, ReadyCommand DEF GotoAlways
    <3> QED
      BY <1>12, <2>2, <3>1, LoopShape DEF GotoAlways
  <2> QED
    BY <2>1, <2>2, SameProgram DEF LoopInv
<1>13. CASE GotoCounted
  BY <1>13, GotoCountedLoop
<1>14. CASE ReadBlock
  <2>1. /\ pc' = 1 /\ status' = "running" /\ jumps' = << >> /\ ~wrapped'
        /\ taken' = NoCounts /\ ~overrun'
    BY <1>14 DEF ReadBlock, NewBlock
  <2>2. LoopsNamed'
    <3>1. (TypeOK => LoopsNamed)'
      BY LoopLabels, PTL
    <3> QED
      BY <3>1
  <2> QED
    BY <2>1, <2>2 DEF LoopsNamed, LoopInv, BeforeLoop, NoCounts
<1> QED
  BY <1>1, <1>2, <1>3, <1>4, <1>5, <1>6, <1>7, <1>8, <1>9, <1>10, <1>11, <1>12, <1>13, <1>14
  DEF Next, Device, Execute

(* A batch whose only goto is counted and goes back runs its loop as often  *)
(* as the count says, unless that is 2, for every program of that kind, and *)
(* every count an int can hold (Lang.cpp:205-227).                          *)
THEOREM LoopRunsCountTimesThm == Spec => []LoopRunsCountTimes
<1>1. Init => TypeOK /\ AnswersInv /\ LoopInv
  BY InitTypeOK, InitAnswersInv DEF Init, LoopInv, Busy
<1>2. TypeOK /\ AnswersInv /\ LoopInv /\ [Next]_vars => (TypeOK /\ AnswersInv /\ LoopInv)'
  BY InterpreterInductive, NextLoop
<1>3. TypeOK /\ LoopInv => LoopRunsCountTimes
  <2> SUFFICES ASSUME TypeOK, LoopInv, NEW g \in 1..Len(Cmds), Completed(g),
                      Cmds[g].count >= 1, Cmds[g].count # 2
               PROVE  taken[Cmds[g].where] = Cmds[g].count - 1
    BY DEF LoopRunsCountTimes
  <2>1. CountedLoop(g) /\ Busy
    BY DEF Completed, CountedLoop, Busy
  <2>2. pc > g
    <3>1. pc > Len(Cmds) /\ Len(Cmds) \in Nat
      BY <2>1, LoopShape DEF Completed
    <3> QED
      BY <3>1 DEF TypeOK
  <2> QED
    BY <2>1, <2>2 DEF LoopInv, BeforeLoop, InLoop, AfterLoop, TypeOK
<1> QED
  BY <1>1, <1>2, <1>3, PTL DEF Spec

-----------------------------------------------------------------------------
(* A host that awaits the answer to a block before it sends the next.      *)

(* A batch that ends with an auth is not answered (doCommand empties       *)
(* returns, and loop() transmits no empty text), so that a host that       *)
(* awaits the answer would wait for ever: a careful one does not send it.  *)
EveryBatchAnswered ==
    \A blk \in Blocks :
        blk.batch /\ Len(blk.cmds) > 0 => blk.cmds[Len(blk.cmds)].op # "auth"

(* The units on their way to the device.                                   *)
Stream == inbox \o wire

(* The whole frames of the blocks that were sent and not read yet, in      *)
(* order.                                                                  *)
BlockFrames ==
    /\ Len(Stream) = 2 * (Len(sent) - current)
    /\ \A k \in 1..Len(sent) - current :
         /\ Stream[2 * k - 1] = [id |-> current + k, part |-> 1]
         /\ Stream[2 * k] = [id |-> current + k, part |-> 2]

(* The whole frame of the proxy's reply.                                   *)
ReplyFrame ==
    /\ Len(Stream) = 2
    /\ Stream[1] = [id |-> 0, part |-> 1]
    /\ Stream[2] = [id |-> 0, part |-> 2]

(* The request is with the proxy, or its reply on the way; the stream has  *)
(* nothing else.                                                           *)
AwaitsReply ==
    /\ current = Len(sent) /\ ~Silent(sent[current])
    /\ \/ asked = 1 /\ Len(Stream) = 0
       \/ asked = 0 /\ ReplyFrame

StreamOrdered ==
    /\ status \notin {"desync", "draining"}
    /\ status = "notifying" => AwaitsReply
    /\ status # "notifying" => asked = 0 /\ BlockFrames

(* Every block but the last one sent has been dealt with; so has every     *)
(* block read, when the device waits for another.                          *)
Settled ==
    /\ \A i \in 1..Len(sent) - 1 : Complete(i)
    /\ status = "idle" => \A i \in 1..current : Complete(i)

(* A block is being executed, never a reply of the proxy; returns is empty *)
(* only after an auth.                                                     *)
EmptyAfterAuth ==
    Busy =>
        /\ current # 0
        /\ returns = "none" => /\ pc > 1 /\ pc - 1 <= Len(Cmds)
                               /\ Cmds[pc - 1].op = "auth"

PoliteInv == StreamOrdered /\ Settled /\ EmptyAfterAuth

-----------------------------------------------------------------------------
(* The stream.                                                             *)

LEMMA JoinedUnits ==
    ASSUME NEW s \in Seq(Units), NEW t \in Seq(Units)
    PROVE  /\ s \o t \in Seq(Units)
           /\ Len(s) \in Nat /\ Len(t) \in Nat
           /\ Len(s \o t) = Len(s) + Len(t)
           /\ \A k \in 1..Len(s) : (s \o t)[k] = s[k]
           /\ \A k \in 1..Len(t) : (s \o t)[Len(s) + k] = t[k]
<1>1. Len(s) \in Nat /\ Len(t) \in Nat
  BY LenProperties
<1>2. /\ s \o t \in Seq(Units) /\ Len(s \o t) = Len(s) + Len(t)
      /\ \A k \in 1..Len(s) + Len(t) :
           (s \o t)[k] = IF k <= Len(s) THEN s[k] ELSE t[k - Len(s)]
  BY ConcatProperties
<1> QED
  BY <1>1, <1>2

LEMMA StreamFacts ==
    ASSUME TypeOK
    PROVE  /\ Stream \in Seq(Units)
           /\ Len(inbox) \in Nat /\ Len(wire) \in Nat
           /\ Len(Stream) = Len(inbox) + Len(wire)
           /\ \A k \in 1..Len(inbox) : Stream[k] = inbox[k]
           /\ \A k \in 1..Len(wire) : Stream[Len(inbox) + k] = wire[k]
<1>1. inbox \in Seq(Units) /\ wire \in Seq(Units)
  BY DEF TypeOK
<1> QED
  BY <1>1, JoinedUnits DEF Stream

LEMMA StreamFactsNext ==
    ASSUME TypeOK'
    PROVE  /\ Stream' \in Seq(Units)
           /\ Len(inbox') \in Nat /\ Len(wire') \in Nat
           /\ Len(Stream') = Len(inbox') + Len(wire')
           /\ \A k \in 1..Len(inbox') : Stream'[k] = inbox'[k]
           /\ \A k \in 1..Len(wire') : Stream'[Len(inbox') + k] = wire'[k]
<1>1. inbox' \in Seq(Units) /\ wire' \in Seq(Units)
  BY DEF TypeOK
<1> QED
  BY <1>1, JoinedUnits DEF Stream

(* A unit that arrives stays in its place.                                 *)
LEMMA DeliverStream ==
    ASSUME TypeOK, TypeOK', Deliver
    PROVE  Stream' = Stream
<1>1. PICK s, t : s = Append(inbox, Head(wire)) /\ t = Tail(wire)
  OBVIOUS
<1>2. inbox' = s /\ wire' = t
  BY <1>1 DEF Deliver
<1>3. Len(wire) \in Nat /\ Len(inbox) \in Nat /\ Len(wire) # 0
  BY LenProperties, EmptySeq DEF Deliver, TypeOK
<1>4. /\ Head(wire) = wire[1] /\ wire[1] \in Units
      /\ Len(t) = Len(wire) - 1 /\ \A k \in 1..Len(t) : t[k] = wire[k + 1]
  BY <1>1, HeadTailProperties DEF Deliver, TypeOK
<1>5. /\ Len(s) = Len(inbox) + 1 /\ s[Len(inbox) + 1] = wire[1]
      /\ \A k \in 1..Len(inbox) : s[k] = inbox[k]
  BY <1>1, <1>4, AppendProperties DEF TypeOK
<1>6. /\ Stream' \in Seq(Units) /\ Len(Stream') = Len(s) + Len(t)
      /\ \A k \in 1..Len(s) : Stream'[k] = s[k]
      /\ \A k \in 1..Len(t) : Stream'[Len(s) + k] = t[k]
  BY <1>2, StreamFactsNext
<1>0. Len(Stream) = Len(inbox) + Len(wire)
  BY StreamFacts
<1>7. Len(Stream') = Len(Stream)
  <2>1. Len(s) = Len(inbox) + 1 /\ Len(t) = Len(wire) - 1 /\ Len(Stream') = Len(s) + Len(t)
    BY <1>4, <1>5, <1>6
  <2> QED
    BY <1>0, <1>3, <2>1
<1>8. ASSUME NEW k \in 1..Len(Stream) PROVE Stream'[k] = Stream[k]
  <2>1. CASE k <= Len(inbox)
    BY <1>3, <1>5, <1>6, <1>8, <2>1, StreamFacts
  <2>2. CASE k = Len(inbox) + 1
    <3>1. Stream[k] = wire[1]
      BY <1>3, <2>2, StreamFacts
    <3> QED
      BY <1>3, <1>5, <1>6, <2>2, <3>1
  <2>3. CASE k > Len(inbox) + 1
    <3>1. PICK m : m = k - Len(inbox) - 1
      OBVIOUS
    <3>2. m \in 1..Len(t) /\ m + 1 \in 1..Len(wire) /\ k = Len(s) + m /\ k = Len(inbox) + (m + 1)
      BY <1>3, <1>4, <1>5, <1>8, <2>3, <3>1, StreamFacts
    <3>3. Stream'[k] = t[m] /\ t[m] = wire[m + 1]
      BY <1>4, <1>6, <3>2
    <3>4. Stream[k] = wire[m + 1]
      BY <3>2, StreamFacts
    <3> QED
      BY <3>3, <3>4
  <2> QED
    BY <1>3, <1>8, <2>1, <2>2, <2>3, StreamFacts
<1> QED
  BY <1>6, <1>7, <1>8, StreamFacts, SeqEqual

(* A frame sent is the end of the stream.                                  *)
LEMMA SendStream ==
    ASSUME TypeOK, TypeOK', NEW n \in Ids, UNCHANGED inbox, wire' = wire \o Frame(n)
    PROVE  /\ Len(Stream') = Len(Stream) + 2
           /\ \A k \in 1..Len(Stream) : Stream'[k] = Stream[k]
           /\ Stream'[Len(Stream) + 1] = [id |-> n, part |-> 1]
           /\ Stream'[Len(Stream) + 2] = [id |-> n, part |-> 2]
<1>1. PICK f : f = Frame(n)
  OBVIOUS
<1>2. /\ f \in Seq(Units) /\ Len(f) = 2
      /\ f[1] = [id |-> n, part |-> 1] /\ f[2] = [id |-> n, part |-> 2]
  BY <1>1, FrameUnits
<1>3. Len(wire) \in Nat /\ Len(inbox) \in Nat
  BY StreamFacts
<1>4. /\ Len(wire') = Len(wire) + 2
      /\ \A k \in 1..Len(wire) + 2 :
           wire'[k] = IF k <= Len(wire) THEN wire[k] ELSE f[k - Len(wire)]
  <2>1. wire' = wire \o f /\ wire \in Seq(Units)
    BY <1>1 DEF TypeOK
  <2> QED
    <3>1. /\ Len(wire \o f) = Len(wire) + Len(f)
          /\ \A i \in 1..Len(wire) + Len(f) :
               (wire \o f)[i] = IF i <= Len(wire) THEN wire[i] ELSE f[i - Len(wire)]
      BY <1>2, <2>1, ConcatProperties
    <3> QED
      BY <1>2, <2>1, <3>1
<1>5. /\ Len(Stream') = Len(inbox) + Len(wire')
      /\ \A k \in 1..Len(inbox) : Stream'[k] = inbox[k]
      /\ \A k \in 1..Len(wire') : Stream'[Len(inbox) + k] = wire'[k]
  BY StreamFactsNext
<1>0. Len(Stream) = Len(inbox) + Len(wire)
  BY StreamFacts
<1>6. Len(Stream') = Len(Stream) + 2
  BY <1>0, <1>3, <1>4, <1>5
<1>7. ASSUME NEW k \in 1..Len(Stream) PROVE Stream'[k] = Stream[k]
  <2>1. CASE k <= Len(inbox)
    BY <1>3, <1>5, <1>7, <2>1, StreamFacts
  <2>2. CASE k > Len(inbox)
    <3>1. PICK m : m = k - Len(inbox)
      OBVIOUS
    <3>2. m \in 1..Len(wire) /\ m \in 1..Len(wire') /\ k = Len(inbox) + m
      BY <1>3, <1>4, <1>7, <2>2, <3>1, StreamFacts
    <3>3. Stream'[k] = wire'[m] /\ wire'[m] = wire[m]
      <4>1. m <= Len(wire) /\ m \in 1..Len(wire) + 2
        BY <1>3, <3>2
      <4>2. Stream'[Len(inbox) + m] = wire'[m]
        BY <1>5, <3>2
      <4> QED
        BY <1>4, <3>2, <4>1, <4>2
    <3>4. Stream[k] = wire[m]
      BY <3>2, StreamFacts
    <3> QED
      BY <3>3, <3>4
  <2> QED
    BY <1>3, <2>1, <2>2
<1>8. Len(wire) + 1 \in 1..Len(wire') /\ Len(wire) + 2 \in 1..Len(wire')
  BY <1>3, <1>4
<1>9. wire'[Len(wire) + 1] = f[1] /\ wire'[Len(wire) + 2] = f[2]
  BY <1>3, <1>4
<1>10. /\ Stream'[Len(inbox) + (Len(wire) + 1)] = f[1]
       /\ Stream'[Len(inbox) + (Len(wire) + 2)] = f[2]
  BY <1>5, <1>8, <1>9
<1>11. /\ Len(inbox) + (Len(wire) + 1) = Len(Stream) + 1
       /\ Len(inbox) + (Len(wire) + 2) = Len(Stream) + 2
  BY <1>0, <1>3
<1> QED
  BY <1>2, <1>6, <1>7, <1>10, <1>11

LEMMA DropTwo ==
    ASSUME NEW s \in Seq(Units), NEW t \in Seq(Units), NEW r \in Seq(Units),
           Len(s) >= 2, Len(r) = Len(s) - 2, \A k \in 1..Len(s) - 2 : r[k] = s[k + 2]
    PROVE  /\ Len(r \o t) = Len(s \o t) - 2 /\ Len(s \o t) >= 2
           /\ \A k \in 1..Len(s \o t) - 2 : (r \o t)[k] = (s \o t)[k + 2]
<1>1. PICK u, v : u = s \o t /\ v = r \o t
  OBVIOUS
<1>2. PICK m, n : m = Len(s) /\ n = Len(t)
  OBVIOUS
<1>3. /\ m \in Nat /\ n \in Nat /\ m >= 2 /\ Len(u) = m + n /\ Len(v) = (m - 2) + n
      /\ \A k \in 1..m : u[k] = s[k]
      /\ \A k \in 1..n : u[m + k] = t[k]
      /\ \A k \in 1..m - 2 : v[k] = r[k]
      /\ \A k \in 1..n : v[(m - 2) + k] = t[k]
  <2>1. /\ m \in Nat /\ n \in Nat /\ Len(u) = m + n
        /\ \A k \in 1..m : u[k] = s[k]
        /\ \A k \in 1..n : u[m + k] = t[k]
    BY <1>1, <1>2, JoinedUnits
  <2>2. /\ Len(v) = Len(r) + n
        /\ \A k \in 1..Len(r) : v[k] = r[k]
        /\ \A k \in 1..n : v[Len(r) + k] = t[k]
    BY <1>1, <1>2, JoinedUnits
  <2>3. m >= 2 /\ Len(r) = m - 2
    BY <1>2
  <2> QED
    BY <2>1, <2>2, <2>3
<1>4. ASSUME NEW k \in 1..(m + n) - 2 PROVE v[k] = u[k + 2]
  <2>1. CASE k <= m - 2
    <3>1. k \in 1..m - 2 /\ k + 2 \in 1..m
      BY <1>3, <2>1
    <3> QED
      BY <1>2, <1>3, <3>1
  <2>2. CASE k > m - 2
    <3>1. PICK j : j = k + 2 - m
      OBVIOUS
    <3>2. j \in 1..n /\ k = (m - 2) + j /\ k + 2 = m + j
      BY <1>3, <2>2, <3>1
    <3>3. v[(m - 2) + j] = t[j] /\ u[m + j] = t[j]
      BY <1>3, <3>2
    <3> QED
      BY <3>2, <3>3
  <2> QED
    BY <1>3, <2>1, <2>2
<1> QED
  BY <1>1, <1>3, <1>4

(* readBlock takes the first two units of the stream.                      *)
LEMMA TakeStream ==
    ASSUME TypeOK, Len(inbox) >= 2, inbox' = Tail(Tail(inbox)), UNCHANGED wire
    PROVE  /\ Head(inbox) = Stream[1]
           /\ Len(Stream') = Len(Stream) - 2 /\ Len(Stream) >= 2
           /\ \A k \in 1..Len(Stream) - 2 : Stream'[k] = Stream[k + 2]
<1>1. /\ Head(inbox) = inbox[1] /\ Tail(Tail(inbox)) \in Seq(Units)
      /\ Len(Tail(Tail(inbox))) = Len(inbox) - 2
      /\ \A k \in 1..Len(inbox) - 2 : Tail(Tail(inbox))[k] = inbox[k + 2]
  BY TakeFrame
<1>2. PICK rest : rest = Tail(Tail(inbox))
  OBVIOUS
<1>3. inbox \in Seq(Units) /\ wire \in Seq(Units) /\ Len(inbox) \in Nat
  BY LenProperties DEF TypeOK
<1>4. /\ Len(rest \o wire) = Len(inbox \o wire) - 2 /\ Len(inbox \o wire) >= 2
      /\ \A k \in 1..Len(inbox \o wire) - 2 : (rest \o wire)[k] = (inbox \o wire)[k + 2]
  BY <1>1, <1>2, <1>3, DropTwo
<1>5. Stream' = rest \o wire
  BY <1>2 DEF Stream
<1>6. Head(inbox) = Stream[1]
  <2>1. \A k \in 1..Len(inbox) : Stream[k] = inbox[k]
    BY StreamFacts
  <2>2. 1 \in 1..Len(inbox)
    BY <1>3
  <2> QED
    BY <1>1, <2>1, <2>2
<1> QED
  BY <1>4, <1>5, <1>6 DEF Stream

-----------------------------------------------------------------------------
(* Answers.                                                                *)

(* An answer once given is not taken back.                                 *)
LEMMA CompleteStays ==
    ASSUME TypeOK, UNCHANGED sent,
           \/ UNCHANGED answers
           \/ \E f \in Answers : Answer(f),
           NEW i \in 1..Len(sent), Complete(i)
    PROVE  Complete(i)'
<1>1. CASE UNCHANGED answers
  BY <1>1 DEF Complete
<1>2. CASE \E f \in Answers : Answer(f)
  <2>1. PICK f \in Answers : Answer(f)
    BY <1>2
  <2>2. /\ answers'[current] = Append(answers[current], f)
        /\ \A j \in Ids : j # current => answers'[j] = answers[j]
        /\ answers \in [Ids -> Seq(Answers)] /\ current \in Ids /\ i \in Ids
    <3>1. /\ answers \in [Ids -> Seq(Answers)] /\ current \in 0..Len(sent)
          /\ Len(sent) \in Nat /\ Len(sent) <= MaxSends
      BY LenProperties DEF TypeOK, Answers
    <3>2. current \in Ids /\ i \in Ids
      BY <3>1, BoundsAssumption DEF Ids
    <3> QED
      BY <2>1, <3>1, <3>2, AnswerType
  <2>3. ASSUME NEW k \in 1..Len(answers[i])
        PROVE  k \in 1..Len(answers'[i]) /\ answers'[i][k] = answers[i][k]
    <3>1. CASE i # current
      BY <2>2, <2>3, <3>1
    <3>2. CASE i = current
      <4>1. answers[i] \in Seq(Answers) /\ answers'[i] = Append(answers[i], f)
        BY <2>2, <3>2
      <4>2. /\ Len(answers'[i]) = Len(answers[i]) + 1 /\ Len(answers[i]) \in Nat
            /\ \A m \in 1..Len(answers[i]) : answers'[i][m] = answers[i][m]
        BY <4>1, AppendProperties, LenProperties
      <4> QED
        BY <2>3, <4>2
    <3> QED
      BY <3>1, <3>2
  <2> QED
    BY <2>3 DEF Complete
<1> QED
  BY <1>1, <1>2

(* A block that is executed and will be answered is not complete; so it is *)
(* the last that was sent.                                                 *)
LEMMA BusyIsLast ==
    ASSUME TypeOK, AnswersInv, Settled, Busy, current # 0, ~Silent(sent[current])
    PROVE  ~Complete(current) /\ current = Len(sent)
<1>1. current \in 1..Len(sent) /\ Len(sent) \in Nat
  BY LenProperties DEF TypeOK
<1>2. answers[current] = <<"ack">> \/ answers[current] = << >>
  BY DEF AnswersInv, OneAnswerPerBlock
<1>3. ~Complete(current)
  <2>1. CASE answers[current] = << >>
    BY <2>1 DEF Complete
  <2>2. CASE answers[current] = <<"ack">>
    <3>1. Len(<<"ack">>) = 1 /\ <<"ack">>[1] = "ack" /\ "ack" \notin Final
      BY DEF Final
    <3> QED
      BY <2>2, <3>1 DEF Complete
  <2> QED
    BY <1>2, <2>1, <2>2
<1> QED
  BY <1>1, <1>3 DEF Settled

LEMMA BatchNotSilent ==
    ASSUME IsBatch
    PROVE  current # 0 /\ ~Silent(sent[current])
BY DEF IsBatch, Silent

-----------------------------------------------------------------------------
(* The invariant, one step per action.                                     *)

LEMMA InitPolite == Init => PoliteInv
<1> SUFFICES ASSUME Init PROVE PoliteInv
  OBVIOUS
<1>1. /\ Len(sent) = 0 /\ current = 0 /\ status = "idle" /\ asked = 0
  BY DEF Init
<1>2. TypeOK /\ Len(inbox) = 0 /\ Len(wire) = 0
  BY InitTypeOK DEF Init
<1>3. Len(Stream) = 0
  BY <1>2, StreamFacts
<1>4. BlockFrames
  BY <1>1, <1>3 DEF BlockFrames
<1> QED
  BY <1>1, <1>4 DEF PoliteInv, StreamOrdered, Settled, EmptyAfterAuth, Busy

LEMMA PoliteUnchanged ==
    ASSUME UNCHANGED <<wire, inbox, sent, asked, answers, current>>
    PROVE  /\ BlockFrames => BlockFrames'
           /\ AwaitsReply => AwaitsReply'
           /\ \A i : Complete(i)' <=> Complete(i)
           /\ Cmds' = Cmds
<1>1. Stream' = Stream
  BY DEF Stream
<1> QED
  BY <1>1 DEF BlockFrames, AwaitsReply, ReplyFrame, Complete, Cmds

(* A step that leaves the stream and the answers alone and keeps executing *)
(* the block.                                                              *)
LEMMA QuietPolite ==
    ASSUME PoliteInv, UNCHANGED <<wire, inbox, sent, asked, answers, current>>,
           Busy, status # "notifying",
           status' \in {"running", "triggering", "halted", "overrun"},
           Busy' /\ returns' = "none" =>
               pc' > 1 /\ pc' - 1 <= Len(Cmds) /\ Cmds[pc' - 1].op = "auth"
    PROVE  PoliteInv'
<1>1. StreamOrdered'
  BY PoliteUnchanged DEF PoliteInv, StreamOrdered
<1>2. Settled'
  BY PoliteUnchanged DEF PoliteInv, Settled
<1>3. EmptyAfterAuth'
  BY PoliteUnchanged DEF PoliteInv, EmptyAfterAuth
<1> QED
  BY <1>1, <1>2, <1>3 DEF PoliteInv

(* What is empty stays so while a command is executed.                     *)
LEMMA AdvancePolite ==
    ASSUME TypeOK, NEW t \in {"none", "ok", "error"}, Advance(t),
           t = "none" => pc <= Len(Cmds) /\ Cmds[pc].op = "auth"
    PROVE  returns' = "none" =>
               pc' > 1 /\ pc' - 1 <= Len(Cmds) /\ Cmds[pc' - 1].op = "auth"
<1>1. pc \in Nat \ {0} /\ pc' = pc + 1 /\ returns' = t
  BY DEF TypeOK, Advance
<1>2. pc' - 1 = pc /\ pc' > 1
  BY <1>1
<1> QED
  BY <1>1, <1>2

LEMMA ExecutePolite ==
    ASSUME TypeOK, PoliteInv,
           \/ Plain \/ Bad \/ Auth \/ Denied \/ Trigger \/ TriggerDone
           \/ GotoAlways \/ GotoCounted
    PROVE  PoliteInv'
<1>1. CASE Plain
  BY <1>1, AdvancePolite, QuietPolite DEF Plain, Ready, Busy
<1>2. CASE Bad
  BY <1>2, AdvancePolite, QuietPolite DEF Bad, Ready, Busy
<1>3. CASE Auth
  <2>1. pc \in 1..Len(Cmds) /\ Cmds[pc].op = "auth"
    BY <1>3, ReadyCommand DEF Auth
  <2>2. pc <= Len(Cmds)
    BY <2>1
  <2> QED
    BY <1>3, <2>1, <2>2, AdvancePolite, QuietPolite DEF Auth, Ready, Busy
<1>4. CASE Denied
  BY <1>4, QuietPolite DEF Denied, Ready, Busy
<1>5. CASE Trigger
  BY <1>5, QuietPolite DEF Trigger, Ready, Busy, PoliteInv, EmptyAfterAuth
<1>6. CASE TriggerDone
  BY <1>6, AdvancePolite, QuietPolite DEF TriggerDone, Busy
<1>7. ASSUME NEW l, JumpTo(l) PROVE returns' # "none"
  BY <1>7 DEF JumpTo, Advance
<1>8. CASE GotoAlways
  BY <1>7, <1>8, QuietPolite DEF GotoAlways, Ready, Busy
<1>9. CASE GotoCounted
  <2>1. returns' # "none"
    BY <1>7, <1>9 DEF GotoCounted, Advance
  <2>2. status' \in {"running", "overrun"}
    BY <1>9 DEF GotoCounted, Ready
  <2> QED
    BY <1>9, <2>1, <2>2, QuietPolite DEF GotoCounted, Ready, Busy
<1> QED
  BY <1>1, <1>2, <1>3, <1>4, <1>5, <1>6, <1>8, <1>9

(* A notify is executed when nothing is on its way.                        *)
LEMMA NotifyPolite ==
    ASSUME TypeOK, AnswersInv, PoliteInv, Notify
    PROVE  PoliteInv'
<1>1. /\ current # 0 /\ pc \in 1..Len(Cmds) /\ Cmds[pc].op = "notify"
      /\ sent[current] \in Block /\ Cmds = sent[current].cmds
  BY ReadyCommand, CurrentBlock DEF Notify
<1>2. ~Silent(sent[current])
  <2>1. CASE sent[current].batch
    BY <2>1 DEF Silent
  <2>2. CASE ~sent[current].batch
    <3>1. Len(Cmds) = 1 /\ pc = 1
      BY <1>1, <2>2 DEF Block
    <3> QED
      BY <1>1, <3>1 DEF Silent
  <2> QED
    BY <2>1, <2>2
<1>3. Busy /\ status = "running"
  BY DEF Notify, Ready, Busy
<1>4. current = Len(sent)
  BY <1>1, <1>2, <1>3, BusyIsLast DEF PoliteInv
<1>5. asked = 0 /\ BlockFrames
  BY <1>3 DEF PoliteInv, StreamOrdered
<1>6. Len(Stream) = 0 /\ asked' = 1 /\ Stream' = Stream
  BY <1>4, <1>5, LenProperties DEF BlockFrames, Notify, Stream, TypeOK
<1>7. AwaitsReply'
  BY <1>2, <1>4, <1>6 DEF AwaitsReply, Notify
<1>8. UNCHANGED <<sent, answers, current, pc, returns>> /\ status' = "notifying"
  BY DEF Notify
<1>9. StreamOrdered'
  BY <1>7, <1>8 DEF StreamOrdered
<1>10. Settled'
  BY <1>8 DEF PoliteInv, Settled, Complete
<1>11. EmptyAfterAuth'
  BY <1>3, <1>8 DEF PoliteInv, EmptyAfterAuth, Cmds
<1> QED
  BY <1>9, <1>10, <1>11 DEF PoliteInv

LEMMA TakeReplyPolite ==
    ASSUME TypeOK, PoliteInv, TakeReply
    PROVE  PoliteInv'
<1>1. /\ UNCHANGED <<wire, sent, asked, answers, current>> /\ status' = "running"
      /\ Busy /\ status = "notifying" /\ Advance("ok")
  BY DEF TakeReply, Busy
<1>2. AwaitsReply
  BY <1>1 DEF PoliteInv, StreamOrdered
<1>3. Len(Stream') = Len(Stream) - 2 /\ Len(Stream) >= 2
  BY TakeStream DEF TakeReply
<1>4. Len(Stream') = 0 /\ asked' = 0 /\ current' = Len(sent')
  BY <1>1, <1>2, <1>3 DEF AwaitsReply, ReplyFrame
<1>5. BlockFrames'
  <2>1. Len(sent') \in Nat
    BY <1>1, LenProperties DEF TypeOK
  <2>2. Len(sent') - current' = 0
    BY <1>4, <2>1
  <2> QED
    BY <1>4, <2>2 DEF BlockFrames
<1>6. StreamOrdered'
  BY <1>1, <1>4, <1>5 DEF StreamOrdered
<1>7. Settled'
  BY <1>1 DEF PoliteInv, Settled, Complete
<1>8. EmptyAfterAuth'
  BY <1>1 DEF PoliteInv, EmptyAfterAuth, Advance
<1> QED
  BY <1>6, <1>7, <1>8 DEF PoliteInv

(* Nothing interrupts a batch, for nothing is on its way.                  *)
LEMMA NoInterrupt ==
    ASSUME TypeOK, AnswersInv, PoliteInv
    PROVE  ~Interrupt /\ ~Drain
<1>1. ~Drain
  BY DEF Drain, PoliteInv, StreamOrdered
<1>2. ASSUME Interrupt PROVE FALSE
  <2>1. Busy /\ IsBatch /\ status = "running" /\ inbox # << >>
    BY <1>2 DEF Interrupt, Busy
  <2>2. current = Len(sent)
    BY <2>1, BatchNotSilent, BusyIsLast DEF PoliteInv
  <2>3. Len(Stream) = 0
    BY <2>1, <2>2, LenProperties DEF PoliteInv, StreamOrdered, BlockFrames, TypeOK
  <2>4. Len(inbox) = 0
    BY <2>3, StreamFacts
  <2> QED
    BY <2>1, <2>4, EmptySeq DEF TypeOK
<1> QED
  BY <1>1, <1>2

(* What waits to be read begins with the first unit of a frame.            *)
LEMMA NoDesync ==
    ASSUME TypeOK, PoliteInv
    PROVE  ~LoseFraming
<1> SUFFICES ASSUME LoseFraming PROVE FALSE
  OBVIOUS
<1>1. inbox # << >> /\ Head(inbox).part = 2 /\ status \in {"idle", "notifying"}
  BY DEF LoseFraming
<1>2. Len(inbox) \in Nat \ {0} /\ Head(inbox) = inbox[1]
  BY <1>1, HeadTailProperties, EmptySeq, LenProperties DEF TypeOK
<1>3. Stream[1] = inbox[1] /\ Len(Stream) \in Nat /\ Len(Stream) # 0
  BY <1>2, StreamFacts
<1>4. CASE status = "notifying"
  <2>1. Stream[1] = [id |-> 0, part |-> 1]
    BY <1>3, <1>4 DEF PoliteInv, StreamOrdered, AwaitsReply, ReplyFrame
  <2> QED
    BY <1>1, <1>2, <1>3, <2>1
<1>5. CASE status = "idle"
  <2>1. BlockFrames
    BY <1>5 DEF PoliteInv, StreamOrdered
  <2>2. 1 \in 1..Len(sent) - current /\ 2 * 1 - 1 = 1
    <3>1. Len(sent) \in Nat /\ current \in Nat
      BY LenProperties DEF TypeOK
    <3>2. Len(Stream) = 2 * (Len(sent) - current) /\ Len(Stream) >= 1
      BY <1>3, <2>1 DEF BlockFrames
    <3> QED
      BY <3>1, <3>2
  <2>3. Stream[1] = [id |-> current + 1, part |-> 1]
    BY <2>1, <2>2 DEF BlockFrames
  <2> QED
    BY <1>1, <1>2, <1>3, <2>3
<1> QED
  BY <1>1, <1>4, <1>5

LEMMA FinishPolite ==
    ASSUME TypeOK, AnswersInv, PoliteInv, EveryBatchAnswered, Finish
    PROVE  PoliteInv'
<1>1. /\ UNCHANGED <<wire, inbox, sent, asked, current, pc, returns>>
      /\ status = "running" /\ status' = "idle" /\ Busy /\ ~Busy' /\ pc > Len1
  BY DEF Finish, Busy
<1>2. StreamOrdered'
  <2>1. Stream' = Stream
    BY <1>1 DEF Stream
  <2> QED
    BY <1>1, <2>1 DEF PoliteInv, StreamOrdered, BlockFrames
<1>3. UNCHANGED answers \/ \E f \in Answers : Answer(f)
  BY DEF Finish, Answers, Final
<1>4. \A i \in 1..Len(sent) : Complete(i) => Complete(i)'
  BY <1>1, <1>3, CompleteStays
<1>5. /\ current # 0 /\ current \in 1..Len(sent) /\ Len(sent) \in Nat
      /\ sent[current] \in Blocks /\ sent[current] \in Block /\ Cmds = sent[current].cmds
      /\ Cmds \in Seq(Command) /\ Len(Cmds) \in Nat
  BY <1>1, CurrentBlock, ElementOfSeq, LenProperties DEF PoliteInv, EmptyAfterAuth, TypeOK
<1>6. Complete(current)'
  <2>1. CASE returns = "none"
    <3>1. pc > 1 /\ pc - 1 <= Len(Cmds) /\ Cmds[pc - 1].op = "auth"
      BY <1>1, <2>1 DEF PoliteInv, EmptyAfterAuth
    <3>2. pc \in Nat
      BY DEF TypeOK
    <3>3. CASE sent[current].batch
      <4>1. Len1 = Len(Cmds)
        BY <1>5, <3>3 DEF Len1, IsBatch
      <4>2. pc - 1 = Len(Cmds) /\ Len(Cmds) > 0
        BY <1>1, <1>5, <3>1, <3>2, <4>1
      <4> QED
        BY <1>5, <3>1, <3>3, <4>2 DEF EveryBatchAnswered
    <3>4. CASE ~sent[current].batch
      <4>1. Len(Cmds) = 1
        BY <1>5, <3>4 DEF Block
      <4>2. pc - 1 = 1
        BY <3>1, <3>2, <4>1
      <4>3. Silent(sent[current])
        BY <1>5, <3>1, <3>4, <4>2 DEF Silent
      <4> QED
        BY <1>1, <1>5, <4>3 DEF Complete
    <3> QED
      BY <3>3, <3>4
  <2>2. CASE returns # "none"
    <3>1. PICK f \in {"error", "result"} : Answer(f)
      BY <2>2 DEF Finish
    <3>2. f \in Answers /\ f \in Final
      BY DEF Answers, Final
    <3>3. current \in Ids /\ answers \in [Ids -> Seq(Answers)]
      BY <1>5, BoundsAssumption DEF TypeOK, Ids, Answers
    <3>4. answers'[current] = Append(answers[current], f) /\ answers[current] \in Seq(Answers)
      BY <3>1, <3>2, <3>3, AnswerType
    <3>5. /\ Len(answers'[current]) = Len(answers[current]) + 1
          /\ answers'[current][Len(answers[current]) + 1] = f
          /\ Len(answers[current]) \in Nat
      BY <3>2, <3>4, AppendProperties, LenProperties
    <3>6. Len(answers[current]) + 1 \in 1..Len(answers'[current])
      BY <3>5
    <3> QED
      BY <1>1, <3>2, <3>5, <3>6 DEF Complete
  <2> QED
    BY <2>1, <2>2
<1>7. Settled'
  <2>1. \A i \in 1..Len(sent) - 1 : Complete(i)'
    BY <1>4, <1>5 DEF PoliteInv, Settled
  <2>2. ASSUME NEW i \in 1..current PROVE Complete(i)'
    <3>1. i = current \/ i \in 1..Len(sent) - 1
      BY <1>5
    <3>2. CASE i = current
      BY <1>1, <1>6, <3>2 DEF Complete
    <3> QED
      BY <2>1, <3>1, <3>2
  <2> QED
    BY <1>1, <2>1, <2>2 DEF Settled
<1> QED
  BY <1>1, <1>2, <1>7 DEF PoliteInv, EmptyAfterAuth

LEMMA ReadBlockPolite ==
    ASSUME TypeOK, AnswersInv, PoliteInv, ReadBlock
    PROVE  PoliteInv'
<1>1. /\ UNCHANGED <<wire, sent, asked>> /\ status = "idle" /\ status' = "running"
      /\ returns' = "ok" /\ current' = Head(inbox).id /\ Busy'
  BY DEF ReadBlock, Busy
<1>2. /\ Head(inbox) = Stream[1] /\ Len(Stream') = Len(Stream) - 2 /\ Len(Stream) >= 2
      /\ \A k \in 1..Len(Stream) - 2 : Stream'[k] = Stream[k + 2]
  BY TakeStream DEF ReadBlock
<1>3. BlockFrames /\ asked = 0
  BY <1>1 DEF PoliteInv, StreamOrdered
<1>4. Len(sent) \in Nat /\ current \in Nat /\ current <= Len(sent)
  BY LenProperties DEF TypeOK
<1>5. PICK n, m : n = current /\ m = Len(sent)
  OBVIOUS
<1>6. /\ Len(Stream) = 2 * (m - n)
      /\ \A k \in 1..m - n : /\ Stream[2 * k - 1] = [id |-> n + k, part |-> 1]
                             /\ Stream[2 * k] = [id |-> n + k, part |-> 2]
  BY <1>3, <1>5 DEF BlockFrames
<1>7. n \in Nat /\ m \in Nat /\ m - n >= 1
  BY <1>2, <1>4, <1>5, <1>6
<1>8. current' = n + 1
  <2>1. 1 \in 1..m - n /\ 2 * 1 - 1 = 1
    BY <1>7
  <2>2. Stream[1] = [id |-> n + 1, part |-> 1]
    BY <1>6, <2>1
  <2> QED
    BY <1>1, <1>2, <2>2
<1>9. Len(Stream') = 2 * (m - (n + 1))
  BY <1>2, <1>6, <1>7
<1>10. ASSUME NEW k \in 1..m - (n + 1)
       PROVE  /\ Stream'[2 * k - 1] = [id |-> (n + 1) + k, part |-> 1]
              /\ Stream'[2 * k] = [id |-> (n + 1) + k, part |-> 2]
  <2>1. /\ k + 1 \in 1..m - n /\ 2 * (k + 1) - 1 = (2 * k - 1) + 2 /\ 2 * (k + 1) = 2 * k + 2
        /\ n + (k + 1) = (n + 1) + k
    BY <1>7
  <2>2. 2 * k - 1 \in 1..Len(Stream) - 2 /\ 2 * k \in 1..Len(Stream) - 2
    BY <1>6, <1>7
  <2>3. Stream'[2 * k - 1] = Stream[2 * (k + 1) - 1] /\ Stream'[2 * k] = Stream[2 * (k + 1)]
    BY <1>2, <2>1, <2>2
  <2>4. /\ Stream[2 * (k + 1) - 1] = [id |-> n + (k + 1), part |-> 1]
        /\ Stream[2 * (k + 1)] = [id |-> n + (k + 1), part |-> 2]
    BY <1>6, <2>1
  <2> QED
    BY <2>1, <2>3, <2>4
<1>11. BlockFrames'
  BY <1>1, <1>5, <1>8, <1>9, <1>10 DEF BlockFrames
<1>12. StreamOrdered'
  BY <1>1, <1>3, <1>11 DEF StreamOrdered
<1>13. Settled'
  <2>1. UNCHANGED answers \/ \E f \in Answers : answers' = [answers EXCEPT ![current'] = Append(@, f)]
    BY DEF ReadBlock, Answers
  <2>2. ASSUME NEW i \in 1..Len(sent) - 1 PROVE Complete(i)'
    <3>1. CASE i = current'
      <4>1. Unread(i)
        BY <1>7, <1>8, <3>1, ReadBlockEffect DEF AnswersInv
      <4>2. Complete(i) /\ answers[i] = << >>
        BY <2>2, <4>1 DEF PoliteInv, Settled, Unread
      <4>3. i <= Len(sent) /\ Silent(sent[i])
        BY <4>2 DEF Complete
      <4> QED
        BY <1>1, <4>3 DEF Complete
    <3>2. CASE i # current'
      <4>1. Complete(i)
        BY <2>2 DEF PoliteInv, Settled
      <4>2. i \in Ids /\ answers \in [Ids -> Seq(Answers)]
        BY <1>4, BoundsAssumption DEF TypeOK, Ids, Answers
      <4>3. answers'[i] = answers[i]
        BY <2>1, <3>2, <4>2
      <4> QED
        BY <1>1, <4>1, <4>3 DEF Complete
    <3> QED
      BY <3>1, <3>2
  <2> QED
    BY <1>1, <2>2 DEF Settled
<1>14. EmptyAfterAuth'
  BY <1>1, <1>7, <1>8 DEF EmptyAfterAuth
<1> QED
  BY <1>12, <1>13, <1>14 DEF PoliteInv

(* The host sends a block when all others are complete: no notify waits    *)
(* for its reply then.                                                     *)
LEMMA HostSendPolite ==
    ASSUME TypeOK, TypeOK', AnswersInv, PoliteInv, Polite, NEW blk \in Blocks, HostSend(blk)
    PROVE  PoliteInv'
<1>1. /\ \A i \in 1..Len(sent) : Complete(i)
      /\ sent' = Append(sent, blk) /\ wire' = wire \o Frame(Len(sent) + 1)
      /\ UNCHANGED <<inbox, asked, answers, status, current, pc, returns>>
  BY DEF HostSend, deviceVars
<1>2. PICK n, m : n = current /\ m = Len(sent)
  OBVIOUS
<1>3. /\ n \in Nat /\ m \in Nat /\ n <= m /\ m + 1 \in Ids
  BY <1>2, LenProperties, BoundsAssumption DEF HostSend, TypeOK, Ids
<1>4. /\ Len(sent') = m + 1 /\ \A i \in 1..m : sent'[i] = sent[i]
  BY <1>1, <1>2, AppendProperties DEF TypeOK
<1>5. status # "notifying"
  <2> SUFFICES ASSUME status = "notifying" PROVE FALSE
    OBVIOUS
  <2>1. AwaitsReply /\ Busy /\ current # 0
    BY DEF PoliteInv, StreamOrdered, EmptyAfterAuth, Busy
  <2>2. ~Complete(current) /\ current \in 1..Len(sent)
    BY <1>2, <1>3, <2>1, BusyIsLast DEF PoliteInv, AwaitsReply
  <2> QED
    BY <1>1, <2>2
<1>6. asked = 0 /\ BlockFrames
  BY <1>5 DEF PoliteInv, StreamOrdered
<1>7. /\ Len(Stream) = 2 * (m - n)
      /\ \A k \in 1..m - n : /\ Stream[2 * k - 1] = [id |-> n + k, part |-> 1]
                             /\ Stream[2 * k] = [id |-> n + k, part |-> 2]
  BY <1>2, <1>6 DEF BlockFrames
<1>8. /\ Len(Stream') = Len(Stream) + 2
      /\ \A k \in 1..Len(Stream) : Stream'[k] = Stream[k]
      /\ Stream'[Len(Stream) + 1] = [id |-> m + 1, part |-> 1]
      /\ Stream'[Len(Stream) + 2] = [id |-> m + 1, part |-> 2]
  BY <1>1, <1>2, <1>3, SendStream
<1>9. ASSUME NEW k \in 1..(m + 1) - n
      PROVE  /\ Stream'[2 * k - 1] = [id |-> n + k, part |-> 1]
             /\ Stream'[2 * k] = [id |-> n + k, part |-> 2]
  <2>1. CASE k = (m + 1) - n
    <3>1. 2 * k - 1 = Len(Stream) + 1 /\ 2 * k = Len(Stream) + 2 /\ n + k = m + 1
      BY <1>3, <1>7, <2>1
    <3> QED
      BY <1>8, <3>1
  <2>2. CASE k # (m + 1) - n
    <3>1. k \in 1..m - n /\ 2 * k - 1 \in 1..Len(Stream) /\ 2 * k \in 1..Len(Stream)
      BY <1>3, <1>7, <2>2
    <3>2. Stream'[2 * k - 1] = Stream[2 * k - 1] /\ Stream'[2 * k] = Stream[2 * k]
      BY <1>8, <3>1
    <3> QED
      BY <1>7, <3>1, <3>2
  <2> QED
    BY <2>1, <2>2
<1>10. Len(Stream') = 2 * ((m + 1) - n)
  BY <1>3, <1>7, <1>8
<1>11. BlockFrames'
  BY <1>1, <1>2, <1>4, <1>9, <1>10 DEF BlockFrames
<1>12. StreamOrdered'
  BY <1>1, <1>5, <1>6, <1>11 DEF PoliteInv, StreamOrdered
<1>13. \A i \in 1..m : Complete(i)'
  BY <1>1, <1>2, <1>3, <1>4 DEF Complete
<1>14. Settled'
  <2>1. Len(sent') - 1 = m /\ 1..current' \subseteq 1..m
    BY <1>1, <1>2, <1>3, <1>4
  <2> QED
    BY <1>13, <2>1 DEF Settled
<1>15. EmptyAfterAuth'
  <2>1. Cmds' = Cmds
    BY <1>1, <1>2, <1>3, <1>4 DEF Cmds
  <2> QED
    BY <1>1, <2>1 DEF PoliteInv, EmptyAfterAuth, Busy
<1> QED
  BY <1>12, <1>14, <1>15 DEF PoliteInv

LEMMA ProxyReplyPolite ==
    ASSUME TypeOK, TypeOK', PoliteInv, ProxyReply
    PROVE  PoliteInv'
<1>1. /\ asked > 0 /\ asked' = asked - 1 /\ wire' = wire \o Frame(0)
      /\ UNCHANGED <<inbox, sent, answers, status, current, pc, returns>>
  BY DEF ProxyReply, deviceVars
<1>2. status = "notifying" /\ AwaitsReply
  BY <1>1 DEF PoliteInv, StreamOrdered
<1>3. asked = 1 /\ Len(Stream) = 0
  BY <1>1, <1>2 DEF AwaitsReply
<1>4. 0 \in Ids
  BY BoundsAssumption DEF Ids
<1>5. /\ Len(Stream') = Len(Stream) + 2
      /\ Stream'[Len(Stream) + 1] = [id |-> 0, part |-> 1]
      /\ Stream'[Len(Stream) + 2] = [id |-> 0, part |-> 2]
  BY <1>1, <1>4, SendStream
<1>6. ReplyFrame' /\ asked' = 0
  BY <1>1, <1>3, <1>5 DEF ReplyFrame
<1>7. StreamOrdered'
  BY <1>1, <1>2, <1>6 DEF StreamOrdered, AwaitsReply
<1>8. Settled'
  BY <1>1 DEF PoliteInv, Settled, Complete
<1>9. EmptyAfterAuth'
  BY <1>1 DEF PoliteInv, EmptyAfterAuth, Busy, Cmds
<1> QED
  BY <1>7, <1>8, <1>9 DEF PoliteInv

LEMMA DeliverPolite ==
    ASSUME TypeOK, TypeOK', PoliteInv, Deliver
    PROVE  PoliteInv'
<1>1. UNCHANGED <<sent, asked, answers, status, current, pc, returns>>
  BY DEF Deliver, deviceVars
<1>2. Stream' = Stream
  BY DeliverStream
<1>3. StreamOrdered'
  BY <1>1, <1>2 DEF PoliteInv, StreamOrdered, BlockFrames, AwaitsReply, ReplyFrame
<1>4. Settled'
  BY <1>1 DEF PoliteInv, Settled, Complete
<1>5. EmptyAfterAuth'
  BY <1>1 DEF PoliteInv, EmptyAfterAuth, Busy, Cmds
<1> QED
  BY <1>3, <1>4, <1>5 DEF PoliteInv

LEMMA StutterPolite ==
    ASSUME PoliteInv, UNCHANGED vars
    PROVE  PoliteInv'
<1>1. UNCHANGED <<wire, inbox, sent, asked, answers, status, current, pc, returns>>
  BY DEF vars, deviceVars
<1>2. Stream' = Stream
  BY <1>1 DEF Stream
<1>3. StreamOrdered'
  BY <1>1, <1>2 DEF PoliteInv, StreamOrdered, BlockFrames, AwaitsReply, ReplyFrame
<1>4. Settled'
  BY <1>1 DEF PoliteInv, Settled, Complete
<1>5. EmptyAfterAuth'
  BY <1>1 DEF PoliteInv, EmptyAfterAuth, Busy, Cmds
<1> QED
  BY <1>3, <1>4, <1>5 DEF PoliteInv

LEMMA NextPolite ==
    ASSUME TypeOK, AnswersInv, PoliteInv, Polite, EveryBatchAnswered, [Next]_vars
    PROVE  PoliteInv'
<1>0. TypeOK'
  BY InterpreterInductive
<1>1. CASE Execute \/ TriggerDone
  BY <1>1, ExecutePolite, NotifyPolite, TakeReplyPolite DEF Execute, TriggerTimeout
<1>2. CASE Finish \/ Interrupt \/ Drain \/ ReadBlock \/ LoseFraming
  BY <1>2, FinishPolite, ReadBlockPolite, NoInterrupt, NoDesync
<1>3. CASE \E blk \in Blocks : HostSend(blk)
  BY <1>0, <1>3, HostSendPolite
<1>4. CASE ProxyReply \/ Deliver
  BY <1>0, <1>4, ProxyReplyPolite, DeliverPolite
<1>5. CASE UNCHANGED vars
  BY <1>5, StutterPolite
<1> QED
  BY <1>1, <1>2, <1>3, <1>4, <1>5 DEF Next, Device

-----------------------------------------------------------------------------
(* The theorems.                                                           *)

LEMMA PoliteInductive ==
    ASSUME Polite, EveryBatchAnswered
    PROVE  Spec => [](TypeOK /\ AnswersInv /\ PoliteInv)
<1>1. Init => TypeOK /\ AnswersInv /\ PoliteInv
  BY InitTypeOK, InitAnswersInv, InitPolite
<1>2. TypeOK /\ AnswersInv /\ PoliteInv /\ [Next]_vars => (TypeOK /\ AnswersInv /\ PoliteInv)'
  BY InterpreterInductive, NextPolite
<1> QED
  BY <1>1, <1>2, PTL DEF Spec

LEMMA PoliteImpliesNoBlockLost ==
    ASSUME TypeOK, PoliteInv
    PROVE  NoBlockLost
<1> SUFFICES ASSUME NEW i \in 1..Len(sent)
             PROVE  InFlight(i) \/ Complete(i) \/ (current = i /\ status # "idle")
  BY DEF NoBlockLost
<1>1. Len(sent) \in Nat /\ current \in Nat /\ current <= Len(sent)
  BY LenProperties DEF TypeOK
<1>2. CASE i < current
  <2>1. i \in 1..Len(sent) - 1
    BY <1>1, <1>2
  <2> QED
    BY <2>1 DEF PoliteInv, Settled
<1>3. CASE i = current
  BY <1>1, <1>3 DEF PoliteInv, Settled
<1>4. CASE i > current
  <2>1. BlockFrames
    BY <1>1, <1>4 DEF PoliteInv, StreamOrdered, AwaitsReply
  <2>2. PICK k : k = i - current
    OBVIOUS
  <2>3. k \in 1..Len(sent) - current /\ current + k = i
    BY <1>1, <1>4, <2>2
  <2>4. 2 * k \in 1..Len(Stream)
    BY <1>1, <2>1, <2>3 DEF BlockFrames
  <2>5. Stream[2 * k].id = i
    <3>1. Stream[2 * k] = [id |-> current + k, part |-> 2]
      BY <2>1, <2>3 DEF BlockFrames
    <3> QED
      BY <2>3, <3>1
  <2> QED
    BY <2>4, <2>5 DEF InFlight, Stream
<1> QED
  BY <1>1, <1>2, <1>3, <1>4

LEMMA PoliteImpliesPaired ==
    ASSUME TypeOK, PoliteInv
    PROVE  RepliesPaired
<1>1. Len(sent) \in Nat /\ current \in Nat /\ current <= Len(sent) /\ asked \in Nat
  BY LenProperties, BoundsAssumption DEF TypeOK
<1>2. status # "desync"
  BY DEF PoliteInv, StreamOrdered
<1>3. CASE status = "notifying"
  <2>1. AwaitsReply
    BY <1>3 DEF PoliteInv, StreamOrdered
  <2>2. asked > 0 \/ InFlight(0)
    BY <2>1 DEF AwaitsReply, ReplyFrame, InFlight, Stream
  <2>3. ASSUME NEW i \in 1..Len(sent), InFlight(i) PROVE FALSE
    <3>1. PICK u \in 1..Len(Stream) : Stream[u].id = i
      BY <2>3 DEF InFlight, Stream
    <3>2. u = 1 \/ u = 2
      BY <2>1, <3>1 DEF AwaitsReply, ReplyFrame
    <3>3. Stream[u].id = 0
      BY <2>1, <3>1, <3>2 DEF AwaitsReply, ReplyFrame
    <3> QED
      BY <2>3, <3>1, <3>3
  <2> QED
    BY <1>2, <1>3, <2>2, <2>3 DEF RepliesPaired
<1>4. CASE status # "notifying"
  <2>1. asked = 0 /\ BlockFrames
    BY <1>4 DEF PoliteInv, StreamOrdered
  <2>2. ASSUME InFlight(0) PROVE FALSE
    <3>1. PICK u \in 1..Len(Stream) : Stream[u].id = 0
      BY <2>2 DEF InFlight, Stream
    <3>2. PICK n : n = Len(sent) - current
      OBVIOUS
    <3>3. n \in Nat /\ u \in 1..2 * n
      BY <1>1, <2>1, <3>1, <3>2 DEF BlockFrames
    <3>4. \E k \in 1..n : u = 2 * k - 1 \/ u = 2 * k
      <4>1. PICK k : k = (u + 1) \div 2
        OBVIOUS
      <4>2. k \in 1..n /\ (u = 2 * k - 1 \/ u = 2 * k)
        BY <3>3, <4>1
      <4> QED
        BY <4>2
    <3>5. PICK k \in 1..n : u = 2 * k - 1 \/ u = 2 * k
      BY <3>4
    <3>6. Stream[u].id = current + k
      <4>1. /\ Stream[2 * k - 1] = [id |-> current + k, part |-> 1]
            /\ Stream[2 * k] = [id |-> current + k, part |-> 2]
        BY <2>1, <3>2, <3>5 DEF BlockFrames
      <4>2. CASE u = 2 * k - 1
        BY <4>1, <4>2
      <4>3. CASE u = 2 * k
        BY <4>1, <4>3
      <4> QED
        BY <3>5, <4>2, <4>3
    <3> QED
      BY <1>1, <3>1, <3>5, <3>6
  <2> QED
    BY <1>2, <1>4, <2>1, <2>2 DEF RepliesPaired
<1> QED
  BY <1>3, <1>4

(* With a host that awaits its answers every block that was sent is on its *)
(* way, being executed, or completely answered, whatever the programs do   *)
(* (CPX_cpp.ino:301-383), so long as none of them ends with an auth.       *)
THEOREM NoBlockLostThm == EveryBatchAnswered => (Spec => []NoBlockLost)
<1>1. CASE ~Polite
  <2>1. NoBlockLost
    BY <1>1 DEF NoBlockLost
  <2> QED
    BY <2>1, PTL
<1>2. ASSUME Polite, EveryBatchAnswered PROVE Spec => []NoBlockLost
  <2>1. TypeOK /\ PoliteInv => NoBlockLost
    BY PoliteImpliesNoBlockLost
  <2> QED
    BY <1>2, <2>1, PoliteInductive, PTL
<1> QED
  BY <1>1, <1>2

(* With such a host a notify reads the reply of the proxy and nothing      *)
(* else, and the device always finds the beginning of a frame.             *)
THEOREM RepliesPairedThm == EveryBatchAnswered => (Spec => []RepliesPaired)
<1>1. CASE ~Polite
  <2>1. RepliesPaired
    BY <1>1 DEF RepliesPaired
  <2> QED
    BY <2>1, PTL
<1>2. ASSUME Polite, EveryBatchAnswered PROVE Spec => []RepliesPaired
  <2>1. TypeOK /\ PoliteInv => RepliesPaired
    BY PoliteImpliesPaired
  <2> QED
    BY <1>2, <2>1, PoliteInductive, PTL
<1> QED
  BY <1>1, <1>2

-----------------------------------------------------------------------------
(* The protocol of Transaction: a step of the interpreter and its host is   *)
(* a step of the two who take turns, or leaves the turn alone.              *)

LEMMA AwaitedIsLast ==
    ASSUME TypeOK, Settled
    PROVE  Awaited <=> Len(sent) # 0 /\ ~Complete(Len(sent))
<1>1. Len(sent) \in Nat
  BY LenProperties DEF TypeOK
<1>2. \A i \in 1..Len(sent) : i = Len(sent) \/ Complete(i)
  <2> TAKE i \in 1..Len(sent)
  <2>1. i = Len(sent) \/ i \in 1..Len(sent) - 1
    BY <1>1
  <2> QED
    BY <2>1 DEF Settled
<1>3. Len(sent) # 0 => Len(sent) \in 1..Len(sent)
  BY <1>1
<1>4. Len(sent) = 0 => 1..Len(sent) = {}
  BY <1>1
<1> QED
  BY <1>2, <1>3, <1>4 DEF Awaited

(* A step that answers nothing and sends nothing.                          *)
LEMMA SilentStep ==
    ASSUME UNCHANGED <<sent, answers>>
    PROVE  UNCHANGED Protocol!vars
<1>1. Awaited' <=> Awaited
  BY DEF Awaited, Complete
<1>2. (answers[Len(sent)] = <<"ack">>)' <=> answers[Len(sent)] = <<"ack">>
  OBVIOUS
<1> QED
  BY <1>1, <1>2, Zenon DEF Protocol!vars

LEMMA SendIsIssue ==
    ASSUME TypeOK, AnswersInv, PoliteInv, Polite, TypeOK', PoliteInv',
           NEW blk \in Blocks, HostSend(blk)
    PROVE  [Protocol!Next]_(Protocol!vars)
<1>1. ~Awaited
  BY DEF HostSend, Awaited
<1>2. Len(sent') = Len(sent) + 1 /\ answers' = answers /\ Len(sent) \in Nat
  BY AppendProperties, LenProperties DEF HostSend, TypeOK
<1>3. answers'[Len(sent')] = << >>
  BY <1>2, BoundsAssumption DEF HostSend, AnswersInv, OneAnswerPerBlock, Ids
<1>4. << >> # <<"ack">>
  OBVIOUS
<1>5. CASE Awaited'
  <2>1. Protocol!Issue
    BY <1>1, <1>3, <1>4, <1>5 DEF Protocol!Issue
  <2> QED
    BY <2>1 DEF Protocol!Next
<1>6. CASE ~Awaited'
  BY <1>1, <1>6 DEF Protocol!vars
<1> QED
  BY <1>5, <1>6

(* The device reads a batch only when it is the last block sent.           *)
LEMMA ReadIsAcknowledge ==
    ASSUME TypeOK, AnswersInv, PoliteInv, TypeOK', AnswersInv', PoliteInv', ReadBlock
    PROVE  [Protocol!Next]_(Protocol!vars)
<1>1. UNCHANGED sent /\ Busy'
  BY DEF ReadBlock, Busy
<1>2. CASE ~IsBatch'
  <2>1. UNCHANGED <<sent, answers>>
    BY <1>1, <1>2, ReadBlockEffect DEF AnswersInv
  <2> QED
    BY <2>1, SilentStep
<1>3. CASE IsBatch'
  <2>1. current' # 0 /\ Unread(current')
    BY <1>3, ReadBlockEffect DEF AnswersInv
  <2>2. sent[current'].batch
    BY <1>1, <1>3 DEF IsBatch
  <2>3. current' \in 1..Len(sent) /\ Len(sent) \in Nat
    BY <2>1, LenProperties, ReadBlockEffect DEF AnswersInv, TypeOK
  <2>4. answers[current'] = << >> /\ ~Complete(current')
    BY <2>1, <2>2 DEF Unread, Complete, Silent
  <2>5. current' = Len(sent)
    BY <2>3, <2>4 DEF PoliteInv, Settled
  <2>6. Awaited /\ answers[Len(sent)] # <<"ack">>
    <3>1. Awaited
      BY <2>3, <2>4 DEF Awaited
    <3>2. answers[Len(sent)] = << >> /\ << >> # <<"ack">>
      BY <2>4, <2>5
    <3> QED
      BY <3>1, <3>2
  <2>7. answers'[current'] = <<"ack">>
    BY <1>1, <1>3, <2>1 DEF AnswersInv, OneAnswerPerBlock
  <2>8. Awaited'
    <3>1. answers'[Len(sent)] = <<"ack">>
      BY <2>5, <2>7
    <3>2. Len(<<"ack">>) = 1 /\ <<"ack">>[1] = "ack" /\ "ack" \notin Final
      BY DEF Final
    <3>3. Len(sent) \in 1..Len(sent) /\ ~Silent(sent[Len(sent)])
      BY <2>2, <2>3, <2>5 DEF Silent
    <3> QED
      BY <1>1, <3>1, <3>2, <3>3 DEF Awaited, Complete
  <2>9. Protocol!Acknowledge
    BY <1>1, <2>5, <2>6, <2>7, <2>8 DEF Protocol!Acknowledge
  <2> QED
    BY <2>9 DEF Protocol!Next
<1> QED
  BY <1>2, <1>3

(* An answer ends the turn of the device, unless it is that to an auth,    *)
(* for which nobody waits.                                                 *)
LEMMA FinishIsRespond ==
    ASSUME TypeOK, AnswersInv, PoliteInv, TypeOK', PoliteInv', Finish
    PROVE  [Protocol!Next]_(Protocol!vars)
<1>1. UNCHANGED <<sent, current>> /\ Busy /\ status' = "idle"
  BY DEF Finish, Busy
<1>2. CASE returns = "none"
  <2>1. UNCHANGED <<sent, answers>>
    BY <1>2 DEF Finish
  <2> QED
    BY <2>1, SilentStep
<1>3. CASE returns # "none"
  <2>1. PICK f \in {"error", "result"} : Answer(f)
    BY <1>3 DEF Finish
  <2>2. f \in Answers
    BY DEF Answers, Final
  <2>3. \A i \in Ids : i # current => answers'[i] = answers[i]
    BY <2>1, <2>2, AnswerType
  <2>4. current \in 1..Len(sent) /\ Len(sent) \in Nat /\ 1..Len(sent) \subseteq Ids
    <3>1. /\ current \in 0..Len(sent) /\ Len(sent) \in Nat /\ Len(sent) <= MaxSends
      BY LenProperties DEF TypeOK
    <3>2. current # 0
      BY <1>1 DEF PoliteInv, EmptyAfterAuth
    <3> QED
      BY <3>1, <3>2, BoundsAssumption DEF Ids
  <2>5. CASE Silent(sent[current])
    <3>1. \A i \in 1..Len(sent) : Complete(i)' <=> Complete(i)
      <4> TAKE i \in 1..Len(sent)
      <4>1. CASE i = current
        BY <1>1, <2>5, <4>1 DEF Complete
      <4>2. CASE i # current
        BY <1>1, <2>3, <2>4, <4>2 DEF Complete
      <4> QED
        BY <4>1, <4>2
    <3>2. Awaited' <=> Awaited
      BY <1>1, <3>1 DEF Awaited
    <3>3. Awaited => Len(sent) # current
      <4>1. Complete(current)
        BY <2>4, <2>5 DEF Complete
      <4>2. Awaited => ~Complete(Len(sent))
        BY AwaitedIsLast DEF PoliteInv
      <4> QED
        BY <4>1, <4>2
    <3>4. Awaited => answers'[Len(sent)] = answers[Len(sent)]
      BY <2>3, <2>4, <3>3
    <3>5. UNCHANGED Protocol!vars
      BY <1>1, <3>2, <3>4, Zenon DEF Protocol!vars
    <3> QED
      BY <3>5
  <2>6. CASE ~Silent(sent[current])
    <3>1. ~Complete(current)
      BY <1>1, <2>4, <2>6, BusyIsLast DEF PoliteInv
    <3>2. Awaited
      BY <2>4, <3>1 DEF Awaited
    <3>3. \A i \in 1..current : Complete(i)'
      BY <1>1 DEF PoliteInv, Settled
    <3>4. current = Len(sent)
      BY <1>1, <2>4, <2>6, BusyIsLast DEF PoliteInv
    <3>5. ~Awaited'
      BY <1>1, <3>3, <3>4 DEF Awaited
    <3>6. Protocol!Respond
      BY <3>2, <3>5 DEF Protocol!Respond
    <3> QED
      BY <3>6 DEF Protocol!Next
  <2> QED
    BY <2>5, <2>6
<1> QED
  BY <1>2, <1>3

LEMMA ProtocolStep ==
    ASSUME TypeOK, AnswersInv, PoliteInv, Polite, EveryBatchAnswered, [Next]_vars
    PROVE  [Protocol!Next]_(Protocol!vars)
<1>0. TypeOK' /\ AnswersInv' /\ PoliteInv'
  BY InterpreterInductive, NextPolite
<1>1. CASE Execute \/ TriggerDone
  <2>1. UNCHANGED <<sent, answers>>
    BY <1>1 DEF Execute, Plain, Bad, Auth, Denied, Trigger, TriggerTimeout, TriggerDone,
                Notify, TakeReply, GotoAlways, GotoCounted
  <2> QED
    BY <2>1, SilentStep
<1>2. CASE Interrupt \/ Drain \/ LoseFraming
  BY <1>2, NoInterrupt, NoDesync
<1>3. CASE Finish
  BY <1>0, <1>3, FinishIsRespond
<1>4. CASE ReadBlock
  BY <1>0, <1>4, ReadIsAcknowledge
<1>5. CASE \E blk \in Blocks : HostSend(blk)
  BY <1>0, <1>5, SendIsIssue
<1>6. CASE ProxyReply \/ Deliver \/ UNCHANGED vars
  <2>1. UNCHANGED <<sent, answers>>
    BY <1>6 DEF ProxyReply, Deliver, vars
  <2> QED
    BY <2>1, SilentStep
<1> QED
  BY <1>1, <1>2, <1>3, <1>4, <1>5, <1>6 DEF Next, Device

(* The host and the device take turns as the manual says ("The protocol is  *)
(* transaction based", cpx.doc): a block is issued when the one before has *)
(* been responded to, acknowledged at most once, and responded to once.    *)
THEOREM TurnsImplementedThm ==
    Polite /\ EveryBatchAnswered => (Spec => Protocol!TurnsSpec)
<1> SUFFICES ASSUME Polite, EveryBatchAnswered PROVE Spec => Protocol!TurnsSpec
  OBVIOUS
<1>1. Init => Protocol!Init
  <2> SUFFICES ASSUME Init PROVE Protocol!Init
    OBVIOUS
  <2>1. ~Awaited
    BY DEF Init, Awaited
  <2> QED
    BY <2>1 DEF Protocol!Init
<1>2. TypeOK /\ AnswersInv /\ PoliteInv /\ [Next]_vars => [Protocol!Next]_(Protocol!vars)
  BY ProtocolStep
<1> QED
  BY <1>1, <1>2, PoliteInductive, PTL DEF Spec, Protocol!TurnsSpec

=============================================================================
