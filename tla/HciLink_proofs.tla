--------------------------- MODULE HciLink_proofs ---------------------------
(***************************************************************************)
(* Theorems about HciLink, for any number of buffers, calls, patches and   *)
(* events of the radio, and whatever it may do (Lossy, Unknown, Cached).   *)
(*                                                                         *)
(* What carries them is that a call is one token that is passed round: it  *)
(* is about to be written, or waits in the radio, or is an answer on its   *)
(* way, or lies in the receive buffer, but never in two places, and when   *)
(* the call returns it is in none.                                         *)
(***************************************************************************)
EXTENDS HciLink, SequenceTheorems, FiniteSetTheorems, TLAPS

\* What stands for a call on the radio's way back.  The event of a recv whose
\* bytes follow does not: the bytes do.
Live(p)  == p.op \in Kinds \cup {"data", "patches"}
Token(p) == Live(p) /\ ~p.more

Has(s)      == \E i \in 1..Len(s) : Token(s[i])
Single(s)   == \A i, j \in 1..Len(s) : Token(s[i]) /\ Token(s[j]) => i = j
Followed(s) == \A i \in 1..Len(s) : s[i].more => \E j \in (i+1)..Len(s) : Token(s[j])

\* The places of the token, apart from todo and out.
Received  == InBuffer /\ Token(rx)
InProgram == \/ pc \in {"consume", "decrement", "write", "stuckinit"}
             \/ cs
             \/ pc \in {"release", "patch"} /\ answer.op = "patches"

\* What was waited for has been decoded, and no bytes follow.
Decoded == pc \in {"release", "check"} /\ opcode = None /\ ~pending
Over    == Decoded /\ ~answer.more

\* A live packet is of the current call.
Own(p) ==
    /\ p.call = calls
    /\ \/ p.op = kind
       \/ p.op = "data" /\ kind = "recv"
       \/ p.op = "patches" /\ kind = "start"

\* The call has not been written yet, or it has.
Unsent == opcode = None /\ (pc \in {"consume", "decrement", "write", "stuckinit"} \/ cs)
Sent   == \/ pc \in {"event", "poll", "release", "patch", "check"}
          \/ pc \in Writing \cup Stuck /\ ~Unsent

\* Indices of the packets with some opcode, and their number.
With(s, op)  == {i \in 1..Len(s) : s[i].op = op}
Count(s, op) == Cardinality(With(s, op))

\* A send has taken its buffer, and the radio has not heard it yet.
Taken == opcode = None /\ kind = "send" /\ (pc \in {"write", "stuckinit"} \/ cs)

\* The radio has told the number of its buffers, in the second call.
Counting == calls > 2 \/ (calls = 2 /\ (pc = "ready" \/ Over))

-----------------------------------------------------------------------------
(* The invariant, part by part.                                            *)

\* Where the program is, what the SPI layer makes of it, and which call it
\* is: the first two are those of wlan_start.
Control ==
    /\ cs <=> spi = "WRITE_IRQ"
    /\ cs => pc \in {"enable", "pin", "copy", "txend", "stucktx"}
    /\ pc = "enable" => cs /\ ~enabled
    /\ opcode \in {None, kind}
    /\ pc \in {"boot", "ready", "consume", "decrement", "event"} => opcode = None
    /\ pending => kind = "recv" /\ opcode = None /\ pc \in {"poll", "release", "check"}
    /\ pc = "poll" => opcode # None \/ pending
    /\ pc \in Writing \cup Stuck /\ opcode # None => kind = "start"
    /\ pc = "patch" => kind = "start" /\ opcode # None
    /\ full => rx.op \in Solicited
    /\ pc = "boot" => calls = 0
    /\ pc \notin {"boot", "ready"} => calls > 0
    /\ pc \in {"consume", "decrement"} => kind = "send"
    /\ pc = "decrement" => loaded > 0
    /\ calls = 0 => kind = "start"
    /\ calls > 0 => (kind = "start" <=> calls = 1) /\ (kind = "readbuffers" <=> calls = 2)

OneToken ==
    /\ Len(todo) <= 1 /\ Single(out)
    /\ todo # << >> => ~Has(out) /\ ~Received /\ ~InProgram
    /\ Has(out) => ~Received /\ ~InProgram
    /\ Received => ~InProgram
    /\ pc \in {"boot", "ready"} \/ Over =>
          todo = << >> /\ ~Has(out) /\ ~Received /\ ~InProgram

MoreFollows ==
    /\ Followed(out)
    /\ InBuffer /\ rx.more => Has(out)

Ours ==
    /\ \A i \in 1..Len(todo) : Own(todo[i]) /\ todo[i].op # "data"
    /\ \A i \in 1..Len(out) : Live(out[i]) => Own(out[i])
    /\ InBuffer /\ Live(rx) => Own(rx)
    /\ (pc \in {"release", "patch"} \/ Decoded) /\ Live(answer) => Own(answer)
    /\ pc = "patch" => answer.op = "patches"
    /\ Decoded => Live(answer) /\ answer.op # "patches"
    /\ pc = "release" /\ answer.op = "patches" => opcode # None

\* The answer to a call is there only when the radio has executed it.
Executing ==
    /\ pc \in {"consume", "decrement"} => ~executed
    /\ \A i \in 1..Len(out) : Live(out[i]) /\ out[i].op # "patches" => executed
    /\ InBuffer /\ Live(rx) /\ rx.op # "patches" => executed
    /\ Decoded => executed

Heard ==
    /\ \A i \in 1..Len(heard) : heard[i].call <= calls
    /\ \A i, j \in 1..Len(heard) : heard[i].op # "patches" /\ heard[i] = heard[j] => i = j
    /\ Unsent => \A i \in 1..Len(heard) : heard[i].op # "patches" => heard[i].call < calls
    /\ Sent => \E i \in 1..Len(heard) : heard[i] = [op |-> kind, call |-> calls]

Patched == Count(heard, "patches") + (IF PatchComing THEN 1 ELSE 0) <= patches

Counted ==
    /\ ~Counting => used = 0 /\ Count(out, "free") = 0
    /\ Counting => free + used + Count(out, "free") + (IF Taken THEN 1 ELSE 0) <= Buffers
    /\ pc = "decrement" => loaded + used + Count(out, "free") <= Buffers

\* While only events with a handler come on their own, a packet in the
\* buffer is waited for, and the interrupt is off.
Guarded ==
    /\ \A i \in 1..Len(out) : out[i].op = "unknown" => odd
    /\ full /\ ~odd => Live(rx) /\ ~enabled

IInv == /\ TypeOK /\ Control /\ OneToken /\ MoreFollows /\ Ours /\ Executing
        /\ Heard /\ Patched /\ Counted /\ Guarded

-----------------------------------------------------------------------------
(* Sequences and records.                                                  *)

(* The fields of a packet (HCI header and arguments).                      *)
LEMMA PacketFields ==
    ASSUME NEW p \in Packet
    PROVE  /\ p.op \in Solicited \cup Handled /\ p.call \in 0..MaxCalls /\ p.more \in BOOLEAN
           /\ p.more => p.op = "recv"
           /\ p = [op |-> p.op, call |-> p.call, more |-> p.more]
BY DEF Packet

(* A packet joins the ones the radio wants to send.                        *)
LEMMA Appended ==
    ASSUME NEW s \in Seq(Packet), NEW p \in Packet
    PROVE  /\ Append(s, p) \in Seq(Packet) /\ Len(Append(s, p)) = Len(s) + 1
           /\ \A i \in 1..Len(s) : Append(s, p)[i] = s[i]
           /\ Append(s, p)[Len(s) + 1] = p
           /\ Has(Append(s, p)) <=> Has(s) \/ Token(p)
           /\ Single(s) /\ ~(Has(s) /\ Token(p)) => Single(Append(s, p))
           /\ Followed(s) /\ ~p.more => Followed(Append(s, p))
<1>1. /\ Append(s, p) \in Seq(Packet) /\ Len(Append(s, p)) = Len(s) + 1
      /\ \A i \in 1..Len(s) : Append(s, p)[i] = s[i]
      /\ Append(s, p)[Len(s) + 1] = p
      /\ Len(s) \in Nat
  OBVIOUS
<1> DEFINE t == Append(s, p)
<1> HIDE DEF t
<1>2. /\ Len(t) = Len(s) + 1 /\ \A i \in 1..Len(s) : t[i] = s[i]
      /\ t[Len(s) + 1] = p /\ Len(s) \in Nat
      /\ 1..Len(t) = (1..Len(s)) \cup {Len(s) + 1}
  BY <1>1 DEF t
<1>3. Has(t) <=> Has(s) \/ Token(p)
  BY <1>2 DEF Has
<1>4. Single(s) /\ ~(Has(s) /\ Token(p)) => Single(t)
  BY <1>2 DEF Has, Single
<1>5. ASSUME Followed(s), ~p.more
      PROVE  Followed(t)
  <2> SUFFICES ASSUME NEW i \in 1..Len(t), t[i].more
               PROVE  \E j \in (i+1)..Len(t) : Token(t[j])
    BY DEF Followed
  <2>1. i \in 1..Len(s) /\ s[i].more
    BY <1>2, <1>5
  <2>2. PICK j \in (i+1)..Len(s) : Token(s[j])
    BY <2>1, <1>5 DEF Followed
  <2>3. j \in 1..Len(s) /\ j \in (i+1)..Len(t)
    BY <2>1, <2>2, <1>2
  <2>4. Token(t[j])
    BY <2>2, <2>3, <1>2
  <2> QED BY <2>3, <2>4
<1> QED BY <1>1, <1>3, <1>4, <1>5 DEF t

(* The interrupt takes the first of them.                                  *)
LEMMA Taken1 ==
    ASSUME NEW s \in Seq(Packet), s # << >>
    PROVE  /\ Head(s) \in Packet /\ Tail(s) \in Seq(Packet) /\ Head(s) = s[1]
           /\ Len(Tail(s)) \in Nat /\ Len(s) = Len(Tail(s)) + 1
           /\ \A i \in 1..Len(Tail(s)) : Tail(s)[i] = s[i + 1] /\ i + 1 \in 1..Len(s)
           /\ Has(s) <=> Token(Head(s)) \/ Has(Tail(s))
           /\ Single(s) => Single(Tail(s)) /\ ~(Token(Head(s)) /\ Has(Tail(s)))
           /\ Followed(s) => Followed(Tail(s)) /\ (Head(s).more => Has(Tail(s)))
<1>1. /\ Head(s) \in Packet /\ Tail(s) \in Seq(Packet) /\ Head(s) = s[1]
      /\ Len(Tail(s)) \in Nat /\ Len(s) = Len(Tail(s)) + 1
      /\ \A i \in 1..Len(Tail(s)) : Tail(s)[i] = s[i + 1] /\ i + 1 \in 1..Len(s)
  BY HeadTailProperties, LenProperties
<1> DEFINE t == Tail(s)
<1> HIDE DEF t
<1>2. /\ Len(t) \in Nat /\ Len(s) = Len(t) + 1
      /\ \A i \in 1..Len(t) : t[i] = s[i + 1] /\ i + 1 \in 1..Len(s)
      /\ 1 \in 1..Len(s)
      /\ \A i \in 1..Len(s) : i # 1 => i - 1 \in 1..Len(t) /\ t[i - 1] = s[i]
  BY <1>1 DEF t
<1>3. Has(s) <=> Token(s[1]) \/ Has(t)
  BY <1>2 DEF Has
<1>4. Single(s) => Single(t) /\ ~(Token(s[1]) /\ Has(t))
  BY <1>2, SMTT(15) DEF Single, Has
<1>5. ASSUME Followed(s)
      PROVE  Followed(t) /\ (s[1].more => Has(t))
  <2>1. ASSUME NEW i \in 1..Len(s), s[i].more
        PROVE  \E j \in i..Len(t) : j \in 1..Len(t) /\ Token(t[j])
    <3>1. PICK j \in (i+1)..Len(s) : Token(s[j])
      BY <2>1, <1>5 DEF Followed
    <3>2. j - 1 \in i..Len(t) /\ j - 1 \in 1..Len(t) /\ t[j - 1] = s[j]
      BY <3>1, <1>2
    <3> QED BY <3>1, <3>2
  <2>2. s[1].more => Has(t)
    BY <2>1, <1>2 DEF Has
  <2>3. ASSUME NEW i \in 1..Len(t), t[i].more
        PROVE  \E j \in (i+1)..Len(t) : Token(t[j])
    BY <2>1, <2>3, <1>2
  <2> QED BY <2>2, <2>3 DEF Followed
<1> QED BY <1>1, <1>3, <1>4, <1>5 DEF t

(* The number of packets with some opcode (usNumberOfFreeBuffers and the    *)
(* patches counted).                                                        *)
LEMMA CountType ==
    ASSUME NEW S, NEW s \in Seq(S), NEW op
    PROVE  IsFiniteSet(With(s, op)) /\ Count(s, op) \in Nat
<1>1. Len(s) \in Nat /\ IsFiniteSet(1..Len(s))
  BY FS_Interval
<1>2. IsFiniteSet(With(s, op))
  BY <1>1, FS_Subset DEF With
<1> QED BY <1>2, FS_CardinalityType DEF Count

(* A packet that joins the others counts once.                              *)
LEMMA CountAppend ==
    ASSUME NEW S, NEW s \in Seq(S), NEW e \in S, NEW op
    PROVE  Count(Append(s, e), op) = Count(s, op) + (IF e.op = op THEN 1 ELSE 0)
<1> DEFINE t == Append(s, e)
           n == Len(s) + 1
<1>1. Len(s) \in Nat /\ Len(t) = n /\ t[n] = e /\ \A i \in 1..Len(s) : t[i] = s[i]
  BY AppendProperties
<1> HIDE DEF t
<1>2. n \notin With(s, op) /\ n \in 1..Len(t) /\ 1..Len(t) = (1..Len(s)) \cup {n}
  BY <1>1 DEF With
<1>3. With(t, op) = IF e.op = op THEN With(s, op) \cup {n} ELSE With(s, op)
  BY <1>1, <1>2 DEF With
<1>4. IsFiniteSet(With(s, op)) /\ Count(s, op) \in Nat
  BY CountType
<1>5. Cardinality(With(s, op) \cup {n}) = Cardinality(With(s, op)) + 1
  BY <1>2, <1>4, FS_AddElement
<1> QED BY <1>3, <1>4, <1>5 DEF Count, t

(* A packet that is taken is no longer counted.                             *)
LEMMA CountTail ==
    ASSUME NEW S, NEW s \in Seq(S), s # << >>, NEW op
    PROVE  Count(s, op) = Count(Tail(s), op) + (IF Head(s).op = op THEN 1 ELSE 0)
<1> DEFINE t == Tail(s)
           Shifted == With(s, op) \ {1}
           f == [i \in With(t, op) |-> i + 1]
<1>1. /\ t \in Seq(S) /\ Len(t) \in Nat /\ Len(s) = Len(t) + 1 /\ Head(s) = s[1]
      /\ \A i \in 1..Len(t) : t[i] = s[i + 1]
  BY HeadTailProperties, LenProperties
<1> HIDE DEF t
<1>2. IsFiniteSet(With(t, op)) /\ IsFiniteSet(With(s, op)) /\ Count(t, op) \in Nat /\ Count(s, op) \in Nat
  BY <1>1, CountType
<1>3. \A i \in With(t, op) : i \in Int /\ i + 1 \in Shifted
  BY <1>1 DEF With
<1>4. \A j \in Shifted : j \in Int /\ j - 1 \in With(t, op)
  BY <1>1 DEF With
<1>5. \A j \in Shifted : \E i \in With(t, op) : i + 1 = j
  <2> SUFFICES ASSUME NEW j \in Shifted PROVE \E i \in With(t, op) : i + 1 = j
    OBVIOUS
  <2>1. j \in Int /\ j - 1 \in With(t, op) /\ (j - 1) + 1 = j
    BY <1>4
  <2> QED BY <2>1
<1>6. f \in Bijection(With(t, op), Shifted)
  BY <1>3, <1>5 DEF Bijection, Injection, Surjection, IsInjective
<1>7. Cardinality(Shifted) = Cardinality(With(t, op))
  BY <1>2, <1>6, FS_Bijection DEF ExistsBijection
<1>8. Cardinality(Shifted) = IF 1 \in With(s, op) THEN Cardinality(With(s, op)) - 1
                                                  ELSE Cardinality(With(s, op))
  BY <1>2, FS_RemoveElement
<1>9. 1 \in With(s, op) <=> Head(s).op = op
  BY <1>1 DEF With
<1> QED BY <1>2, <1>7, <1>8, <1>9 DEF Count, t

\* What the program writes.
Written == [op : Kinds \cup {"patches"}, call : 1..MaxCalls]

(* The radio gets what the program writes, if it is selected (SpiWriteAsync *)
(* and the copy in SPI_IRQ, ccspi.cpp).                                     *)
LEMMA Transmitted ==
    ASSUME TypeOK, Control, Transmit
    PROVE  /\ heard' \in Seq(Written) /\ todo' \in Seq(Written) /\ used' \in Nat /\ ready' \in BOOLEAN
           /\ cs => Outgoing \in Written /\ heard' = Append(heard, Outgoing) /\ todo' = Append(todo, Outgoing)
           /\ ~cs => UNCHANGED <<heard, todo, used, ready>>
<1>1. heard \in Seq(Written) /\ todo \in Seq(Written) /\ used \in Nat /\ ready \in BOOLEAN
  BY DEF TypeOK, Written
<1>2. CASE cs
  <2>1. calls \in 1..MaxCalls /\ kind \in Kinds
    BY <1>2, HciAssumption DEF TypeOK, Control, HciAssumption
  <2>2. Outgoing \in Written
    BY <2>1 DEF Outgoing, Written
  <2>3. Append(heard, Outgoing) \in Seq(Written) /\ Append(todo, Outgoing) \in Seq(Written)
    BY <1>1, <2>2
  <2>4. used' \in Nat
    BY <1>1, <1>2 DEF Transmit
  <2> QED BY <1>2, <2>2, <2>3, <2>4 DEF Transmit
<1>3. CASE ~cs
  BY <1>1, <1>3 DEF Transmit
<1> QED BY <1>2, <1>3

(* What the radio answers (the events of hci.h).                            *)
LEMMA AnswersForm ==
    ASSUME NEW p \in Written, NEW a \in Answers(p)
    PROVE  \/ \E q \in Packet :
                /\ a = <<q>> /\ q.call = p.call /\ ~q.more
                /\ \/ q.op = "start" /\ p.op = "patches"
                   \/ q.op = p.op /\ p.op # "patches"
                   \/ q.op = "lostsend" /\ p.op = "send"
           \/ \E q, d \in Packet :
                /\ a = <<q, d>> /\ p.op = "recv"
                /\ q = [op |-> "recv", call |-> p.call, more |-> TRUE]
                /\ d = [op |-> "data", call |-> p.call, more |-> FALSE]
<1>1. p.op \in Kinds \cup {"patches"} /\ p.call \in 0..MaxCalls
  BY HciAssumption DEF Written, HciAssumption
<1>2. ASSUME NEW op \in Solicited \cup Handled, NEW more \in BOOLEAN, more => op = "recv"
      PROVE  Reply(p, op, more) \in Packet
  BY <1>1, <1>2 DEF Reply, Packet
<1>3. CASE a = <<Reply(p, IF p.op = "patches" THEN "start" ELSE p.op, FALSE)>>
  <2> DEFINE o == IF p.op = "patches" THEN "start" ELSE p.op
  <2>1. o \in Solicited \cup Handled
    BY <1>1 DEF Solicited, Kinds
  <2>2. Reply(p, o, FALSE) \in Packet
    BY <2>1, <1>2
  <2> QED BY <1>3, <2>2 DEF Reply
<1>4. CASE p.op = "recv" /\ a = <<Reply(p, "recv", TRUE), Reply(p, "data", FALSE)>>
  <2>1. Reply(p, "recv", TRUE) \in Packet /\ Reply(p, "data", FALSE) \in Packet
    BY <1>2 DEF Solicited, Kinds
  <2> QED BY <1>4, <2>1 DEF Reply
<1>5. CASE p.op = "send" /\ a = <<Reply(p, "lostsend", FALSE)>>
  <2>1. Reply(p, "lostsend", FALSE) \in Packet
    BY <1>2 DEF Handled
  <2> QED BY <1>5, <2>1 DEF Reply
<1> QED BY <1>3, <1>4, <1>5 DEF Answers

(* What is known of the answers once they wait to be sent: at most one of   *)
(* them stands for the call, and none frees a buffer.                       *)
LEMMA Answered ==
    ASSUME NEW s \in Seq(Packet), Single(s), Followed(s), ~Has(s),
           NEW p \in Written, NEW a \in Answers(p)
    PROVE  /\ s \o a \in Seq(Packet) /\ Single(s \o a) /\ Followed(s \o a)
           /\ Count(s \o a, "free") = Count(s, "free")
           /\ \A i \in 1..Len(s \o a) :
                 \/ \E j \in 1..Len(s) : (s \o a)[i] = s[j]
                 \/ /\ (s \o a)[i].call = p.call
                    /\ \/ (s \o a)[i].op = p.op /\ p.op # "patches"
                       \/ (s \o a)[i].op = "data" /\ p.op = "recv"
                       \/ (s \o a)[i].op = "start" /\ p.op = "patches"
                       \/ (s \o a)[i].op = "lostsend"
<1>1. ASSUME NEW q \in Packet, a = <<q>>, q.call = p.call, ~q.more,
             \/ q.op = "start" /\ p.op = "patches"
             \/ q.op = p.op /\ p.op # "patches"
             \/ q.op = "lostsend" /\ p.op = "send"
      PROVE  /\ s \o a = Append(s, q) /\ q.op # "free"
             /\ \A i \in 1..Len(s \o a) : (s \o a)[i] = q \/ \E j \in 1..Len(s) : (s \o a)[i] = s[j]
  <2>1. s \o a = Append(s, q)
    BY <1>1
  <2>2. q.op # "free"
    BY <1>1 DEF Written, Kinds
  <2>3. /\ Len(Append(s, q)) = Len(s) + 1 /\ \A i \in 1..Len(s) : Append(s, q)[i] = s[i]
        /\ Append(s, q)[Len(s) + 1] = q /\ Len(s) \in Nat
    BY Appended
  <2> QED BY <2>1, <2>2, <2>3
<1>2. ASSUME NEW q \in Packet, NEW d \in Packet, a = <<q, d>>, p.op = "recv",
             q = [op |-> "recv", call |-> p.call, more |-> TRUE],
             d = [op |-> "data", call |-> p.call, more |-> FALSE]
      PROVE  /\ s \o a \in Seq(Packet) /\ Single(s \o a) /\ Followed(s \o a)
             /\ Count(s \o a, "free") = Count(s, "free")
             /\ \A i \in 1..Len(s \o a) :
                   (s \o a)[i] = q \/ (s \o a)[i] = d \/ \E j \in 1..Len(s) : (s \o a)[i] = s[j]
  <2> DEFINE u == Append(s, q)
             t == Append(u, d)
             n == Len(s)
  <2>1. s \o a = t
    <3>1. u = s \o <<q>> /\ u \in Seq(Packet) /\ <<q>> \in Seq(Packet) /\ <<d>> \in Seq(Packet)
      BY AppendIsConcat
    <3>2. t = (s \o <<q>>) \o <<d>>
      BY <3>1, AppendIsConcat
    <3>3. (s \o <<q>>) \o <<d>> = s \o (<<q>> \o <<d>>)
      BY <3>1, ConcatAssociative
    <3>4. <<q>> \o <<d>> = Append(<<q>>, d)
      BY <3>1, AppendIsConcat
    <3>5. Append(<<q>>, d) = a
      <4>1. <<q, d>> \in Seq(Packet) /\ Append(<<q>>, d) \in Seq(Packet) /\ Len(<<q, d>>) = 2
        OBVIOUS
      <4>2. Len(Append(<<q>>, d)) = 2 /\ Append(<<q>>, d)[1] = q /\ Append(<<q>>, d)[2] = d
        OBVIOUS
      <4>3. \A i \in 1..2 : i = 1 \/ i = 2
        OBVIOUS
      <4>4. \A i \in 1..2 : Append(<<q>>, d)[i] = <<q, d>>[i]
        BY <4>2, <4>3
      <4> QED BY <4>1, <4>2, <4>4, <1>2, SeqEqual
    <3> QED BY <3>2, <3>3, <3>4, <3>5
  <2>2. q.more /\ q.op = "recv" /\ ~d.more /\ d.op = "data" /\ ~Token(q) /\ Token(d)
    BY <1>2 DEF Token, Live
  <2>3. /\ u \in Seq(Packet) /\ Len(u) = n + 1 /\ u[n + 1] = q /\ \A i \in 1..n : u[i] = s[i]
        /\ ~Has(u) /\ Single(u) /\ n \in Nat
    BY <2>2, Appended
  <2>4. Count(u, "free") = Count(s, "free") /\ t = Append(u, d)
    BY <2>2, CountAppend, CountType
  <2> HIDE DEF u, t, n
  <2>5. /\ t \in Seq(Packet) /\ Len(t) = n + 2 /\ t[n + 2] = d /\ \A i \in 1..(n + 1) : t[i] = u[i]
        /\ Single(t) /\ Count(t, "free") = Count(s, "free")
    <3>1. /\ t \in Seq(Packet) /\ Len(t) = Len(u) + 1 /\ t[Len(u) + 1] = d
          /\ \A i \in 1..Len(u) : t[i] = u[i]
          /\ Single(t)
      BY <2>3, <2>4, Appended
    <3>2. Count(t, "free") = Count(u, "free")
      BY <2>2, <2>3, <2>4, CountAppend, CountType
    <3> QED BY <3>1, <3>2, <2>3, <2>4
  <2>6. Followed(t)
    <3> SUFFICES ASSUME NEW i \in 1..Len(t), t[i].more PROVE \E j \in (i+1)..Len(t) : Token(t[j])
      BY DEF Followed
    <3>1. i \in 1..(n + 1) /\ n + 2 \in (i+1)..Len(t) /\ Token(t[n + 2])
      BY <2>2, <2>3, <2>5
    <3> QED BY <3>1
  <2>7. \A i \in 1..Len(t) : t[i] = q \/ t[i] = d \/ \E j \in 1..n : t[i] = s[j]
    BY <2>3, <2>5
  <2> QED BY <2>1, <2>5, <2>6, <2>7 DEF n
<1>3. CASE \E q \in Packet :
             /\ a = <<q>> /\ q.call = p.call /\ ~q.more
             /\ \/ q.op = "start" /\ p.op = "patches"
                \/ q.op = p.op /\ p.op # "patches"
                \/ q.op = "lostsend" /\ p.op = "send"
  <2>1. PICK q \in Packet :
             /\ a = <<q>> /\ q.call = p.call /\ ~q.more
             /\ \/ q.op = "start" /\ p.op = "patches"
                \/ q.op = p.op /\ p.op # "patches"
                \/ q.op = "lostsend" /\ p.op = "send"
    BY <1>3
  <2>2. s \o a = Append(s, q) /\ q.op # "free"
    BY <1>1, <2>1
  <2>3. \A i \in 1..Len(s \o a) : (s \o a)[i] = q \/ \E j \in 1..Len(s) : (s \o a)[i] = s[j]
    BY <1>1, <2>1
  <2>4. s \o a \in Seq(Packet) /\ Single(s \o a) /\ Followed(s \o a)
    BY <2>1, <2>2, Appended, ZenonT(30)
  <2>5. Count(s \o a, "free") = Count(s, "free")
    BY <2>2, CountAppend, CountType
  <2> QED BY <2>1, <2>3, <2>4, <2>5
<1>4. CASE \E q, d \in Packet :
             /\ a = <<q, d>> /\ p.op = "recv"
             /\ q = [op |-> "recv", call |-> p.call, more |-> TRUE]
             /\ d = [op |-> "data", call |-> p.call, more |-> FALSE]
  <2>1. PICK q \in Packet, d \in Packet :
             /\ a = <<q, d>> /\ p.op = "recv"
             /\ q = [op |-> "recv", call |-> p.call, more |-> TRUE]
             /\ d = [op |-> "data", call |-> p.call, more |-> FALSE]
    BY <1>4
  <2>2. q.call = p.call /\ d.call = p.call /\ q.op = "recv" /\ d.op = "data"
    BY <2>1
  <2>3. /\ s \o a \in Seq(Packet) /\ Single(s \o a) /\ Followed(s \o a)
        /\ Count(s \o a, "free") = Count(s, "free")
        /\ \A i \in 1..Len(s \o a) :
              (s \o a)[i] = q \/ (s \o a)[i] = d \/ \E j \in 1..Len(s) : (s \o a)[i] = s[j]
    BY <1>2, <2>1
  <2> QED BY <2>1, <2>2, <2>3
<1> QED BY <1>3, <1>4, AnswersForm

-----------------------------------------------------------------------------
(* Types and control.                                                      *)

(* Every step keeps the types of the driver's variables.                    *)
LEMMA TypeStep ==
    ASSUME TypeOK, Control, [Next]_vars
    PROVE  TypeOK'
<1>1. ASSUME IrqPowerUp, UNCHANGED program
      PROVE  TypeOK'
  BY <1>1 DEF IrqPowerUp, program, radio, TypeOK, Writing, Stuck
<1>2. ASSUME IrqWrite, UNCHANGED program
      PROVE  TypeOK'
  <2>1. /\ heard' \in Seq(Written) /\ todo' \in Seq(Written)
        /\ used' \in Nat /\ ready' \in BOOLEAN
    BY <1>2, Transmitted DEF IrqWrite
  <2>2. /\ spi' = "IDLE" /\ cs' = FALSE
        /\ UNCHANGED <<enabled, full, rx, opcode, pending, free, txError, active,
                       booted, out, patches, unsol, odd, executed>>
    BY <1>2 DEF IrqWrite
  <2>3. cs' \in BOOLEAN /\ spi' \in {"POWERUP", "INITIALIZED", "IDLE", "WRITE_IRQ"}
    BY <2>2, Zenon
  <2>4. UNCHANGED <<enabled, full, rx, opcode, pending, free, txError, active, pc, calls, kind,
                    answer, loaded, booted, out, patches, unsol, odd, executed>>
    BY <1>2, <2>2 DEF program
  <2> QED BY <2>1, <2>3, <2>4 DEF TypeOK, Written
<1>3. ASSUME IrqReceive, UNCHANGED program
      PROVE  TypeOK'
  <2>1. Head(out) \in Packet /\ Tail(out) \in Seq(Packet)
    BY <1>3, Taken1 DEF IrqReceive, TypeOK
  <2>2. free' \in Nat /\ txError' \in BOOLEAN /\ active' \in BOOLEAN
    <3>1. CASE rx'.op \in Handled
      <4>1. /\ free' = IF rx'.op = "free" THEN free + 1 ELSE free
            /\ txError' = (txError \/ rx'.op = "lostsend")
            /\ active' = (active /\ rx'.op # "lostsend")
        BY <1>3, <3>1 DEF IrqReceive, HandleUnsolicited
      <4>2. free' \in Nat
        BY <4>1 DEF TypeOK
      <4>3. txError' \in BOOLEAN /\ active' \in BOOLEAN
        BY <4>1, Zenon
      <4> QED BY <4>2, <4>3
    <3>2. CASE rx'.op \notin Handled
      BY <1>3, <3>2 DEF IrqReceive, TypeOK
    <3> QED BY <3>1, <3>2
  <2>3. full' \in BOOLEAN /\ enabled' \in BOOLEAN
    BY <1>3 DEF IrqReceive
  <2> QED BY <1>3, <2>1, <2>2, <2>3 DEF IrqReceive, program, TypeOK
<1>4. ASSUME Boot
      PROVE  TypeOK'
  BY <1>4 DEF Boot, driver, radio, TypeOK, Writing, Stuck
<1>5. ASSUME Refuse
      PROVE  TypeOK'
  <2>1. /\ txError' = FALSE /\ pc' = "ready"
        /\ UNCHANGED <<spi, enabled, cs, full, rx, opcode, pending, free, active,
                       calls, kind, answer, loaded, radio>>
    BY <1>5 DEF Refuse
  <2>2. txError' \in BOOLEAN
    BY <2>1, Zenon
  <2>3. UNCHANGED <<spi, enabled, cs, full, rx, opcode, pending, free, active,
                    calls, kind, answer, loaded, booted, ready, out, todo, used, patches,
                    unsol, odd, heard, executed>>
    BY <2>1 DEF radio
  <2>4. pc' \in {"boot", "ready"}
    BY <2>1
  <2> QED BY <2>2, <2>3, <2>4 DEF TypeOK
<1>6. ASSUME ConsumeLoad
      PROVE  TypeOK'
  BY <1>6 DEF ConsumeLoad, driver, radio, TypeOK, Writing, Stuck
<1>7. ASSUME ConsumeStore
      PROVE  TypeOK'
  BY <1>7 DEF ConsumeStore, radio, TypeOK, Control, Writing
<1>8. ASSUME WriteFirst
      PROVE  TypeOK'
  <2>1. calls \in 1..MaxCalls /\ kind \in Kinds
    BY <1>8, HciAssumption DEF WriteFirst, TypeOK, Control, HciAssumption
  <2>2. Outgoing \in Written
    BY <2>1 DEF Outgoing, Written
  <2>3. heard' \in Seq(Written) /\ todo' \in Seq(Written)
    BY <1>8, <2>2 DEF WriteFirst, TypeOK, Written
  <2>4. pc' \in {"event", "check"}
    BY <1>8 DEF WriteFirst, AfterWrite
  <2> QED BY <1>8, <2>3, <2>4 DEF WriteFirst, TypeOK, Written
<1>9. ASSUME WriteSelect
      PROVE  TypeOK'
  BY <1>9 DEF WriteSelect, radio, TypeOK, Writing, Stuck
<1>10. ASSUME WriteEnable
      PROVE  TypeOK'
  BY <1>10 DEF WriteEnable, radio, TypeOK, Writing, Stuck
<1>11. ASSUME WritePin
      PROVE  TypeOK'
  BY <1>11 DEF WritePin, driver, radio, TypeOK, Writing, Stuck
<1>12. ASSUME WriteCopy
      PROVE  TypeOK'
  BY <1>12, Transmitted DEF WriteCopy, TypeOK, Written, Writing
<1>13. ASSUME WriteEnd
      PROVE  TypeOK'
  BY <1>13 DEF WriteEnd, AfterWrite, driver, radio, TypeOK
<1>14. ASSUME WriteStuck
      PROVE  TypeOK'
  BY <1>14 DEF WriteStuck, driver, radio, TypeOK, Writing, Stuck
<1>15. ASSUME WaitEvent
      PROVE  TypeOK'
  BY <1>15 DEF WaitEvent, radio, TypeOK, Writing, Stuck
<1>16. ASSUME Decode
      PROVE  TypeOK'
  BY <1>16, HciAssumption DEF HciAssumption, Decode, radio, TypeOK
<1>17. ASSUME Release
      PROVE  TypeOK'
  BY <1>17, ZenonT(30) DEF Release, radio, TypeOK, Writing, Stuck
<1>17a. ASSUME ServePatch
      PROVE  TypeOK'
  <2>1. pc' \in {"write", "check"} /\ UNCHANGED <<driver, calls, kind, answer, loaded, radio>>
    BY <1>17a DEF ServePatch
  <2> QED BY <2>1 DEF driver, radio, TypeOK, Writing, Stuck
<1>18. ASSUME GoOn
      PROVE  TypeOK'
  BY <1>18 DEF GoOn, driver, radio, TypeOK, Writing, Stuck
<1>19. ASSUME WaitData
      PROVE  TypeOK'
  BY <1>19 DEF WaitData, radio, TypeOK, Writing, Stuck
<1>20. ASSUME Return
      PROVE  TypeOK'
  BY <1>20 DEF Return, driver, radio, TypeOK, Writing, Stuck
<1>21. ASSUME NEW k \in Kinds, Call(k)
      PROVE  TypeOK'
  <2>1. calls' \in 0..MaxCalls
    BY <1>21, HciAssumption DEF HciAssumption, Call, TypeOK
  <2>2. pc' \in {"consume", "write"}
    BY <1>21 DEF Call
  <2>3. /\ kind' = k /\ executed' = FALSE
        /\ UNCHANGED <<driver, answer, loaded,
                       booted, ready, out, todo, used, patches, unsol, odd, heard>>
    BY <1>21 DEF Call
  <2>4. executed' \in BOOLEAN /\ kind' \in Kinds
    BY <2>3, Zenon
  <2>5. UNCHANGED <<spi, enabled, cs, full, rx, opcode, pending, free, txError, active, answer, loaded,
                    booted, ready, out, todo, used, patches, unsol, odd, heard>>
    BY <2>3 DEF driver
  <2> QED BY <2>1, <2>2, <2>4, <2>5 DEF TypeOK, Writing
<1>22. ASSUME RadioUp
      PROVE  TypeOK'
  BY <1>22 DEF RadioUp, driver, program, TypeOK, Writing, Stuck
<1>23. ASSUME RadioReady
      PROVE  TypeOK'
  BY <1>23 DEF RadioReady, driver, program, TypeOK, Writing, Stuck
<1>24. ASSUME RadioExecute
      PROVE  TypeOK'
  <2>1. todo \in Seq(Written) /\ todo # << >>
    BY <1>24 DEF RadioExecute, TypeOK, Written
  <2>2. Head(todo) \in Written /\ Tail(todo) \in Seq(Written)
    BY <2>1, HeadTailProperties
  <2>3. PICK a \in Answers(Head(todo)) : out' = out \o a
    BY <1>24 DEF RadioExecute
  <2>4. a \in Seq(Packet)
    <3>1. CASE \E q \in Packet : a = <<q>>
      BY <3>1
    <3>2. CASE \E q, d \in Packet : a = <<q, d>>
      BY <3>2
    <3> QED BY <2>2, <2>3, <3>1, <3>2, AnswersForm
  <2>5. out' \in Seq(Packet)
    BY <2>3, <2>4, ConcatProperties DEF TypeOK
  <2> QED BY <1>24, <2>2, <2>5 DEF RadioExecute, driver, program, TypeOK, Written
<1>25. ASSUME RadioAskPatch
      PROVE  TypeOK'
  <2>1. todo \in Seq(Written) /\ todo # << >>
    BY <1>25 DEF RadioAskPatch, TypeOK, Written
  <2>2. Head(todo) \in Written /\ Tail(todo) \in Seq(Written)
    BY <2>1, HeadTailProperties
  <2>3. [op |-> "patches", call |-> Head(todo).call, more |-> FALSE] \in Packet
    BY <2>2, HciAssumption DEF HciAssumption, Written, Packet, Solicited
  <2>4. out' \in Seq(Packet)
    BY <1>25, <2>3 DEF RadioAskPatch, TypeOK
  <2> QED BY <1>25, <2>2, <2>4, HciAssumption DEF HciAssumption, RadioAskPatch, driver, program, TypeOK, Written
<1>26. ASSUME RadioFree
      PROVE  TypeOK'
  <2>1. [op |-> "free", call |-> 0, more |-> FALSE] \in Packet
    BY HciAssumption DEF HciAssumption, Packet, Handled
  <2>2. out' \in Seq(Packet)
    BY <1>26, <2>1 DEF RadioFree, TypeOK
  <2> QED BY <1>26, <2>2 DEF RadioFree, driver, program, TypeOK
<1>27. ASSUME RadioUnsolicited
      PROVE  TypeOK'
  <2>1. PICK op \in {"wlan", "unknown"} :
             out' = Append(out, [op |-> op, call |-> 0, more |-> FALSE]) /\ odd' \in BOOLEAN
    BY <1>27 DEF RadioUnsolicited, TypeOK
  <2>2. [op |-> op, call |-> 0, more |-> FALSE] \in Packet
    BY HciAssumption DEF HciAssumption, Packet, Solicited, Handled
  <2>3. out' \in Seq(Packet)
    BY <2>1, <2>2 DEF TypeOK
  <2> QED BY <1>27, <2>1, <2>3, HciAssumption DEF HciAssumption, RadioUnsolicited, driver, program, TypeOK
<1>28. CASE UNCHANGED vars
  BY <1>28 DEF vars, driver, program, radio, TypeOK, Writing, Stuck
<1> QED BY <1>1, <1>2, <1>3, <1>4, <1>5, <1>6, <1>7, <1>8, <1>9, <1>10, <1>11, <1>12, <1>13, <1>14, <1>15, <1>16, <1>17, <1>17a, <1>18, <1>19, <1>20, <1>21, <1>22, <1>23, <1>24, <1>25, <1>26, <1>27, <1>28
     DEF Next, Step, SpiWrite, SPI_IRQ, Radio

(* The driver goes from one point to the next as the calls are written      *)
(* (ccspi.cpp, evnt_handler.cpp).                                           *)
LEMMA ControlStep ==
    ASSUME TypeOK, Control, Ours, [Next]_vars
    PROVE  Control'
<1>1. ASSUME IrqPowerUp, UNCHANGED program
      PROVE  Control'
  BY <1>1 DEF IrqPowerUp, program, radio, Control, Writing, Stuck, Kinds
<1>2. ASSUME IrqWrite, enabled, UNCHANGED program
      PROVE  Control'
  BY <1>2 DEF IrqWrite, program, Control, Writing, Stuck, Kinds
<1>3. ASSUME IrqReceive, UNCHANGED program
      PROVE  Control'
  <2>1. Head(out) \in Packet
    BY <1>3, Taken1 DEF IrqReceive, TypeOK
  <2>2. full' => rx'.op \in Solicited
    BY <1>3, <2>1 DEF IrqReceive, Packet
  <2> QED BY <1>3, <2>2 DEF IrqReceive, program, Control
<1>4. ASSUME Boot
      PROVE  Control'
  BY <1>4 DEF Boot, driver, radio, Control, Writing, Stuck, Kinds
<1>5. ASSUME Refuse
      PROVE  Control'
  BY <1>5 DEF Refuse, radio, Control, Writing, Stuck, Kinds
<1>6. ASSUME ConsumeLoad
      PROVE  Control'
  BY <1>6 DEF ConsumeLoad, driver, radio, Control, Writing, Stuck, Kinds
<1>7. ASSUME ConsumeStore
      PROVE  Control'
  BY <1>7 DEF ConsumeStore, radio, Control, Writing, Stuck, Kinds
<1>8. ASSUME WriteFirst
      PROVE  Control'
  BY <1>8 DEF WriteFirst, AfterWrite, Control, Writing, Stuck, Kinds
<1>9. ASSUME WriteSelect
      PROVE  Control'
  BY <1>9 DEF WriteSelect, radio, Control, Writing, Stuck, Kinds
<1>10. ASSUME WriteEnable
      PROVE  Control'
  BY <1>10 DEF WriteEnable, radio, Control, Writing, Stuck, Kinds
<1>11. ASSUME WritePin
      PROVE  Control'
  BY <1>11 DEF WritePin, driver, radio, Control, Writing, Stuck, Kinds
<1>12. ASSUME WriteCopy
      PROVE  Control'
  BY <1>12 DEF WriteCopy, Control, Writing, Stuck, Kinds
<1>13. ASSUME WriteEnd
      PROVE  Control'
  BY <1>13 DEF WriteEnd, driver, radio, AfterWrite, Control, Writing, Stuck, Kinds
<1>14. ASSUME WriteStuck
      PROVE  Control'
  BY <1>14 DEF WriteStuck, driver, radio, Control, Writing, Stuck, Kinds
<1>15. ASSUME WaitEvent
      PROVE  Control'
  BY <1>15 DEF WaitEvent, radio, TypeOK, Control, Writing, Stuck, Kinds, None
<1>16. ASSUME Decode
      PROVE  Control'
  BY <1>16 DEF Decode, radio, Control, Writing, Stuck, Kinds
<1>17. ASSUME Release
      PROVE  Control'
  <2>1. answer.op = "patches" => kind = "start" /\ opcode # None /\ ~pending
    BY <1>17 DEF Release, Ours, Own, Live, Control, TypeOK, Kinds
  <2>2. pc = "release" /\ pc' \in {"patch", "check"} /\ (pc' = "patch" => answer.op = "patches")
    BY <1>17 DEF Release
  <2>3. ~full' /\ enabled' /\ UNCHANGED <<spi, cs, opcode, pending, calls, kind, loaded>>
    BY <1>17 DEF Release, radio
  <2> QED BY <2>1, <2>2, <2>3 DEF Control, Writing, Stuck
<1>17a. ASSUME ServePatch
      PROVE  Control'
  <2>1. kind = "start" /\ opcode # None /\ ~pending /\ ~cs
    BY <1>17a DEF ServePatch, Control, Writing, Stuck
  <2>2. pc = "patch" /\ pc' \in {"write", "check"}
    BY <1>17a DEF ServePatch
  <2>3. UNCHANGED <<enabled, full, rx, spi, cs, opcode, pending, calls, kind, loaded>>
    BY <1>17a DEF ServePatch, driver
  <2> QED BY <2>1, <2>2, <2>3 DEF Control, Writing, Stuck
<1>18. ASSUME GoOn
      PROVE  Control'
  BY <1>18 DEF GoOn, driver, radio, Control, Writing, Stuck, Kinds
<1>19. ASSUME WaitData
      PROVE  Control'
  BY <1>19 DEF WaitData, radio, Ours, Own, Decoded, Live, Control, Writing, Stuck, Kinds
<1>20. ASSUME Return
      PROVE  Control'
  BY <1>20 DEF Return, driver, radio, Control, Writing, Stuck, Kinds
<1>21. ASSUME NEW k \in Kinds, Call(k)
      PROVE  Control'
  BY <1>21 DEF Call, driver, TypeOK, Control, Writing, Stuck, Kinds
<1>22. ASSUME RadioUp
      PROVE  Control'
  BY <1>22 DEF RadioUp, driver, program, Control, Writing, Stuck, Kinds
<1>23. ASSUME RadioReady
      PROVE  Control'
  BY <1>23 DEF RadioReady, driver, program, Control, Writing, Stuck, Kinds
<1>24. ASSUME RadioExecute
      PROVE  Control'
  BY <1>24 DEF RadioExecute, driver, program, Control, Writing, Stuck, Kinds
<1>25. ASSUME RadioAskPatch
      PROVE  Control'
  BY <1>25 DEF RadioAskPatch, driver, program, Control, Writing, Stuck, Kinds
<1>26. ASSUME RadioFree
      PROVE  Control'
  BY <1>26 DEF RadioFree, driver, program, Control, Writing, Stuck, Kinds
<1>27. ASSUME RadioUnsolicited
      PROVE  Control'
  BY <1>27 DEF RadioUnsolicited, driver, program, Control, Writing, Stuck, Kinds
<1>28. CASE UNCHANGED vars
  BY <1>28 DEF vars, driver, program, radio, Control, Writing, Stuck, Kinds
<1> QED BY <1>1, <1>2, <1>3, <1>4, <1>5, <1>6, <1>7, <1>8, <1>9, <1>10, <1>11, <1>12, <1>13, <1>14, <1>15, <1>16, <1>17, <1>17a, <1>18, <1>19, <1>20, <1>21, <1>22, <1>23, <1>24, <1>25, <1>26, <1>27, <1>28
     DEF Next, Step, SpiWrite, SPI_IRQ, Radio

-----------------------------------------------------------------------------
(* One token: the answer to a call is on its way, or the call is, never     *)
(* both, and none is left when the call is over.                            *)
LEMMA TokenStep ==
    ASSUME TypeOK, Control, OneToken, MoreFollows, Ours, [Next]_vars
    PROVE  OneToken' /\ MoreFollows'
<1>1. ASSUME IrqPowerUp, UNCHANGED program
      PROVE  OneToken' /\ MoreFollows'
  BY <1>1 DEF IrqPowerUp, program, radio, OneToken, MoreFollows, Received, InBuffer, InProgram, Over, Decoded, Control, Writing, Stuck
<1>2. ASSUME IrqWrite, enabled, UNCHANGED program
      PROVE  OneToken' /\ MoreFollows'
  <2>1. CASE cs
    <3>1. todo = << >> /\ ~Has(out) /\ ~Received
      BY <2>1 DEF OneToken, InProgram
    <3>2. todo' = <<Outgoing>> /\ Len(todo') = 1
      BY <3>1, <2>1, <1>2, Transmitted DEF IrqWrite
    <3> QED BY <1>2, <2>1, <3>1, <3>2 DEF IrqWrite, program, OneToken, MoreFollows, Received, InBuffer, InProgram, Over, Decoded, Control, Writing, Stuck
  <2>2. CASE ~cs
    <3>1. UNCHANGED todo
      BY <2>2, <1>2, Transmitted DEF IrqWrite
    <3> QED BY <1>2, <2>2, <3>1 DEF IrqWrite, program, OneToken, MoreFollows, Received, InBuffer, InProgram, Over, Decoded, Control, Writing, Stuck
  <2> QED BY <2>1, <2>2
<1>3. ASSUME IrqReceive, UNCHANGED program
      PROVE  OneToken' /\ MoreFollows'
  <2>1. out \in Seq(Packet) /\ out # << >> /\ rx' = Head(out) /\ out' = Tail(out)
    BY <1>3 DEF IrqReceive, TypeOK
  <2>2. /\ Has(out) <=> Token(rx') \/ Has(out')
        /\ Single(out') /\ ~(Token(rx') /\ Has(out'))
        /\ Followed(out') /\ (rx'.more => Has(out'))
    BY <2>1, Taken1 DEF OneToken, MoreFollows
  <2> QED BY <1>3, <2>2 DEF IrqReceive, program, OneToken, MoreFollows, Received, InBuffer, InProgram, Over, Decoded, Control, Writing, Stuck
<1>4. ASSUME Boot
      PROVE  OneToken' /\ MoreFollows'
  BY <1>4 DEF Boot, driver, radio, OneToken, MoreFollows, Received, InBuffer, InProgram, Over, Decoded, Control, Writing, Stuck
<1>5. ASSUME Refuse
      PROVE  OneToken' /\ MoreFollows'
  BY <1>5 DEF Refuse, radio, OneToken, MoreFollows, Received, InBuffer, InProgram, Over, Decoded, Control, Writing, Stuck
<1>6. ASSUME ConsumeLoad
      PROVE  OneToken' /\ MoreFollows'
  BY <1>6 DEF ConsumeLoad, driver, radio, OneToken, MoreFollows, Received, InBuffer, InProgram, Over, Decoded, Control, Writing, Stuck
<1>7. ASSUME ConsumeStore
      PROVE  OneToken' /\ MoreFollows'
  BY <1>7 DEF ConsumeStore, radio, OneToken, MoreFollows, Received, InBuffer, InProgram, Over, Decoded, Control, Writing, Stuck
<1>8. ASSUME WriteFirst
      PROVE  OneToken' /\ MoreFollows'
  <2>1. ~cs /\ todo = << >> /\ ~Has(out) /\ ~Received
    BY <1>8 DEF WriteFirst, Control, OneToken, InProgram
  <2>2. todo' = <<Outgoing>> /\ Len(todo') = 1
    BY <1>8, <2>1 DEF WriteFirst
  <2> QED BY <1>8, <2>1, <2>2 DEF WriteFirst, AfterWrite, OneToken, MoreFollows, Received, InBuffer, InProgram, Over, Decoded, Control, Writing, Stuck
<1>9. ASSUME WriteSelect
      PROVE  OneToken' /\ MoreFollows'
  BY <1>9 DEF WriteSelect, radio, OneToken, MoreFollows, Received, InBuffer, InProgram, Over, Decoded, Control, Writing, Stuck
<1>10. ASSUME WriteEnable
      PROVE  OneToken' /\ MoreFollows'
  BY <1>10 DEF WriteEnable, radio, OneToken, MoreFollows, Received, InBuffer, InProgram, Over, Decoded, Control, Writing, Stuck
<1>11. ASSUME WritePin
      PROVE  OneToken' /\ MoreFollows'
  BY <1>11 DEF WritePin, driver, radio, OneToken, MoreFollows, Received, InBuffer, InProgram, Over, Decoded, Control, Writing, Stuck
<1>12. ASSUME WriteCopy
      PROVE  OneToken' /\ MoreFollows'
  <2>1. CASE cs
    <3>1. todo = << >> /\ ~Has(out) /\ ~Received
      BY <2>1 DEF OneToken, InProgram
    <3>2. todo' = <<Outgoing>> /\ Len(todo') = 1
      BY <3>1, <2>1, <1>12, Transmitted DEF WriteCopy
    <3> QED BY <1>12, <2>1, <3>1, <3>2 DEF WriteCopy, OneToken, MoreFollows, Received, InBuffer, InProgram, Over, Decoded, Control, Writing, Stuck
  <2>2. CASE ~cs
    <3>1. UNCHANGED todo
      BY <2>2, <1>12, Transmitted DEF WriteCopy
    <3> QED BY <1>12, <2>2, <3>1 DEF WriteCopy, OneToken, MoreFollows, Received, InBuffer, InProgram, Over, Decoded, Control, Writing, Stuck
  <2> QED BY <2>1, <2>2
<1>13. ASSUME WriteEnd
      PROVE  OneToken' /\ MoreFollows'
  BY <1>13 DEF WriteEnd, AfterWrite, driver, radio, OneToken, MoreFollows, Received, InBuffer, InProgram, Over, Decoded, Control, Writing, Stuck
<1>14. ASSUME WriteStuck
      PROVE  OneToken' /\ MoreFollows'
  BY <1>14 DEF WriteStuck, driver, radio, OneToken, MoreFollows, Received, InBuffer, InProgram, Over, Decoded, Control, Writing, Stuck
<1>15. ASSUME WaitEvent
      PROVE  OneToken' /\ MoreFollows'
  BY <1>15 DEF WaitEvent, radio, OneToken, MoreFollows, Received, InBuffer, InProgram, Over, Decoded, Control, Writing, Stuck
<1>16. ASSUME Decode
      PROVE  OneToken' /\ MoreFollows'
  <2>1. /\ pc = "poll" /\ full /\ answer' = rx /\ pc' = "release" /\ ~cs
        /\ opcode' = (IF rx.op = opcode THEN None ELSE opcode)
        /\ pending' = (pending /\ rx.op # "data")
        /\ UNCHANGED <<cs, full, rx, out, todo, calls, kind>>
    BY <1>16 DEF Decode, radio, Control
  <2>2. rx \in Packet /\ kind \in Kinds
    BY DEF TypeOK
  <2>3. ~InBuffer' /\ ~Received' /\ InBuffer
    BY <2>1 DEF InBuffer, Received
  <2>4. InProgram' => rx.op = "patches" /\ Received
    BY <2>1, <2>2, <2>3 DEF InProgram, Received, Token, Live, Packet
  <2>5. Over' => Received /\ rx.op # "patches"
    BY <2>1, <2>2, <2>3, Zenon DEF Over, Decoded, Received, Token, Live, Control, Kinds, None
  <2>6. Over' => ~InProgram'
    BY <2>4, <2>5
  <2>7. todo # << >> \/ Has(out) => ~Received
    BY DEF OneToken
  <2>8. Has(out)' = Has(out) /\ Single(out)' = Single(out) /\ Followed(out)' = Followed(out)
    BY <2>1
  <2> QED BY <2>1, <2>3, <2>4, <2>5, <2>6, <2>7, <2>8 DEF OneToken, MoreFollows
<1>17. ASSUME Release
      PROVE  OneToken' /\ MoreFollows'
  BY <1>17 DEF Release, radio, OneToken, MoreFollows, Received, InBuffer, InProgram, Over, Decoded, Control, Writing, Stuck
<1>17a. ASSUME ServePatch
      PROVE  OneToken' /\ MoreFollows'
  <2>1. /\ pc = "patch" /\ pc' \in {"write", "check"} /\ UNCHANGED <<driver, answer, out, todo>>
    BY <1>17a DEF ServePatch, radio
  <2>2. InProgram /\ opcode # None
    BY <2>1 DEF InProgram, Ours, Control
  <2>3. ~Decoded' /\ Received' = Received /\ InBuffer' = InBuffer
    BY <2>1, <2>2 DEF driver, Decoded, Received, InBuffer
  <2> QED BY <2>1, <2>2, <2>3 DEF driver, OneToken, MoreFollows, Over, InBuffer, Received
<1>18. ASSUME GoOn
      PROVE  OneToken' /\ MoreFollows'
  BY <1>18 DEF GoOn, driver, radio, OneToken, MoreFollows, Received, InBuffer, InProgram, Over, Decoded, Control, Writing, Stuck
<1>19. ASSUME WaitData
      PROVE  OneToken' /\ MoreFollows'
  BY <1>19 DEF WaitData, radio, OneToken, MoreFollows, Received, InBuffer, InProgram, Over, Decoded, Control, Writing, Stuck
<1>20. ASSUME Return
      PROVE  OneToken' /\ MoreFollows'
  <2>1. answer.more => answer.op = "recv"
    BY DEF TypeOK, Packet
  <2> QED BY <1>20, <2>1 DEF Return, driver, radio, OneToken, MoreFollows, Received, InBuffer, InProgram, Over, Decoded, Control, Writing, Stuck
<1>21. ASSUME NEW k \in Kinds, Call(k)
      PROVE  OneToken' /\ MoreFollows'
  BY <1>21 DEF Call, driver, OneToken, MoreFollows, Received, InBuffer, InProgram, Over, Decoded, Control, Writing, Stuck
<1>22. ASSUME RadioUp
      PROVE  OneToken' /\ MoreFollows'
  BY <1>22 DEF RadioUp, driver, program, OneToken, MoreFollows, Received, InBuffer, InProgram, Over, Decoded, Control, Writing, Stuck
<1>23. ASSUME RadioReady
      PROVE  OneToken' /\ MoreFollows'
  BY <1>23 DEF RadioReady, driver, program, OneToken, MoreFollows, Received, InBuffer, InProgram, Over, Decoded, Control, Writing, Stuck
<1>24. ASSUME RadioExecute
      PROVE  OneToken' /\ MoreFollows'
  <2>1. todo \in Seq(Written) /\ todo # << >> /\ Len(todo) <= 1
    BY <1>24 DEF RadioExecute, TypeOK, Written, OneToken
  <2>2. Head(todo) \in Written /\ Tail(todo) = << >>
    BY <2>1, HeadTailProperties, EmptySeq
  <2>3. PICK a \in Answers(Head(todo)) : out' = out \o a
    BY <1>24 DEF RadioExecute
  <2>4. ~Has(out) /\ ~Received /\ ~InProgram /\ ~(pc \in {"boot", "ready"} \/ Over)
    BY <2>1 DEF OneToken
  <2>5. Single(out') /\ Followed(out')
    BY <2>2, <2>3, <2>4, Answered DEF TypeOK, OneToken, MoreFollows
  <2>6. todo' = << >> /\ Len(todo') = 0
    BY <1>24, <2>2 DEF RadioExecute
  <2>7. UNCHANGED <<pc, rx, full, cs, answer, opcode, pending>>
    BY <1>24 DEF RadioExecute, driver, program
  <2>8. ~Received' /\ ~InProgram' /\ ~(pc' \in {"boot", "ready"} \/ Over')
    BY <2>4, <2>7 DEF Received, InBuffer, InProgram, Over, Decoded
  <2>9. ~(InBuffer /\ rx.more)
    BY <2>4 DEF MoreFollows
  <2> QED BY <2>5, <2>6, <2>7, <2>8, <2>9 DEF OneToken, MoreFollows, InBuffer
<1>25. ASSUME RadioAskPatch
      PROVE  OneToken' /\ MoreFollows'
  <2> DEFINE q == [op |-> "patches", call |-> Head(todo).call, more |-> FALSE]
  <2>1. todo \in Seq(Written) /\ todo # << >> /\ Len(todo) <= 1
    BY <1>25 DEF RadioAskPatch, TypeOK, Written, OneToken
  <2>2. Head(todo) \in Written /\ Tail(todo) = << >>
    BY <2>1, HeadTailProperties, EmptySeq
  <2>3. q \in Packet /\ ~q.more
    BY <2>2, HciAssumption DEF HciAssumption, Written, Packet, Solicited
  <2>4. ~Has(out) /\ ~Received /\ ~InProgram /\ ~(pc \in {"boot", "ready"} \/ Over)
    BY <2>1 DEF OneToken
  <2>5. Single(out') /\ Followed(out')
    BY <1>25, <2>3, <2>4, Appended DEF RadioAskPatch, TypeOK, OneToken, MoreFollows
  <2>6. todo' = << >> /\ Len(todo') = 0
    BY <1>25, <2>2 DEF RadioAskPatch
  <2>7. UNCHANGED <<pc, rx, full, cs, answer, opcode, pending>>
    BY <1>25 DEF RadioAskPatch, driver, program
  <2>8. ~Received' /\ ~InProgram' /\ ~(pc' \in {"boot", "ready"} \/ Over')
    BY <2>4, <2>7 DEF Received, InBuffer, InProgram, Over, Decoded
  <2>9. ~(InBuffer /\ rx.more)
    BY <2>4 DEF MoreFollows
  <2> QED BY <2>5, <2>6, <2>7, <2>8, <2>9 DEF OneToken, MoreFollows, InBuffer
<1>26. ASSUME RadioFree
      PROVE  OneToken' /\ MoreFollows'
  <2>1. PICK op \in {"free"} : out' = Append(out, [op |-> op, call |-> 0, more |-> FALSE])
    BY <1>26 DEF RadioFree
  <2> DEFINE q == [op |-> op, call |-> 0, more |-> FALSE]
  <2>2. q \in Packet /\ ~q.more /\ ~Token(q)
    BY HciAssumption DEF HciAssumption, Packet, Solicited, Handled, Token, Live, Kinds
  <2>3. Single(out') /\ Followed(out') /\ (Has(out') <=> Has(out))
    BY <2>1, <2>2, Appended DEF TypeOK, OneToken, MoreFollows
  <2> QED BY <1>26, <2>3 DEF RadioFree, driver, program, OneToken, MoreFollows, Received, InBuffer, InProgram, Over, Decoded, Control, Writing, Stuck
<1>27. ASSUME RadioUnsolicited
      PROVE  OneToken' /\ MoreFollows'
  <2>1. PICK op \in {"wlan", "unknown"} : out' = Append(out, [op |-> op, call |-> 0, more |-> FALSE])
    BY <1>27 DEF RadioUnsolicited
  <2> DEFINE q == [op |-> op, call |-> 0, more |-> FALSE]
  <2>2. q \in Packet /\ ~q.more /\ ~Token(q)
    BY HciAssumption DEF HciAssumption, Packet, Solicited, Handled, Token, Live, Kinds
  <2>3. Single(out') /\ Followed(out') /\ (Has(out') <=> Has(out))
    BY <2>1, <2>2, Appended DEF TypeOK, OneToken, MoreFollows
  <2> QED BY <1>27, <2>3 DEF RadioUnsolicited, driver, program, OneToken, MoreFollows, Received, InBuffer, InProgram, Over, Decoded, Control, Writing, Stuck
<1>28. CASE UNCHANGED vars
  BY <1>28 DEF vars, driver, program, radio, OneToken, MoreFollows, Received, InBuffer, InProgram, Over, Decoded, Control, Writing, Stuck
<1> QED BY <1>1, <1>2, <1>3, <1>4, <1>5, <1>6, <1>7, <1>8, <1>9, <1>10, <1>11, <1>12, <1>13, <1>14, <1>15, <1>16, <1>17, <1>17a, <1>18, <1>19, <1>20, <1>21, <1>22, <1>23, <1>24, <1>25, <1>26, <1>27, <1>28
     DEF Next, Step, SpiWrite, SPI_IRQ, Radio

-----------------------------------------------------------------------------
(* What comes back is of the current call, and the radio has executed it.   *)

(* What the program writes is of the current call.                          *)
LEMMA OutgoingIsOurs ==
    ASSUME TypeOK, Control, pc \in Writing \cup Stuck
    PROVE  Outgoing \in Written /\ Own(Outgoing) /\ Outgoing.op # "data"
<1>1. calls \in 1..MaxCalls /\ kind \in Kinds
  BY HciAssumption DEF HciAssumption, TypeOK, Control, Writing, Stuck
<1>2. opcode # None => kind = "start"
  BY DEF Control
<1> QED BY <1>1, <1>2 DEF Outgoing, Written, Own, Kinds

(* And so is what the radio has still to execute.                           *)
LEMMA WrittenIsOurs ==
    ASSUME TypeOK, Control, Ours, Transmit
    PROVE  \A i \in 1..Len(todo') : Own(todo'[i]) /\ todo'[i].op # "data"
<1>1. CASE cs
  <2>1. /\ todo \in Seq(Written) /\ Outgoing \in Written /\ todo' = Append(todo, Outgoing)
        /\ Own(Outgoing) /\ Outgoing.op # "data"
    BY <1>1, OutgoingIsOurs DEF Transmit, TypeOK, Written, Control, Writing, Stuck
  <2>2. \A i \in 1..Len(todo') : todo'[i] = Outgoing \/ \E j \in 1..Len(todo) : todo'[i] = todo[j]
    BY <2>1, AppendProperties
  <2> QED BY <2>1, <2>2 DEF Ours
<1>2. CASE ~cs
  BY <1>2 DEF Transmit, Ours
<1> QED BY <1>1, <1>2

(* Every step keeps both.                                                   *)
LEMMA OursStep ==
    ASSUME TypeOK, Control, OneToken, MoreFollows, Ours, Executing, [Next]_vars
    PROVE  Ours' /\ Executing'
<1>1. ASSUME IrqPowerUp, UNCHANGED program
      PROVE  Ours' /\ Executing'
  <2>1. \A p : Own(p)' = Own(p)
    BY <1>1 DEF IrqPowerUp, program, radio, Own
  <2> QED BY <1>1, <2>1 DEF IrqPowerUp, program, radio, Ours, Executing, InBuffer, Decoded, Control, Writing, Stuck
<1>2. ASSUME IrqWrite, enabled, UNCHANGED program
      PROVE  Ours' /\ Executing'
  <2>1. \A i \in 1..Len(todo') : Own(todo'[i]) /\ todo'[i].op # "data"
    BY <1>2, WrittenIsOurs DEF IrqWrite, Control
  <2>2. UNCHANGED <<calls, kind>>
    BY <1>2 DEF IrqWrite, program
  <2>3. \A p : Own(p)' = Own(p)
    BY <2>2 DEF Own
  <2> QED BY <1>2, <2>1, <2>3 DEF IrqWrite, program, Ours, Executing, InBuffer, Decoded, Control, Writing, Stuck
<1>3. ASSUME IrqReceive, UNCHANGED program
      PROVE  Ours' /\ Executing'
  <2>1. out \in Seq(Packet) /\ out # << >> /\ rx' = Head(out) /\ out' = Tail(out)
    BY <1>3 DEF IrqReceive, TypeOK
  <2>2. /\ rx' = out[1] /\ 1 \in 1..Len(out)
        /\ \A i \in 1..Len(out') : \E j \in 1..Len(out) : out'[i] = out[j]
    BY <2>1, HeadTailProperties, LenProperties, Taken1
  <2>3. \A p : Own(p)' = Own(p)
    BY <1>3 DEF program, Own
  <2> QED BY <1>3, <2>2, <2>3 DEF IrqReceive, program, Ours, Executing, InBuffer, Decoded, Control, Writing, Stuck
<1>4. ASSUME Boot
      PROVE  Ours' /\ Executing'
  <2>1. \A p : Own(p)' = Own(p)
    BY <1>4 DEF Boot, driver, radio, Own
  <2> QED BY <1>4, <2>1 DEF Boot, driver, radio, Ours, Executing, InBuffer, Decoded, Control, Writing, Stuck
<1>5. ASSUME Refuse
      PROVE  Ours' /\ Executing'
  <2>1. \A p : Own(p)' = Own(p)
    BY <1>5 DEF Refuse, radio, Own
  <2> QED BY <1>5, <2>1 DEF Refuse, radio, Ours, Executing, InBuffer, Decoded, Control, Writing, Stuck
<1>6. ASSUME ConsumeLoad
      PROVE  Ours' /\ Executing'
  <2>1. \A p : Own(p)' = Own(p)
    BY <1>6 DEF ConsumeLoad, driver, radio, Own
  <2> QED BY <1>6, <2>1 DEF ConsumeLoad, driver, radio, Ours, Executing, InBuffer, Decoded, Control, Writing, Stuck
<1>7. ASSUME ConsumeStore
      PROVE  Ours' /\ Executing'
  <2>1. \A p : Own(p)' = Own(p)
    BY <1>7 DEF ConsumeStore, radio, Own
  <2> QED BY <1>7, <2>1 DEF ConsumeStore, radio, Ours, Executing, InBuffer, Decoded, Control, Writing, Stuck
<1>8. ASSUME WriteFirst
      PROVE  Ours' /\ Executing'
  <2>1. /\ todo \in Seq(Written) /\ Outgoing \in Written /\ todo' = Append(todo, Outgoing)
        /\ Own(Outgoing) /\ Outgoing.op # "data"
    BY <1>8, OutgoingIsOurs DEF WriteFirst, TypeOK, Written
  <2>2. \A i \in 1..Len(todo') : todo'[i] = Outgoing \/ \E j \in 1..Len(todo) : todo'[i] = todo[j]
    BY <2>1, AppendProperties
  <2>3. \A i \in 1..Len(todo') : Own(todo'[i]) /\ todo'[i].op # "data"
    BY <2>1, <2>2 DEF Ours
  <2>4. \A p : Own(p)' = Own(p)
    BY <1>8 DEF Own, WriteFirst
  <2> QED BY <1>8, <2>3, <2>4 DEF WriteFirst, AfterWrite, Ours, Executing, InBuffer, Decoded, Control, Writing, Stuck
<1>9. ASSUME WriteSelect
      PROVE  Ours' /\ Executing'
  <2>1. \A p : Own(p)' = Own(p)
    BY <1>9 DEF WriteSelect, radio, Own
  <2> QED BY <1>9, <2>1 DEF WriteSelect, radio, Ours, Executing, InBuffer, Decoded, Control, Writing, Stuck
<1>10. ASSUME WriteEnable
      PROVE  Ours' /\ Executing'
  <2>1. \A p : Own(p)' = Own(p)
    BY <1>10 DEF WriteEnable, radio, Own
  <2> QED BY <1>10, <2>1 DEF WriteEnable, radio, Ours, Executing, InBuffer, Decoded, Control, Writing, Stuck
<1>11. ASSUME WritePin
      PROVE  Ours' /\ Executing'
  <2>1. \A p : Own(p)' = Own(p)
    BY <1>11 DEF WritePin, driver, radio, Own
  <2> QED BY <1>11, <2>1 DEF WritePin, driver, radio, Ours, Executing, InBuffer, Decoded, Control, Writing, Stuck
<1>12. ASSUME WriteCopy
      PROVE  Ours' /\ Executing'
  <2>1. \A i \in 1..Len(todo') : Own(todo'[i]) /\ todo'[i].op # "data"
    BY <1>12, WrittenIsOurs DEF WriteCopy, Control
  <2>2. UNCHANGED <<calls, kind>>
    BY <1>12 DEF WriteCopy
  <2>3. \A p : Own(p)' = Own(p)
    BY <2>2 DEF Own
  <2> QED BY <1>12, <2>1, <2>3 DEF WriteCopy, Ours, Executing, InBuffer, Decoded, Control, Writing, Stuck
<1>13. ASSUME WriteEnd
      PROVE  Ours' /\ Executing'
  <2>1. \A p : Own(p)' = Own(p)
    BY <1>13 DEF WriteEnd, driver, radio, Own
  <2> QED BY <1>13, <2>1 DEF WriteEnd, driver, radio, AfterWrite, Ours, Executing, InBuffer, Decoded, Control, Writing, Stuck
<1>14. ASSUME WriteStuck
      PROVE  Ours' /\ Executing'
  <2>1. \A p : Own(p)' = Own(p)
    BY <1>14 DEF WriteStuck, driver, radio, Own
  <2> QED BY <1>14, <2>1 DEF WriteStuck, driver, radio, Ours, Executing, InBuffer, Decoded, Control, Writing, Stuck
<1>15. ASSUME WaitEvent
      PROVE  Ours' /\ Executing'
  <2>1. \A p : Own(p)' = Own(p)
    BY <1>15 DEF WaitEvent, radio, Own
  <2> QED BY <1>15, <2>1 DEF WaitEvent, radio, Ours, Executing, InBuffer, Decoded, Control, Writing, Stuck
<1>16. ASSUME Decode
      PROVE  Ours' /\ Executing'
  <2>1. \A p : Own(p)' = Own(p)
    BY <1>16 DEF Decode, Own
  <2>2. /\ pc = "poll" /\ full /\ answer' = rx /\ pc' = "release" /\ InBuffer
        /\ opcode' = (IF rx.op = opcode THEN None ELSE opcode)
        /\ pending' = (pending /\ rx.op # "data")
        /\ UNCHANGED <<out, todo, calls, kind, executed>>
    BY <1>16 DEF Decode, radio, InBuffer
  <2>3. rx \in Packet /\ kind \in Kinds
    BY DEF TypeOK
  <2>4. Live(rx) => Own(rx)
    BY <2>2 DEF Ours
  <2>5. Decoded' => (opcode # None /\ rx.op = opcode) \/ (pending /\ rx.op = "data")
    BY <2>2, Zenon DEF Decoded, Control
  <2>6. Decoded' => Live(rx) /\ rx.op # "patches"
    BY <2>3, <2>5 DEF Control, Live, Kinds
  <2>7. rx.op = "patches" => opcode' # None
    BY <2>2, <2>3, <2>4 DEF Own, Live, Control, Kinds, None
  <2>8. Executing'
    BY <2>2, <2>6 DEF Executing, InBuffer, Control
  <2> QED BY <2>1, <2>2, <2>4, <2>6, <2>7, <2>8 DEF Ours, InBuffer
<1>17. ASSUME Release
      PROVE  Ours' /\ Executing'
  <2>1. \A p : Own(p)' = Own(p)
    BY <1>17 DEF Release, radio, Own
  <2> QED BY <1>17, <2>1 DEF Release, radio, Ours, Executing, InBuffer, Decoded, Control, Writing, Stuck
<1>17a. ASSUME ServePatch
      PROVE  Ours' /\ Executing'
  <2>1. \A p : Own(p)' = Own(p)
    BY <1>17a DEF ServePatch, driver, radio, Own
  <2> QED BY <1>17a, <2>1 DEF ServePatch, driver, radio, Ours, Executing, InBuffer, Decoded, Control, Writing, Stuck
<1>18. ASSUME GoOn
      PROVE  Ours' /\ Executing'
  <2>1. \A p : Own(p)' = Own(p)
    BY <1>18 DEF GoOn, driver, radio, Own
  <2> QED BY <1>18, <2>1 DEF GoOn, driver, radio, Ours, Executing, InBuffer, Decoded, Control, Writing, Stuck
<1>19. ASSUME WaitData
      PROVE  Ours' /\ Executing'
  <2>1. \A p : Own(p)' = Own(p)
    BY <1>19 DEF WaitData, radio, Own
  <2> QED BY <1>19, <2>1 DEF WaitData, radio, Ours, Executing, InBuffer, Decoded, Control, Writing, Stuck
<1>20. ASSUME Return
      PROVE  Ours' /\ Executing'
  <2>1. \A p : Own(p)' = Own(p)
    BY <1>20 DEF Return, driver, radio, Own
  <2> QED BY <1>20, <2>1 DEF Return, driver, radio, Ours, Executing, InBuffer, Decoded, Control, Writing, Stuck
<1>21. ASSUME NEW k \in Kinds, Call(k)
      PROVE  Ours' /\ Executing'
  <2>1. /\ pc = "ready" /\ pc' \in {"consume", "write"} /\ executed' = FALSE
        /\ UNCHANGED <<out, todo, rx, full, answer>>
    BY <1>21 DEF Call, driver
  <2>2. todo = << >> /\ ~Has(out) /\ ~Received
    BY <2>1 DEF OneToken
  <2>3. \A i \in 1..Len(out) : ~Live(out[i])
    <3> SUFFICES ASSUME NEW i \in 1..Len(out), Live(out[i])
                 PROVE  FALSE
      OBVIOUS
    <3>1. out[i].more
      BY <2>2 DEF Has, Token
    <3>2. PICK j \in (i+1)..Len(out) : Token(out[j])
      BY <3>1 DEF MoreFollows, Followed
    <3>3. Len(out) \in Nat
      BY DEF TypeOK
    <3>4. j \in 1..Len(out)
      BY <3>2, <3>3
    <3> QED BY <2>2, <3>2, <3>4 DEF Has
  <2>4. ~(InBuffer /\ Live(rx))
    BY <2>2 DEF Received, Token, MoreFollows
  <2>5. InBuffer' = InBuffer /\ ~Decoded' /\ pc' # "release" /\ ~executed'
    BY <2>1 DEF InBuffer, Decoded
  <2>6. Len(todo') = 0
    BY <2>1, <2>2
  <2> QED BY <2>1, <2>3, <2>4, <2>5, <2>6 DEF Ours, Executing
<1>22. ASSUME RadioUp
      PROVE  Ours' /\ Executing'
  <2>1. \A p : Own(p)' = Own(p)
    BY <1>22 DEF RadioUp, driver, program, Own
  <2> QED BY <1>22, <2>1 DEF RadioUp, driver, program, Ours, Executing, InBuffer, Decoded, Control, Writing, Stuck
<1>23. ASSUME RadioReady
      PROVE  Ours' /\ Executing'
  <2>1. \A p : Own(p)' = Own(p)
    BY <1>23 DEF RadioReady, driver, program, Own
  <2> QED BY <1>23, <2>1 DEF RadioReady, driver, program, Ours, Executing, InBuffer, Decoded, Control, Writing, Stuck
<1>24. ASSUME RadioExecute
      PROVE  Ours' /\ Executing'
  <2>1. todo \in Seq(Written) /\ todo # << >> /\ Len(todo) <= 1
    BY <1>24 DEF RadioExecute, TypeOK, Written, OneToken
  <2>2. /\ Head(todo) \in Written /\ Tail(todo) = << >> /\ Head(todo) = todo[1] /\ 1 \in 1..Len(todo)
    BY <2>1, HeadTailProperties, EmptySeq
  <2>3. PICK a \in Answers(Head(todo)) : out' = out \o a
    BY <1>24 DEF RadioExecute
  <2> DEFINE p == Head(todo)
  <2>4. Own(p) /\ p.op # "data"
    BY <2>2 DEF Ours
  <2>5. ~Has(out) /\ ~InProgram /\ Single(out) /\ Followed(out) /\ out \in Seq(Packet)
    BY <2>1 DEF OneToken, MoreFollows, TypeOK
  <2> HIDE DEF p
  <2>6. \A i \in 1..Len(out') :
           \/ \E j \in 1..Len(out) : out'[i] = out[j]
           \/ /\ out'[i].call = p.call
              /\ \/ out'[i].op = p.op /\ p.op # "patches"
                 \/ out'[i].op = "data" /\ p.op = "recv"
                 \/ out'[i].op = "start" /\ p.op = "patches"
                 \/ out'[i].op = "lostsend"
    BY <2>2, <2>3, <2>5, Answered DEF p
  <2>7. UNCHANGED <<driver, program>> /\ executed' = TRUE /\ todo' = << >>
    BY <1>24, <2>2 DEF RadioExecute
  <2>8. \A q : Own(q)' = Own(q)
    BY <2>7 DEF program, Own
  <2>9. \A i \in 1..Len(out') : Live(out'[i]) => Own(out'[i])
    <3> SUFFICES ASSUME NEW i \in 1..Len(out'), Live(out'[i])
                 PROVE  Own(out'[i])
      OBVIOUS
    <3>1. CASE \E j \in 1..Len(out) : out'[i] = out[j]
      BY <3>1 DEF Ours
    <3>2. CASE /\ out'[i].call = p.call
               /\ \/ out'[i].op = p.op /\ p.op # "patches"
                  \/ out'[i].op = "data" /\ p.op = "recv"
                  \/ out'[i].op = "start" /\ p.op = "patches"
                  \/ out'[i].op = "lostsend"
      BY <3>2, <2>4 DEF Own, Live, Kinds, TypeOK
    <3> QED BY <3>1, <3>2, <2>6
  <2>10. Len(todo') = 0
    BY <2>7
  <2>11. pc \notin {"consume", "decrement"} /\ executed'
    BY <2>5, <2>7 DEF InProgram
  <2>12. /\ InBuffer' = InBuffer /\ Decoded' = Decoded
         /\ UNCHANGED <<pc, rx, answer, opcode>>
    BY <2>7 DEF driver, program, InBuffer, Decoded
  <2> QED BY <2>8, <2>9, <2>10, <2>11, <2>12 DEF Ours, Executing
<1>25. ASSUME RadioAskPatch
      PROVE  Ours' /\ Executing'
  <2> DEFINE q == [op |-> "patches", call |-> Head(todo).call, more |-> FALSE]
  <2>1. todo \in Seq(Written) /\ todo # << >> /\ Len(todo) <= 1
    BY <1>25 DEF RadioAskPatch, TypeOK, Written, OneToken
  <2>2. /\ Head(todo) \in Written /\ Tail(todo) = << >> /\ Head(todo) = todo[1] /\ 1 \in 1..Len(todo)
    BY <2>1, HeadTailProperties, EmptySeq
  <2>3. q \in Packet /\ q.op = "patches" /\ q.call = Head(todo).call
    BY <2>2, HciAssumption DEF HciAssumption, Written, Packet, Solicited
  <2>4. Own(Head(todo)) /\ Head(todo).op \in {"start", "patches"}
    BY <1>25, <2>2 DEF Ours, RadioAskPatch
  <2>5. Own(q)
    BY <2>3, <2>4 DEF Own, TypeOK, Kinds
  <2>6. out \in Seq(Packet) /\ out' = Append(out, q) /\ todo' = << >>
    BY <1>25, <2>2 DEF RadioAskPatch, TypeOK
  <2> HIDE DEF q
  <2>7. \A i \in 1..Len(out') : out'[i] = q \/ \E j \in 1..Len(out) : out'[i] = out[j]
    BY <2>3, <2>6, AppendProperties
  <2>8. \A p : Own(p)' = Own(p)
    BY <1>25 DEF RadioAskPatch, program, Own
  <2>9. Len(todo') = 0
    BY <2>6
  <2>10. /\ InBuffer' = InBuffer /\ Decoded' = Decoded
         /\ UNCHANGED <<pc, rx, answer, opcode, executed>>
    BY <1>25 DEF RadioAskPatch, driver, program, InBuffer, Decoded
  <2>11. \A i \in 1..Len(out') : Live(out'[i]) => Own(out'[i])
    BY <2>5, <2>7 DEF Ours
  <2>12. \A i \in 1..Len(out') : Live(out'[i]) /\ out'[i].op # "patches" => executed
    BY <2>3, <2>7 DEF Executing
  <2> QED BY <2>8, <2>9, <2>10, <2>11, <2>12 DEF Ours, Executing
<1>26. ASSUME RadioFree
      PROVE  Ours' /\ Executing'
  <2>1. PICK op \in {"free"} : out' = Append(out, [op |-> op, call |-> 0, more |-> FALSE])
    BY <1>26 DEF RadioFree
  <2> DEFINE q == [op |-> op, call |-> 0, more |-> FALSE]
  <2>2. q \in Packet /\ ~Live(q) /\ out' = Append(out, q) /\ out \in Seq(Packet)
    BY <2>1, HciAssumption DEF HciAssumption, Packet, Solicited, Handled, Live, Kinds, TypeOK
  <2> HIDE DEF q
  <2>3. \A i \in 1..Len(out') : out'[i] = q \/ \E j \in 1..Len(out) : out'[i] = out[j]
    BY <2>2, AppendProperties
  <2>4. \A p : Own(p)' = Own(p)
    BY <1>26 DEF RadioFree, program, Own
  <2> QED BY <1>26, <2>2, <2>3, <2>4 DEF RadioFree, driver, program, Ours, Executing, InBuffer, Decoded, Control, Writing, Stuck
<1>27. ASSUME RadioUnsolicited
      PROVE  Ours' /\ Executing'
  <2>1. PICK op \in {"wlan", "unknown"} : out' = Append(out, [op |-> op, call |-> 0, more |-> FALSE])
    BY <1>27 DEF RadioUnsolicited
  <2> DEFINE q == [op |-> op, call |-> 0, more |-> FALSE]
  <2>2. q \in Packet /\ ~Live(q) /\ out' = Append(out, q) /\ out \in Seq(Packet)
    BY <2>1, HciAssumption DEF HciAssumption, Packet, Solicited, Handled, Live, Kinds, TypeOK
  <2> HIDE DEF q
  <2>3. \A i \in 1..Len(out') : out'[i] = q \/ \E j \in 1..Len(out) : out'[i] = out[j]
    BY <2>2, AppendProperties
  <2>4. \A p : Own(p)' = Own(p)
    BY <1>27 DEF RadioUnsolicited, program, Own
  <2> QED BY <1>27, <2>2, <2>3, <2>4 DEF RadioUnsolicited, driver, program, Ours, Executing, InBuffer, Decoded, Control, Writing, Stuck
<1>28. CASE UNCHANGED vars
  <2>1. \A p : Own(p)' = Own(p)
    BY <1>28 DEF vars, program, Own
  <2> QED BY <1>28, <2>1 DEF vars, driver, program, radio, Ours, Executing, InBuffer, Decoded, Control, Writing, Stuck
<1> QED BY <1>1, <1>2, <1>3, <1>4, <1>5, <1>6, <1>7, <1>8, <1>9, <1>10, <1>11, <1>12, <1>13, <1>14, <1>15, <1>16, <1>17, <1>17a, <1>18, <1>19, <1>20, <1>21, <1>22, <1>23, <1>24, <1>25, <1>26, <1>27, <1>28
     DEF Next, Step, SpiWrite, SPI_IRQ, Radio

-----------------------------------------------------------------------------
(* The radio hears every call exactly once.                                 *)

(* A packet that is written is new to the radio, and with it the current    *)
(* call has been heard.                                                     *)
LEMMA HeardAppend ==
    ASSUME TypeOK, Control, Heard, pc \in Writing \cup Stuck,
           opcode = None => Unsent, heard' = Append(heard, Outgoing)
    PROVE  /\ \A i \in 1..Len(heard') : heard'[i].call <= calls
           /\ \A i, j \in 1..Len(heard') : heard'[i].op # "patches" /\ heard'[i] = heard'[j] => i = j
           /\ \E i \in 1..Len(heard') : heard'[i] = [op |-> kind, call |-> calls]
<1> DEFINE n == Len(heard)
<1>1. Outgoing \in Written /\ heard \in Seq(Written)
  BY OutgoingIsOurs DEF TypeOK, Written
<1>2. /\ Len(heard') = n + 1 /\ n \in Nat /\ heard'[n + 1] = Outgoing
      /\ \A i \in 1..n : heard'[i] = heard[i]
  BY <1>1, AppendProperties
<1>3. \A i \in 1..Len(heard') : i \in 1..n \/ i = n + 1
  BY <1>2
<1>4. Outgoing.call = calls /\ calls \in Nat /\ calls <= calls
  BY DEF Outgoing, TypeOK
<1>5. \A i \in 1..n : Outgoing.op # "patches" /\ heard[i].op # "patches" => heard[i] # Outgoing
  <2> SUFFICES ASSUME NEW i \in 1..n, Outgoing.op # "patches", heard[i].op # "patches"
               PROVE  heard[i] # Outgoing
    OBVIOUS
  <2>1. Unsent
    BY DEF Outgoing
  <2>2. heard[i].call < calls
    BY <2>1 DEF Heard
  <2>3. heard[i].call # calls
    BY <2>2, <1>4, <1>1 DEF Written
  <2> QED BY <2>3, <1>4
<1>6. \E i \in 1..Len(heard') : heard'[i] = [op |-> kind, call |-> calls]
  <2>1. CASE opcode = None
    BY <2>1, <1>2 DEF Outgoing
  <2>2. CASE opcode # None
    <3>1. Sent
      BY <2>2 DEF Sent, Unsent
    <3>2. PICK i \in 1..n : heard[i] = [op |-> kind, call |-> calls]
      BY <3>1 DEF Heard
    <3> QED BY <3>2, <1>2
  <2> QED BY <2>1, <2>2
<1> HIDE DEF n
<1>7. \A i \in 1..n : heard[i].call <= calls
  BY DEF Heard, n
<1>8. \A i, j \in 1..n : heard[i].op # "patches" /\ heard[i] = heard[j] => i = j
  BY DEF Heard, n
<1>9. \A i \in 1..Len(heard') : heard'[i].call <= calls
  BY <1>2, <1>3, <1>4, <1>7
<1>10. \A i, j \in 1..Len(heard') : heard'[i].op # "patches" /\ heard'[i] = heard'[j] => i = j
  BY <1>2, <1>3, <1>5, <1>8
<1> QED BY <1>6, <1>9, <1>10

(* Every step of the driver and of the radio keeps the record of what was   *)
(* heard.                                                                   *)
LEMMA HeardStep ==
    ASSUME TypeOK, Control, Ours, Heard, [Next]_vars
    PROVE  Heard'
<1>1. ASSUME IrqPowerUp, UNCHANGED program
      PROVE  Heard'
  BY <1>1 DEF IrqPowerUp, program, radio, Heard, Unsent, Sent, Control, Writing, Stuck
<1>2. ASSUME IrqWrite, enabled, UNCHANGED program
      PROVE  Heard'
  <2>1. CASE cs
    <3>1. opcode = None => Unsent
      BY <2>1 DEF Unsent
    <3>2. heard' = Append(heard, Outgoing) /\ pc \in Writing \cup Stuck
      BY <2>1, <1>2 DEF IrqWrite, program, Transmit, Control, Writing, Stuck
    <3>3. ~Unsent' /\ UNCHANGED <<calls, kind>>
      BY <2>1, <1>2 DEF IrqWrite, program, Unsent, Control
    <3> QED BY <3>1, <3>2, <3>3, HeardAppend DEF Heard
  <2>2. CASE ~cs
    <3>1. UNCHANGED heard
      BY <2>2, <1>2 DEF IrqWrite, Transmit
    <3> QED BY <1>2, <2>2, <3>1 DEF IrqWrite, program, Heard, Unsent, Sent, Control, Writing, Stuck
  <2> QED BY <2>1, <2>2
<1>3. ASSUME IrqReceive, UNCHANGED program
      PROVE  Heard'
  BY <1>3 DEF IrqReceive, program, Heard, Unsent, Sent, Control, Writing, Stuck
<1>4. ASSUME Boot
      PROVE  Heard'
  BY <1>4 DEF Boot, driver, radio, Heard, Unsent, Sent, Control, Writing, Stuck
<1>5. ASSUME Refuse
      PROVE  Heard'
  BY <1>5 DEF Refuse, radio, Heard, Unsent, Sent, Control, Writing, Stuck
<1>6. ASSUME ConsumeLoad
      PROVE  Heard'
  BY <1>6 DEF ConsumeLoad, driver, radio, Heard, Unsent, Sent, Control, Writing, Stuck
<1>7. ASSUME ConsumeStore
      PROVE  Heard'
  BY <1>7 DEF ConsumeStore, radio, Heard, Unsent, Sent, Control, Writing, Stuck
<1>8. ASSUME WriteFirst
      PROVE  Heard'
  <2>1. opcode = None => Unsent
    BY <1>8 DEF Unsent, WriteFirst
  <2>2. heard' = Append(heard, Outgoing) /\ pc \in Writing \cup Stuck
    BY <1>8 DEF WriteFirst, Writing
  <2>3. ~Unsent' /\ UNCHANGED <<calls, kind>>
    BY <1>8 DEF WriteFirst, AfterWrite, Unsent, Control
  <2> QED BY <2>1, <2>2, <2>3, HeardAppend DEF Heard
<1>9. ASSUME WriteSelect
      PROVE  Heard'
  BY <1>9 DEF WriteSelect, radio, Heard, Unsent, Sent, Control, Writing, Stuck
<1>10. ASSUME WriteEnable
      PROVE  Heard'
  BY <1>10 DEF WriteEnable, radio, Heard, Unsent, Sent, Control, Writing, Stuck
<1>11. ASSUME WritePin
      PROVE  Heard'
  BY <1>11 DEF WritePin, driver, radio, Heard, Unsent, Sent, Control, Writing, Stuck
<1>12. ASSUME WriteCopy
      PROVE  Heard'
  <2>1. CASE cs
    <3>1. opcode = None => Unsent
      BY <2>1 DEF Unsent
    <3>2. heard' = Append(heard, Outgoing) /\ pc \in Writing \cup Stuck
      BY <2>1, <1>12 DEF WriteCopy, Transmit, Control, Writing, Stuck
    <3>3. ~Unsent' /\ UNCHANGED <<calls, kind>>
      BY <2>1, <1>12 DEF WriteCopy, Unsent, Control
    <3> QED BY <3>1, <3>2, <3>3, HeardAppend DEF Heard
  <2>2. CASE ~cs
    <3>1. UNCHANGED heard
      BY <2>2, <1>12 DEF WriteCopy, Transmit
    <3> QED BY <1>12, <2>2, <3>1 DEF WriteCopy, Heard, Unsent, Sent, Control, Writing, Stuck
  <2> QED BY <2>1, <2>2
<1>13. ASSUME WriteEnd
      PROVE  Heard'
  BY <1>13 DEF WriteEnd, AfterWrite, driver, radio, Heard, Unsent, Sent, Control, Writing, Stuck
<1>14. ASSUME WriteStuck
      PROVE  Heard'
  BY <1>14 DEF WriteStuck, driver, radio, Heard, Unsent, Sent, Control, Writing, Stuck
<1>15. ASSUME WaitEvent
      PROVE  Heard'
  BY <1>15 DEF WaitEvent, radio, Heard, Unsent, Sent, Control, Writing, Stuck
<1>16. ASSUME Decode
      PROVE  Heard'
  BY <1>16 DEF Decode, radio, Heard, Unsent, Sent, Control, Writing, Stuck
<1>17. ASSUME Release
      PROVE  Heard'
  <2>1. answer.op = "patches" => opcode # None
    BY <1>17 DEF Release, Ours
  <2> QED BY <1>17, <2>1 DEF Release, radio, Heard, Unsent, Sent, Control, Writing, Stuck
<1>17a. ASSUME ServePatch
      PROVE  Heard'
  <2>1. opcode # None
    BY <1>17a DEF ServePatch, Control
  <2> QED BY <1>17a, <2>1 DEF ServePatch, driver, radio, Heard, Unsent, Sent, Control, Writing, Stuck
<1>18. ASSUME GoOn
      PROVE  Heard'
  BY <1>18 DEF GoOn, driver, radio, Heard, Unsent, Sent, Control, Writing, Stuck
<1>19. ASSUME WaitData
      PROVE  Heard'
  BY <1>19 DEF WaitData, radio, Heard, Unsent, Sent, Control, Writing, Stuck
<1>20. ASSUME Return
      PROVE  Heard'
  BY <1>20 DEF Return, driver, radio, Heard, Unsent, Sent, Control, Writing, Stuck
<1>21. ASSUME NEW k \in Kinds, Call(k)
      PROVE  Heard'
  <2>1. pc = "ready" /\ calls' = calls + 1 /\ calls \in Nat /\ pc' \in {"consume", "write"} /\ UNCHANGED heard
    BY <1>21 DEF Call, TypeOK
  <2>2. Unsent'
    BY <1>21, <2>1 DEF Unsent, Call, driver, Control
  <2>3. ~Sent'
    BY <2>1, <2>2 DEF Sent, Writing, Stuck
  <2>4. heard \in Seq(Written) /\ \A w \in Written : w.call \in Nat
    BY HciAssumption DEF TypeOK, HciAssumption, Written
  <2>5. \A i \in 1..Len(heard) : heard[i].call \in Nat
    BY <2>4
  <2>6. \A i \in 1..Len(heard) : heard[i].call <= calls + 1 /\ heard[i].call < calls + 1
    BY <2>1, <2>5 DEF Heard
  <2> QED BY <2>1, <2>3, <2>6 DEF Heard
<1>22. ASSUME RadioUp
      PROVE  Heard'
  BY <1>22 DEF RadioUp, driver, program, Heard, Unsent, Sent, Control, Writing, Stuck
<1>23. ASSUME RadioReady
      PROVE  Heard'
  BY <1>23 DEF RadioReady, driver, program, Heard, Unsent, Sent, Control, Writing, Stuck
<1>24. ASSUME RadioExecute
      PROVE  Heard'
  BY <1>24 DEF RadioExecute, driver, program, Heard, Unsent, Sent, Control, Writing, Stuck
<1>25. ASSUME RadioAskPatch
      PROVE  Heard'
  BY <1>25 DEF RadioAskPatch, driver, program, Heard, Unsent, Sent, Control, Writing, Stuck
<1>26. ASSUME RadioFree
      PROVE  Heard'
  BY <1>26 DEF RadioFree, driver, program, Heard, Unsent, Sent, Control, Writing, Stuck
<1>27. ASSUME RadioUnsolicited
      PROVE  Heard'
  BY <1>27 DEF RadioUnsolicited, driver, program, Heard, Unsent, Sent, Control, Writing, Stuck
<1>28. CASE UNCHANGED vars
  BY <1>28 DEF vars, driver, program, radio, Heard, Unsent, Sent, Control, Writing, Stuck
<1> QED BY <1>1, <1>2, <1>3, <1>4, <1>5, <1>6, <1>7, <1>8, <1>9, <1>10, <1>11, <1>12, <1>13, <1>14, <1>15, <1>16, <1>17, <1>17a, <1>18, <1>19, <1>20, <1>21, <1>22, <1>23, <1>24, <1>25, <1>26, <1>27, <1>28
     DEF Next, Step, SpiWrite, SPI_IRQ, Radio

-----------------------------------------------------------------------------
(* No more patches are written than the radio asks for.                     *)

(* A patch the radio asks for is a token of its own call.                   *)
LEMMA PatchIsToken ==
    ASSUME NEW p \in Packet, p.op = "patches"
    PROVE  Token(p)
BY DEF Packet, Token, Live

(* A step that writes nothing and asks for nothing leaves the count of      *)
(* patches right.                                                           *)
LEMMA PatchedKept ==
    ASSUME TypeOK, Patched, UNCHANGED <<heard, patches>>, PatchComing' => PatchComing
    PROVE  Patched'
<1>1. Count(heard, "patches") \in Nat /\ patches \in Nat
  BY CountType, HciAssumption DEF TypeOK, HciAssumption
<1>2. Count(heard, "patches")' = Count(heard, "patches") /\ patches' = patches
  OBVIOUS
<1> QED BY <1>1, <1>2 DEF Patched

(* A write uses up the request it answers.                                  *)
LEMMA PatchWritten ==
    ASSUME TypeOK, Control, OneToken, Patched, InProgram, pc \in Writing \cup Stuck,
           opcode # None => PatchComing,
           heard' = Append(heard, Outgoing), UNCHANGED <<out, patches>>,
           PatchComing' => \E i \in 1..Len(out) : out[i].op = "patches"
    PROVE  Patched'
<1>1. ~Has(out)
  BY DEF OneToken
<1>2. \A i \in 1..Len(out) : out[i].op # "patches"
  BY <1>1, PatchIsToken DEF Has, TypeOK
<1>3. ~PatchComing'
  BY <1>2
<1>4. heard \in Seq(Written) /\ Outgoing \in Written
  BY OutgoingIsOurs DEF TypeOK, Written
<1>5. /\ Count(heard, "patches") \in Nat /\ patches \in Nat
      /\ Count(heard', "patches") = Count(heard, "patches") + (IF Outgoing.op = "patches" THEN 1 ELSE 0)
  BY <1>4, CountType, CountAppend, HciAssumption DEF TypeOK, HciAssumption
<1>6. Outgoing.op = "patches" => PatchComing
  BY DEF Outgoing, TypeOK, Kinds
<1> QED BY <1>3, <1>5, <1>6 DEF Patched

(* Every step keeps the number of patches within the number asked for.      *)
LEMMA PatchedStep ==
    ASSUME TypeOK, Control, OneToken, MoreFollows, Ours, Patched, [Next]_vars
    PROVE  Patched'
<1>1. ASSUME IrqPowerUp, UNCHANGED program
      PROVE  Patched'
  <2>1. UNCHANGED <<heard, patches>> /\ (PatchComing' => PatchComing)
    BY <1>1 DEF IrqPowerUp, program, radio, PatchComing, InBuffer, Control, Writing, Stuck
  <2> QED BY <2>1, PatchedKept
<1>2. ASSUME IrqWrite, enabled, UNCHANGED program
      PROVE  Patched'
  <2>1. CASE cs
    <3>1. heard' = Append(heard, Outgoing) /\ UNCHANGED <<out, patches>> /\ InProgram
      BY <2>1, <1>2 DEF IrqWrite, program, Transmit, InProgram
    <3>2. ~(InBuffer /\ rx.op = "patches")
      BY <3>1, PatchIsToken DEF OneToken, Received, TypeOK
    <3>3. pc \in Writing \cup Stuck /\ pc \notin {"write", "stuckinit", "release", "patch"}
      BY <2>1 DEF Control, Writing, Stuck
    <3>4. UNCHANGED <<pc, full, rx>> \/ (UNCHANGED <<full, rx>> /\ pc' = "txend")
      BY <1>2 DEF IrqWrite, program
    <3>5. ~cs'
      BY <1>2 DEF IrqWrite, program
    <3>6. PatchComing' => \E i \in 1..Len(out) : out[i].op = "patches"
      BY <3>1, <3>2, <3>3, <3>4, <3>5 DEF PatchComing, InBuffer
    <3> QED BY <2>1, <3>1, <3>3, <3>6, PatchWritten DEF PatchComing
  <2>2. CASE ~cs
    <3>1. UNCHANGED <<heard, patches>> /\ (PatchComing' => PatchComing)
      BY <2>2, <1>2 DEF IrqWrite, program, Transmit, PatchComing, InBuffer, Control, Writing, Stuck
    <3> QED BY <3>1, PatchedKept
  <2> QED BY <2>1, <2>2
<1>3. ASSUME IrqReceive, UNCHANGED program
      PROVE  Patched'
  <2>1. out \in Seq(Packet) /\ out # << >> /\ rx' = Head(out) /\ out' = Tail(out)
    BY <1>3 DEF IrqReceive, TypeOK
  <2>2. /\ rx' = out[1] /\ 1 \in 1..Len(out)
        /\ \A i \in 1..Len(out') : \E j \in 1..Len(out) : out'[i] = out[j]
    BY <2>1, HeadTailProperties, LenProperties, Taken1
  <2>3. UNCHANGED <<heard, patches>> /\ (PatchComing' => PatchComing)
    BY <1>3, <2>2 DEF IrqReceive, program, PatchComing, InBuffer
  <2> QED BY <2>3, PatchedKept
<1>4. ASSUME Boot
      PROVE  Patched'
  <2>1. UNCHANGED <<heard, patches>> /\ (PatchComing' => PatchComing)
    BY <1>4 DEF Boot, driver, radio, PatchComing, InBuffer, Control, Writing, Stuck
  <2> QED BY <2>1, PatchedKept
<1>5. ASSUME Refuse
      PROVE  Patched'
  <2>1. UNCHANGED <<heard, patches>> /\ (PatchComing' => PatchComing)
    BY <1>5 DEF Refuse, radio, PatchComing, InBuffer, Control, Writing, Stuck
  <2> QED BY <2>1, PatchedKept
<1>6. ASSUME ConsumeLoad
      PROVE  Patched'
  <2>1. UNCHANGED <<heard, patches>> /\ (PatchComing' => PatchComing)
    BY <1>6 DEF ConsumeLoad, driver, radio, PatchComing, InBuffer, Control, Writing, Stuck
  <2> QED BY <2>1, PatchedKept
<1>7. ASSUME ConsumeStore
      PROVE  Patched'
  <2>1. UNCHANGED <<heard, patches>> /\ (PatchComing' => PatchComing)
    BY <1>7 DEF ConsumeStore, radio, PatchComing, InBuffer, Control, Writing, Stuck
  <2> QED BY <2>1, PatchedKept
<1>8. ASSUME WriteFirst
      PROVE  Patched'
  <2>1. heard' = Append(heard, Outgoing) /\ UNCHANGED <<out, patches>> /\ InProgram
    BY <1>8 DEF WriteFirst, InProgram
  <2>2. pc \in Writing \cup Stuck /\ (PatchComing' => \E i \in 1..Len(out) : out[i].op = "patches")
    BY <1>8 DEF WriteFirst, AfterWrite, PatchComing, InBuffer, Control, Writing, Stuck, OneToken, InProgram, Received, Token, Live, TypeOK, Packet
  <2>3. opcode # None => PatchComing
    BY <1>8 DEF WriteFirst, PatchComing
  <2> QED BY <2>1, <2>2, <2>3, PatchWritten
<1>9. ASSUME WriteSelect
      PROVE  Patched'
  <2>1. UNCHANGED <<heard, patches>> /\ (PatchComing' => PatchComing)
    BY <1>9 DEF WriteSelect, radio, PatchComing, InBuffer, Control, Writing, Stuck
  <2> QED BY <2>1, PatchedKept
<1>10. ASSUME WriteEnable
      PROVE  Patched'
  <2>1. UNCHANGED <<heard, patches>> /\ (PatchComing' => PatchComing)
    BY <1>10 DEF WriteEnable, radio, PatchComing, InBuffer, Control, Writing, Stuck
  <2> QED BY <2>1, PatchedKept
<1>11. ASSUME WritePin
      PROVE  Patched'
  <2>1. UNCHANGED <<heard, patches>> /\ (PatchComing' => PatchComing)
    BY <1>11 DEF WritePin, driver, radio, PatchComing, InBuffer, Control, Writing, Stuck
  <2> QED BY <2>1, PatchedKept
<1>12. ASSUME WriteCopy
      PROVE  Patched'
  <2>1. CASE cs
    <3>1. heard' = Append(heard, Outgoing) /\ UNCHANGED <<out, patches>> /\ InProgram
      BY <2>1, <1>12 DEF WriteCopy, Transmit, InProgram
    <3>2. ~(InBuffer /\ rx.op = "patches")
      BY <3>1, PatchIsToken DEF OneToken, Received, TypeOK
    <3>3. pc \in Writing \cup Stuck /\ pc \notin {"write", "stuckinit", "release", "patch"}
      BY <2>1 DEF Control, Writing, Stuck
    <3>4. UNCHANGED <<pc, full, rx>> \/ (UNCHANGED <<full, rx>> /\ pc' = "txend")
      BY <1>12 DEF WriteCopy
    <3>5. ~cs'
      BY <1>12 DEF WriteCopy
    <3>6. PatchComing' => \E i \in 1..Len(out) : out[i].op = "patches"
      BY <3>1, <3>2, <3>3, <3>4, <3>5 DEF PatchComing, InBuffer
    <3> QED BY <2>1, <3>1, <3>3, <3>6, PatchWritten DEF PatchComing
  <2>2. CASE ~cs
    <3>1. UNCHANGED <<heard, patches>> /\ (PatchComing' => PatchComing)
      BY <2>2, <1>12 DEF WriteCopy, Transmit, PatchComing, InBuffer, Control, Writing, Stuck
    <3> QED BY <3>1, PatchedKept
  <2> QED BY <2>1, <2>2
<1>13. ASSUME WriteEnd
      PROVE  Patched'
  <2>1. UNCHANGED <<heard, patches>> /\ (PatchComing' => PatchComing)
    BY <1>13 DEF WriteEnd, driver, radio, AfterWrite, PatchComing, InBuffer, Control, Writing, Stuck
  <2> QED BY <2>1, PatchedKept
<1>14. ASSUME WriteStuck
      PROVE  Patched'
  <2>1. UNCHANGED <<heard, patches>> /\ (PatchComing' => PatchComing)
    BY <1>14 DEF WriteStuck, driver, radio, PatchComing, InBuffer, Control, Writing, Stuck
  <2> QED BY <2>1, PatchedKept
<1>15. ASSUME WaitEvent
      PROVE  Patched'
  <2>1. UNCHANGED <<heard, patches>> /\ (PatchComing' => PatchComing)
    BY <1>15 DEF WaitEvent, radio, PatchComing, InBuffer, Control, Writing, Stuck
  <2> QED BY <2>1, PatchedKept
<1>16. ASSUME Decode
      PROVE  Patched'
  <2>1. UNCHANGED <<heard, patches>> /\ (PatchComing' => PatchComing)
    BY <1>16 DEF Decode, radio, PatchComing, InBuffer, Control, Writing, Stuck
  <2> QED BY <2>1, PatchedKept
<1>17. ASSUME Release
      PROVE  Patched'
  <2>1. UNCHANGED <<heard, patches>> /\ (PatchComing' => PatchComing)
    BY <1>17 DEF Release, radio, Ours, PatchComing, InBuffer, Control, Writing, Stuck
  <2> QED BY <2>1, PatchedKept
<1>17a. ASSUME ServePatch
      PROVE  Patched'
  <2>1. UNCHANGED <<heard, patches>> /\ (PatchComing' => PatchComing)
    BY <1>17a DEF ServePatch, driver, radio, Ours, PatchComing, InBuffer, Control, Writing, Stuck
  <2> QED BY <2>1, PatchedKept
<1>18. ASSUME GoOn
      PROVE  Patched'
  <2>1. UNCHANGED <<heard, patches>> /\ (PatchComing' => PatchComing)
    BY <1>18 DEF GoOn, driver, radio, PatchComing, InBuffer, Control, Writing, Stuck
  <2> QED BY <2>1, PatchedKept
<1>19. ASSUME WaitData
      PROVE  Patched'
  <2>1. UNCHANGED <<heard, patches>> /\ (PatchComing' => PatchComing)
    BY <1>19 DEF WaitData, radio, PatchComing, InBuffer, Control, Writing, Stuck
  <2> QED BY <2>1, PatchedKept
<1>20. ASSUME Return
      PROVE  Patched'
  <2>1. UNCHANGED <<heard, patches>> /\ (PatchComing' => PatchComing)
    BY <1>20 DEF Return, driver, radio, PatchComing, InBuffer, Control, Writing, Stuck
  <2> QED BY <2>1, PatchedKept
<1>21. ASSUME NEW k \in Kinds, Call(k)
      PROVE  Patched'
  <2>1. UNCHANGED <<heard, patches>> /\ (PatchComing' => PatchComing)
    BY <1>21 DEF Call, driver, PatchComing, InBuffer, Control, Writing, Stuck
  <2> QED BY <2>1, PatchedKept
<1>22. ASSUME RadioUp
      PROVE  Patched'
  <2>1. UNCHANGED <<heard, patches>> /\ (PatchComing' => PatchComing)
    BY <1>22 DEF RadioUp, driver, program, PatchComing, InBuffer, Control, Writing, Stuck
  <2> QED BY <2>1, PatchedKept
<1>23. ASSUME RadioReady
      PROVE  Patched'
  <2>1. UNCHANGED <<heard, patches>> /\ (PatchComing' => PatchComing)
    BY <1>23 DEF RadioReady, driver, program, PatchComing, InBuffer, Control, Writing, Stuck
  <2> QED BY <2>1, PatchedKept
<1>24. ASSUME RadioExecute
      PROVE  Patched'
  <2>1. todo \in Seq(Written) /\ todo # << >>
    BY <1>24 DEF RadioExecute, TypeOK, Written
  <2>2. Head(todo) \in Written
    BY <2>1, HeadTailProperties
  <2>3. PICK a \in Answers(Head(todo)) : out' = out \o a
    BY <1>24 DEF RadioExecute
  <2>4. ~Has(out) /\ Single(out) /\ Followed(out) /\ out \in Seq(Packet)
    BY <2>1 DEF OneToken, MoreFollows, TypeOK
  <2> DEFINE p == Head(todo)
  <2> HIDE DEF p
  <2>5. \A i \in 1..Len(out') : out'[i].op = "patches" => \E j \in 1..Len(out) : out'[i] = out[j]
    <3>1. \A i \in 1..Len(out') :
             \/ \E j \in 1..Len(out) : out'[i] = out[j]
             \/ /\ out'[i].call = p.call
                /\ \/ out'[i].op = p.op /\ p.op # "patches"
                   \/ out'[i].op = "data" /\ p.op = "recv"
                   \/ out'[i].op = "start" /\ p.op = "patches"
                   \/ out'[i].op = "lostsend"
      BY <2>2, <2>3, <2>4, Answered DEF p
    <3> QED BY <3>1
  <2>6. UNCHANGED <<heard, patches>> /\ (PatchComing' => PatchComing)
    BY <1>24, <2>5 DEF RadioExecute, driver, program, PatchComing, InBuffer
  <2> QED BY <2>6, PatchedKept
<1>25. ASSUME RadioAskPatch
      PROVE  Patched'
  <2>1. ~Has(out) /\ ~Received /\ ~InProgram
    BY <1>25 DEF RadioAskPatch, OneToken
  <2>2. \A i \in 1..Len(out) : out[i].op # "patches"
    BY <2>1, PatchIsToken DEF Has, TypeOK
  <2>3. ~PatchComing
    BY <2>1, <2>2, PatchIsToken DEF PatchComing, Received, InProgram, TypeOK
  <2>4. Count(heard, "patches") <= patches
    BY <2>3, CountType DEF Patched, TypeOK
  <2>5. UNCHANGED heard /\ patches' = patches + 1 /\ patches \in Nat
    BY <1>25, HciAssumption DEF RadioAskPatch, TypeOK, HciAssumption
  <2>6. Count(heard, "patches") \in Nat
    BY CountType DEF TypeOK
  <2> QED BY <2>4, <2>5, <2>6 DEF Patched
<1>26. ASSUME RadioFree
      PROVE  Patched'
  <2>1. PICK op \in {"free"} : out' = Append(out, [op |-> op, call |-> 0, more |-> FALSE])
    BY <1>26 DEF RadioFree
  <2> DEFINE q == [op |-> op, call |-> 0, more |-> FALSE]
  <2>2. q \in Packet /\ q.op # "patches" /\ out' = Append(out, q) /\ out \in Seq(Packet)
    BY <2>1, HciAssumption DEF HciAssumption, Packet, Solicited, Handled, TypeOK
  <2> HIDE DEF q
  <2>3. \A i \in 1..Len(out') : out'[i] = q \/ \E j \in 1..Len(out) : out'[i] = out[j]
    BY <2>2, AppendProperties
  <2>4. UNCHANGED <<heard, patches>> /\ (PatchComing' => PatchComing)
    BY <1>26, <2>2, <2>3 DEF RadioFree, driver, program, PatchComing, InBuffer
  <2> QED BY <2>4, PatchedKept
<1>27. ASSUME RadioUnsolicited
      PROVE  Patched'
  <2>1. PICK op \in {"wlan", "unknown"} : out' = Append(out, [op |-> op, call |-> 0, more |-> FALSE])
    BY <1>27 DEF RadioUnsolicited
  <2> DEFINE q == [op |-> op, call |-> 0, more |-> FALSE]
  <2>2. q \in Packet /\ q.op # "patches" /\ out' = Append(out, q) /\ out \in Seq(Packet)
    BY <2>1, HciAssumption DEF HciAssumption, Packet, Solicited, Handled, TypeOK
  <2> HIDE DEF q
  <2>3. \A i \in 1..Len(out') : out'[i] = q \/ \E j \in 1..Len(out) : out'[i] = out[j]
    BY <2>2, AppendProperties
  <2>4. UNCHANGED <<heard, patches>> /\ (PatchComing' => PatchComing)
    BY <1>27, <2>2, <2>3 DEF RadioUnsolicited, driver, program, PatchComing, InBuffer
  <2> QED BY <2>4, PatchedKept
<1>28. CASE UNCHANGED vars
  <2>1. UNCHANGED <<heard, patches>> /\ (PatchComing' => PatchComing)
    BY <1>28 DEF vars, driver, program, radio, PatchComing, InBuffer, Control, Writing, Stuck
  <2> QED BY <2>1, PatchedKept
<1> QED BY <1>1, <1>2, <1>3, <1>4, <1>5, <1>6, <1>7, <1>8, <1>9, <1>10, <1>11, <1>12, <1>13, <1>14, <1>15, <1>16, <1>17, <1>17a, <1>18, <1>19, <1>20, <1>21, <1>22, <1>23, <1>24, <1>25, <1>26, <1>27, <1>28
     DEF Next, Step, SpiWrite, SPI_IRQ, Radio

-----------------------------------------------------------------------------
(* The driver never counts more free buffers than there are.                *)

(* The counts of buffers are natural numbers.                               *)
LEMMA CountsAreNumbers ==
    ASSUME TypeOK
    PROVE  /\ free \in Nat /\ used \in Nat /\ loaded \in Nat /\ calls \in Nat /\ Buffers \in Nat
           /\ Count(out, "free") \in Nat
BY CountType, HciAssumption DEF TypeOK, HciAssumption

\* The first send comes after the two calls of wlan_start.
LEMMA SendCounts ==
    ASSUME TypeOK, Control, kind = "send", pc \notin {"boot", "ready"}
    PROVE  calls > 2
BY CountsAreNumbers DEF Control

(* A step that moves buffers between the counts, and adds none, keeps       *)
(* their sum.                                                               *)
LEMMA CountedMoved ==
    ASSUME TypeOK, Counted, Counting' <=> Counting, Taken' => Taken,
           pc' = "decrement" => pc = "decrement", loaded' = loaded,
           free' \in Nat, used' \in Nat, Count(out', "free") \in Nat,
           used' + Count(out', "free") <= used + Count(out, "free"),
           free' + used' + Count(out', "free") <= free + used + Count(out, "free")
    PROVE  Counted'
<1>1. /\ free \in Nat /\ used \in Nat /\ loaded \in Nat /\ Buffers \in Nat
      /\ Count(out, "free") \in Nat
  BY CountsAreNumbers
<1>2. ASSUME ~Counting'
      PROVE  used' = 0 /\ Count(out', "free") = 0
  <2>1. used = 0 /\ Count(out, "free") = 0
    BY <1>2 DEF Counted
  <2>2. used' + Count(out', "free") <= 0
    BY <2>1
  <2> QED BY <2>2
<1>3. ASSUME Counting'
      PROVE  free' + used' + Count(out', "free") + (IF Taken' THEN 1 ELSE 0) <= Buffers
  <2>1. free + used + Count(out, "free") + (IF Taken THEN 1 ELSE 0) <= Buffers
    BY <1>3 DEF Counted
  <2>2. CASE Taken'
    <3>1. free + used + Count(out, "free") + 1 <= Buffers
      BY <2>1, <2>2
    <3> QED BY <1>1, <2>2, <3>1
  <2>3. CASE ~Taken'
    <3>1. free + used + Count(out, "free") <= Buffers
      BY <1>1, <2>1
    <3> QED BY <1>1, <2>3, <3>1
  <2> QED BY <2>2, <2>3
<1>4. pc' = "decrement" => loaded' + used' + Count(out', "free") <= Buffers
  BY <1>1 DEF Counted
<1> QED BY <1>2, <1>3, <1>4 DEF Counted

(* A step that leaves the buffers alone keeps their sum.                    *)
LEMMA CountedKept ==
    ASSUME TypeOK, Counted, UNCHANGED <<free, used, out, loaded>>, Counting' <=> Counting,
           Taken' => Taken, pc' = "decrement" => pc = "decrement"
    PROVE  Counted'
<1>1. Count(out', "free") = Count(out, "free")
  OBVIOUS
<1> QED BY <1>1, CountsAreNumbers, CountedMoved

(* A send that reaches the radio uses the buffer it has taken.              *)
LEMMA SendWritten ==
    ASSUME TypeOK, Control, Counted, pc \in Writing \cup Stuck,
           opcode = None /\ kind = "send" => Taken,
           used' = (IF Outgoing.op = "send" THEN used + 1 ELSE used),
           UNCHANGED <<free, out, loaded>>, Counting' <=> Counting, ~Taken', pc' # "decrement"
    PROVE  Counted'
<1>1. CASE Outgoing.op = "send"
  <2>1. Taken /\ kind = "send"
    BY <1>1 DEF Outgoing
  <2>2. calls > 2
    BY <2>1, SendCounts DEF Writing, Stuck
  <2>3. Counting
    BY <2>2 DEF Counting
  <2>4. free + used + Count(out, "free") + 1 <= Buffers
    BY <2>1, <2>3 DEF Counted
  <2>5. used' = used + 1 /\ free' = free /\ Count(out', "free") = Count(out, "free")
    BY <1>1
  <2>6. free' + used' + Count(out', "free") <= Buffers
    BY <2>4, <2>5, CountsAreNumbers
  <2>7. free' + used' + Count(out', "free") + 0 <= Buffers
    BY <2>5, <2>6, CountsAreNumbers
  <2> QED BY <2>3, <2>7 DEF Counted
<1>2. CASE Outgoing.op # "send"
  BY <1>2, CountedKept
<1> QED BY <1>1, <1>2

(* Every step keeps the driver's count of buffers within what the radio     *)
(* has.                                                                     *)
LEMMA CountedStep ==
    ASSUME TypeOK, Control, OneToken, MoreFollows, Ours, Counted, [Next]_vars
    PROVE  Counted'
<1>1. ASSUME IrqPowerUp, UNCHANGED program
      PROVE  Counted'
  <2>1. /\ UNCHANGED <<free, used, out, loaded>> /\ (Counting' <=> Counting)
        /\ (Taken' => Taken) /\ (pc' = "decrement" => pc = "decrement")
    BY <1>1 DEF IrqPowerUp, program, radio, Counting, Over, Decoded, Taken, Control, Writing, Stuck
  <2> QED BY <2>1, CountedKept
<1>2. ASSUME IrqWrite, enabled, UNCHANGED program
      PROVE  Counted'
  <2>1. CASE cs
    <3>1. heard' = Append(heard, Outgoing) /\ used' = (IF Outgoing.op = "send" THEN used + 1 ELSE used)
      BY <2>1, <1>2 DEF IrqWrite, program, Transmit
    <3>2. UNCHANGED <<free, out, loaded>> /\ (Counting' <=> Counting) /\ ~Taken' /\ pc' # "decrement"
      BY <2>1, <1>2 DEF IrqWrite, program, Counting, Over, Decoded, Taken, Control, Writing, Stuck
    <3>3. opcode = None /\ kind = "send" => Taken
      BY <2>1 DEF Taken
    <3>4. pc \in Writing \cup Stuck
      BY <2>1 DEF Control, Writing, Stuck
    <3> QED BY <3>1, <3>2, <3>3, <3>4, SendWritten
  <2>2. CASE ~cs
    <3>1. /\ UNCHANGED <<free, used, out, loaded>> /\ (Counting' <=> Counting)
          /\ (Taken' => Taken) /\ (pc' = "decrement" => pc = "decrement")
      BY <2>2, <1>2 DEF IrqWrite, program, Transmit, Counting, Over, Decoded, Taken, Control, Writing, Stuck
    <3> QED BY <3>1, CountedKept
  <2> QED BY <2>1, <2>2
<1>3. ASSUME IrqReceive, UNCHANGED program
      PROVE  Counted'
  <2>1. out \in Seq(Packet) /\ out # << >> /\ rx' = Head(out) /\ out' = Tail(out)
    BY <1>3 DEF IrqReceive, TypeOK
  <2>2. Count(out, "free") = Count(out', "free") + (IF rx'.op = "free" THEN 1 ELSE 0)
    BY <2>1, CountTail
  <2>3. free' = IF rx'.op = "free" THEN free + 1 ELSE free
    BY <1>3 DEF IrqReceive, HandleUnsolicited, Handled
  <2>4. out' \in Seq(Packet)
    BY <2>1, HeadTailProperties
  <2>5. Count(out', "free") \in Nat
    BY <2>4, CountType
  <2>6. /\ UNCHANGED <<used, loaded>> /\ (Counting' <=> Counting) /\ (Taken' => Taken)
        /\ (pc' = "decrement" => pc = "decrement")
    BY <1>3 DEF IrqReceive, program, Counting, Over, Decoded, Taken
  <2> QED BY <2>2, <2>3, <2>5, <2>6, CountsAreNumbers, CountedMoved
<1>4. ASSUME Boot
      PROVE  Counted'
  <2>1. /\ UNCHANGED <<free, used, out, loaded>> /\ (Counting' <=> Counting)
        /\ (Taken' => Taken) /\ (pc' = "decrement" => pc = "decrement")
    BY <1>4 DEF Boot, driver, radio, Counting, Over, Decoded, Taken, Control, Writing, Stuck
  <2> QED BY <2>1, CountedKept
<1>5. ASSUME Refuse
      PROVE  Counted'
  <2>1. calls > 2
    BY <1>5, SendCounts DEF Refuse, Control
  <2>2. UNCHANGED <<free, used, out, loaded, calls, cs>> /\ pc' = "ready" /\ ~cs
    BY <1>5 DEF Refuse, radio, Control
  <2>3. (Counting' <=> Counting) /\ ~Taken'
    BY <2>1, <2>2 DEF Counting, Taken
  <2> QED BY <2>2, <2>3, CountedKept
<1>6. ASSUME ConsumeLoad
      PROVE  Counted'
  <2>1. calls > 2 /\ kind = "send"
    BY <1>6, SendCounts DEF ConsumeLoad, Control
  <2>2. /\ UNCHANGED <<free, used, out, calls>> /\ loaded' = free
        /\ ~Taken' /\ Counting /\ Counting'
    BY <1>6, <2>1 DEF ConsumeLoad, driver, radio, Taken, Counting, Control
  <2>3. free + used + Count(out, "free") <= Buffers
    BY <2>2, CountsAreNumbers DEF Counted
  <2>4. Count(out', "free") = Count(out, "free")
    BY <2>2
  <2> QED BY <2>2, <2>3, <2>4, CountsAreNumbers DEF Counted
<1>7. ASSUME ConsumeStore
      PROVE  Counted'
  <2>1. calls > 2 /\ kind = "send"
    BY <1>7, SendCounts DEF ConsumeStore, Control
  <2>2. UNCHANGED <<used, out, calls>> /\ free' = loaded - 1 /\ Counting' /\ pc' # "decrement"
    BY <1>7, <2>1 DEF ConsumeStore, radio, Counting
  <2>3. loaded > 0 /\ loaded + used + Count(out, "free") <= Buffers
    BY <1>7 DEF ConsumeStore, Control, Counted
  <2>4. Count(out', "free") = Count(out, "free")
    BY <2>2
  <2>5. (loaded - 1) + used + Count(out, "free") + 1 <= Buffers
    BY <2>3, CountsAreNumbers
  <2>6. (loaded - 1) + used + Count(out, "free") <= Buffers
    BY <2>3, CountsAreNumbers
  <2>7. free' + used' + Count(out', "free") + 1 <= Buffers
    BY <2>2, <2>4, <2>5
  <2>8. free' + used' + Count(out', "free") + 0 <= Buffers
    BY <2>2, <2>4, <2>6, CountsAreNumbers
  <2> QED BY <2>2, <2>7, <2>8 DEF Counted
<1>8. ASSUME WriteFirst
      PROVE  Counted'
  <2>1. /\ UNCHANGED <<free, used, out, loaded>> /\ (Counting' <=> Counting)
        /\ (Taken' => Taken) /\ (pc' = "decrement" => pc = "decrement")
    BY <1>8 DEF WriteFirst, AfterWrite, Counting, Over, Decoded, Taken, Control, Writing, Stuck
  <2> QED BY <2>1, CountedKept
<1>9. ASSUME WriteSelect
      PROVE  Counted'
  <2>1. /\ UNCHANGED <<free, used, out, loaded>> /\ (Counting' <=> Counting)
        /\ (Taken' => Taken) /\ (pc' = "decrement" => pc = "decrement")
    BY <1>9 DEF WriteSelect, radio, Counting, Over, Decoded, Taken, Control, Writing, Stuck
  <2> QED BY <2>1, CountedKept
<1>10. ASSUME WriteEnable
      PROVE  Counted'
  <2>1. /\ UNCHANGED <<free, used, out, loaded>> /\ (Counting' <=> Counting)
        /\ (Taken' => Taken) /\ (pc' = "decrement" => pc = "decrement")
    BY <1>10 DEF WriteEnable, radio, Counting, Over, Decoded, Taken, Control, Writing, Stuck
  <2> QED BY <2>1, CountedKept
<1>11. ASSUME WritePin
      PROVE  Counted'
  <2>1. /\ UNCHANGED <<free, used, out, loaded>> /\ (Counting' <=> Counting)
        /\ (Taken' => Taken) /\ (pc' = "decrement" => pc = "decrement")
    BY <1>11 DEF WritePin, driver, radio, Counting, Over, Decoded, Taken, Control, Writing, Stuck
  <2> QED BY <2>1, CountedKept
<1>12. ASSUME WriteCopy
      PROVE  Counted'
  <2>1. CASE cs
    <3>1. heard' = Append(heard, Outgoing) /\ used' = (IF Outgoing.op = "send" THEN used + 1 ELSE used)
      BY <2>1, <1>12 DEF WriteCopy, Transmit
    <3>2. UNCHANGED <<free, out, loaded>> /\ (Counting' <=> Counting) /\ ~Taken' /\ pc' # "decrement"
      BY <2>1, <1>12 DEF WriteCopy, Counting, Over, Decoded, Taken, Control, Writing, Stuck
    <3>3. opcode = None /\ kind = "send" => Taken
      BY <2>1 DEF Taken
    <3>4. pc \in Writing \cup Stuck
      BY <2>1 DEF Control, Writing, Stuck
    <3> QED BY <3>1, <3>2, <3>3, <3>4, SendWritten
  <2>2. CASE ~cs
    <3>1. /\ UNCHANGED <<free, used, out, loaded>> /\ (Counting' <=> Counting)
          /\ (Taken' => Taken) /\ (pc' = "decrement" => pc = "decrement")
      BY <2>2, <1>12 DEF WriteCopy, Transmit, Counting, Over, Decoded, Taken, Control, Writing, Stuck
    <3> QED BY <3>1, CountedKept
  <2> QED BY <2>1, <2>2
<1>13. ASSUME WriteEnd
      PROVE  Counted'
  <2>1. /\ UNCHANGED <<free, used, out, loaded>> /\ (Counting' <=> Counting)
        /\ (Taken' => Taken) /\ (pc' = "decrement" => pc = "decrement")
    BY <1>13 DEF WriteEnd, driver, radio, AfterWrite, Counting, Over, Decoded, Taken, Control, Writing, Stuck
  <2> QED BY <2>1, CountedKept
<1>14. ASSUME WriteStuck
      PROVE  Counted'
  <2>1. /\ UNCHANGED <<free, used, out, loaded>> /\ (Counting' <=> Counting)
        /\ (Taken' => Taken) /\ (pc' = "decrement" => pc = "decrement")
    BY <1>14 DEF WriteStuck, driver, radio, Counting, Over, Decoded, Taken, Control, Writing, Stuck
  <2> QED BY <2>1, CountedKept
<1>15. ASSUME WaitEvent
      PROVE  Counted'
  <2>1. /\ UNCHANGED <<free, used, out, loaded>> /\ (Counting' <=> Counting)
        /\ (Taken' => Taken) /\ (pc' = "decrement" => pc = "decrement")
    BY <1>15 DEF WaitEvent, radio, Counting, Over, Decoded, Taken, Control, Writing, Stuck
  <2> QED BY <2>1, CountedKept
<1>16. ASSUME Decode
      PROVE  Counted'
  <2>1. /\ pc = "poll" /\ full /\ answer' = rx /\ pc' = "release" /\ InBuffer
        /\ opcode' = (IF rx.op = opcode THEN None ELSE opcode)
        /\ pending' = (pending /\ rx.op # "data")
        /\ free' = (IF rx.op = "readbuffers" THEN Buffers ELSE free)
        /\ UNCHANGED <<out, used, calls, kind, cs, loaded>>
    BY <1>16 DEF Decode, radio, InBuffer
  <2>2. rx.op = "readbuffers" => calls = 2
    BY <2>1 DEF Ours, Own, Live, Control, Kinds
  <2>3. ~Taken'
    BY <2>1 DEF Taken, Control
  <2>4. CASE calls > 2
    <3>1. UNCHANGED free /\ Counting /\ Counting'
      BY <2>1, <2>2, <2>4 DEF Counting
    <3> QED BY <2>1, <2>3, <3>1, CountedKept
  <2>5. CASE ~(calls > 2)
    <3>1. ~Counting /\ used = 0 /\ Count(out, "free") = 0
      BY <2>1, <2>5 DEF Counting, Over, Decoded, Counted
    <3>2. Counting' => calls = 2 /\ Decoded'
      BY <2>1, <2>5 DEF Counting, Over
    <3>3. calls = 2 => kind = "readbuffers"
      BY DEF Control
    <3>4. Decoded' /\ kind = "readbuffers" => rx.op = "readbuffers"
      BY <2>1 DEF Decoded, Control, None
    <3>5. Counting' => free' = Buffers
      BY <2>1, <3>2, <3>3, <3>4
    <3>6. Count(out', "free") = 0 /\ used' = 0
      BY <2>1, <3>1
    <3>7. pc' # "decrement" /\ Buffers \in Nat
      BY <2>1, HciAssumption DEF HciAssumption
    <3> QED BY <2>3, <3>5, <3>6, <3>7 DEF Counted
  <2> QED BY <2>4, <2>5
<1>17. ASSUME Release
      PROVE  Counted'
  <2>1. /\ UNCHANGED <<free, used, out, loaded>> /\ (Counting' <=> Counting)
        /\ (Taken' => Taken) /\ (pc' = "decrement" => pc = "decrement")
    BY <1>17 DEF Release, radio, Ours, Counting, Over, Decoded, Taken, Control, Writing, Stuck
  <2> QED BY <2>1, CountedKept
<1>17a. ASSUME ServePatch
      PROVE  Counted'
  <2>1. /\ UNCHANGED <<free, used, out, loaded>> /\ (Counting' <=> Counting)
        /\ (Taken' => Taken) /\ (pc' = "decrement" => pc = "decrement")
    BY <1>17a DEF ServePatch, driver, radio, Ours, Counting, Over, Decoded, Taken, Control, Writing, Stuck
  <2> QED BY <2>1, CountedKept
<1>18. ASSUME GoOn
      PROVE  Counted'
  <2>1. /\ UNCHANGED <<free, used, out, loaded>> /\ (Counting' <=> Counting)
        /\ (Taken' => Taken) /\ (pc' = "decrement" => pc = "decrement")
    BY <1>18 DEF GoOn, driver, radio, Counting, Over, Decoded, Taken, Control, Writing, Stuck
  <2> QED BY <2>1, CountedKept
<1>19. ASSUME WaitData
      PROVE  Counted'
  <2>1. /\ UNCHANGED <<free, used, out, loaded>> /\ (Counting' <=> Counting)
        /\ (Taken' => Taken) /\ (pc' = "decrement" => pc = "decrement")
    BY <1>19 DEF WaitData, radio, Counting, Over, Decoded, Taken, Control, Writing, Stuck
  <2> QED BY <2>1, CountedKept
<1>20. ASSUME Return
      PROVE  Counted'
  <2>1. /\ UNCHANGED <<free, used, out, loaded>> /\ (Counting' <=> Counting)
        /\ (Taken' => Taken) /\ (pc' = "decrement" => pc = "decrement")
    BY <1>20 DEF Return, driver, radio, TypeOK, Packet, Counting, Over, Decoded, Taken, Control, Writing, Stuck
  <2> QED BY <2>1, CountedKept
<1>21. ASSUME NEW k \in Kinds, Call(k)
      PROVE  Counted'
  <2>1. /\ pc = "ready" /\ calls' = calls + 1 /\ calls \in Nat
        /\ pc' = (IF k = "send" THEN "consume" ELSE "write") /\ kind' = k
        /\ UNCHANGED <<free, used, out, cs, loaded>> /\ ~cs
        /\ k = "start" <=> calls = 0
    BY <1>21 DEF Call, driver, TypeOK, Control
  <2>2. ~Taken' /\ pc' # "decrement"
    BY <2>1 DEF Taken
  <2>3. CASE calls >= 2
    <3>1. Counting /\ Counting'
      BY <2>1, <2>3 DEF Counting
    <3> QED BY <2>1, <2>2, <3>1, CountedKept
  <2>4. CASE calls < 2
    <3>1. ~Counting /\ ~Counting'
      BY <2>1, <2>4 DEF Counting, Over, Decoded
    <3> QED BY <2>1, <2>2, <3>1, CountedKept
  <2> QED BY <2>1, <2>3, <2>4
<1>22. ASSUME RadioUp
      PROVE  Counted'
  <2>1. /\ UNCHANGED <<free, used, out, loaded>> /\ (Counting' <=> Counting)
        /\ (Taken' => Taken) /\ (pc' = "decrement" => pc = "decrement")
    BY <1>22 DEF RadioUp, driver, program, Counting, Over, Decoded, Taken, Control, Writing, Stuck
  <2> QED BY <2>1, CountedKept
<1>23. ASSUME RadioReady
      PROVE  Counted'
  <2>1. /\ UNCHANGED <<free, used, out, loaded>> /\ (Counting' <=> Counting)
        /\ (Taken' => Taken) /\ (pc' = "decrement" => pc = "decrement")
    BY <1>23 DEF RadioReady, driver, program, Counting, Over, Decoded, Taken, Control, Writing, Stuck
  <2> QED BY <2>1, CountedKept
<1>24. ASSUME RadioExecute
      PROVE  Counted'
  <2>1. todo \in Seq(Written) /\ todo # << >>
    BY <1>24 DEF RadioExecute, TypeOK, Written
  <2>2. Head(todo) \in Written
    BY <2>1, HeadTailProperties
  <2>3. PICK a \in Answers(Head(todo)) : out' = out \o a
    BY <1>24 DEF RadioExecute
  <2>4. ~Has(out) /\ Single(out) /\ Followed(out) /\ out \in Seq(Packet)
    BY <2>1 DEF OneToken, MoreFollows, TypeOK
  <2>5. Count(out', "free") = Count(out, "free")
    BY <2>2, <2>3, <2>4, Answered
  <2>6. /\ UNCHANGED <<free, used, loaded>> /\ (Counting' <=> Counting) /\ (Taken' => Taken)
        /\ (pc' = "decrement" => pc = "decrement")
    BY <1>24 DEF RadioExecute, driver, program, Counting, Over, Decoded, Taken
  <2> QED BY <2>5, <2>6, CountsAreNumbers, CountedMoved
<1>25. ASSUME RadioAskPatch
      PROVE  Counted'
  <2> DEFINE q == [op |-> "patches", call |-> Head(todo).call, more |-> FALSE]
  <2>1. todo \in Seq(Written) /\ todo # << >>
    BY <1>25 DEF RadioAskPatch, TypeOK, Written
  <2>2. Head(todo) \in Written
    BY <2>1, HeadTailProperties
  <2>3. q \in Packet /\ q.op = "patches" /\ out' = Append(out, q) /\ out \in Seq(Packet)
    BY <1>25, <2>2, HciAssumption DEF HciAssumption, Written, Packet, Solicited, RadioAskPatch, TypeOK
  <2> HIDE DEF q
  <2>4. Count(out', "free") = Count(out, "free")
    BY <2>3, CountAppend, CountsAreNumbers
  <2>5. /\ UNCHANGED <<free, used, loaded>> /\ (Counting' <=> Counting) /\ (Taken' => Taken)
        /\ (pc' = "decrement" => pc = "decrement")
    BY <1>25 DEF RadioAskPatch, driver, program, Counting, Over, Decoded, Taken
  <2> QED BY <2>4, <2>5, CountsAreNumbers, CountedMoved
<1>26. ASSUME RadioFree
      PROVE  Counted'
  <2> DEFINE q == [op |-> "free", call |-> 0, more |-> FALSE]
  <2>1. q \in Packet /\ q.op = "free" /\ out' = Append(out, q) /\ out \in Seq(Packet)
    BY <1>26, HciAssumption DEF HciAssumption, Packet, Handled, RadioFree, TypeOK
  <2> HIDE DEF q
  <2>2. Count(out', "free") = Count(out, "free") + 1
    BY <2>1, CountAppend
  <2>3. used > 0 /\ used' = used - 1
    BY <1>26 DEF RadioFree
  <2>4. /\ UNCHANGED <<free, loaded>> /\ (Counting' <=> Counting) /\ (Taken' => Taken)
        /\ (pc' = "decrement" => pc = "decrement")
    BY <1>26 DEF RadioFree, driver, program, Counting, Over, Decoded, Taken
  <2> QED BY <2>2, <2>3, <2>4, CountsAreNumbers, CountedMoved
<1>27. ASSUME RadioUnsolicited
      PROVE  Counted'
  <2>1. PICK op \in {"wlan", "unknown"} : out' = Append(out, [op |-> op, call |-> 0, more |-> FALSE])
    BY <1>27 DEF RadioUnsolicited
  <2> DEFINE q == [op |-> op, call |-> 0, more |-> FALSE]
  <2>2. q \in Packet /\ q.op # "free" /\ out' = Append(out, q) /\ out \in Seq(Packet)
    BY <2>1, HciAssumption DEF HciAssumption, Packet, Solicited, Handled, TypeOK
  <2> HIDE DEF q
  <2>3. Count(out', "free") = Count(out, "free")
    BY <2>2, CountAppend, CountsAreNumbers
  <2>4. /\ UNCHANGED <<free, used, loaded>> /\ (Counting' <=> Counting) /\ (Taken' => Taken)
        /\ (pc' = "decrement" => pc = "decrement")
    BY <1>27 DEF RadioUnsolicited, driver, program, Counting, Over, Decoded, Taken
  <2> QED BY <2>3, <2>4, CountsAreNumbers, CountedMoved
<1>28. CASE UNCHANGED vars
  <2>1. /\ UNCHANGED <<free, used, out, loaded>> /\ (Counting' <=> Counting)
        /\ (Taken' => Taken) /\ (pc' = "decrement" => pc = "decrement")
    BY <1>28 DEF vars, driver, program, radio, Counting, Over, Decoded, Taken, Control, Writing, Stuck
  <2> QED BY <2>1, CountedKept
<1> QED BY <1>1, <1>2, <1>3, <1>4, <1>5, <1>6, <1>7, <1>8, <1>9, <1>10, <1>11, <1>12, <1>13, <1>14, <1>15, <1>16, <1>17, <1>17a, <1>18, <1>19, <1>20, <1>21, <1>22, <1>23, <1>24, <1>25, <1>26, <1>27, <1>28
     DEF Next, Step, SpiWrite, SPI_IRQ, Radio

-----------------------------------------------------------------------------
(* What the program waits for stays in the receive buffer.                  *)

(* Every step keeps the buffer guarded, as long as the radio sends only     *)
(* events with a handler.                                                   *)
LEMMA GuardedStep ==
    ASSUME TypeOK, Control, OneToken, MoreFollows, Guarded, [Next]_vars
    PROVE  Guarded'
<1>1. ASSUME IrqPowerUp, UNCHANGED program
      PROVE  Guarded'
  BY <1>1 DEF IrqPowerUp, program, radio, Guarded, Control, Writing, Stuck
<1>2. ASSUME IrqWrite, UNCHANGED program
      PROVE  Guarded'
  BY <1>2 DEF IrqWrite, program, Guarded, Control, Writing, Stuck
<1>3. ASSUME IrqReceive, UNCHANGED program
      PROVE  Guarded'
  <2>1. out \in Seq(Packet) /\ out # << >> /\ rx' = Head(out) /\ out' = Tail(out)
    BY <1>3 DEF IrqReceive, TypeOK
  <2>2. /\ rx' = out[1] /\ 1 \in 1..Len(out) /\ rx' \in Packet
        /\ \A i \in 1..Len(out') : \E j \in 1..Len(out) : out'[i] = out[j]
    BY <2>1, HeadTailProperties, LenProperties, Taken1
  <2>3. UNCHANGED odd /\ (full' => ~enabled' /\ rx'.op \notin Handled)
    BY <1>3 DEF IrqReceive
  <2>4. \A i \in 1..Len(out') : out'[i].op = "unknown" => odd
    BY <2>2 DEF Guarded
  <2>5. full' /\ ~odd => rx'.op # "unknown"
    BY <2>2 DEF Guarded
  <2>6. full' /\ ~odd => Live(rx') /\ ~enabled'
    BY <2>2, <2>3, <2>5 DEF Packet, Live, Solicited
  <2> QED BY <2>3, <2>4, <2>6 DEF Guarded
<1>4. ASSUME Boot
      PROVE  Guarded'
  BY <1>4 DEF Boot, driver, radio, Guarded, Control, Writing, Stuck
<1>5. ASSUME Refuse
      PROVE  Guarded'
  BY <1>5 DEF Refuse, radio, Guarded, Control, Writing, Stuck
<1>6. ASSUME ConsumeLoad
      PROVE  Guarded'
  BY <1>6 DEF ConsumeLoad, driver, radio, Guarded, Control, Writing, Stuck
<1>7. ASSUME ConsumeStore
      PROVE  Guarded'
  BY <1>7 DEF ConsumeStore, radio, Guarded, Control, Writing, Stuck
<1>8. ASSUME WriteFirst
      PROVE  Guarded'
  BY <1>8 DEF WriteFirst, Guarded, Control, Writing, Stuck
<1>9. ASSUME WriteSelect
      PROVE  Guarded'
  BY <1>9 DEF WriteSelect, radio, Guarded, Control, Writing, Stuck
<1>10. ASSUME WriteEnable
      PROVE  Guarded'
  <2>1. InProgram /\ (full => InBuffer)
    BY <1>10 DEF WriteEnable, Control, InProgram, InBuffer
  <2>2. ~Received /\ ~Has(out)
    BY <2>1 DEF OneToken
  <2>3. full => ~Live(rx)
    BY <2>1, <2>2 DEF MoreFollows, Received, Token
  <2>4. full => odd
    BY <2>3 DEF Guarded
  <2>5. UNCHANGED <<full, rx, out, odd>>
    BY <1>10 DEF WriteEnable, radio
  <2> QED BY <2>4, <2>5 DEF Guarded
<1>11. ASSUME WritePin
      PROVE  Guarded'
  BY <1>11 DEF WritePin, driver, radio, Guarded, Control, Writing, Stuck
<1>12. ASSUME WriteCopy
      PROVE  Guarded'
  BY <1>12 DEF WriteCopy, Guarded, Control, Writing, Stuck
<1>13. ASSUME WriteEnd
      PROVE  Guarded'
  BY <1>13 DEF WriteEnd, driver, radio, Guarded, Control, Writing, Stuck
<1>14. ASSUME WriteStuck
      PROVE  Guarded'
  BY <1>14 DEF WriteStuck, driver, radio, Guarded, Control, Writing, Stuck
<1>15. ASSUME WaitEvent
      PROVE  Guarded'
  BY <1>15 DEF WaitEvent, radio, Guarded, Control, Writing, Stuck
<1>16. ASSUME Decode
      PROVE  Guarded'
  BY <1>16 DEF Decode, radio, Guarded, Control, Writing, Stuck
<1>17. ASSUME Release
      PROVE  Guarded'
  BY <1>17 DEF Release, radio, Guarded, Control, Writing, Stuck
<1>17a. ASSUME ServePatch
      PROVE  Guarded'
  BY <1>17a DEF ServePatch, driver, radio, Guarded, Control, Writing, Stuck
<1>18. ASSUME GoOn
      PROVE  Guarded'
  BY <1>18 DEF GoOn, driver, radio, Guarded, Control, Writing, Stuck
<1>19. ASSUME WaitData
      PROVE  Guarded'
  BY <1>19 DEF WaitData, radio, Guarded, Control, Writing, Stuck
<1>20. ASSUME Return
      PROVE  Guarded'
  BY <1>20 DEF Return, driver, radio, Guarded, Control, Writing, Stuck
<1>21. ASSUME NEW k \in Kinds, Call(k)
      PROVE  Guarded'
  BY <1>21 DEF Call, driver, Guarded, Control, Writing, Stuck
<1>22. ASSUME RadioUp
      PROVE  Guarded'
  BY <1>22 DEF RadioUp, driver, program, Guarded, Control, Writing, Stuck
<1>23. ASSUME RadioReady
      PROVE  Guarded'
  BY <1>23 DEF RadioReady, driver, program, Guarded, Control, Writing, Stuck
<1>24. ASSUME RadioExecute
      PROVE  Guarded'
  <2>1. todo \in Seq(Written) /\ todo # << >>
    BY <1>24 DEF RadioExecute, TypeOK, Written
  <2>2. Head(todo) \in Written
    BY <2>1, HeadTailProperties
  <2>3. PICK a \in Answers(Head(todo)) : out' = out \o a
    BY <1>24 DEF RadioExecute
  <2>4. ~Has(out) /\ Single(out) /\ Followed(out) /\ out \in Seq(Packet)
    BY <2>1 DEF OneToken, MoreFollows, TypeOK
  <2> DEFINE p == Head(todo)
  <2>5. p.op # "unknown"
    BY <2>2 DEF Written, Kinds
  <2> HIDE DEF p
  <2>6. \A i \in 1..Len(out') :
           \/ \E j \in 1..Len(out) : out'[i] = out[j]
           \/ /\ out'[i].call = p.call
              /\ \/ out'[i].op = p.op /\ p.op # "patches"
                 \/ out'[i].op = "data" /\ p.op = "recv"
                 \/ out'[i].op = "start" /\ p.op = "patches"
                 \/ out'[i].op = "lostsend"
    BY <2>2, <2>3, <2>4, Answered DEF p
  <2>7. \A i \in 1..Len(out') : out'[i].op = "unknown" => odd
    BY <2>5, <2>6 DEF Guarded
  <2>8. UNCHANGED <<full, rx, enabled, odd>>
    BY <1>24 DEF RadioExecute, driver
  <2> QED BY <2>7, <2>8 DEF Guarded
<1>25. ASSUME RadioAskPatch
      PROVE  Guarded'
  <2> DEFINE q == [op |-> "patches", call |-> Head(todo).call, more |-> FALSE]
  <2>1. out \in Seq(Packet) /\ q.op = "patches" /\ out' = Append(out, q)
    BY <1>25 DEF RadioAskPatch, TypeOK
  <2> HIDE DEF q
  <2>2. \A i \in 1..Len(out') : out'[i] = q \/ \E j \in 1..Len(out) : out'[i] = out[j]
    BY <2>1
  <2>3. UNCHANGED <<full, rx, enabled, odd>>
    BY <1>25 DEF RadioAskPatch, driver
  <2>4. \A i \in 1..Len(out') : out'[i].op = "unknown" => odd
    BY <2>1, <2>2 DEF Guarded
  <2> QED BY <2>3, <2>4 DEF Guarded
<1>26. ASSUME RadioFree
      PROVE  Guarded'
  <2>1. PICK op \in {"free"}, c \in Nat :
             /\ out' = Append(out, [op |-> op, call |-> c, more |-> FALSE])
             /\ op = "unknown" \/ odd => odd'
    BY <1>26 DEF RadioFree, TypeOK
  <2> DEFINE q == [op |-> op, call |-> c, more |-> FALSE]
  <2>2. out \in Seq(Packet) /\ q.op = op /\ out' = Append(out, q)
    BY <2>1 DEF TypeOK
  <2> HIDE DEF q
  <2>3. \A i \in 1..Len(out') : out'[i] = q \/ \E j \in 1..Len(out) : out'[i] = out[j]
    BY <2>2
  <2>4. UNCHANGED <<full, rx, enabled>>
    BY <1>26 DEF RadioFree, driver
  <2>5. \A i \in 1..Len(out') : out'[i].op = "unknown" => odd'
    BY <2>1, <2>2, <2>3 DEF Guarded
  <2>6. full' /\ ~odd' => Live(rx') /\ ~enabled'
    BY <2>1, <2>4 DEF Guarded
  <2> QED BY <2>5, <2>6 DEF Guarded
<1>27. ASSUME RadioUnsolicited
      PROVE  Guarded'
  <2>1. PICK op \in {"wlan", "unknown"}, c \in Nat :
             /\ out' = Append(out, [op |-> op, call |-> c, more |-> FALSE])
             /\ op = "unknown" \/ odd => odd'
    BY <1>27 DEF RadioUnsolicited, TypeOK
  <2> DEFINE q == [op |-> op, call |-> c, more |-> FALSE]
  <2>2. out \in Seq(Packet) /\ q.op = op /\ out' = Append(out, q)
    BY <2>1 DEF TypeOK
  <2> HIDE DEF q
  <2>3. \A i \in 1..Len(out') : out'[i] = q \/ \E j \in 1..Len(out) : out'[i] = out[j]
    BY <2>2
  <2>4. UNCHANGED <<full, rx, enabled>>
    BY <1>27 DEF RadioUnsolicited, driver
  <2>5. \A i \in 1..Len(out') : out'[i].op = "unknown" => odd'
    BY <2>1, <2>2, <2>3 DEF Guarded
  <2>6. full' /\ ~odd' => Live(rx') /\ ~enabled'
    BY <2>1, <2>4 DEF Guarded
  <2> QED BY <2>5, <2>6 DEF Guarded
<1>28. CASE UNCHANGED vars
  BY <1>28 DEF vars, driver, program, radio, Guarded, Control, Writing, Stuck
<1> QED BY <1>1, <1>2, <1>3, <1>4, <1>5, <1>6, <1>7, <1>8, <1>9, <1>10, <1>11, <1>12, <1>13, <1>14, <1>15, <1>16, <1>17, <1>17a, <1>18, <1>19, <1>20, <1>21, <1>22, <1>23, <1>24, <1>25, <1>26, <1>27, <1>28
     DEF Next, Step, SpiWrite, SPI_IRQ, Radio

-----------------------------------------------------------------------------
(* The theorems.                                                            *)

(* The invariant holds when the driver starts.                              *)
LEMMA IInvInit == Init => IInv
<1> SUFFICES ASSUME Init PROVE IInv
  OBVIOUS
<1>1. NoPacket \in Packet /\ << >> \in Seq(Packet) /\ << >> \in Seq(Written) /\ Len(<< >>) = 0
  BY HciAssumption, EmptySeq DEF HciAssumption, NoPacket, Packet, Solicited, Written
<1>2. TypeOK
  <2>1. /\ enabled \in BOOLEAN /\ cs \in BOOLEAN /\ full \in BOOLEAN /\ pending \in BOOLEAN
        /\ txError \in BOOLEAN /\ active \in BOOLEAN /\ booted \in BOOLEAN /\ ready \in BOOLEAN
        /\ executed \in BOOLEAN /\ odd \in BOOLEAN
    BY Zenon DEF Init
  <2>2. /\ spi = "POWERUP" /\ rx = NoPacket /\ answer = NoPacket /\ opcode = None /\ pc = "boot"
        /\ kind \in Kinds /\ out = << >> /\ todo = << >> /\ heard = << >>
    BY DEF Init, Kinds
  <2>3. /\ free \in Nat /\ loaded \in Nat /\ calls \in 0..MaxCalls /\ used \in Nat
        /\ patches \in 0..MaxPatches /\ unsol \in 0..MaxUnsol
    BY HciAssumption DEF HciAssumption, Init
  <2> QED BY <1>1, <2>1, <2>2, <2>3 DEF TypeOK, Written
<1>3. With(<< >>, "free") = {} /\ With(<< >>, "patches") = {}
  BY <1>1 DEF With
<1>4. Count(<< >>, "free") = 0 /\ Count(<< >>, "patches") = 0
  BY <1>3, FS_EmptySet DEF Count
<1>5. Control
  BY DEF Init, Control, Writing, Stuck, None
<1>6. OneToken /\ MoreFollows
  BY <1>1 DEF Init, OneToken, MoreFollows, Single, Followed, Has, Received, InBuffer, InProgram, Over, Decoded
<1>7. Ours /\ Executing /\ Guarded
  BY <1>1 DEF Init, Ours, Executing, Guarded, InBuffer, Decoded
<1>8. Heard
  BY <1>1 DEF Init, Heard, Unsent, Sent, Writing, Stuck
<1>9. ~PatchComing
  BY <1>1 DEF Init, PatchComing, InBuffer
<1>10. Patched /\ Counted
  BY <1>4, <1>9, HciAssumption DEF HciAssumption, Init, Patched, Counted, Counting, Over, Decoded
<1> QED BY <1>2, <1>5, <1>6, <1>7, <1>8, <1>10 DEF IInv

(* Every step keeps it.                                                     *)
LEMMA IInvStep == IInv /\ [Next]_vars => IInv'
BY TypeStep, ControlStep, TokenStep, OursStep, HeardStep, PatchedStep, CountedStep, GuardedStep
   DEF IInv

(* So it always holds.                                                      *)
LEMMA IInvHolds == Spec => []IInv
BY IInvInit, IInvStep, PTL DEF Spec

(* However the program and the interrupt interleave, the variables of the   *)
(* driver keep their types (ccspi.cpp, evnt_handler.cpp).                   *)
THEOREM LinkTypeCorrect == Spec => []TypeOK
<1>1. IInv => TypeOK
  BY DEF IInv
<1> QED BY <1>1, IInvHolds, PTL

(* The radio never has to hold more packets than it has buffers, although   *)
(* the count of the free ones is kept without a lock (socket.cpp:123-187):  *)
(* what the unlocked decrement may lose are buffers, never packets.         *)
THEOREM BuffersRespectedThm == Spec => []BuffersRespected
<1>1. ASSUME IInv PROVE BuffersRespected
  <2>1. CASE Counting
    <3>1. free + used + Count(out, "free") + (IF Taken THEN 1 ELSE 0) <= Buffers
      BY <1>1, <2>1 DEF IInv, Counted
    <3> QED BY <1>1, <3>1, CountsAreNumbers DEF IInv, BuffersRespected
  <2>2. CASE ~Counting
    BY <1>1, <2>2, CountsAreNumbers DEF IInv, Counted, BuffersRespected
  <2> QED BY <2>1, <2>2
<1> QED BY <1>1, IInvHolds, PTL

(* Each packet reaches the radio exactly once, and the bus is released      *)
(* (SpiWrite, ccspi.cpp:303-376).                                           *)
THEOREM LinkSoundThm == Spec => []LinkSound
<1>1. ASSUME IInv PROVE WrittenOnce
  <2>1. Cardinality({i \in 1..Len(heard) : heard[i].op = "patches"}) = Count(heard, "patches")
    BY DEF Count, With
  <2>2. Count(heard, "patches") <= patches
    <3>1. Count(heard, "patches") \in Nat /\ patches \in Nat
      BY <1>1, CountType, HciAssumption DEF IInv, TypeOK, HciAssumption
    <3> QED BY <1>1, <3>1 DEF IInv, Patched
  <2>3. pc \in {"event", "poll", "release", "patch", "check"} => Sent
    BY DEF Sent
  <2> QED BY <1>1, <2>1, <2>2, <2>3 DEF IInv, Heard, WrittenOnce
<1>2. ASSUME IInv PROVE BusReleased
  BY <1>2 DEF IInv, Control, BusReleased
<1>3. IInv => LinkSound
  BY <1>1, <1>2 DEF IInv, LinkSound
<1> QED BY <1>3, IInvHolds, PTL

(* The packet a call returns with is the answer to that call                *)
(* (hci_event_handler, evnt_handler.cpp:236-494).                           *)
THEOREM AnswerIsOursThm == Spec => []AnswerIsOurs
<1>1. ASSUME IInv, pc = "check", opcode = None, ~pending
      PROVE  answer.call = calls /\ (answer.op = kind \/ (kind = "recv" /\ answer.op = "data"))
  BY <1>1 DEF IInv, Ours, Decoded, Own
<1>2. IInv => AnswerIsOurs
  BY <1>1 DEF AnswerIsOurs
<1> QED BY <1>2, IInvHolds, PTL

(* As long as every event of the radio has a handler, the interrupt never   *)
(* overwrites what the program waits for (ccspi.cpp, evnt_handler.cpp).     *)
THEOREM BufferKeptThm == Spec => BufferKept
<1> DEFINE Kept == ~odd /\ full /\ ~(pc = "release" /\ pc' # pc) => full' /\ rx' = rx
<1>1. ASSUME IInv, [Next]_vars PROVE [Kept]_vars
  <2> SUFFICES ASSUME ~odd, full, ~(pc = "release" /\ pc' # pc) PROVE full' /\ rx' = rx
    OBVIOUS
  <2>1. ~enabled
    BY <1>1 DEF IInv, Guarded
  <2>2. ~SPI_IRQ
    BY <2>1 DEF SPI_IRQ
  <2>3. CASE UNCHANGED vars
    BY <2>3 DEF vars, driver
  <2>4. CASE Step \/ WriteStuck
    BY <2>4, <1>1 DEF Step, SpiWrite, WriteStuck, Boot, Refuse, ConsumeLoad, ConsumeStore, WriteFirst, WriteSelect,
       WriteEnable, WritePin, WriteCopy, WriteEnd, WaitEvent, Decode, Release, ServePatch, GoOn, WaitData, Return, driver
  <2>5. CASE \E k \in Kinds : Call(k)
    BY <2>5 DEF Call, driver
  <2>6. CASE RadioUp \/ Radio \/ RadioFree \/ RadioUnsolicited
    BY <2>6 DEF RadioUp, Radio, RadioReady, RadioExecute, RadioAskPatch, RadioFree, RadioUnsolicited, driver
  <2> QED BY <1>1, <2>2, <2>3, <2>4, <2>5, <2>6 DEF Next
<1> QED BY <1>1, IInvHolds, PTL DEF Spec, BufferKept

(* A step of the driver is a step of the call it makes, or leaves it alone. *)
LEMMA RemoteStep ==
    ASSUME IInv, [Next]_vars
    PROVE  [Remote!Next]_(Remote!vars)
<1>0. TypeOK /\ Control /\ OneToken /\ Executing
  BY DEF IInv
<1>1. ASSUME IrqPowerUp, UNCHANGED program
      PROVE  [Remote!Next]_(Remote!vars)
  <2>1. UNCHANGED <<kind, executed>> /\ (pc' \in {"boot", "ready"} <=> pc \in {"boot", "ready"})
    BY <1>0, <1>1 DEF IrqPowerUp, program, radio
  <2> QED BY <2>1 DEF Remote!vars
<1>2. ASSUME IrqWrite, UNCHANGED program
      PROVE  [Remote!Next]_(Remote!vars)
  <2>1. UNCHANGED <<kind, executed>> /\ (pc' \in {"boot", "ready"} <=> pc \in {"boot", "ready"})
    BY <1>0, <1>2 DEF IrqWrite, program
  <2> QED BY <2>1 DEF Remote!vars
<1>3. ASSUME IrqReceive, UNCHANGED program
      PROVE  [Remote!Next]_(Remote!vars)
  <2>1. UNCHANGED <<kind, executed>> /\ (pc' \in {"boot", "ready"} <=> pc \in {"boot", "ready"})
    BY <1>0, <1>3 DEF IrqReceive, program
  <2> QED BY <2>1 DEF Remote!vars
<1>4. ASSUME Boot
      PROVE  [Remote!Next]_(Remote!vars)
  <2>1. UNCHANGED <<kind, executed>> /\ (pc' \in {"boot", "ready"} <=> pc \in {"boot", "ready"})
    BY <1>0, <1>4 DEF Boot, driver, radio
  <2> QED BY <2>1 DEF Remote!vars
<1>5. ASSUME Refuse
      PROVE  [Remote!Next]_(Remote!vars)
  <2>1. ~executed
    BY <1>0, <1>5 DEF Refuse, Executing
  <2>2. pc = "consume" /\ pc' = "ready" /\ kind = "send" /\ UNCHANGED <<kind, executed>>
    BY <1>0, <1>5 DEF Refuse, radio, Control
  <2>3. Remote!Refuse
    BY <2>1, <2>2 DEF Remote!Refuse
  <2> QED BY <2>3 DEF Remote!Next
<1>6. ASSUME ConsumeLoad
      PROVE  [Remote!Next]_(Remote!vars)
  <2>1. UNCHANGED <<kind, executed>> /\ (pc' \in {"boot", "ready"} <=> pc \in {"boot", "ready"})
    BY <1>0, <1>6 DEF ConsumeLoad, driver, radio
  <2> QED BY <2>1 DEF Remote!vars
<1>7. ASSUME ConsumeStore
      PROVE  [Remote!Next]_(Remote!vars)
  <2>1. UNCHANGED <<kind, executed>> /\ (pc' \in {"boot", "ready"} <=> pc \in {"boot", "ready"})
    BY <1>0, <1>7 DEF ConsumeStore, radio
  <2> QED BY <2>1 DEF Remote!vars
<1>8. ASSUME WriteFirst
      PROVE  [Remote!Next]_(Remote!vars)
  <2>1. UNCHANGED <<kind, executed>> /\ (pc' \in {"boot", "ready"} <=> pc \in {"boot", "ready"})
    BY <1>0, <1>8 DEF WriteFirst, AfterWrite
  <2> QED BY <2>1 DEF Remote!vars
<1>9. ASSUME WriteSelect
      PROVE  [Remote!Next]_(Remote!vars)
  <2>1. UNCHANGED <<kind, executed>> /\ (pc' \in {"boot", "ready"} <=> pc \in {"boot", "ready"})
    BY <1>0, <1>9 DEF WriteSelect, radio
  <2> QED BY <2>1 DEF Remote!vars
<1>10. ASSUME WriteEnable
      PROVE  [Remote!Next]_(Remote!vars)
  <2>1. UNCHANGED <<kind, executed>> /\ (pc' \in {"boot", "ready"} <=> pc \in {"boot", "ready"})
    BY <1>0, <1>10 DEF WriteEnable, radio
  <2> QED BY <2>1 DEF Remote!vars
<1>11. ASSUME WritePin
      PROVE  [Remote!Next]_(Remote!vars)
  <2>1. UNCHANGED <<kind, executed>> /\ (pc' \in {"boot", "ready"} <=> pc \in {"boot", "ready"})
    BY <1>0, <1>11 DEF WritePin, driver, radio
  <2> QED BY <2>1 DEF Remote!vars
<1>12. ASSUME WriteCopy
      PROVE  [Remote!Next]_(Remote!vars)
  <2>1. UNCHANGED <<kind, executed>> /\ (pc' \in {"boot", "ready"} <=> pc \in {"boot", "ready"})
    BY <1>0, <1>12 DEF WriteCopy
  <2> QED BY <2>1 DEF Remote!vars
<1>13. ASSUME WriteEnd
      PROVE  [Remote!Next]_(Remote!vars)
  <2>1. UNCHANGED <<kind, executed>> /\ (pc' \in {"boot", "ready"} <=> pc \in {"boot", "ready"})
    BY <1>0, <1>13 DEF WriteEnd, driver, radio, AfterWrite
  <2> QED BY <2>1 DEF Remote!vars
<1>14. ASSUME WriteStuck
      PROVE  [Remote!Next]_(Remote!vars)
  <2>1. UNCHANGED <<kind, executed>> /\ (pc' \in {"boot", "ready"} <=> pc \in {"boot", "ready"})
    BY <1>0, <1>14 DEF WriteStuck, driver, radio
  <2> QED BY <2>1 DEF Remote!vars
<1>15. ASSUME WaitEvent
      PROVE  [Remote!Next]_(Remote!vars)
  <2>1. UNCHANGED <<kind, executed>> /\ (pc' \in {"boot", "ready"} <=> pc \in {"boot", "ready"})
    BY <1>0, <1>15 DEF WaitEvent, radio
  <2> QED BY <2>1 DEF Remote!vars
<1>16. ASSUME Decode
      PROVE  [Remote!Next]_(Remote!vars)
  <2>1. UNCHANGED <<kind, executed>> /\ (pc' \in {"boot", "ready"} <=> pc \in {"boot", "ready"})
    BY <1>0, <1>16 DEF Decode, radio
  <2> QED BY <2>1 DEF Remote!vars
<1>17. ASSUME Release
      PROVE  [Remote!Next]_(Remote!vars)
  <2>1. UNCHANGED <<kind, executed>> /\ (pc' \in {"boot", "ready"} <=> pc \in {"boot", "ready"})
    BY <1>0, <1>17 DEF Release, radio
  <2> QED BY <2>1 DEF Remote!vars
<1>17a. ASSUME ServePatch
      PROVE  [Remote!Next]_(Remote!vars)
  <2>1. UNCHANGED <<kind, executed>> /\ (pc' \in {"boot", "ready"} <=> pc \in {"boot", "ready"})
    BY <1>0, <1>17a DEF ServePatch, driver, radio
  <2> QED BY <2>1 DEF Remote!vars
<1>18. ASSUME GoOn
      PROVE  [Remote!Next]_(Remote!vars)
  <2>1. UNCHANGED <<kind, executed>> /\ (pc' \in {"boot", "ready"} <=> pc \in {"boot", "ready"})
    BY <1>0, <1>18 DEF GoOn, driver, radio
  <2> QED BY <2>1 DEF Remote!vars
<1>19. ASSUME WaitData
      PROVE  [Remote!Next]_(Remote!vars)
  <2>1. UNCHANGED <<kind, executed>> /\ (pc' \in {"boot", "ready"} <=> pc \in {"boot", "ready"})
    BY <1>0, <1>19 DEF WaitData, radio
  <2> QED BY <2>1 DEF Remote!vars
<1>20. ASSUME Return
      PROVE  [Remote!Next]_(Remote!vars)
  <2>1. executed
    BY <1>0, <1>20 DEF Return, Executing, Decoded
  <2>2. pc = "check" /\ pc' = "ready" /\ UNCHANGED <<kind, executed>>
    BY <1>0, <1>20 DEF Return, radio
  <2>3. Remote!Return
    BY <2>1, <2>2 DEF Remote!Return
  <2> QED BY <2>3 DEF Remote!Next
<1>21. ASSUME NEW k \in Kinds, Call(k)
      PROVE  [Remote!Next]_(Remote!vars)
  <2>1. pc = "ready" /\ pc' \in {"consume", "write"} /\ kind' = k /\ ~executed'
    BY <1>0, <1>21 DEF Call
  <2>2. Remote!Issue(k)
    BY <2>1 DEF Remote!Issue
  <2> QED BY <2>2 DEF Remote!Next
<1>22. ASSUME RadioUp
      PROVE  [Remote!Next]_(Remote!vars)
  <2>1. UNCHANGED <<kind, executed>> /\ (pc' \in {"boot", "ready"} <=> pc \in {"boot", "ready"})
    BY <1>0, <1>22 DEF RadioUp, driver, program
  <2> QED BY <2>1 DEF Remote!vars
<1>23. ASSUME RadioReady
      PROVE  [Remote!Next]_(Remote!vars)
  <2>1. UNCHANGED <<kind, executed>> /\ (pc' \in {"boot", "ready"} <=> pc \in {"boot", "ready"})
    BY <1>0, <1>23 DEF RadioReady, driver, program
  <2> QED BY <2>1 DEF Remote!vars
<1>24. ASSUME RadioExecute
      PROVE  [Remote!Next]_(Remote!vars)
  <2>1. pc \notin {"boot", "ready"}
    BY <1>0, <1>24 DEF RadioExecute, OneToken
  <2>2. executed' = TRUE /\ UNCHANGED <<pc, kind>>
    BY <1>0, <1>24 DEF RadioExecute, program
  <2>3. CASE executed
    BY <2>1, <2>2, <2>3, Zenon DEF Remote!vars
  <2>4. CASE ~executed
    <3>1. Remote!Execute
      BY <2>1, <2>2, <2>4 DEF Remote!Execute
    <3> QED BY <3>1 DEF Remote!Next
  <2> QED BY <2>3, <2>4
<1>25. ASSUME RadioAskPatch
      PROVE  [Remote!Next]_(Remote!vars)
  <2>1. UNCHANGED <<kind, executed>> /\ (pc' \in {"boot", "ready"} <=> pc \in {"boot", "ready"})
    BY <1>0, <1>25 DEF RadioAskPatch, driver, program
  <2> QED BY <2>1 DEF Remote!vars
<1>26. ASSUME RadioFree
      PROVE  [Remote!Next]_(Remote!vars)
  <2>1. UNCHANGED <<kind, executed>> /\ (pc' \in {"boot", "ready"} <=> pc \in {"boot", "ready"})
    BY <1>0, <1>26 DEF RadioFree, driver, program
  <2> QED BY <2>1 DEF Remote!vars
<1>27. ASSUME RadioUnsolicited
      PROVE  [Remote!Next]_(Remote!vars)
  <2>1. UNCHANGED <<kind, executed>> /\ (pc' \in {"boot", "ready"} <=> pc \in {"boot", "ready"})
    BY <1>0, <1>27 DEF RadioUnsolicited, driver, program
  <2> QED BY <2>1 DEF Remote!vars
<1>28. CASE UNCHANGED vars
  <2>1. UNCHANGED <<kind, executed>> /\ (pc' \in {"boot", "ready"} <=> pc \in {"boot", "ready"})
    BY <1>28 DEF vars, driver, program, radio
  <2> QED BY <2>1 DEF Remote!vars
<1> QED BY <1>0, <1>1, <1>2, <1>3, <1>4, <1>5, <1>6, <1>7, <1>8, <1>9, <1>10, <1>11, <1>12, <1>13, <1>14, <1>15, <1>16, <1>17, <1>17a, <1>18, <1>19, <1>20, <1>21, <1>22, <1>23, <1>24, <1>25, <1>26, <1>27, <1>28
     DEF Next, Step, SpiWrite, SPI_IRQ, Radio

(* The driver keeps the promise of RemoteCall: a call is executed at most   *)
(* once, and it returns only after the radio has executed it or, a send,    *)
(* when it was refused (socket.cpp, wlan.cpp).                              *)
THEOREM CallsImplementedThm == Spec => CallsImplemented
<1>1. Init => Remote!Init
  BY DEF Init, Remote!Init, Kinds
<1> QED BY <1>1, RemoteStep, IInvHolds, PTL DEF Spec, CallsImplemented, Remote!Spec
=============================================================================
