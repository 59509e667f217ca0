--------------------------- MODULE MCInterpreter ---------------------------
(* Model-checking instances of Interpreter: the programs the host sends.   *)
EXTENDS Interpreter, SequencesExt

CONSTANTS a, b      \* the labels

Cmd(op)          == [op |-> op, label |-> NoLabel, where |-> a, count |-> NoCount]
Labelled(l, cmd) == [cmd EXCEPT !.label = l]
Goto(l)          == [Cmd("goto") EXCEPT !.where = l]
GotoN(l, n)      == [Goto(l) EXCEPT !.count = n]

Single(cmd)  == [batch |-> FALSE, cmds |-> <<cmd>>]
Batch(cmds)  == [batch |-> TRUE, cmds |-> cmds]

\* Every batch of up to four commands over two labels: nested loops,
\* shared labels, missing labels.
LoopCmds ==
    {Labelled(a, Cmd("plain")), Labelled(b, Cmd("plain")), Goto(a)}
    \cup {GotoN(l, n) : l \in {a, b}, n \in {0, 2, 3}}
LoopBlocks == {Batch(p) : p \in SeqOf(LoopCmds, 4)}

\* One program of each kind a host can send, for several blocks in a row.
Kinds ==
    { Single(Cmd("plain")), Single(Cmd("auth")), Single(Cmd("notify")),
      Single(Goto(a)), Batch(<< >>),
      Batch(<<Labelled(a, Cmd("plain")), Goto(a)>>),
      Batch(<<Labelled(a, Cmd("notify")), GotoN(a, 3), Cmd("bad")>>),
      Batch(<<Cmd("timedtrigger"), Goto(b)>>) }

\* A careful host does not send a batch that ends without an answer or
\* that does not end.
PoliteKinds == Kinds \ {Batch(<<Labelled(a, Cmd("plain")), Goto(a)>>)}

RudeKinds ==
    { Single(Cmd("plain")), Single(Cmd("denied")), Batch(<<Cmd("plain"), Cmd("auth")>>),
      Batch(<<Labelled(a, Cmd("plain")), Goto(a)>>),
      Batch(<<Labelled(a, Cmd("notify")), Goto(a)>>),
      Batch(<<Cmd("notify"), Cmd("trigger")>>),
      Batch(<<Cmd("notify"), GotoN(a, 3)>>) }
\* The blink program of test.rb, for every count it may be given.
CountTwo ==
    { Batch(<<Labelled(a, Cmd("plain")), Cmd("plain"), GotoN(a, n)>>) : n \in 1..3 }

\* The manual's way to stop a program: a ping.
PingKinds ==
    { Single(Cmd("plain")), Batch(<<Labelled(a, Cmd("plain")), Goto(a)>>) }

=============================================================================
