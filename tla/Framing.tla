-------------------------------- MODULE Framing --------------------------------
(***************************************************************************)
(* The frames between board and host, character by character: encode,      *)
(* transmit and readBlock of Lang.cpp, with the pings readBlock sends      *)
(* while it waits and what it does when the host goes away.  The digits    *)
(* have Base values instead of ten and the head HeadLen characters instead *)
(* of four.  A character is a digit, "X", "!", "d", one of the data, or    *)
(* "NUL", which client.read() makes up when the connection has ended.      *)
(***************************************************************************)
EXTENDS Integers, Sequences, SequencesExt

CONSTANTS
    Base, HeadLen,  \* 10 and 4
    Chunk,          \* 60, the largest piece transmit sends
    Patience,       \* 1000, polls before a ping
    Lengths,        \* lengths of blocks
    ReplyLengths,   \* lengths of replies
    MaxFrames,      \* bound: frames the host sends
    LineSize        \* bound: characters on their way to the host

ASSUME FramingAssumption ==
    /\ Base \in 2 .. 10 /\ {HeadLen, Chunk, Patience, LineSize} \subseteq Nat \ {0}
    /\ HeadLen >= 2
    /\ Lengths \cup ReplyLengths \subseteq Nat /\ MaxFrames \in Nat

VARIABLES
    commInterface,      \* PROXY or WIFI
    toBoard, toHost,    \* characters on their way
    online,             \* is the host there?
    open,               \* does the client have its socket?
    place,              \* head, body: in readBlock; work: the block is
                        \* executed; send: in transmit; blink; hung, in
                        \* the library
    got, len,           \* i, and the characters in len
    z,                  \* polls since the last ping
    out,                \* what transmit has not sent yet
    heard,              \* the host's reader: what it has of a frame
    frames,             \* frames the host has sent
    blocks,             \* history: lengths the host sent and the board has not read
    replies,            \* history: lengths the board sent and the host has not read
    longest,            \* history: the greatest length sent by either side
    wrong,              \* history: a block or a reply had another length
    nuls,               \* history: characters read() made up
    tornBlock,          \* history: the block with such a character
    smashed             \* len[sz] = 0 was written behind the array

boardVars == <<open, place, got, len, z, out, smashed>>
lineVars == <<toBoard, toHost, online>>
hostVars == <<heard, frames>>
history == <<blocks, replies, longest, wrong, nuls, tornBlock>>
framingVars == <<commInterface, boardVars, lineVars, hostVars, history>>

-----------------------------------------------------------------------------
(* Numbers and their characters.                                            *)

Digit(d) == <<"0", "1", "2", "3", "4", "5", "6", "7", "8", "9">>[d + 1]
IsDigit(c) == \E d \in 0 .. Base - 1 : c = Digit(d)
Val(c) == CHOOSE d \in 0 .. Base - 1 : c = Digit(d)

(* atoi: digits up to the first other character.                            *)
atoi(s) ==
    LET value[n \in 0 .. Len(s)] == IF n = 0 THEN 0 ELSE value[n - 1] * Base + Val(s[n])
        prefix == {n \in 0 .. Len(s) : \A m \in 1 .. n : IsDigit(s[m])}
    IN  value[CHOOSE n \in prefix : \A m \in prefix : m <= n]

Power(n) == LET p[m \in 0 .. n] == IF m = 0 THEN 1 ELSE Base * p[m - 1] IN p[n]
Width(n) == CHOOSE w \in 1 .. n + 1 : n < Power(w) /\ (w = 1 \/ n >= Power(w - 1))

(* sprintf("%04d"), which takes more characters for a large number, and the *)
(* zeros in front turned into X.                                            *)
Padded(n) ==
    LET w == IF Width(n) > HeadLen THEN Width(n) ELSE HeadLen
    IN  [i \in 1 .. w |-> Digit((n \div Power(w - i)) % Base)]

Head4(s) ==
    [i \in 1 .. Len(s) |-> IF i <= HeadLen /\ \A j \in 1 .. i : s[j] = "0" THEN "X" ELSE s[i]]

encode(n) == Head4(Padded(n)) \o [i \in 1 .. n |-> "d"]

(* for (i = 0; i < strlen(buf); i += 60); up to 60 characters in one piece. *)
Piece_unterminated(s) == IF Len(s) > Chunk THEN Append(SubSeq(s, 1, Chunk), "d") ELSE s
Piece(s) == IF Len(s) > Chunk THEN SubSeq(s, 1, Chunk) ELSE s

-----------------------------------------------------------------------------
(* The sketch is built for the one interface or the other.                  *)
FramingInit ==
    /\ commInterface \in {"WIFI", "PROXY"}
    /\ toBoard = <<>> /\ toHost = <<>> /\ online = TRUE /\ open = TRUE
    /\ place = "head" /\ got = 0 /\ len = <<>> /\ z = 0 /\ out = <<>> /\ smashed = FALSE
    /\ heard = <<>> /\ frames = 0
    /\ blocks = <<>> /\ replies = <<>> /\ longest = 0 /\ wrong = FALSE /\ nuls = 0 /\ tornBlock = "no"

(* What is read last decides: atoi of the head, without its X.              *)
HeadValue(s) ==
    LET kept[i \in 0 .. Len(s)] ==
            IF i = 0 THEN <<>> ELSE IF s[i] = "X" THEN kept[i - 1] ELSE Append(kept[i - 1], s[i])
    IN  atoi(kept[Len(s)])

Quit(p) == place' = p /\ got' = 0 /\ len' = <<>> /\ z' = 0
Larger(n) == IF n > longest THEN n ELSE longest
StartsWith(s, n) == s # <<>> /\ Head(s) = n
Rest(s) == SubSeq(s, 2, Len(s))

(* The block that is handed on: as it was sent, or torn.                    *)
Tear(n) ==
    IF nuls' = 1 /\ StartsWith(blocks, n) THEN "last"
    ELSE IF nuls' = 1 /\ n = 0 /\ blocks # <<>> /\ Head(blocks) < Base THEN "empty"
    ELSE "other"
ReadEnds(n) ==
    /\ blocks' = Rest(blocks)
    /\ IF nuls' = 0 THEN wrong' = (wrong \/ ~StartsWith(blocks, n)) /\ UNCHANGED tornBlock
       ELSE tornBlock' = Tear(n) /\ UNCHANGED wrong

(* One turn of the loop of the head, and one of the body, with c read.      *)
TakeHead(c) ==
    LET more == IF c = "X" THEN len ELSE Append(len, c)
    IN  IF got + 1 < HeadLen
        THEN /\ got' = got + 1 /\ len' = more /\ z' = 0
             /\ UNCHANGED <<place, smashed, blocks, wrong, tornBlock>>
        ELSE /\ smashed' = (smashed \/ Len(more) >= HeadLen)
             /\ IF atoi(more) = 0
                THEN Quit("work") /\ ReadEnds(0)
                ELSE /\ place' = "body" /\ got' = 0 /\ len' = more /\ z' = 0
                     /\ UNCHANGED <<blocks, wrong, tornBlock>>

TakeBody ==
    /\ IF got + 1 < atoi(len)
       THEN got' = got + 1 /\ UNCHANGED <<place, len, z, blocks, wrong, tornBlock>>
       ELSE Quit("work") /\ ReadEnds(got + 1)
    /\ UNCHANGED smashed

(* client.read() and Serial.read() with a character there.                  *)
Takes == toBoard # <<>> /\ toBoard' = Tail(toBoard) /\ UNCHANGED <<open, nuls>>

ReadHead ==
    /\ place = "head" /\ Takes /\ TakeHead(Head(toBoard))
    /\ UNCHANGED <<commInterface, out, toHost, online, hostVars, replies, longest>>

ReadBody ==
    /\ place = "body" /\ Takes /\ TakeBody
    /\ UNCHANGED <<commInterface, out, toHost, online, hostVars, replies, longest>>

(* The host is gone and all it sent is read: select reports the end of the  *)
(* connection as something to read, recv returns -57, and read() closes the *)
(* socket and returns 0, which readBlock takes for a character.             *)
ReadEnded_open ==
    /\ open /\ ~online /\ toBoard = <<>> /\ UNCHANGED open /\ nuls' = nuls + 1
    /\ \/ place = "head" /\ TakeHead("NUL")
       \/ place = "body" /\ TakeBody
    /\ UNCHANGED <<commInterface, out, lineVars, hostVars, replies, longest>>

ReadEnded ==
    /\ open /\ ~online /\ toBoard = <<>> /\ open' = FALSE /\ nuls' = nuls + 1
    /\ \/ place = "head" /\ TakeHead("NUL")
       \/ place = "body" /\ TakeBody
    /\ UNCHANGED <<commInterface, out, lineVars, hostVars, replies, longest>>

(* The loop of the head; a serial line has neither pings nor an end.        *)
Waiting == place = "head" /\ toBoard = <<>> /\ commInterface = "WIFI"

(* A ping to a host that is gone is lost.                                   *)
Poll ==
    /\ Waiting /\ open
    /\ IF z < Patience THEN z' = z + 1 /\ UNCHANGED toHost
       ELSE IF online THEN z' = 0 /\ Len(toHost) < LineSize /\ toHost' = Append(toHost, "!")
       ELSE z' = 0 /\ UNCHANGED toHost
    /\ UNCHANGED <<commInterface, open, place, got, len, out, smashed, toBoard, online, hostVars, history>>

(* client.connected() is false: there is no socket, or nothing to read and  *)
(* the radio has reported the end, on which connected() closes the socket.  *)
(* "Host has disconnected", and blink never returns.                        *)
Disconnected_between ==
    /\ Waiting /\ got = 0 /\ (~open \/ ~online) /\ open' = FALSE /\ Quit("blink")
    /\ UNCHANGED <<commInterface, out, smashed, lineVars, hostVars, history>>

Disconnected ==
    /\ Waiting /\ (~open \/ ~online) /\ open' = FALSE /\ Quit("blink")
    /\ UNCHANGED <<commInterface, out, smashed, lineVars, hostVars, history>>

(* The host is gone: a send whose failure the interrupt handler reads waits *)
(* for ever (SocketApi), and so does read() on any error but -57.           *)
Hangs ==
    /\ open /\ ~online
    /\ \/ place = "send" /\ out # <<>>
       \/ place \in {"head", "body"} /\ toBoard = <<>>
    /\ Quit("hung") /\ out' = <<>>
    /\ UNCHANGED <<commInterface, open, smashed, lineVars, hostVars, history>>

(* The block is executed and answered: encode(returns), transmit(send).     *)
(* Bound: what follows a wrong block is not looked at.                      *)
Reply ==
    /\ place = "work" /\ ~wrong /\ place' = "send"
    /\ \E n \in ReplyLengths : out' = encode(n) /\ replies' = Append(replies, n) /\ longest' = Larger(n)
    /\ UNCHANGED <<commInterface, open, got, len, z, smashed, lineVars, hostVars, blocks, wrong, nuls, tornBlock>>

transmit ==
    /\ place = "send"
    /\ IF out = <<>> THEN place' = "head" /\ UNCHANGED <<out, toHost>>
       ELSE /\ ~online \/ Len(toHost) < LineSize
            /\ toHost' = IF online THEN toHost \o Piece(out) ELSE toHost
            /\ out' = SubSeq(out, Chunk + 1, Len(out)) /\ UNCHANGED place
    /\ UNCHANGED <<commInterface, open, got, len, z, smashed, toBoard, online, hostVars, history>>

Board == ReadHead \/ ReadBody \/ ReadEnded \/ Poll \/ Disconnected \/ Hangs \/ Reply \/ transmit

-----------------------------------------------------------------------------
(* The host writes frames as readBlock wants them, pads with X, passes over *)
(* "!" between frames, and may go away.                                     *)

HostSends(n) ==
    /\ online /\ frames < MaxFrames /\ frames' = frames + 1
    /\ toBoard' = toBoard \o encode(n) /\ blocks' = Append(blocks, n) /\ longest' = Larger(n)
    /\ UNCHANGED <<commInterface, boardVars, toHost, online, heard, replies, wrong, nuls, tornBlock>>

HostReads ==
    /\ online /\ toHost # <<>> /\ toHost' = Tail(toHost)
    /\ LET now == IF heard = <<>> /\ Head(toHost) = "!" THEN <<>> ELSE Append(heard, Head(toHost))
           n == HeadValue(SubSeq(now, 1, HeadLen))
       IN  IF Len(now) < HeadLen \/ Len(now) < HeadLen + n
           THEN heard' = now /\ UNCHANGED <<replies, wrong>>
           ELSE /\ heard' = <<>>
                /\ replies' = Rest(replies)
                /\ wrong' = (wrong \/ ~StartsWith(replies, n) \/ "!" \in ToSet(now))
    /\ UNCHANGED <<commInterface, boardVars, toBoard, online, frames, blocks, longest, nuls, tornBlock>>

(* What the host has sent before still arrives, or a part of it.            *)
HostLeaves ==
    /\ online /\ commInterface = "WIFI" /\ online' = FALSE
    /\ \E n \in 0 .. Len(toBoard) : toBoard' = SubSeq(toBoard, 1, n)
    /\ toHost' = <<>>
    /\ UNCHANGED <<commInterface, boardVars, hostVars, history>>

FramingNext ==
    \/ Board \/ HostReads \/ HostLeaves
    \/ \E n \in Lengths : HostSends(n)
FramingSpec == FramingInit /\ [][FramingNext]_framingVars

-----------------------------------------------------------------------------
(* Properties.                                                              *)

FramingTypeOK ==
    /\ commInterface \in {"PROXY", "WIFI"} /\ place \in {"head", "body", "work", "send", "blink", "hung"}
    /\ got \in 0 .. Power(HeadLen) /\ Len(len) <= HeadLen /\ z \in 0 .. Patience
    /\ {online, open, wrong, smashed} \subseteq BOOLEAN /\ frames \in 0 .. MaxFrames
    /\ nuls \in Nat /\ tornBlock \in {"no", "last", "empty", "other"}

(* Both sides read the blocks and replies with the lengths they were sent   *)
(* with, in order, and no ping inside a reply, until a length needs more    *)
(* digits than the head has.                                                *)
FramesKept == wrong => longest >= Power(HeadLen)

(* The head's array is written past its end only after a length that takes  *)
(* all the digits of the head.                                              *)
SmashedOnlyByLongBlocks == smashed => longest >= Power(HeadLen - 1)

(* Of a frame its host did not finish, readBlock hands a block on only in   *)
(* two cases: all but the last character of the body arrived, and a NUL is  *)
(* in its place; or all but the last of the head did, of a length with one  *)
(* digit, and the block is empty.  It never hands on a second one.          *)
OnlyTheEndTorn == tornBlock = "other" => longest >= Power(HeadLen)

(* While the board waits for a host that is there, pings never cease.       *)
PingsGoOn ==
    <>[](Waiting /\ online) => []<>(z = 0)

(* A board that waits for a head, before its last character, sees its host  *)
(* disconnect, unless a call into the library never returns.                *)
DisconnectSeen ==
    (~online /\ place = "head" /\ toBoard = <<>> /\ got + 1 < HeadLen) ~> place \in {"blink", "hung"}

(* "Host has disconnected": also if it goes away within a block.  The body  *)
(* waits for its next character for ever.                                   *)
DisconnectAlwaysSeen == (commInterface = "WIFI" /\ ~online) ~> place \in {"blink", "hung"}

(* What readBlock and transmit keep of the blocks and replies (Lang.cpp:290 *)
(* and 505) while the host talks, waits and goes away.                      *)
FramingSound == FramingTypeOK /\ FramesKept /\ SmashedOnlyByLongBlocks

(* The board watches the host: it pings on, and sees it leave (Lang.cpp:509).*)
HostWatched == PingsGoOn /\ DisconnectSeen

=============================================================================
