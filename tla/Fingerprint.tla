------------------------------ MODULE Fingerprint ------------------------------
(***************************************************************************)
(* The fingerprint sensor library (Adafruit_Fingerprint.cpp) under its     *)
(* example enroll.pde: a command packet goes out on a serial line, getReply*)
(* reads one packet or gives up, and a finger is enrolled by six commands  *)
(* in a row.  A reply comes in two parts, the front with the start code    *)
(* and the length, and the back with the result; parts may be lost, and    *)
(* the sensor may be slower than the timeout.  The place is typed in as    *)
(* digits, and what ends them; a character is its digit, or End for any    *)
(* other.                                                                  *)
(***************************************************************************)
EXTENDS Integers, Sequences

CONSTANTS
    Fingers,        \* fingers there are
    Ids,            \* places of the sensor's database
    Lines,          \* lines the user types, with what a terminal sends at their end
    MaxPolls,       \* bound: commands sent
    MaxLosses,      \* bound: parts of replies lost
    MaxLate         \* bound: timeouts before a reply that still comes

ASSUME FingerprintAssumption ==
    /\ Fingers # {} /\ Ids \subseteq 0 .. 255
    /\ \A line \in Lines : line \in Seq(0 .. 10)
    /\ {MaxPolls, MaxLosses, MaxLate} \subseteq Nat

VARIABLES
    finger,         \* external: the finger on the sensor, NoFinger if none
    image, slots, model, \* external: the sensor's image, character files and model
    library,        \* external: the template stored in each place
    asked,          \* external: the command the sensor has not executed
    serial,         \* parts of replies on their way or in the input buffer
    stage,          \* where getFingerprintEnroll is
    keys,           \* characters typed and not yet read
    id,             \* the place they have come to, a uint8_t
    waiting, front, \* in getReply, and the front part it has read
    told,           \* what the last enrolment printed at its end
    \* history
    typed,          \* the number the digits read since the prompt mean
    seq, lag,       \* number of the command; replies that came after their timeout
    lost, seen      \* parts lost; what the sensor last answered to GETIMAGE

sensorVars == <<finger, image, slots, model, library, asked>>
enrollVars == <<stage, keys, id, typed, waiting, front, told>>
fingerVars == <<sensorVars, serial, enrollVars, seq, lag, lost, seen>>

NoFinger == "none"
Sure == Fingers \cup {NoFinger}
OK == 0
NOFINGER == 2
ENROLLMISMATCH == 10
BADLOCATION == 11
FLASHERR == 24
MESS == 6
Failed == 255           \* -1 in a byte
End == 10               \* any character that is no digit
ByteValues == 256       \* values of a uint8_t

(* The commands of an enrolment in their order, and the stage after a       *)
(* result.                                                                  *)
Stages == <<"image1", "convert1", "remove", "image2", "convert2", "model", "store">>
CommandOf(s) == IF s \in {"image1", "remove", "image2"} THEN "GETIMAGE"
                ELSE IF s \in {"convert1", "convert2"} THEN "IMAGE2TZ"
                ELSE IF s = "model" THEN "REGMODEL" ELSE "STORE"
Follower(s) == Stages[1 + CHOOSE n \in 1 .. 6 : Stages[n] = s]

FingerprintInit ==
    /\ finger = NoFinger /\ image = NoFinger /\ slots = <<NoFinger, NoFinger>> /\ model = NoFinger
    /\ library = [n \in Ids |-> NoFinger] /\ asked = <<>>
    /\ serial = <<>> /\ stage = "loop" /\ keys = <<>> /\ id = 0 /\ typed = 0
    /\ waiting = FALSE /\ front = <<>> /\ told = "nothing"
    /\ seq = 0 /\ lag = 0 /\ lost = 0 /\ seen = 0

-----------------------------------------------------------------------------
(* The sensor executes a command and answers with a result.                 *)

Finger ==
    /\ finger' \in Sure \ {finger}
    /\ UNCHANGED <<image, slots, model, library, asked, serial, enrollVars, seq, lag, lost, seen>>

AnswerTo(n, r) == <<[part |-> "front", seq |-> n, result |-> r], [part |-> "back", seq |-> n, result |-> r]>>
Sensor ==
    /\ asked # <<>>
    /\ LET c == Head(asked)
           reply(r) == \/ serial' = serial \o AnswerTo(c.seq, r) /\ lost' = lost
                       \/ /\ lost < MaxLosses /\ lost' = lost + 1
                          /\ \E n \in 1 .. 2 : serial' = Append(serial, AnswerTo(c.seq, r)[n])
       IN  \/ /\ c.cmd = "GETIMAGE" /\ seen' = (IF finger = NoFinger THEN NOFINGER ELSE OK)
              /\ IF finger = NoFinger THEN image' = image /\ reply(NOFINGER)
                 ELSE image' = finger /\ reply(OK)
              /\ UNCHANGED <<slots, model, library>>
           \/ /\ c.cmd = "IMAGE2TZ"
              /\ \/ slots' = [slots EXCEPT ![c.slot] = image] /\ reply(OK)
                 \/ slots' = slots /\ reply(MESS)
              /\ UNCHANGED <<image, model, library, seen>>
           \/ /\ c.cmd = "REGMODEL"
              /\ IF slots[1] = slots[2] THEN model' = slots[1] /\ reply(OK)
                 ELSE model' = model /\ reply(ENROLLMISMATCH)
              /\ UNCHANGED <<image, slots, library, seen>>
           \/ /\ c.cmd = "STORE"
              /\ \/ c.id \in Ids /\ library' = [library EXCEPT ![c.id] = model] /\ reply(OK)
                 \/ c.id \in Ids /\ library' = library /\ reply(FLASHERR)
                 \/ c.id \notin Ids /\ library' = library /\ reply(BADLOCATION)
              /\ UNCHANGED <<image, slots, model, seen>>
    /\ asked' = Tail(asked)
    /\ UNCHANGED <<finger, enrollVars, seq, lag>>

-----------------------------------------------------------------------------
(* loop: the place is typed in, digit by digit, and an enrolment begins at  *)
(* the first character that is none, also when there was no digit before    *)
(* it; what follows is left for the next prompt.                            *)

Types(line) ==
    /\ stage = "loop" /\ keys = <<>> /\ keys' = line
    /\ UNCHANGED <<sensorVars, serial, stage, id, typed, waiting, front, told, seq, lag, lost, seen>>

ReadKey ==
    /\ stage = "loop" /\ keys # <<>> /\ keys' = Tail(keys)
    /\ \/ /\ Head(keys) # End /\ UNCHANGED <<stage, told>>
          /\ id' = (id * 10 + Head(keys)) % ByteValues /\ typed' = typed * 10 + Head(keys)
       \/ Head(keys) = End /\ stage' = "image1" /\ told' = "nothing" /\ UNCHANGED <<id, typed>>
    /\ UNCHANGED <<sensorVars, serial, waiting, front, seq, lag, lost, seen>>

(* Back in loop, another place is asked for.                                *)
Prompt == IF stage' = "loop" THEN id' = 0 /\ typed' = 0 ELSE UNCHANGED <<id, typed>>

(* writePacket; nothing that came before is thrown away.                    *)
writePacket ==
    /\ stage # "loop" /\ ~waiting /\ seq < MaxPolls
    /\ waiting' = TRUE /\ front' = <<>> /\ seq' = seq + 1
    /\ asked' = Append(asked, [cmd |-> CommandOf(stage), seq |-> seq + 1, id |-> id,
                               slot |-> IF stage = "convert1" THEN 1 ELSE 2])
    /\ UNCHANGED <<finger, image, slots, model, library, serial, stage, keys, id, typed, told,
                   lag, lost, seen>>

(* What getFingerprintEnroll does with a result: the polls go on until the  *)
(* result they wait for, every other command ends the enrolment unless it   *)
(* succeeds.                                                                *)
Stop(what) == stage' = "loop" /\ told' = what

AfterModel(r) ==
    IF r = OK THEN stage' = "store" /\ UNCHANGED told ELSE Stop("error")
(* After "Stored!" the function ends without a return, and what the loop    *)
(* takes for its result decides whether the same place is enrolled again.   *)
AfterStore(r) ==
    IF r = OK THEN told' = "stored" /\ stage' \in {"loop", "image1"} ELSE Stop("error")
Lifted_notok(r) == r # OK

Lifted(r) == r = NOFINGER
Enroll(r) ==
    \/ /\ stage \in {"image1", "image2"}
       /\ stage' = (IF r = OK THEN Follower(stage) ELSE stage) /\ UNCHANGED told
    \/ /\ stage = "remove"
       /\ stage' = (IF Lifted(r) THEN "image2" ELSE stage) /\ UNCHANGED told
    \/ /\ stage \in {"convert1", "convert2"}
       /\ IF r = OK THEN stage' = Follower(stage) /\ UNCHANGED told ELSE Stop("error")
    \/ stage = "model" /\ AfterModel(r)
    \/ stage = "store" /\ AfterStore(r)

(* getReply: bytes in front of a start code are passed over; the packet is  *)
(* complete with its back.  The result is read as it comes, whatever        *)
(* command it answers.                                                      *)
Ignored(p) == front = <<>> /\ p.part = "back"
ReadPart ==
    /\ waiting /\ serial # <<>> /\ serial' = Tail(serial)
    /\ LET p == Head(serial) IN
       \/ Ignored(p) /\ UNCHANGED <<waiting, front, stage, told>>
       \/ /\ ~Ignored(p) /\ front = <<>> /\ front' = <<p>>
          /\ UNCHANGED <<waiting, stage, told>>
       \/ /\ front # <<>> /\ front' = <<>> /\ waiting' = FALSE
          /\ Enroll(IF p.part = "back" THEN p.result ELSE Failed)
    /\ Prompt
    /\ UNCHANGED <<sensorVars, keys, seq, lag, lost, seen>>

(* FINGERPRINT_TIMEOUT is no acknowledgement: the method returns -1.        *)
Timeout ==
    /\ waiting /\ serial = <<>>
    /\ \/ asked = <<>> /\ lag' = lag
       \/ asked # <<>> /\ lag < MaxLate /\ lag' = lag + 1
    /\ waiting' = FALSE /\ front' = <<>> /\ Enroll(Failed) /\ Prompt
    /\ UNCHANGED <<sensorVars, keys, serial, seq, lost, seen>>

FingerprintNext ==
    \/ Finger \/ Sensor \/ (\E line \in Lines : Types(line)) \/ ReadKey
    \/ writePacket \/ ReadPart \/ Timeout
FingerprintSpec == FingerprintInit /\ [][FingerprintNext]_fingerVars

-----------------------------------------------------------------------------
(* A finger that was imaged twice is in this place of the sensor.           *)
StoredAt(place) ==
    /\ place \in Ids /\ library[place] # NoFinger
    /\ library[place] = slots[1] /\ slots[1] = slots[2]

(* "Stored!" is printed only when the sensor holds, in the place that was   *)
(* typed in, modulo 256, the model of a finger that was imaged twice, as    *)
(* long as no reply has come later than its timeout: also when parts of     *)
(* replies are lost, or several digits are typed, or none.                  *)
StoredIsStored ==
    [][lag = 0 /\ stage = "store" /\ stage' # stage /\ told' = "stored" =>
         StoredAt(typed % ByteValues)]_fingerVars

(* The second image is of a finger that was lifted: the sensor has seen an  *)
(* empty surface between the two, whatever is lost, unless a reply was late.*)
TwoPlacements ==
    [][lag = 0 /\ stage = "remove" /\ stage' = "image2" => seen = NOFINGER]_fingerVars

(* "Stored!" (enroll.pde): the message, for every delay of the sensor.      *)
StoredAlways ==
    [][stage = "store" /\ stage' # stage /\ told' = "stored" => StoredAt(typed % ByteValues)]_fingerVars

(* "Type in the ID # you want to save this finger as..." (enroll.pde:54):   *)
(* the place is the number that was typed.  A uint8_t makes 1 of 257, and   *)
(* takes the end of the line before for a 0.                                *)
StoredWhereTyped ==
    [][lag = 0 /\ stage = "store" /\ stage' # stage /\ told' = "stored" =>
         StoredAt(typed)]_fingerVars

(* What an enrolment that succeeds has done, whatever the line loses.       *)
EnrolmentSound == StoredIsStored /\ TwoPlacements

=============================================================================
