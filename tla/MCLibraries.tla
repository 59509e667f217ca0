------------------------------ MODULE MCLibraries ------------------------------
(* Model-checking instance of what lies beside the driver in src/libraries:  *)
(* the commands the library builds, the patch programmer, the clock, the     *)
(* cipher, the card reader and the fingerprint sensor.  They share no state, *)
(* so each has behaviours of its own; the initial state chooses which.       *)
EXTENDS Commands, PatchProgrammer, Clock, Calendar, Aes, Rfid, Fingerprint

VARIABLE which      \* the part this behaviour is about

cc3000Vars == <<commandVars, programmerVars, clockVars, calendarVars, aesVars>>
librariesVars == <<cc3000Vars, rfidVars, fingerVars, which>>

(* Two cards with a UID of one level, that collide at the first bit of a     *)
(* byte, and two of two levels, that collide with the others in the cascade  *)
(* tag and with each other behind it.                                        *)
A == <<0, 1, 0>>
B == <<1, 1, 0>>
C == <<0, 0, 1>>
MCUids == {<<A, A>>, <<A, B>>, <<B, A, A>>, <<B, A, C>>}
MCCT == <<1, 0, 0>>

(* A number with a carriage return and a line feed, which is left over and   *)
(* read as a place the sensor does not have; a number beyond the byte.       *)
MCLines == {<<1, End, End>>, <<2, 5, 7, End>>}

LibrariesInit ==
    /\ which \in {"commands", "programmer", "clock", "calendar", "aes", "rfid", "fingerprint"}
    /\ CommandInit /\ ProgrammerInit /\ CalendarInit /\ AesInit /\ RfidInit /\ FingerprintInit
    /\ ClockInit
    /\ which # "clock" => start = 9 /\ made = "default" /\ resolved = {"bytes"} /\ alive = {}
    /\ which # "programmer" => eeprom = All("blank")

LibrariesNext ==
    /\ UNCHANGED which
    /\ \/ /\ which = "commands" /\ CommandNext
          /\ UNCHANGED <<programmerVars, clockVars, calendarVars, aesVars, rfidVars, fingerVars>>
       \/ /\ which = "programmer" /\ ProgrammerNext
          /\ UNCHANGED <<commandVars, clockVars, calendarVars, aesVars, rfidVars, fingerVars>>
       \/ /\ which = "clock" /\ ClockNext
          /\ UNCHANGED <<commandVars, programmerVars, calendarVars, aesVars, rfidVars, fingerVars>>
       \/ /\ which = "calendar" /\ LookAt
          /\ UNCHANGED <<commandVars, programmerVars, clockVars, aesVars, rfidVars, fingerVars>>
       \/ /\ which = "aes" /\ AesNext
          /\ UNCHANGED <<commandVars, programmerVars, clockVars, calendarVars, rfidVars, fingerVars>>
       \/ which = "rfid" /\ RfidNext /\ UNCHANGED <<cc3000Vars, fingerVars>>
       \/ which = "fingerprint" /\ FingerprintNext /\ UNCHANGED <<cc3000Vars, rfidVars>>

(* The setup of the programmer runs from one step to the next.               *)
ProgrammerFairness == WF_programmerVars(which = "programmer" /\ ProgrammerStep)

(* The loop of UpdateNTPTime runs on and recvfrom comes back; a live server  *)
(* answers, and an answer that is awaited again and again is received.       *)
ClockFairness ==
    /\ WF_clockVars(which = "clock" /\ GetNTPServerList)
    /\ WF_clockVars(which = "clock" /\ SendRequest)
    /\ WF_clockVars(which = "clock" /\ NoAnswer)
    /\ WF_clockVars(which = "clock" /\ Answer)
    /\ SF_clockVars(which = "clock" /\ Reply)

LibrariesSpec ==
    /\ LibrariesInit /\ [][LibrariesNext]_librariesVars
    /\ ProgrammerFairness /\ ClockFairness

(* A radio whose parameters have been looked at is patched in the end, also  *)
(* after a failed access and a loss of power, and UpdateNTPTime comes back   *)
(* when the first server of some list is alive.                              *)
ComesToAnEnd == PatchedInTheEnd /\ UpdateEnds

================================================================================
