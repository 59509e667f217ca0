---------------------------- MODULE PatchProgrammer ----------------------------
(***************************************************************************)
(* examples/driverpatch_1_12, which gives the CC3000 new patches: it saves *)
(* the radio's parameters and MAC address in RAM, and the parameters in    *)
(* the EEPROM of the board, lays out the radio's non-volatile memory anew, *)
(* which loses all files, and writes parameters, MAC address and patches   *)
(* into it, each until the radio reports success (utility/nvmem.cpp).      *)
(* Power may fail between any two accesses, and an access may fail.  A     *)
(* file of parameters is a sequence of parts.  The EEPROM of the board may *)
(* be new, or hold something else (Config.cpp writes it from byte 0 on).   *)
(***************************************************************************)
EXTENDS Integers, FiniteSets

CONSTANTS
    Parts,          \* parts of the parameters, 16 reads and 4 writes in the code
    Portions,       \* portions of a patch
    MaxNvFaults,    \* bound: accesses that fail
    MaxCrashes      \* bound: losses of power

ASSUME ProgrammerAssumption ==
    /\ {Parts, Portions} \subseteq Nat \ {0}
    /\ {MaxNvFaults, MaxCrashes} \subseteq Nat

VARIABLES
    nv,             \* the radio's memory: fat, rm, mac, drv, fw
    eeprom,         \* the board's EEPROM, where the parameters are backed up
    cRMParams,      \* cRMParamsFromEeprom, in RAM
    pRMParams,      \* what will be written back
    cMac, MACvalid, \* the MAC address in RAM
    pos,             \* the place in setup
    part,           \* the part or portion that is next
    return_status,  \* has any access of this attempt failed?
    counter,        \* attempts to read the parameters
    nvFaults, crashes

radioMemory == <<nv, eeprom>>
programmerRam == <<cRMParams, pRMParams, cMac, MACvalid, pos, part, return_status, counter>>
programmerVars == <<radioMemory, programmerRam, nvFaults, crashes>>

PartSet == 1 .. Parts
PortionSet == 1 .. Portions
FatWrites == 1 .. 4             \* the magic number, two parts, erased user files
All(v) == [p \in PartSet |-> v]

ProgrammerInit ==
    /\ nv = [fat |-> {}, rm |-> All("orig"), mac |-> "orig", drv |-> {}, fw |-> {}]
    /\ eeprom \in {All("blank"), All("other")}
    /\ cRMParams = All("none") /\ pRMParams = All("none")
    /\ cMac = "none" /\ MACvalid = FALSE
    /\ pos = "getmac" /\ part = 1 /\ return_status = FALSE /\ counter = 0
    /\ nvFaults = 0 /\ crashes = 0

(* An access to the radio's memory succeeds, or fails without effect.       *)
Succeeds == UNCHANGED nvFaults
Fails == nvFaults < MaxNvFaults /\ nvFaults' = nvFaults + 1
GoTo(place) == pos' = place /\ part' = 1 /\ return_status' = FALSE

getMacAddress ==
    /\ pos = "getmac" /\ GoTo("readrm")
    /\ \/ Succeeds /\ cMac' = nv.mac /\ MACvalid' = TRUE
       \/ Fails /\ MACvalid' = FALSE /\ UNCHANGED cMac
    /\ UNCHANGED <<radioMemory, cRMParams, pRMParams, counter, crashes>>

(* One nvmem_read of the parameters; a read that fails leaves rubbish.      *)
ReadParams ==
    /\ pos = "readrm" /\ part <= Parts
    /\ \/ Succeeds /\ cRMParams' = [cRMParams EXCEPT ![part] = nv.rm[part]]
          /\ UNCHANGED return_status
       \/ Fails /\ cRMParams' = [cRMParams EXCEPT ![part] = "lost"] /\ return_status' = TRUE
    /\ part' = part + 1
    /\ UNCHANGED <<radioMemory, pRMParams, cMac, MACvalid, pos, counter, crashes>>

ReadAgain ==
    /\ pos = "readrm" /\ part > Parts /\ counter' = counter + 1
    /\ IF return_status /\ counter' < 3 THEN GoTo("readrm") ELSE GoTo("choose")
    /\ UNCHANGED <<radioMemory, cRMParams, pRMParams, cMac, MACvalid, nvFaults, crashes>>

(* After three attempts the defaults are used; otherwise what was read is   *)
(* backed up, if the first byte of the EEPROM has never been written.       *)
Choose_nobackup ==
    /\ pos = "choose" /\ GoTo("fat")
    /\ pRMParams' = IF counter = 3 THEN All("default") ELSE cRMParams
    /\ UNCHANGED <<radioMemory, cRMParams, cMac, MACvalid, counter, nvFaults, crashes>>

Choose ==
    /\ pos = "choose"
    /\ IF counter = 3
       THEN pRMParams' = All("default") /\ GoTo("fat")
       ELSE pRMParams' = cRMParams /\ GoTo(IF eeprom[1] = "blank" THEN "backup" ELSE "fat")
    /\ UNCHANGED <<radioMemory, cRMParams, cMac, MACvalid, counter, nvFaults, crashes>>

Backup ==
    /\ pos = "backup"
    /\ eeprom' = [eeprom EXCEPT ![part] = cRMParams[part]]
    /\ IF part = Parts THEN GoTo("fat") ELSE part' = part + 1 /\ UNCHANGED <<pos, return_status>>
    /\ UNCHANGED <<nv, cRMParams, pRMParams, cMac, MACvalid, counter, nvFaults, crashes>>

(* fat_write_content: four writes, and only the status of the last counts.  *)
fat_write_content ==
    /\ pos = "fat"
    /\ \/ Succeeds /\ return_status' = FALSE
          /\ nv' = [fat |-> nv.fat \cup {part}, rm |-> All("lost"), mac |-> "lost",
                    drv |-> {}, fw |-> {}]
       \/ Fails /\ return_status' = TRUE /\ UNCHANGED nv
    /\ IF part < 4 THEN part' = part + 1 /\ UNCHANGED pos
       ELSE part' = 1 /\ pos' = IF return_status' THEN "fat" ELSE "params"
    /\ UNCHANGED <<eeprom, cRMParams, pRMParams, cMac, MACvalid, counter, crashes>>

WriteParams ==
    /\ pos = "params" /\ part <= Parts
    /\ \/ Succeeds /\ nv' = [nv EXCEPT !.rm[part] = pRMParams[part]] /\ UNCHANGED return_status
       \/ Fails /\ return_status' = TRUE /\ UNCHANGED nv
    /\ part' = part + 1
    /\ UNCHANGED <<eeprom, cRMParams, pRMParams, cMac, MACvalid, pos, counter, crashes>>

WriteAgain_stuck ==
    /\ pos = "params" /\ part > Parts /\ part' = 1 /\ UNCHANGED return_status
    /\ pos' = IF return_status THEN "params" ELSE IF MACvalid THEN "mac" ELSE "drv"
    /\ UNCHANGED <<radioMemory, cRMParams, pRMParams, cMac, MACvalid, counter, nvFaults, crashes>>

WriteAgain ==
    /\ pos = "params" /\ part > Parts
    /\ GoTo(IF return_status THEN "params" ELSE IF MACvalid THEN "mac" ELSE "drv")
    /\ UNCHANGED <<radioMemory, cRMParams, pRMParams, cMac, MACvalid, counter, nvFaults, crashes>>

nvmem_set_mac_address ==
    /\ pos = "mac"
    /\ \/ Succeeds /\ nv' = [nv EXCEPT !.mac = cMac] /\ GoTo("drv")
       \/ Fails /\ GoTo("mac") /\ UNCHANGED nv
    /\ UNCHANGED <<eeprom, cRMParams, pRMParams, cMac, MACvalid, counter, crashes>>

(* nvmem_write_patch: portion after portion until one fails; the caller     *)
(* starts again from the first.                                             *)

nvmem_write_patch(file, next) ==
    /\ pos = file
    /\ \/ /\ Succeeds /\ nv' = [nv EXCEPT ![file] = @ \cup {part}]
          /\ IF part = Portions THEN GoTo(next)
                                ELSE part' = part + 1 /\ UNCHANGED <<pos, return_status>>
       \/ Fails /\ UNCHANGED nv /\ GoTo(file)
    /\ UNCHANGED <<eeprom, cRMParams, pRMParams, cMac, MACvalid, counter, crashes>>

PowerFails ==
    /\ crashes < MaxCrashes /\ crashes' = crashes + 1 /\ pos # "done"
    /\ cRMParams' = All("none") /\ pRMParams' = All("none") /\ cMac' = "none"
    /\ MACvalid' = FALSE /\ counter' = 0 /\ GoTo("getmac")
    /\ UNCHANGED <<radioMemory, nvFaults>>

ProgrammerStep ==
    \/ getMacAddress \/ ReadParams \/ ReadAgain \/ Choose \/ Backup
    \/ fat_write_content \/ WriteParams \/ WriteAgain \/ nvmem_set_mac_address
    \/ nvmem_write_patch("drv", "fw") \/ nvmem_write_patch("fw", "done")

ProgrammerNext == ProgrammerStep \/ PowerFails
ProgrammerSpec == ProgrammerInit /\ [][ProgrammerNext]_programmerVars

-----------------------------------------------------------------------------
(* When the sketch reports "Patched!", both patches are whole, however many *)
(* writes failed and whenever power was lost.                               *)
DoneMeansPatched == pos = "done" => nv.drv = PortionSet /\ nv.fw = PortionSet

(* ... and the parameters are those that were to be written, all of them,   *)
(* and the MAC address, if it could be read.                                *)
DoneMeansRestored ==
    pos = "done" => nv.rm = pRMParams /\ (MACvalid => nv.mac = cMac)

(* The radio's own parameters are at this moment in one place at least from *)
(* which they could be had again: the radio, RAM or the EEPROM.             *)
ParamsAtHand ==
    All("orig") \in {nv.rm, eeprom, IF pos \in {"getmac", "readrm"} THEN eeprom ELSE pRMParams}

(* The EEPROM holds something else, and no backup is made.                  *)
Occupied == eeprom = All("other")

(* On a board whose EEPROM was new they outlive one loss of power, at any   *)
(* step, or one failed access; on a board whose EEPROM was in use they are  *)
(* safe while power is not lost.                                            *)
ParamsRecoverable == (Occupied /\ crashes > 0) \/ ParamsAtHand

(* What a reader of "Backed up to eeprom!" might hope, and the code does    *)
(* not give: that no single loss of power loses them on any board.  Line    *)
(* 189 writes no backup over a first byte that is in use.                   *)
ParamsAlwaysRecoverable == ParamsAtHand

(* What the code does not give either: that a layout found written is       *)
(* written whole.  Of the four writes only the last is looked at.           *)
LayoutWhole == pos \in {"params", "mac", "drv", "fw", "done"} => nv.fat = FatWrites

(* Bounded failures only delay it: a radio whose parameters have been looked *)
(* at is patched in the end.                                                *)
PatchedInTheEnd == (pos = "readrm") ~> (pos = "done")

(* What the programmer promises when it says it is done, and what it never  *)
(* loses on the way.                                                        *)
ProgrammerSound == DoneMeansPatched /\ DoneMeansRestored /\ ParamsRecoverable

=============================================================================
