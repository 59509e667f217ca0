---------------------------- MODULE Libraries_proofs ----------------------------
(***************************************************************************)
(* Theorems about the libraries beside the driver.  PatchProgrammer: what  *)
(* "Patched!" means, for every number of parts, portions, failed accesses  *)
(* and losses of power, and that the radio's own parameters outlive one    *)
(* failed access and one loss of power.  Fingerprint: what an enrolment    *)
(* has done that says so, whatever the line loses.  Rfid: transfers and    *)
(* selections, for any cards, with any transmissions spoilt.  Calendar:    *)
(* every second of every day until 28 February 2100.  Clock: a clock set   *)
(* by hand or by an update, for stamps and ticks of any size.  Commands:   *)
(* every packet the host driver builds, for arguments of every length.     *)
(***************************************************************************)
EXTENDS PatchProgrammer, Fingerprint, Rfid, Calendar, Clock, Commands, SequenceTheorems,
        TLAPS

-----------------------------------------------------------------------------
(* Numbers.                                                                *)

LEMMA ModParts ==
    ASSUME NEW n \in Int, NEW k \in Nat, k > 0
    PROVE  /\ n \div k \in Int /\ n % k \in Int /\ 0 <= n % k /\ n % k < k
           /\ n = k * (n \div k) + (n % k)
OBVIOUS

LEMMA ModIs ==
    ASSUME NEW n \in Int, NEW k \in Nat, k > 0, NEW q \in Int, NEW r \in Int, 0 <= r, r < k,
           n = k * q + r
    PROVE  n % k = r /\ n \div k = q
<1> DEFINE j == n \div k
           m == n % k
<1>1. j \in Int /\ m \in Int /\ 0 <= m /\ m < k /\ n = k * j + m
  BY ModParts
<1> HIDE DEF j, m
<1>2. k * (q - j) = m - r
  BY <1>1
<1>3. ~(q - j >= 1) /\ ~(q - j <= -1)
  BY <1>1, <1>2
<1>4. q = j
  BY <1>1, <1>3
<1> QED BY <1>1, <1>2, <1>4 DEF j, m

LEMMA Scaled ==
    ASSUME NEW k \in Nat, k > 0, NEW m \in Int, NEW n \in Int
    PROVE  /\ m <= n => k * m <= k * n
           /\ k * m < k * n => m < n
<1>1. \A d \in Nat : k * d >= 0
  OBVIOUS
<1>2. k * (n - m) = k * n - k * m /\ k * (m - n) = k * m - k * n
  OBVIOUS
<1>3. ASSUME m <= n PROVE k * m <= k * n
  <2>1. n - m \in Nat
    BY <1>3
  <2>2. k * (n - m) >= 0
    BY <1>1, <2>1
  <2> QED BY <1>2, <2>2
<1>4. ASSUME ~(m < n) PROVE ~(k * m < k * n)
  <2>1. m - n \in Nat
    BY <1>4
  <2>2. k * (m - n) >= 0
    BY <1>1, <2>1
  <2> QED BY <1>2, <2>2
<1> QED BY <1>3, <1>4

-----------------------------------------------------------------------------
(* The patch programmer.                                                   *)

Values == {"orig", "default", "lost", "none", "blank", "other"}
Params == [PartSet -> Values]
Places == {"getmac", "readrm", "choose", "backup", "fat", "params", "mac", "drv", "fw", "done"}

Radio == [fat : SUBSET FatWrites, rm : Params, mac : Values,
          drv : SUBSET PortionSet, fw : SUBSET PortionSet]

(* The types of the variables.                                              *)
DataOK ==
    /\ nv \in Radio
    /\ eeprom \in Params /\ cRMParams \in Params /\ pRMParams \in Params
    /\ cMac \in Values /\ MACvalid \in BOOLEAN /\ return_status \in BOOLEAN

ControlOK ==
    /\ pos \in Places /\ part \in Nat \ {0}
    /\ counter \in Nat
    /\ nvFaults \in 0 .. MaxNvFaults /\ crashes \in 0 .. MaxCrashes
    /\ pos = "backup" => part <= Parts
    /\ pos = "fat" => part <= 4
    /\ pos \in {"readrm", "params"} => part <= Parts + 1
    /\ pos \in {"drv", "fw"} => part <= Portions

ProgrammerTypeOK == DataOK /\ ControlOK

(* How far a place of setup has come.  A part of the parameters whose write *)
(* has failed is written again before setup goes on, as return_status       *)
(* remembers it.                                                            *)
Progress ==
    /\ pos = "params" /\ ~return_status =>
          \A p \in PartSet : p < part => nv.rm[p] = pRMParams[p]
    /\ pos \in {"mac", "drv", "fw", "done"} => nv.rm = pRMParams
    /\ pos \in {"drv", "fw", "done"} /\ MACvalid => nv.mac = cMac
    /\ pos = "drv" => \A p \in PortionSet : p < part => p \in nv.drv
    /\ pos \in {"fw", "done"} => nv.drv = PortionSet
    /\ pos = "fw" => \A p \in PortionSet : p < part => p \in nv.fw
    /\ pos = "done" => nv.fw = PortionSet

Reading == {"getmac", "readrm", "choose", "backup"}

(* The parameters are in the radio until the layout of its memory is        *)
(* written, and from then on what will be written back.  At most one        *)
(* attempt to read them fails, which keeps the defaults away.               *)
Kept ==
    /\ pos \in Reading => nv.rm = All("orig")
    /\ pos = "getmac" => counter = 0
    /\ pos = "readrm" =>
          /\ counter <= nvFaults /\ (return_status => counter < nvFaults)
          /\ ~return_status => \A p \in PartSet : p < part => cRMParams[p] = "orig"
    /\ pos = "choose" => counter <= nvFaults + 1
    /\ pos \in {"choose", "backup"} => cRMParams = All("orig")
    /\ pos \notin Reading \ {"backup"} => pRMParams = All("orig")

(* The EEPROM holds v in every part, and a program that finds it so does    *)
(* not write it: the backup is whole, or the EEPROM is in use.              *)
Holds(v) == eeprom = All(v) /\ pos # "backup"
Saved == Holds("orig")

(* Until power is lost for the first time the backup is written before the  *)
(* radio's memory is touched.                                               *)
BackedUp ==
    /\ pos \in {"getmac", "readrm", "choose"} => eeprom = All("blank")
    /\ pos = "backup" =>
          \A p \in PartSet : eeprom[p] = IF p < part THEN "orig" ELSE "blank"
    /\ pos \notin Reading => eeprom = All("orig")

Recoverable ==
    \/ Holds("other") /\ (crashes = 0 => Kept)
    \/ (Kept \/ Saved) /\ (crashes = 0 => Kept /\ BackedUp)

-----------------------------------------------------------------------------
(* Types.                                                                   *)

LEMMA AllParams == ASSUME NEW v \in Values PROVE All(v) \in Params
BY DEF All, Params

LEMMA ProgrammerSizes ==
    /\ Parts \in Nat /\ Parts >= 1 /\ Portions \in Nat /\ Portions >= 1
    /\ MaxNvFaults \in Nat /\ MaxCrashes \in Nat
BY ProgrammerAssumption

(* Writing a part keeps the type of the parameters.                         *)
LEMMA PartWritten ==
    ASSUME NEW f \in Params, NEW p \in PartSet, NEW v \in Values
    PROVE  [f EXCEPT ![p] = v] \in Params
BY DEF Params

LEMMA PartRead ==
    ASSUME NEW f \in Params, NEW p \in PartSet
    PROVE  f[p] \in Values
BY DEF Params

(* The fields of the radio's memory.                                        *)
LEMMA RadioFields ==
    ASSUME NEW r \in Radio
    PROVE  /\ r.fat \in SUBSET FatWrites /\ r.rm \in Params /\ r.mac \in Values
           /\ r.drv \in SUBSET PortionSet /\ r.fw \in SUBSET PortionSet
           /\ \A v \in Params : [r EXCEPT !.rm = v] \in Radio
           /\ \A v \in Values : [r EXCEPT !.mac = v] \in Radio
           /\ \A v \in SUBSET PortionSet : [r EXCEPT !.drv = v] \in Radio
           /\ \A v \in SUBSET PortionSet : [r EXCEPT !.fw = v] \in Radio
BY DEF Radio

LEMMA InitTypeOK == ProgrammerInit => ProgrammerTypeOK
<1> SUFFICES ASSUME ProgrammerInit PROVE ProgrammerTypeOK
  OBVIOUS
<1>1. {"orig", "blank", "none", "other"} \subseteq Values
  BY DEF Values
<1>2. nv \in Radio
  BY <1>1, AllParams DEF ProgrammerInit, Radio
<1>3. DataOK
  BY <1>1, <1>2, AllParams DEF ProgrammerInit, DataOK
<1>4. ControlOK
  BY ProgrammerSizes DEF ProgrammerInit, ControlOK, Places
<1> QED
  BY <1>3, <1>4 DEF ProgrammerTypeOK

LEMMA NextControlOK ==
    ASSUME ControlOK, [ProgrammerNext]_programmerVars
    PROVE  ControlOK'
<1> USE ProgrammerSizes DEF ControlOK, GoTo, Succeeds, Fails
<1>1. CASE getMacAddress
  BY <1>1 DEF Places, getMacAddress
<1>2. CASE ReadParams
  BY <1>2 DEF Places, ReadParams
<1>3. CASE ReadAgain
  BY <1>3 DEF Places, ReadAgain
<1>4. CASE Choose
  BY <1>4 DEF Places, Choose
<1>5. CASE Backup
  BY <1>5 DEF Places, Backup
<1>6. CASE fat_write_content
  BY <1>6 DEF Places, fat_write_content
<1>7. CASE WriteParams
  BY <1>7 DEF Places, WriteParams
<1>8. CASE WriteAgain
  BY <1>8 DEF Places, WriteAgain
<1>9. CASE nvmem_set_mac_address
  BY <1>9 DEF Places, nvmem_set_mac_address
<1>10. CASE PowerFails
  BY <1>10 DEF Places, PowerFails
<1>11. CASE nvmem_write_patch("drv", "fw")
  BY <1>11 DEF Places, nvmem_write_patch
<1>12. CASE nvmem_write_patch("fw", "done")
  BY <1>12 DEF Places, nvmem_write_patch
<1>13. CASE UNCHANGED programmerVars
  BY <1>13 DEF programmerVars, programmerRam
<1> QED
  BY <1>1, <1>2, <1>3, <1>4, <1>5, <1>6, <1>7, <1>8, <1>9, <1>10, <1>11, <1>12, <1>13 DEF ProgrammerNext, ProgrammerStep

LEMMA NextDataOK ==
    ASSUME DataOK, ControlOK, [ProgrammerNext]_programmerVars
    PROVE  DataOK'
<1>0. /\ {"orig", "default", "lost", "none", "blank"} \subseteq Values
      /\ nv.rm \in Params /\ nv.mac \in Values
      /\ nv.drv \in SUBSET PortionSet /\ nv.fw \in SUBSET PortionSet
  BY RadioFields DEF DataOK, Values
<1>1. CASE getMacAddress
  BY <1>0, <1>1 DEF getMacAddress, DataOK, radioMemory, GoTo
<1>2. CASE ReadParams
  <2>1. part \in PartSet
    BY <1>2, ProgrammerSizes DEF ReadParams, ControlOK, PartSet
  <2>2. cRMParams' \in Params
    BY <1>0, <1>2, <2>1, PartRead, PartWritten DEF ReadParams, DataOK
  <2> QED
    BY <1>2, <2>2 DEF ReadParams, DataOK, radioMemory, GoTo
<1>3. CASE ReadAgain \/ WriteAgain
  BY <1>3 DEF ReadAgain, WriteAgain, DataOK, radioMemory, GoTo
<1>4. CASE Choose
  BY <1>0, <1>4, AllParams DEF Choose, DataOK, radioMemory, GoTo
<1>5. CASE Backup
  <2>1. part \in PartSet
    BY <1>5, ProgrammerSizes DEF Backup, ControlOK, PartSet
  <2>2. eeprom' \in Params
    BY <1>5, <2>1, PartRead, PartWritten DEF Backup, DataOK
  <2> QED
    BY <1>5, <2>2 DEF Backup, DataOK, GoTo
<1>6. CASE fat_write_content
  <2>1. part \in FatWrites
    BY <1>6 DEF fat_write_content, ControlOK, FatWrites
  <2>2. nv' \in Radio
    BY <1>0, <1>6, <2>1, AllParams DEF fat_write_content, DataOK, Radio, Succeeds, Fails
  <2> QED
    BY <1>6, <2>2 DEF fat_write_content, DataOK
<1>7. CASE WriteParams
  <2>1. part \in PartSet
    BY <1>7, ProgrammerSizes DEF WriteParams, ControlOK, PartSet
  <2>2. [nv.rm EXCEPT ![part] = pRMParams[part]] \in Params
    BY <1>0, <2>1, PartRead, PartWritten DEF DataOK
  <2>3. nv' = [nv EXCEPT !.rm = [nv.rm EXCEPT ![part] = pRMParams[part]]] \/ nv' = nv
    BY <1>7 DEF WriteParams, DataOK, Radio
  <2>4. nv' \in Radio
    BY <2>2, <2>3, RadioFields DEF DataOK
  <2> QED
    BY <1>7, <2>4 DEF WriteParams, DataOK
<1>8. CASE nvmem_set_mac_address
  <2>1. nv' \in Radio
    BY <1>8, RadioFields DEF nvmem_set_mac_address, DataOK
  <2> QED
    BY <1>8, <2>1 DEF nvmem_set_mac_address, DataOK, GoTo
<1>9. CASE PowerFails
  BY <1>0, <1>9, AllParams DEF PowerFails, DataOK, radioMemory, GoTo
<1>10. CASE nvmem_write_patch("drv", "fw")
  <2>1. part \in PortionSet
    BY <1>10, ProgrammerSizes DEF nvmem_write_patch, ControlOK, PortionSet
  <2>2. nv' = [nv EXCEPT !.drv = nv.drv \cup {part}] \/ nv' = nv
    BY <1>10 DEF nvmem_write_patch, DataOK, Radio
  <2>3. nv' \in Radio
    BY <1>0, <2>1, <2>2, RadioFields DEF DataOK
  <2> QED
    BY <1>10, <2>3 DEF nvmem_write_patch, DataOK, GoTo
<1>11. CASE nvmem_write_patch("fw", "done")
  <2>1. part \in PortionSet
    BY <1>11, ProgrammerSizes DEF nvmem_write_patch, ControlOK, PortionSet
  <2>2. nv' = [nv EXCEPT !.fw = nv.fw \cup {part}] \/ nv' = nv
    BY <1>11 DEF nvmem_write_patch, DataOK, Radio
  <2>3. nv' \in Radio
    BY <1>0, <2>1, <2>2, RadioFields DEF DataOK
  <2> QED
    BY <1>11, <2>3 DEF nvmem_write_patch, DataOK, GoTo
<1>12. CASE UNCHANGED programmerVars
  BY <1>12 DEF programmerVars, programmerRam, radioMemory, GoTo, DataOK
<1> QED
  BY <1>1, <1>2, <1>3, <1>4, <1>5, <1>6, <1>7, <1>8, <1>9, <1>10, <1>11, <1>12
  DEF ProgrammerNext, ProgrammerStep

-----------------------------------------------------------------------------
(* What is done at each place.                                              *)

LEMMA InitProgress == ProgrammerInit => Progress
BY DEF ProgrammerInit, Progress

LEMMA NextProgress ==
    ASSUME DataOK, ControlOK, Progress, [ProgrammerNext]_programmerVars
    PROVE  Progress'
<1>0. /\ nv.rm \in Params /\ pRMParams \in Params
      /\ nv.drv \in SUBSET PortionSet /\ nv.fw \in SUBSET PortionSet
      /\ part \in Nat \ {0} /\ Parts \in Nat /\ Portions \in Nat
  BY RadioFields, ProgrammerSizes DEF DataOK, ControlOK
<1>1. CASE getMacAddress \/ ReadParams \/ ReadAgain \/ Choose \/ PowerFails
  BY <1>1 DEF getMacAddress, ReadParams, ReadAgain, Choose, PowerFails, Progress, GoTo
<1>2. CASE Backup
  BY <1>2 DEF Backup, Progress, GoTo
<1>3. CASE fat_write_content
  BY <1>3 DEF fat_write_content, Progress, Succeeds, Fails, PartSet
<1>4. CASE WriteParams
  <2>1. pos' = "params" /\ part' = part + 1 /\ UNCHANGED <<pRMParams, MACvalid, cMac>>
    BY <1>4 DEF WriteParams
  <2>2. ASSUME ~return_status', NEW p \in PartSet, p < part'
        PROVE  nv'.rm[p] = pRMParams[p]
    <3>1. nv' = [nv EXCEPT !.rm[part] = pRMParams[part]] /\ ~return_status
      BY <1>4, <2>2 DEF WriteParams
    <3>2. nv'.rm = [nv.rm EXCEPT ![part] = pRMParams[part]]
      BY <3>1 DEF DataOK, Radio
    <3>3. p = part \/ p < part
      BY <1>0, <2>1, <2>2 DEF PartSet
    <3>4. p < part => nv.rm[p] = pRMParams[p]
      BY <1>4, <3>1 DEF WriteParams, Progress
    <3> QED
      BY <1>0, <3>2, <3>3, <3>4 DEF Params
  <2> QED
    BY <2>1, <2>2 DEF Progress
<1>5. CASE WriteAgain
  <2>1. ASSUME ~return_status PROVE nv.rm = pRMParams
    <3>1. \A p \in PartSet : p < part
      BY <1>0, <1>5 DEF WriteAgain, PartSet
    <3>2. \A p \in PartSet : nv.rm[p] = pRMParams[p]
      BY <1>5, <2>1, <3>1 DEF WriteAgain, Progress
    <3> QED
      BY <1>0, <3>2 DEF Params
  <2> QED
    BY <1>0, <1>5, <2>1 DEF WriteAgain, Progress, GoTo, radioMemory, PartSet, PortionSet
<1>6. CASE nvmem_set_mac_address
  <2>1. nv'.rm = nv.rm /\ (pos' = "drv" => nv'.mac = cMac)
    BY <1>6 DEF nvmem_set_mac_address, DataOK, Radio, GoTo
  <2> QED
    BY <1>6, <2>1 DEF nvmem_set_mac_address, Progress, GoTo, PortionSet
<1>7. CASE nvmem_write_patch("drv", "fw")
  <2>1. /\ nv'.rm = nv.rm /\ nv'.mac = nv.mac /\ nv'.fw = nv.fw
        /\ nv'.drv = nv.drv \cup {part} \/ (nv' = nv /\ GoTo("drv"))
    BY <1>7 DEF nvmem_write_patch, DataOK, Radio
  <2>2. CASE nv' = nv /\ GoTo("drv")
    BY <1>7, <2>2 DEF nvmem_write_patch, Progress, GoTo, PortionSet
  <2>3. CASE nv'.drv = nv.drv \cup {part} /\ part # Portions /\ part' = part + 1
             /\ UNCHANGED <<pos, return_status>>
    BY <1>0, <1>7, <2>1, <2>3 DEF nvmem_write_patch, Progress, PortionSet
  <2>4. CASE nv'.drv = nv.drv \cup {part} /\ part = Portions /\ GoTo("fw")
    <3>0. part \in PortionSet /\ \A p \in PortionSet : p < part \/ p = part
      BY <1>0, <2>4 DEF PortionSet
    <3>1. \A p \in PortionSet : p \in nv'.drv
      BY <1>7, <2>4, <3>0 DEF nvmem_write_patch, Progress
    <3>2. nv'.drv = PortionSet
      BY <1>0, <2>4, <3>0, <3>1
    <3>3. /\ nv'.rm = pRMParams' /\ (MACvalid' => nv'.mac = cMac')
          /\ pos' = "fw" /\ part' = 1 /\ PortionSet' = PortionSet
      BY <1>7, <2>1, <2>4, <3>0 DEF nvmem_write_patch, Progress, GoTo, PortionSet
    <3>4. \A p \in PortionSet : ~(p < 1)
      BY DEF PortionSet
    <3> QED
      BY <3>2, <3>3, <3>4 DEF Progress
  <2> QED
    BY <1>7, <2>1, <2>2, <2>3, <2>4 DEF nvmem_write_patch
<1>8. CASE nvmem_write_patch("fw", "done")
  <2>1. /\ nv'.rm = nv.rm /\ nv'.mac = nv.mac /\ nv'.drv = nv.drv
        /\ nv'.fw = nv.fw \cup {part} \/ (nv' = nv /\ GoTo("fw"))
    BY <1>8 DEF nvmem_write_patch, DataOK, Radio
  <2>2. CASE nv' = nv /\ GoTo("fw")
    BY <1>8, <2>2 DEF nvmem_write_patch, Progress, GoTo, PortionSet
  <2>3. CASE nv'.fw = nv.fw \cup {part} /\ part # Portions /\ part' = part + 1
             /\ UNCHANGED <<pos, return_status>>
    BY <1>0, <1>8, <2>1, <2>3 DEF nvmem_write_patch, Progress, PortionSet
  <2>4. CASE nv'.fw = nv.fw \cup {part} /\ part = Portions /\ GoTo("done")
    <3>0. part \in PortionSet /\ \A p \in PortionSet : p < part \/ p = part
      BY <1>0, <2>4 DEF PortionSet
    <3>1. \A p \in PortionSet : p \in nv'.fw
      BY <1>8, <2>4, <3>0 DEF nvmem_write_patch, Progress
    <3>2. nv'.fw = PortionSet
      BY <1>0, <2>4, <3>0, <3>1
    <3> QED
      BY <1>8, <2>1, <2>4, <3>2 DEF nvmem_write_patch, Progress, GoTo, PortionSet
  <2> QED
    BY <1>8, <2>1, <2>2, <2>3, <2>4 DEF nvmem_write_patch
<1>9. CASE UNCHANGED programmerVars
  BY <1>9 DEF programmerVars, programmerRam, radioMemory, Progress
<1> QED
  BY <1>1, <1>2, <1>3, <1>4, <1>5, <1>6, <1>7, <1>8, <1>9
  DEF ProgrammerNext, ProgrammerStep

-----------------------------------------------------------------------------
(* Where the parameters are.  From here on at most one access fails and     *)
(* power is lost at most once.                                              *)

OneOfEach == MaxNvFaults <= 1 /\ MaxCrashes <= 1

LEMMA AllIs ==
    ASSUME NEW f \in Params, NEW v
    PROVE  /\ f = All(v) <=> \A p \in PartSet : f[p] = v
           /\ 1 \in PartSet
BY ProgrammerSizes DEF All, Params, PartSet

LEMMA InitRecoverable == ProgrammerInit => Recoverable
BY ProgrammerSizes DEF ProgrammerInit, Recoverable, Holds, Kept, BackedUp, Reading

(* What the EEPROM holds it goes on to hold, once the first byte is in use. *)
LEMMA NextHolds ==
    ASSUME NEW v \in Values \ {"blank"},
           DataOK, ControlOK, Holds(v), [ProgrammerNext]_programmerVars
    PROVE  Holds(v)'
<1>1. eeprom[1] # "blank"
  BY AllIs DEF Holds, DataOK
<1>2. CASE Choose
  BY <1>1, <1>2 DEF Choose, Holds, GoTo, radioMemory
<1>3. CASE getMacAddress \/ ReadParams \/ ReadAgain \/ Backup \/ PowerFails
  BY <1>3 DEF getMacAddress, ReadParams, ReadAgain, Backup, PowerFails, Holds, GoTo, radioMemory
<1>4. CASE \/ fat_write_content \/ WriteParams \/ WriteAgain \/ nvmem_set_mac_address
           \/ nvmem_write_patch("drv", "fw") \/ nvmem_write_patch("fw", "done")
  BY <1>4 DEF fat_write_content, WriteParams, WriteAgain, nvmem_set_mac_address,
              nvmem_write_patch, Holds, GoTo, radioMemory
<1>5. CASE UNCHANGED programmerVars
  BY <1>5 DEF programmerVars, programmerRam, radioMemory, Holds
<1> QED
  BY <1>2, <1>3, <1>4, <1>5 DEF ProgrammerNext, ProgrammerStep

(* Without a loss of power the parameters stay where Kept says.             *)
LEMMA StepKept ==
    ASSUME DataOK, ControlOK, Kept, MaxNvFaults <= 1, ProgrammerStep
    PROVE  Kept'
<1>0. /\ cRMParams \in Params /\ nv.rm \in Params /\ nvFaults \in Nat /\ nvFaults <= 1
      /\ part \in Nat \ {0} /\ counter \in Nat
  BY RadioFields, ProgrammerSizes DEF DataOK, ControlOK
<1>1. CASE getMacAddress
  <2>1. /\ pos' = "readrm" /\ part' = 1 /\ ~return_status' /\ nv' = nv
        /\ counter' = counter /\ cRMParams' = cRMParams /\ pRMParams' = pRMParams
    BY <1>1 DEF getMacAddress, GoTo, radioMemory
  <2>2. counter' <= nvFaults'
    BY <1>0, <1>1, <2>1 DEF getMacAddress, Kept, Succeeds, Fails
  <2>3. \A p \in PartSet : ~(p < 1)
    BY DEF PartSet
  <2>4. nv'.rm = All("orig")
    BY <1>1, <2>1 DEF getMacAddress, Kept, Reading
  <2> QED
    BY <2>1, <2>2, <2>3, <2>4 DEF Kept, Reading
<1>2. CASE ReadParams
  <2>1. part \in PartSet /\ nv.rm[part] = "orig"
    BY <1>0, <1>2, AllIs, ProgrammerSizes DEF ReadParams, Kept, Reading, PartSet
  <2>2. ASSUME ~return_status', NEW p \in PartSet, p < part'
        PROVE  cRMParams'[p] = "orig"
    <3>1. cRMParams' = [cRMParams EXCEPT ![part] = "orig"] /\ ~return_status
      BY <1>2, <2>1, <2>2 DEF ReadParams
    <3>2. p = part \/ p < part
      BY <1>0, <1>2, <2>2 DEF ReadParams, PartSet
    <3>3. p < part => cRMParams[p] = "orig"
      BY <1>2, <3>1 DEF ReadParams, Kept
    <3> QED
      BY <1>0, <3>1, <3>2, <3>3 DEF Params
  <2>3. counter' <= nvFaults' /\ (return_status' => counter' < nvFaults')
    BY <1>0, <1>2 DEF ReadParams, Kept, Succeeds, Fails
  <2> QED
    BY <1>2, <2>2, <2>3 DEF ReadParams, Kept, Reading, radioMemory
<1>3. CASE ReadAgain
  <2>1. ASSUME ~return_status PROVE cRMParams = All("orig")
    <3>1. \A p \in PartSet : p < part
      BY <1>0, <1>3, ProgrammerSizes DEF ReadAgain, PartSet
    <3> QED
      BY <1>0, <1>3, <2>1, <3>1, AllIs DEF ReadAgain, Kept
  <2>2. return_status => counter' < 3
    BY <1>0, <1>3 DEF ReadAgain, Kept
  <2>3. /\ return_status => pos' = "readrm" /\ counter' <= nvFaults'
        /\ ~return_status => pos' = "choose" /\ counter' <= nvFaults' + 1
        /\ part' = 1 /\ ~return_status'
    BY <1>0, <1>3, <2>2 DEF ReadAgain, Kept, GoTo
  <2> QED
    BY <1>0, <1>3, <2>1, <2>3 DEF ReadAgain, Kept, Reading, radioMemory, PartSet
<1>4. CASE Choose
  <2>1. counter # 3
    BY <1>0, <1>4 DEF Choose, Kept
  <2> QED
    BY <1>4, <2>1 DEF Choose, Kept, Reading, GoTo, radioMemory
<1>5. CASE Backup
  BY <1>5 DEF Backup, Kept, Reading, GoTo
<1>6. CASE \/ fat_write_content \/ WriteParams \/ WriteAgain \/ nvmem_set_mac_address
           \/ nvmem_write_patch("drv", "fw") \/ nvmem_write_patch("fw", "done")
  BY <1>6 DEF fat_write_content, WriteParams, WriteAgain, nvmem_set_mac_address,
              nvmem_write_patch, Kept, Reading, GoTo
<1> QED
  BY <1>1, <1>2, <1>3, <1>4, <1>5, <1>6 DEF ProgrammerStep

LEMMA StepBackedUp ==
    ASSUME DataOK, ControlOK, Kept, BackedUp, MaxNvFaults <= 1, ProgrammerStep
    PROVE  BackedUp'
<1>0. /\ eeprom \in Params /\ cRMParams \in Params /\ part \in Nat \ {0}
      /\ nvFaults \in Nat /\ nvFaults <= 1 /\ counter \in Nat
  BY ProgrammerSizes DEF DataOK, ControlOK
<1>1. CASE getMacAddress \/ ReadParams \/ ReadAgain
  BY <1>1 DEF getMacAddress, ReadParams, ReadAgain, BackedUp, Reading, GoTo, radioMemory
<1>2. CASE Choose
  <2>1. eeprom = All("blank") /\ eeprom[1] = "blank"
    BY <1>0, <1>2, AllIs DEF Choose, BackedUp
  <2>2. counter # 3 => \A p \in PartSet : eeprom[p] = "blank"
    BY <1>0, <2>1, AllIs
  <2> QED
    <3>1. counter # 3
      BY <1>0, <1>2 DEF Choose, Kept
    <3>2. pos' = "backup" /\ part' = 1 /\ eeprom' = eeprom
      BY <1>2, <2>1, <3>1 DEF Choose, GoTo, radioMemory
    <3>3. \A p \in PartSet : ~(p < 1)
      BY DEF PartSet
    <3> QED
      BY <2>2, <3>1, <3>2, <3>3 DEF BackedUp, Reading
<1>3. CASE Backup
  <2>1. /\ part \in PartSet /\ cRMParams[part] = "orig"
        /\ eeprom' = [eeprom EXCEPT ![part] = "orig"]
    <3>1. part \in PartSet
      BY <1>0, <1>3, ProgrammerSizes DEF Backup, ControlOK, PartSet
    <3>2. cRMParams = All("orig")
      BY <1>3 DEF Backup, Kept
    <3>3. cRMParams[part] = "orig"
      BY <1>0, <3>1, <3>2, AllIs
    <3> QED
      BY <1>3, <3>1, <3>3 DEF Backup
  <2>2. \A p \in PartSet : eeprom'[p] = IF p < part + 1 THEN "orig" ELSE "blank"
    BY <1>0, <1>3, <2>1 DEF Backup, BackedUp, Params, PartSet
  <2>3. CASE part = Parts
    <3>1. \A p \in PartSet : eeprom'[p] = "orig"
      BY <2>2, <2>3, ProgrammerSizes DEF PartSet
    <3>2. eeprom' \in Params
      BY <1>0, <2>1, PartWritten DEF Values
    <3>3. eeprom' = All("orig")
      BY <3>1, <3>2, AllIs
    <3> QED
      BY <1>3, <2>3, <3>3 DEF Backup, BackedUp, Reading, GoTo
  <2>4. CASE part # Parts
    BY <1>3, <2>2, <2>4 DEF Backup, BackedUp, Reading
  <2> QED
    BY <2>3, <2>4
<1>4. CASE \/ fat_write_content \/ WriteParams \/ WriteAgain \/ nvmem_set_mac_address
           \/ nvmem_write_patch("drv", "fw") \/ nvmem_write_patch("fw", "done")
  BY <1>4 DEF fat_write_content, WriteParams, WriteAgain, nvmem_set_mac_address,
              nvmem_write_patch, BackedUp, Reading, GoTo, radioMemory
<1> QED
  BY <1>1, <1>2, <1>3, <1>4 DEF ProgrammerStep

LEMMA NextRecoverable ==
    ASSUME DataOK, ControlOK, Recoverable, OneOfEach, [ProgrammerNext]_programmerVars
    PROVE  Recoverable'
<1>1. CASE ProgrammerStep
  <2>1. /\ Kept => Kept'
        /\ Holds("other") => Holds("other")'
        /\ Saved => Saved'
    BY <1>1, NextHolds, StepKept DEF OneOfEach, Values, Saved
  <2>2. crashes' = crashes
    BY <1>1 DEF ProgrammerStep, getMacAddress, ReadParams, ReadAgain, Choose, Backup,
       fat_write_content, WriteParams, WriteAgain, nvmem_set_mac_address, nvmem_write_patch
  <2>3. Kept /\ BackedUp => BackedUp'
    BY <1>1, StepBackedUp DEF OneOfEach
  <2> QED
    BY <2>1, <2>2, <2>3 DEF Recoverable
<1>2. CASE PowerFails
  <2>1. crashes = 0 /\ crashes' # 0
    BY <1>2, ProgrammerSizes DEF PowerFails, OneOfEach, ControlOK
  <2>2. CASE Holds("other")
    BY <1>2, <2>1, <2>2 DEF PowerFails, Recoverable, Holds, GoTo, radioMemory
  <2>3. CASE ~Holds("other") /\ pos \in Reading
    <3>1. Kept'
      BY <1>2, <2>1, <2>3, ProgrammerSizes DEF PowerFails, Recoverable, Kept, GoTo, Reading, radioMemory
    <3> QED
      BY <2>1, <3>1 DEF Recoverable
  <2>4. CASE ~Holds("other") /\ pos \notin Reading
    <3>1. eeprom = All("orig")
      BY <2>1, <2>4 DEF Recoverable, BackedUp
    <3>2. Saved'
      BY <1>2, <3>1 DEF PowerFails, Saved, Holds, GoTo, radioMemory
    <3> QED
      BY <2>1, <3>2 DEF Recoverable
  <2> QED
    BY <2>2, <2>3, <2>4
<1>3. CASE UNCHANGED programmerVars
  BY <1>3 DEF programmerVars, programmerRam, radioMemory, Recoverable, Kept, Saved, Holds, BackedUp
<1> QED
  BY <1>1, <1>2, <1>3 DEF ProgrammerNext

-----------------------------------------------------------------------------
(* The theorems.                                                            *)

(* Every variable keeps its type, and no attempt reads or writes a part or  *)
(* a portion that does not exist.                                           *)
THEOREM ProgrammerTypeCorrect == ProgrammerSpec => []ProgrammerTypeOK
<1>1. ProgrammerInit => DataOK /\ ControlOK
  BY InitTypeOK DEF ProgrammerTypeOK
<1>2. DataOK /\ ControlOK /\ [ProgrammerNext]_programmerVars => (DataOK /\ ControlOK)'
  BY NextDataOK, NextControlOK
<1> QED
  BY <1>1, <1>2, PTL DEF ProgrammerSpec, ProgrammerTypeOK

LEMMA ProgressAlways == ProgrammerSpec => []Progress
<1>1. DataOK /\ ControlOK /\ Progress /\ [ProgrammerNext]_programmerVars => Progress'
  BY NextProgress
<1> QED
  BY <1>1, InitProgress, ProgrammerTypeCorrect, PTL DEF ProgrammerSpec, ProgrammerTypeOK

(* "Patched!" is reported when both patches are whole, however many         *)
(* accesses fail and however often power is lost.                           *)
THEOREM DoneMeansPatchedThm == ProgrammerSpec => []DoneMeansPatched
<1>1. Progress => DoneMeansPatched
  BY DEF Progress, DoneMeansPatched
<1> QED
  BY <1>1, ProgressAlways, PTL

(* ... and when all the parameters that were to be written are there, and   *)
(* the MAC address, if it could be read.                                    *)
THEOREM DoneMeansRestoredThm == ProgrammerSpec => []DoneMeansRestored
<1>1. Progress => DoneMeansRestored
  BY DEF Progress, DoneMeansRestored
<1> QED
  BY <1>1, ProgressAlways, PTL

(* If one access fails and power is lost once, whenever that is, the radio's*)
(* own parameters can still be had: from the radio, from what will be       *)
(* written to it, or from the EEPROM.  That is so on a board whose EEPROM   *)
(* was new; where it was in use they are safe until power is lost, as no    *)
(* backup is made.  With this, all that the programmer promises.            *)
THEOREM ProgrammerSoundThm ==
    ASSUME MaxNvFaults <= 1, MaxCrashes <= 1
    PROVE  ProgrammerSpec => []ProgrammerSound
<1>1. DataOK /\ ControlOK /\ Recoverable /\ [ProgrammerNext]_programmerVars => Recoverable'
  BY NextRecoverable DEF OneOfEach
<1>2. ASSUME ControlOK, Recoverable PROVE ParamsRecoverable
  <2>1. Kept => ParamsAtHand
    BY DEF Kept, Reading, ParamsAtHand
  <2>2. Saved => ParamsAtHand
    BY DEF Saved, Holds, ParamsAtHand
  <2>3. crashes = 0 \/ crashes > 0
    BY <1>2, ProgrammerSizes DEF ControlOK
  <2> QED
    BY <1>2, <2>1, <2>2, <2>3 DEF Recoverable, Holds, Occupied, ParamsRecoverable
<1>3. DoneMeansPatched /\ DoneMeansRestored /\ ParamsRecoverable => ProgrammerSound
  BY DEF ProgrammerSound
<1> QED
  BY <1>1, <1>2, <1>3, InitRecoverable, ProgrammerTypeCorrect, DoneMeansPatchedThm,
     DoneMeansRestoredThm, PTL DEF ProgrammerSpec, ProgrammerTypeOK

-----------------------------------------------------------------------------
(* The enrolment of a finger.                                               *)

EnrolmentStages ==
    {"loop", "image1", "convert1", "remove", "image2", "convert2", "model", "store"}

LEMMA StageOrder ==
    /\ Follower("image1") = "convert1" /\ Follower("convert1") = "remove"
    /\ Follower("image2") = "convert2" /\ Follower("convert2") = "model"
<1> DEFINE there(s) == CHOOSE n \in 1 .. 6 : Stages[n] = s
<1>1. /\ Stages[1] = "image1" /\ Stages[2] = "convert1" /\ Stages[3] = "remove"
      /\ Stages[4] = "image2" /\ Stages[5] = "convert2" /\ Stages[6] = "model"
  BY DEF Stages
<1>2. \A n \in 1 .. 6 : n = 1 \/ n = 2 \/ n = 3 \/ n = 4 \/ n = 5 \/ n = 6
  OBVIOUS
<1>3. there("image1") = 1 /\ there("convert1") = 2 /\ there("image2") = 4 /\ there("convert2") = 5
  BY <1>1, <1>2
<1>4. \A s : Follower(s) = Stages[1 + there(s)]
  BY DEF Follower
<1> HIDE DEF there
<1>5. /\ Follower("image1") = Stages[2] /\ Follower("convert1") = Stages[3]
      /\ Follower("image2") = Stages[5] /\ Follower("convert2") = Stages[6]
  BY <1>3, <1>4
<1> QED BY <1>1, <1>5

SensorTypeOK ==
    /\ finger \in Sure /\ image \in Sure /\ model \in Sure
    /\ slots \in [1 .. 2 -> Sure] /\ library \in [Ids -> Sure]
    /\ stage \in EnrolmentStages

(* The place is the number the digits mean, in a byte.                      *)
PlaceOK == typed \in Nat /\ id = typed % ByteValues /\ keys \in Seq(0 .. 10)

(* What the stages before this one have left in the sensor.                 *)
Reached(s, im, sl, mo) ==
    /\ s \notin {"loop", "image1"} => im # NoFinger
    /\ s \in {"remove", "image2", "convert2", "model", "store"} => sl[1] # NoFinger
    /\ s = "store" => sl[1] = sl[2] /\ mo = sl[1]

(* What the result r of the command that belongs to stage s means.          *)
Meant(s, r, im, sl, mo, lib, place, sn) ==
    /\ s \in {"image1", "image2"} /\ r = OK => im # NoFinger
    /\ s = "convert1" /\ r = OK => sl[1] # NoFinger
    /\ s = "remove" /\ r = NOFINGER => sn = NOFINGER
    /\ s = "model" /\ r = OK => sl[1] = sl[2] /\ mo = sl[1]
    /\ s = "store" /\ r = OK => place \in Ids /\ lib[place] = mo
True(r) == Meant(stage, r, image, slots, model, library, id, seen)

(* A part of the reply to the last command.                                 *)
Is(p, half) == p.part = half /\ True(p.result)

(* At most one command is on its way, or what has come of its reply.        *)
OnTheLine ==
    IF ~waiting THEN asked = <<>> /\ serial = <<>> /\ front = <<>>
    ELSE /\ stage # "loop"
         /\ \/ /\ serial = <<>> /\ front = <<>>
               /\ \E n \in Nat : asked = <<[cmd |-> CommandOf(stage), seq |-> n, id |-> id,
                                            slot |-> IF stage = "convert1" THEN 1 ELSE 2]>>
            \/ /\ asked = <<>> /\ front = <<>>
               /\ \/ serial = <<>>
                  \/ \E f : Is(f, "front") /\ serial = <<f>>
                  \/ \E b : Is(b, "back") /\ serial = <<b>>
                  \/ \E f, b : Is(f, "front") /\ Is(b, "back") /\ serial = <<f, b>>
            \/ /\ asked = <<>>
               /\ \E f : front = <<f>>
               /\ serial = <<>> \/ \E b : Is(b, "back") /\ serial = <<b>>

(* Until a reply comes later than its timeout.                              *)
InTime ==
    /\ SensorTypeOK /\ PlaceOK /\ seq \in Nat
    /\ OnTheLine /\ Reached(stage, image, slots, model)
EnrolmentInv == lag \in Nat /\ (lag = 0 => InTime)

-----------------------------------------------------------------------------
(* The sensor's side.                                                       *)

(* The command c is executed with the result r.                             *)
Executes(c, r) ==
    \/ /\ c.cmd = "GETIMAGE" /\ seen' = (IF finger = NoFinger THEN NOFINGER ELSE OK)
       /\ IF finger = NoFinger THEN image' = image /\ r = NOFINGER
          ELSE image' = finger /\ r = OK
       /\ UNCHANGED <<slots, model, library>>
    \/ /\ c.cmd = "IMAGE2TZ"
       /\ \/ slots' = [slots EXCEPT ![c.slot] = image] /\ r = OK
          \/ slots' = slots /\ r = MESS
       /\ UNCHANGED <<image, model, library, seen>>
    \/ /\ c.cmd = "REGMODEL"
       /\ IF slots[1] = slots[2] THEN model' = slots[1] /\ r = OK
          ELSE model' = model /\ r = ENROLLMISMATCH
       /\ UNCHANGED <<image, slots, library, seen>>
    \/ /\ c.cmd = "STORE"
       /\ \/ c.id \in Ids /\ library' = [library EXCEPT ![c.id] = model] /\ r = OK
          \/ c.id \in Ids /\ library' = library /\ r = FLASHERR
          \/ c.id \notin Ids /\ library' = library /\ r = BADLOCATION
       /\ UNCHANGED <<image, slots, model, seen>>

(* The reply is put on the line, all of it or one of its parts.             *)
Replies(n, r) ==
    \/ serial' = serial \o AnswerTo(n, r)
    \/ \E k \in 1 .. 2 : serial' = Append(serial, AnswerTo(n, r)[k])

LEMMA SensorActs ==
    ASSUME Sensor
    PROVE  /\ asked # <<>> /\ asked' = Tail(asked)
           /\ UNCHANGED <<finger, enrollVars, seq, lag>>
           /\ \E r : Executes(Head(asked), r) /\ Replies(Head(asked).seq, r)
<1>1. PICK c : c = Head(asked)
  OBVIOUS
<1> DEFINE reply(r) ==
        \/ serial' = serial \o AnswerTo(c.seq, r) /\ lost' = lost
        \/ /\ lost < MaxLosses /\ lost' = lost + 1
           /\ \E n \in 1 .. 2 : serial' = Append(serial, AnswerTo(c.seq, r)[n])
<1>2. \A r : reply(r) => Replies(c.seq, r)
  BY DEF Replies
<1> HIDE DEF reply
<1>3. \/ /\ c.cmd = "GETIMAGE" /\ seen' = (IF finger = NoFinger THEN NOFINGER ELSE OK)
         /\ IF finger = NoFinger THEN image' = image /\ reply(NOFINGER)
            ELSE image' = finger /\ reply(OK)
         /\ UNCHANGED <<slots, model, library>>
      \/ /\ c.cmd = "IMAGE2TZ"
         /\ \/ slots' = [slots EXCEPT ![c.slot] = image] /\ reply(OK)
            \/ slots' = slots /\ reply(MESS)
         /\ UNCHANGED <<image, model, library, seen>>
      \/ /\ c.cmd = "REGMODEL"
         /\ IF slots[1] = slots[2] THEN model' = slots[1] /\ reply(OK)
            ELSE model' = model /\ reply(ENROLLMISMATCH)
         /\ UNCHANGED <<image, slots, library, seen>>
      \/ /\ c.cmd = "STORE"
         /\ \/ c.id \in Ids /\ library' = [library EXCEPT ![c.id] = model] /\ reply(OK)
            \/ c.id \in Ids /\ library' = library /\ reply(FLASHERR)
            \/ c.id \notin Ids /\ library' = library /\ reply(BADLOCATION)
         /\ UNCHANGED <<image, slots, model, seen>>
  BY <1>1 DEF Sensor, reply
<1>4. \E r : Executes(c, r) /\ reply(r)
  <2>1. CASE c.cmd = "GETIMAGE"
    <3>1. \E r \in {OK, NOFINGER} : Executes(c, r) /\ reply(r)
      BY <1>3, <2>1 DEF Executes
    <3> QED BY <3>1
  <2>2. CASE c.cmd = "IMAGE2TZ"
    <3>1. \E r \in {OK, MESS} : Executes(c, r) /\ reply(r)
      BY <1>3, <2>2 DEF Executes
    <3> QED BY <3>1
  <2>3. CASE c.cmd = "REGMODEL"
    <3>1. \E r \in {OK, ENROLLMISMATCH} : Executes(c, r) /\ reply(r)
      BY <1>3, <2>3 DEF Executes
    <3> QED BY <3>1
  <2>4. CASE c.cmd = "STORE"
    <3>1. \E r \in {OK, FLASHERR, BADLOCATION} : Executes(c, r) /\ reply(r)
      BY <1>3, <2>4 DEF Executes
    <3> QED BY <3>1
  <2> QED BY <1>3, <2>1, <2>2, <2>3, <2>4
<1>5. \E r : Executes(c, r) /\ Replies(c.seq, r)
  BY <1>2, <1>4
<1> QED BY <1>1, <1>5 DEF Sensor

(* A command executed for its stage: what the sensor holds afterwards, and  *)
(* the result r it answers with.                                            *)
LEMMA Executed ==
    ASSUME SensorTypeOK, Reached(stage, image, slots, model), NEW c, NEW n, stage # "loop",
           c = [cmd |-> CommandOf(stage), seq |-> n, id |-> id,
                slot |-> IF stage = "convert1" THEN 1 ELSE 2],
           NEW r, Executes(c, r)
    PROVE  /\ image' \in Sure /\ model' \in Sure
           /\ slots' \in [1 .. 2 -> Sure] /\ library' \in [Ids -> Sure]
           /\ Reached(stage, image', slots', model')
           /\ Meant(stage, r, image', slots', model', library', id, seen')
<1> USE DEF Executes
<1>1. /\ c.cmd = CommandOf(stage) /\ c.id = id
      /\ c.slot = IF stage = "convert1" THEN 1 ELSE 2
  OBVIOUS
<1>2. /\ OK # NOFINGER /\ OK # MESS /\ OK # ENROLLMISMATCH
      /\ OK # FLASHERR /\ OK # BADLOCATION
  BY DEF OK, NOFINGER, MESS, ENROLLMISMATCH, FLASHERR, BADLOCATION
<1>3. /\ finger \in Sure /\ image \in Sure /\ model \in Sure
      /\ slots \in [1 .. 2 -> Sure] /\ library \in [Ids -> Sure] /\ stage \in EnrolmentStages
  BY DEF SensorTypeOK
<1>4. CASE c.cmd = "GETIMAGE"
  <2>1. stage \in {"image1", "remove", "image2"}
    BY <1>1, <1>4 DEF CommandOf
  <2>2. UNCHANGED <<slots, model, library>>
    BY <1>4
  <2>3. image' \in Sure /\ (image # NoFinger => image' # NoFinger) /\ (r = OK => image' # NoFinger)
    BY <1>2, <1>3, <1>4
  <2>4. r = NOFINGER => seen' = NOFINGER
    BY <1>2, <1>4
  <2> QED BY <2>1, <2>2, <2>3, <2>4, <1>3 DEF Reached, Meant
<1>5. CASE c.cmd = "IMAGE2TZ"
  <2>1. stage \in {"convert1", "convert2"}
    BY <1>1, <1>3, <1>5 DEF CommandOf, EnrolmentStages
  <2>2. UNCHANGED <<image, model, library, seen>> /\ image # NoFinger
    BY <1>5, <2>1 DEF Reached
  <2>3. CASE stage = "convert1"
    <3>1. \/ slots' = [slots EXCEPT ![1] = image] /\ r = OK
          \/ slots' = slots /\ r = MESS
      BY <1>1, <1>5, <2>3
    <3>2. slots' \in [1 .. 2 -> Sure] /\ (r = OK => slots'[1] # NoFinger)
      BY <3>1, <1>2, <1>3, <2>2
    <3> QED BY <3>2, <2>2, <2>3, <1>3 DEF Reached, Meant
  <2>4. CASE stage = "convert2"
    <3>1. \/ slots' = [slots EXCEPT ![2] = image]
          \/ slots' = slots
      BY <1>1, <1>5, <2>4
    <3>2. slots' \in [1 .. 2 -> Sure] /\ slots'[1] = slots[1]
      BY <3>1, <1>3
    <3> QED BY <3>2, <2>2, <2>4, <1>3 DEF Reached, Meant
  <2> QED BY <2>1, <2>3, <2>4
<1>6. CASE c.cmd = "REGMODEL"
  <2>1. stage = "model"
    BY <1>1, <1>3, <1>6 DEF CommandOf, EnrolmentStages
  <2>2. UNCHANGED <<image, slots, library, seen>>
    BY <1>6
  <2>3. model' \in Sure /\ (r = OK => slots[1] = slots[2] /\ model' = slots[1])
    <3>1. slots[1] \in Sure
      BY <1>3
    <3> QED BY <3>1, <1>2, <1>3, <1>6
  <2> QED BY <2>1, <2>2, <2>3, <1>3 DEF Reached, Meant
<1>7. CASE c.cmd = "STORE"
  <2>1. stage = "store"
    BY <1>1, <1>3, <1>7 DEF CommandOf, EnrolmentStages
  <2>2. UNCHANGED <<image, slots, model, seen>>
    BY <1>7
  <2>3. library' \in [Ids -> Sure] /\ (r = OK => id \in Ids /\ library'[id] = model)
    BY <1>1, <1>2, <1>3, <1>7
  <2> QED BY <2>1, <2>2, <2>3, <1>3 DEF Reached, Meant
<1> QED BY <1>4, <1>5, <1>6, <1>7

LEMMA SensorKept == InTime /\ Sensor => InTime'
<1> SUFFICES ASSUME InTime, Sensor PROVE InTime'
  OBVIOUS
<1>1. SensorTypeOK /\ PlaceOK /\ seq \in Nat /\ OnTheLine /\ Reached(stage, image, slots, model)
  BY DEF InTime
<1>2. /\ asked # <<>> /\ asked' = Tail(asked)
      /\ UNCHANGED <<keys, id, typed>>
      /\ finger' = finger /\ stage' = stage /\ waiting' = waiting /\ front' = front
      /\ seq' = seq /\ lag' = lag
  BY SensorActs DEF enrollVars
<1>3. PICK r : Executes(Head(asked), r) /\ Replies(Head(asked).seq, r)
  BY SensorActs
<1>4. waiting /\ stage # "loop" /\ serial = <<>> /\ front = <<>>
  BY <1>1, <1>2 DEF OnTheLine
<1>5. PICK n \in Nat : asked = <<[cmd |-> CommandOf(stage), seq |-> n, id |-> id,
                                  slot |-> IF stage = "convert1" THEN 1 ELSE 2]>>
  BY <1>1, <1>2, <1>4 DEF OnTheLine
<1>6. PICK c : c = [cmd |-> CommandOf(stage), seq |-> n, id |-> id,
                    slot |-> IF stage = "convert1" THEN 1 ELSE 2]
  OBVIOUS
<1>7. Head(asked) = c /\ asked' = <<>>
  BY <1>2, <1>5, <1>6
<1>8. /\ image' \in Sure /\ model' \in Sure
      /\ slots' \in [1 .. 2 -> Sure] /\ library' \in [Ids -> Sure]
      /\ Reached(stage, image', slots', model')
      /\ Meant(stage, r, image', slots', model', library', id, seen')
  BY <1>1, <1>3, <1>4, <1>6, <1>7, Executed
<1>9. True(r)'
  BY <1>2, <1>8 DEF True
<1>10. PICK f, b : /\ f = [part |-> "front", seq |-> c.seq, result |-> r]
                   /\ b = [part |-> "back", seq |-> c.seq, result |-> r]
  OBVIOUS
<1>11. Is(f, "front")' /\ Is(b, "back")'
  BY <1>9, <1>10 DEF Is
<1>12. serial' = <<f, b>> \/ serial' = <<f>> \/ serial' = <<b>>
  <2>1. AnswerTo(c.seq, r) = <<f, b>>
    BY <1>10 DEF AnswerTo
  <2>2. \/ serial' = <<>> \o <<f, b>>
        \/ \E k \in 1 .. 2 : serial' = Append(<<>>, <<f, b>>[k])
    BY <2>1, <1>3, <1>4, <1>7 DEF Replies
  <2>3. <<>> \o <<f, b>> = <<f, b>> /\ \A k \in 1 .. 2 : Append(<<>>, <<f, b>>[k]) \in {<<f>>, <<b>>}
    OBVIOUS
  <2> QED BY <2>2, <2>3
<1>13. OnTheLine'
  BY <1>2, <1>4, <1>7, <1>11, <1>12 DEF OnTheLine
<1>14. SensorTypeOK'
  BY <1>1, <1>2, <1>8 DEF SensorTypeOK
<1>15. PlaceOK'
  BY <1>1, <1>2 DEF PlaceOK
<1> QED BY <1>1, <1>2, <1>8, <1>13, <1>14, <1>15 DEF InTime

-----------------------------------------------------------------------------
(* The sketch's side.                                                       *)

LEMMA EnrollIs ==
    ASSUME stage \in EnrolmentStages, NEW r, True(r), Reached(stage, image, slots, model), Enroll(r)
    PROVE  /\ stage' \in EnrolmentStages
           /\ Reached(stage', image, slots, model)
           /\ stage = "store" /\ stage' # stage /\ told' = "stored" => StoredAt(id)
           /\ stage = "remove" /\ stage' = "image2" => seen = NOFINGER
<1>1. CASE stage = "image1"
  <2>1. stage' = (IF r = OK THEN "convert1" ELSE "image1")
    BY <1>1, StageOrder DEF Enroll
  <2> QED BY <1>1, <2>1 DEF Reached, EnrolmentStages, True, Meant
<1>2. CASE stage = "image2"
  <2>1. stage' = (IF r = OK THEN "convert2" ELSE "image2")
    BY <1>2, StageOrder DEF Enroll
  <2> QED BY <1>2, <2>1 DEF Reached, EnrolmentStages, True, Meant
<1>3. CASE stage = "remove"
  <2>1. stage' = (IF r = NOFINGER THEN "image2" ELSE "remove")
    BY <1>3 DEF Enroll, Lifted
  <2> QED BY <1>3, <2>1 DEF Reached, EnrolmentStages, True, Meant
<1>4. CASE stage = "convert1"
  <2>1. IF r = OK THEN stage' = "remove" ELSE stage' = "loop"
    BY <1>4, StageOrder DEF Enroll, Stop
  <2> QED BY <1>4, <2>1 DEF Reached, EnrolmentStages, True, Meant
<1>5. CASE stage = "convert2"
  <2>1. IF r = OK THEN stage' = "model" ELSE stage' = "loop"
    BY <1>5, StageOrder DEF Enroll, Stop
  <2> QED BY <1>5, <2>1 DEF Reached, EnrolmentStages, True, Meant
<1>6. CASE stage = "model"
  <2>1. IF r = OK THEN stage' = "store" ELSE stage' = "loop"
    BY <1>6 DEF Enroll, AfterModel, Stop
  <2> QED BY <1>6, <2>1 DEF Reached, EnrolmentStages, True, Meant
<1>7. CASE stage = "store"
  <2>1. AfterStore(r)
    BY <1>7 DEF Enroll
  <2>2. CASE r = OK
    <3>1. told' = "stored" /\ stage' \in {"loop", "image1"}
      BY <2>1, <2>2 DEF AfterStore
    <3>2. /\ id \in Ids /\ library[id] = model
          /\ model = slots[1] /\ slots[1] = slots[2] /\ slots[1] # NoFinger
      BY <1>7, <2>2 DEF Reached, True, Meant
    <3> QED BY <1>7, <3>1, <3>2 DEF Reached, EnrolmentStages, StoredAt
  <2>3. CASE r # OK
    <3>1. told' = "error" /\ stage' = "loop"
      BY <2>1, <2>3 DEF AfterStore, Stop
    <3> QED BY <1>7, <3>1 DEF Reached, EnrolmentStages
  <2> QED BY <2>2, <2>3
<1> QED BY <1>1, <1>2, <1>3, <1>4, <1>5, <1>6, <1>7 DEF Enroll

LEMMA TypesKept ==
    ASSUME InTime, NEW line \in Lines, Types(line)
    PROVE  InTime'
<1>1. SensorTypeOK /\ PlaceOK /\ seq \in Nat /\ OnTheLine /\ Reached(stage, image, slots, model)
  BY DEF InTime
<1>2. /\ keys' = line
      /\ UNCHANGED <<finger, image, slots, model, library, asked, serial, stage, id, typed,
                     waiting, front, seq, seen>>
  BY DEF Types, sensorVars
<1>3. OnTheLine' /\ SensorTypeOK'
  BY <1>1, <1>2 DEF OnTheLine, SensorTypeOK, Is, True
<1>4. PlaceOK'
  BY <1>1, <1>2, FingerprintAssumption DEF PlaceOK
<1> QED BY <1>1, <1>2, <1>3, <1>4 DEF InTime

(* A byte that wraps at every digit has wrapped as the whole number would.  *)
LEMMA DigitWraps ==
    ASSUME NEW n \in Nat, NEW d \in 0 .. 10
    PROVE  ((n % ByteValues) * 10 + d) % ByteValues = (n * 10 + d) % ByteValues
BY DEF ByteValues

LEMMA ReadKeyKept == InTime /\ ReadKey => InTime'
<1> SUFFICES ASSUME InTime, ReadKey PROVE InTime'
  OBVIOUS
<1>1. SensorTypeOK /\ PlaceOK /\ seq \in Nat /\ OnTheLine
  BY DEF InTime
<1>2. /\ stage = "loop" /\ keys # <<>> /\ keys' = Tail(keys)
      /\ UNCHANGED <<finger, image, slots, model, library, asked, serial, waiting, front, seq>>
      /\ stage' \in {"loop", "image1"}
  BY DEF ReadKey, sensorVars
<1>3. ~waiting /\ asked = <<>> /\ serial = <<>> /\ front = <<>>
  BY <1>1, <1>2 DEF OnTheLine
<1>4. OnTheLine'
  BY <1>2, <1>3 DEF OnTheLine
<1>5. SensorTypeOK'
  BY <1>1, <1>2 DEF SensorTypeOK, EnrolmentStages
<1>6. Reached(stage', image', slots', model')
  BY <1>2 DEF Reached
<1>7. typed \in Nat /\ id = typed % ByteValues /\ keys \in Seq(0 .. 10)
  BY <1>1 DEF PlaceOK
<1>8. keys' \in Seq(0 .. 10) /\ Head(keys) \in 0 .. 10
  BY <1>2, <1>7
<1>9. ASSUME UNCHANGED <<id, typed>> PROVE PlaceOK'
  BY <1>7, <1>8, <1>9 DEF PlaceOK
<1>10. ASSUME ~UNCHANGED <<id, typed>> PROVE PlaceOK'
  <2>1. PICK d \in 0 .. 10 : d = Head(keys)
    BY <1>8
  <2>2. id' = (id * 10 + d) % ByteValues /\ typed' = typed * 10 + d
    BY <1>10, <2>1 DEF ReadKey
  <2>3. ((typed % ByteValues) * 10 + d) % ByteValues = (typed * 10 + d) % ByteValues
    BY <1>7, DigitWraps
  <2>4. typed' \in Nat
    BY <1>7, <2>2
  <2>5. id' = typed' % ByteValues
    BY <1>7, <2>2, <2>3, Zenon
  <2> QED BY <1>8, <2>4, <2>5 DEF PlaceOK
<1> QED BY <1>1, <1>2, <1>4, <1>5, <1>6, <1>9, <1>10 DEF InTime

LEMMA WriteKept == InTime /\ writePacket => InTime'
<1> SUFFICES ASSUME InTime, writePacket PROVE InTime'
  OBVIOUS
<1>1. SensorTypeOK /\ PlaceOK /\ seq \in Nat /\ OnTheLine /\ Reached(stage, image, slots, model)
  BY DEF InTime
<1>2. PICK c : c = [cmd |-> CommandOf(stage), seq |-> seq + 1, id |-> id,
                    slot |-> IF stage = "convert1" THEN 1 ELSE 2]
  OBVIOUS
<1>3. /\ stage # "loop" /\ ~waiting /\ waiting' = TRUE /\ front' = <<>> /\ seq' = seq + 1
      /\ asked' = Append(asked, c)
      /\ UNCHANGED <<finger, image, slots, model, library, serial, stage, keys, id, typed>>
  BY <1>2 DEF writePacket
<1>4. asked = <<>> /\ serial = <<>>
  BY <1>1, <1>3 DEF OnTheLine
<1>5. asked' = <<c>> /\ seq + 1 \in Nat
  BY <1>1, <1>3, <1>4
<1>6. PICK n \in Nat : n = seq + 1
  BY <1>5
<1>7. asked' = <<[cmd |-> CommandOf(stage'), seq |-> n, id |-> id',
                  slot |-> IF stage' = "convert1" THEN 1 ELSE 2]>>
  BY <1>2, <1>3, <1>5, <1>6
<1>8. OnTheLine'
  BY <1>3, <1>4, <1>7 DEF OnTheLine
<1>9. SensorTypeOK'
  BY <1>1, <1>3 DEF SensorTypeOK
<1>10. PlaceOK'
  BY <1>1, <1>3 DEF PlaceOK
<1> QED BY <1>1, <1>3, <1>5, <1>8, <1>9, <1>10 DEF InTime

(* A result ends the wait: nothing of the reply is left.                    *)
LEMMA ResultKept ==
    ASSUME InTime, NEW r, True(r), Enroll(r), ~waiting', front' = <<>>, serial' = <<>>,
           asked = <<>>, Prompt, UNCHANGED <<sensorVars, keys, seq>>
    PROVE  InTime'
<1>1. SensorTypeOK /\ PlaceOK /\ seq \in Nat /\ Reached(stage, image, slots, model) /\ stage \in EnrolmentStages
  BY DEF InTime, SensorTypeOK
<1>2. stage' \in EnrolmentStages /\ Reached(stage', image, slots, model)
  BY <1>1, EnrollIs
<1>3. UNCHANGED <<finger, image, slots, model, library, asked, seq>>
  BY DEF sensorVars
<1>4. SensorTypeOK'
  BY <1>1, <1>2, <1>3 DEF SensorTypeOK
<1>5. OnTheLine'
  BY <1>3 DEF OnTheLine
<1>6. PlaceOK'
  BY <1>1 DEF PlaceOK, Prompt, ByteValues
<1> QED BY <1>1, <1>2, <1>3, <1>4, <1>5, <1>6 DEF InTime

(* A part that is no result: the wait goes on.                              *)
LEMMA PartKept ==
    ASSUME InTime, waiting, asked = <<>>,
           UNCHANGED <<sensorVars, keys, id, typed, seq, seen, waiting, stage>>,
           \/ serial' = <<>>
           \/ \E b : Is(b, "back") /\ serial' = <<b>>,
           front' = <<>> \/ \E f : front' = <<f>>
    PROVE  InTime'
<1>1. SensorTypeOK /\ PlaceOK /\ seq \in Nat /\ Reached(stage, image, slots, model) /\ OnTheLine
  BY DEF InTime
<1>2. UNCHANGED <<finger, image, slots, model, library, asked, keys, id, typed, seq, seen,
                  waiting, stage>>
  BY DEF sensorVars
<1>3. SensorTypeOK'
  BY <1>1, <1>2 DEF SensorTypeOK
<1>4. serial' = <<>> \/ \E b : Is(b, "back")' /\ serial' = <<b>>
  BY <1>2 DEF Is, True
<1>5. stage # "loop"
  BY <1>1 DEF OnTheLine
<1>6. OnTheLine'
  BY <1>2, <1>4, <1>5 DEF OnTheLine
<1>7. PlaceOK'
  BY <1>1, <1>2 DEF PlaceOK
<1> QED BY <1>1, <1>2, <1>3, <1>6, <1>7 DEF InTime

(* What an enrolment may do with a result.                                  *)
Rightly ==
    /\ stage = "store" /\ stage' # stage /\ told' = "stored" => StoredAt(typed % ByteValues)
    /\ stage = "remove" /\ stage' = "image2" => seen = NOFINGER

LEMMA EnrollRightly ==
    ASSUME InTime, NEW r, True(r), Enroll(r)
    PROVE  Rightly
<1>1. /\ stage \in EnrolmentStages /\ Reached(stage, image, slots, model)
      /\ id = typed % ByteValues
  BY DEF InTime, SensorTypeOK, PlaceOK
<1> QED BY <1>1, EnrollIs DEF Rightly

LEMMA ReadKept == ASSUME InTime, ReadPart PROVE InTime' /\ Rightly
<1>1. PICK p : p = Head(serial)
  OBVIOUS
<1>2. /\ waiting /\ serial # <<>> /\ serial' = Tail(serial) /\ Prompt
      /\ UNCHANGED <<sensorVars, keys, seq, seen>>
  BY DEF ReadPart
<1>3. OnTheLine
  BY DEF InTime
<1>4. asked = <<>>
  BY <1>2, <1>3 DEF OnTheLine
<1>5. \/ /\ Ignored(p) /\ UNCHANGED <<waiting, front, stage, told>>
      \/ /\ ~Ignored(p) /\ front = <<>> /\ front' = <<p>>
         /\ UNCHANGED <<waiting, stage, told>>
      \/ /\ front # <<>> /\ front' = <<>> /\ waiting' = FALSE
         /\ Enroll(IF p.part = "back" THEN p.result ELSE Failed)
  BY <1>1 DEF ReadPart
<1>6. CASE front = <<>>
  <2>1. UNCHANGED <<waiting, stage>>
    BY <1>5, <1>6
  <2>2. front' = <<>> \/ \E f : front' = <<f>>
    BY <1>5, <1>6
  <2>3. \/ \E f : Is(f, "front") /\ serial = <<f>>
        \/ \E b : Is(b, "back") /\ serial = <<b>>
        \/ \E f, b : Is(f, "front") /\ Is(b, "back") /\ serial = <<f, b>>
    BY <1>2, <1>3, <1>4, <1>6 DEF OnTheLine
  <2>4. \A x, y : Tail(<<x>>) = <<>> /\ Tail(<<x, y>>) = <<y>>
    OBVIOUS
  <2>5. serial' = <<>> \/ \E b : Is(b, "back") /\ serial' = <<b>>
    BY <1>2, <2>3, <2>4
  <2>6. UNCHANGED <<id, typed>>
    BY <1>2, <1>3, <2>1 DEF Prompt, OnTheLine
  <2>7. InTime'
    BY <1>2, <1>4, <2>1, <2>2, <2>5, <2>6, PartKept
  <2>8. Rightly
    BY <2>1 DEF Rightly
  <2> QED BY <2>7, <2>8
<1>7. CASE front # <<>>
  <2>1. PICK b : Is(b, "back") /\ serial = <<b>>
    BY <1>2, <1>3, <1>4, <1>7 DEF OnTheLine
  <2>2. Head(<<b>>) = b /\ Tail(<<b>>) = <<>>
    OBVIOUS
  <2>3. p = b /\ serial' = <<>>
    BY <1>1, <1>2, <2>1, <2>2
  <2>4. p.part = "back" /\ True(p.result)
    BY <2>1, <2>3 DEF Is
  <2>5. front' = <<>> /\ ~waiting' /\ Enroll(p.result)
    BY <1>5, <1>7, <2>4 DEF Ignored
  <2>6. PICK r : r = p.result
    OBVIOUS
  <2>7. True(r) /\ Enroll(r)
    BY <2>4, <2>5, <2>6
  <2> QED BY <1>2, <1>4, <2>3, <2>5, <2>7, ResultKept, EnrollRightly
<1> QED BY <1>6, <1>7

LEMMA TimeoutKept ==
    ASSUME InTime, Timeout, lag \in Nat
    PROVE  (lag' = lag => InTime') /\ Rightly
<1>1. /\ serial = <<>> /\ ~waiting' /\ front' = <<>> /\ Enroll(Failed)
      /\ Prompt /\ UNCHANGED <<sensorVars, keys, serial, seq>>
      /\ lag' = lag => asked = <<>>
  BY DEF Timeout
<1>2. PICK r : r = Failed
  OBVIOUS
<1>3. r # OK /\ r # NOFINGER /\ Enroll(r)
  BY <1>1, <1>2 DEF Failed, OK, NOFINGER
<1>4. True(r)
  BY <1>3 DEF True, Meant
<1> QED BY <1>1, <1>3, <1>4, ResultKept, EnrollRightly

(* An enrolment, whatever the line loses: "Stored!" is printed only when    *)
(* the sensor holds, in the place that was typed in, modulo 256, the model  *)
(* of a finger that was imaged twice, and between the images it has seen no *)
(* finger, as long as no reply has come after its timeout.                  *)
THEOREM EnrolmentSoundThm == FingerprintSpec => EnrolmentSound
<1>1. FingerprintInit => EnrolmentInv
  <2> SUFFICES ASSUME FingerprintInit PROVE EnrolmentInv
    OBVIOUS
  <2>1. SensorTypeOK
    BY DEF FingerprintInit, SensorTypeOK, Sure, EnrolmentStages
  <2>3. PlaceOK
    BY DEF FingerprintInit, PlaceOK, ByteValues
  <2>2. OnTheLine /\ Reached(stage, image, slots, model)
    BY DEF FingerprintInit, OnTheLine, Reached
  <2> QED BY <2>1, <2>2, <2>3 DEF FingerprintInit, EnrolmentInv, InTime
<1>2. EnrolmentInv /\ [FingerprintNext]_fingerVars => EnrolmentInv' /\ (lag = 0 => Rightly)
  <2> SUFFICES ASSUME EnrolmentInv, [FingerprintNext]_fingerVars
               PROVE  EnrolmentInv' /\ (lag = 0 => Rightly)
    OBVIOUS
  <2>1. lag \in Nat /\ (lag' = lag \/ lag' = lag + 1)
    BY DEF EnrolmentInv, FingerprintNext, fingerVars, Finger, Sensor, Types, ReadKey, writePacket,
           ReadPart, Timeout
  <2>2. lag' \in Nat /\ (lag' = 0 => lag = 0 /\ lag' = lag)
    BY <2>1
  <2>3. ASSUME lag = 0 PROVE (lag' = lag => InTime') /\ Rightly
    <3>1. InTime
      BY <2>3 DEF EnrolmentInv
    <3>2. CASE Finger
      <4>1. /\ finger' \in Sure
            /\ UNCHANGED <<image, slots, model, library, asked, serial, stage, keys, id, typed,
                           waiting, front, seq, seen>>
        BY <3>2 DEF Finger, enrollVars
      <4>2. OnTheLine' /\ SensorTypeOK'
        BY <3>1, <4>1 DEF InTime, OnTheLine, SensorTypeOK, Is, True
      <4>3. PlaceOK'
        BY <3>1, <4>1 DEF InTime, PlaceOK
      <4> QED BY <3>1, <4>1, <4>2, <4>3 DEF InTime, Rightly
    <3>3. CASE Sensor
      <4>1. stage' = stage
        BY <3>3, SensorActs DEF enrollVars
      <4> QED BY <3>1, <3>3, <4>1, SensorKept DEF Rightly
    <3>4. CASE ReadKey \/ \E line \in Lines : Types(line)
      <4>1. stage = "loop"
        BY <3>4 DEF ReadKey, Types
      <4> QED BY <3>1, <3>4, <4>1, TypesKept, ReadKeyKept DEF Rightly
    <3>5. CASE writePacket
      <4>1. stage' = stage
        BY <3>5 DEF writePacket
      <4> QED BY <3>1, <3>5, <4>1, WriteKept DEF Rightly
    <3>6. CASE ReadPart
      BY <3>1, <3>6, ReadKept
    <3>7. CASE Timeout
      BY <2>1, <3>1, <3>7, TimeoutKept
    <3>8. CASE UNCHANGED fingerVars
      <4>1. UNCHANGED <<finger, image, slots, model, library, asked, serial, stage, keys, id,
                        typed, waiting, front, seq, seen>>
        BY <3>8 DEF fingerVars, sensorVars, enrollVars
      <4>2. OnTheLine' /\ SensorTypeOK'
        BY <3>1, <4>1 DEF InTime, OnTheLine, SensorTypeOK, Is, True
      <4>3. PlaceOK'
        BY <3>1, <4>1 DEF InTime, PlaceOK
      <4> QED BY <3>1, <4>1, <4>2, <4>3 DEF InTime, Rightly
    <3> QED BY <3>2, <3>3, <3>4, <3>5, <3>6, <3>7, <3>8 DEF FingerprintNext
  <2> QED BY <2>2, <2>3 DEF EnrolmentInv
<1>3. EnrolmentInv /\ EnrolmentInv' /\ [FingerprintNext]_fingerVars =>
        /\ [lag = 0 /\ stage = "store" /\ stage' # stage /\ told' = "stored" =>
              StoredAt(typed % ByteValues)]_fingerVars
        /\ [lag = 0 /\ stage = "remove" /\ stage' = "image2" => seen = NOFINGER]_fingerVars
  BY <1>2 DEF Rightly
<1>4. EnrolmentInv /\ [FingerprintNext]_fingerVars => EnrolmentInv'
  BY <1>2
<1> QED BY <1>1, <1>3, <1>4, PTL DEF FingerprintSpec, EnrolmentSound, StoredIsStored, TwoPlacements

-----------------------------------------------------------------------------
(* The card reader: the session with a card.                               *)

PiccStates == {"away", "idle", "ready", "active", "halt"}
SecondSteps == TwoSteps \cup {"write", "write too much"}

CardsOK ==
    /\ picc \in [Uids -> PiccStates] /\ session \in Uids \cup {<<>>}
    /\ crypto \in BOOLEAN /\ awaits \in BOOLEAN /\ noise \in Nat

(* The card of the session is active, so it hears the reader as long as the *)
(* reader encrypts as well.                                                 *)
Encrypting == session # <<>> => picc[session] = "active"
Bound == session # <<>> /\ crypto

(* Between the two steps of a command the card awaits the second.           *)
Armed == op \in SecondSteps /\ Bound => awaits

(* The card has in its volatile memory what the reader believes, unless it  *)
(* awaits the operand of a command that was lost.                           *)
Promised == believed # None /\ Bound /\ (~awaits \/ op = "write") => volatile = believed

HaltedFirst == op = "dump stop" /\ noise = 0 /\ crypto => session = <<>>

TransfersInv == CardsOK /\ Encrypting /\ Armed /\ Promised /\ HaltedFirst /\ AccessBitsKept

LEMMA SessionHears ==
    ASSUME CardsOK, Encrypting
    PROVE  /\ InSession # {} <=> Bound
           /\ Bound => session \in Active
           /\ ~crypto => \A c \in Active : session # c
<1>1. \A c \in Uids : c # <<>>
  BY RfidAssumption, UidAssumption DEF Step
<1>2. ASSUME Bound PROVE session \in Active
  BY <1>1, <1>2 DEF Bound, Encrypting, CardsOK, Active, Present, Understands
<1>3. ASSUME NEW c \in Active, session = c PROVE Bound
  BY <1>1, <1>3 DEF Bound, CardsOK, Active, Present, Understands
<1> QED BY <1>2, <1>3 DEF InSession, Bound

(* The access bits.                                                         *)
LEMMA ThreeBits ==
    ASSUME NEW a \in 0 .. 7
    PROVE  /\ BitOf(a, 0) \in {0, 1} /\ BitOf(a, 1) \in {0, 1} /\ BitOf(a, 2) \in {0, 1}
           /\ a = 4 * BitOf(a, 2) + 2 * BitOf(a, 1) + BitOf(a, 0)
<1>1. 2 ^ 0 = 1 /\ 2 ^ 1 = 2 /\ 2 ^ 2 = 4
  OBVIOUS
<1>2. a = 0 \/ a = 1 \/ a = 2 \/ a = 3 \/ a = 4 \/ a = 5 \/ a = 6 \/ a = 7
  OBVIOUS
<1> QED BY <1>1, <1>2 DEF BitOf

LEMMA FourBits ==
    ASSUME NEW b1 \in {0, 1}, NEW b2 \in {0, 1}, NEW b3 \in {0, 1}, NEW b4 \in {0, 1},
           NEW n, n = b1 + 2 * b2 + 4 * b3 + 8 * b4
    PROVE  /\ n \in 0 .. 15
           /\ BitOf(n, 0) = b1 /\ BitOf(n, 1) = b2 /\ BitOf(n, 2) = b3 /\ BitOf(n, 3) = b4
<1>1. 2 ^ 0 = 1 /\ 2 ^ 1 = 2 /\ 2 ^ 2 = 4 /\ 2 ^ 3 = 8
  OBVIOUS
<1>2. n \in 0 .. 15
  OBVIOUS
<1>3. n \div 1 = n /\ n % 2 = b1
  OBVIOUS
<1>4. n \div 2 = b2 + 2 * b3 + 4 * b4 /\ (n \div 2) % 2 = b2
  OBVIOUS
<1>5. n \div 4 = b3 + 2 * b4 /\ (n \div 4) % 2 = b3
  OBVIOUS
<1>6. n \div 8 = b4 /\ (n \div 8) % 2 = b4
  OBVIOUS
<1> QED BY <1>1, <1>2, <1>3, <1>4, <1>5, <1>6 DEF BitOf

LEMMA TwoNibbles ==
    ASSUME NEW h \in 0 .. 15, NEW l \in 0 .. 15
    PROVE  (16 * h + l) \div 16 = h /\ (16 * h + l) % 16 = l
OBVIOUS

LEMMA AccessRoundTrip ==
    ASSUME NEW g \in [1 .. 4 -> 0 .. 7]
    PROVE  Parsed(AccessBytes(g)) = g /\ ~InvertedError(AccessBytes(g))
<1> DEFINE c1 == Nibble(g, 2)
           c2 == Nibble(g, 1)
           c3 == Nibble(g, 0)
           b == AccessBytes(g)
<1>1. g[1] \in 0 .. 7 /\ g[2] \in 0 .. 7 /\ g[3] \in 0 .. 7 /\ g[4] \in 0 .. 7
  OBVIOUS
<1>2. ASSUME NEW k \in {0, 1, 2}
      PROVE  /\ Nibble(g, k) \in 0 .. 15
             /\ BitOf(Nibble(g, k), 0) = BitOf(g[1], k) /\ BitOf(Nibble(g, k), 1) = BitOf(g[2], k)
             /\ BitOf(Nibble(g, k), 2) = BitOf(g[3], k) /\ BitOf(Nibble(g, k), 3) = BitOf(g[4], k)
  <2>1. /\ BitOf(g[1], k) \in {0, 1} /\ BitOf(g[2], k) \in {0, 1}
        /\ BitOf(g[3], k) \in {0, 1} /\ BitOf(g[4], k) \in {0, 1}
    BY <1>1, ThreeBits
  <2> QED BY <2>1, FourBits DEF Nibble
<1>3. c1 \in 0 .. 15 /\ c2 \in 0 .. 15 /\ c3 \in 0 .. 15
  BY <1>2
<1>4. b[1] = 16 * (15 - c2) + (15 - c1) /\ b[2] = 16 * c1 + (15 - c3) /\ b[3] = 16 * c3 + c2
  BY <1>3 DEF AccessBytes
<1> HIDE DEF c1, c2, c3, b
<1>5. b[1] \div 16 = 15 - c2 /\ b[1] % 16 = 15 - c1
  <2>1. 15 - c2 \in 0 .. 15 /\ 15 - c1 \in 0 .. 15
    BY <1>3
  <2> QED BY <1>4, <2>1, TwoNibbles
<1>6. b[2] \div 16 = c1 /\ b[2] % 16 = 15 - c3
  <2>1. 15 - c3 \in 0 .. 15
    BY <1>3
  <2> QED BY <1>3, <1>4, <2>1, TwoNibbles
<1>7. b[3] \div 16 = c3 /\ b[3] % 16 = c2
  BY <1>3, <1>4, TwoNibbles
<1>8. ~InvertedError(b)
  BY <1>3, <1>5, <1>6, <1>7 DEF InvertedError
<1>9. ASSUME NEW n \in 1 .. 4
      PROVE  4 * BitOf(c1, n - 1) + 2 * BitOf(c2, n - 1) + BitOf(c3, n - 1) = g[n]
  <2>1. /\ BitOf(c1, n - 1) = BitOf(g[n], 2) /\ BitOf(c2, n - 1) = BitOf(g[n], 1)
        /\ BitOf(c3, n - 1) = BitOf(g[n], 0)
    <3>1. (n = 1 /\ n - 1 = 0) \/ (n = 2 /\ n - 1 = 1) \/ (n = 3 /\ n - 1 = 2) \/ (n = 4 /\ n - 1 = 3)
      OBVIOUS
    <3> QED BY <1>2, <3>1 DEF c1, c2, c3
  <2> QED BY <1>1, <2>1, ThreeBits
<1>10. Parsed(b) = [n \in 1 .. 4 |-> g[n]]
  BY <1>6, <1>7, <1>9 DEF Parsed
<1> QED BY <1>8, <1>10 DEF b

(* A frame of a session keeps the types and the session's card active.      *)
SessionKept == CardsOK' /\ Encrypting'

(* Steps that bring no command and leave the session alone, or end it, or   *)
(* do not concern it because the reader does not encrypt.                   *)
Passive ==
    /\ SessionKept /\ UNCHANGED <<crypto, volatile, believed, access>>
    /\ session' = <<>> \/ (session' = session /\ awaits' = awaits) \/ ~crypto
    /\ op' = op \/ op' \notin SecondSteps \cup {"dump stop"}
    /\ noise' >= noise

LEMMA PassiveKept ==
    ASSUME TransfersInv, Passive
    PROVE  TransfersInv' /\ (op # "none" /\ crypto /\ ~crypto' => FALSE)
<1>1. Bound' => Bound /\ session' = session /\ (awaits' <=> awaits)
  BY DEF Passive, Bound
<1>2. op' = op \/ (op' \notin SecondSteps /\ op' # "dump stop" /\ op' # "write")
  BY DEF Passive, SecondSteps
<1>3. noise' = 0 => noise = 0
  <2>1. noise \in Nat /\ noise' \in Nat /\ noise' >= noise
    BY DEF TransfersInv, Passive, CardsOK, SessionKept
  <2> QED BY <2>1
<1>4. Armed'
  BY <1>1, <1>2 DEF TransfersInv, Armed
<1>5. Promised'
  <2> SUFFICES ASSUME believed' # None, Bound', ~awaits' \/ op' = "write"
               PROVE  volatile' = believed'
    BY DEF Promised, None
  <2>1. volatile = believed
    BY <1>1, <1>2 DEF TransfersInv, Passive, Promised
  <2> QED BY <2>1 DEF Passive
<1>6. HaltedFirst'
  <2> SUFFICES ASSUME op' = "dump stop", noise' = 0, crypto' PROVE session' = <<>>
    BY DEF HaltedFirst
  <2>1. op = "dump stop"
    BY <1>2
  <2>2. noise = 0
    BY <1>3
  <2>3. crypto
    BY DEF Passive
  <2>4. session = <<>> => session' = <<>>
    BY <2>3 DEF Passive
  <2> QED BY <2>1, <2>2, <2>3, <2>4 DEF TransfersInv, HaltedFirst
<1>7. AccessBitsKept'
  BY DEF TransfersInv, Passive, AccessBitsKept
<1> QED BY <1>4, <1>5, <1>6, <1>7 DEF TransfersInv, Passive, SessionKept

LEMMA NoiseGrows ==
    ASSUME noise \in Nat, Clear \/ Spoilt
    PROVE  noise' \in Nat /\ noise' >= noise /\ (Clear => noise' = noise) /\ (Spoilt => noise' > noise)
BY DEF Clear, Spoilt

(* One lemma per kind of step.                                              *)
LEMMA MovesKept == ASSUME TransfersInv, Enter \/ Leave PROVE Passive
<1>1. CASE Enter
  <2>1. PICK c \in Uids \ Present : picc' = [picc EXCEPT ![c] = "idle"]
    BY <1>1 DEF Enter
  <2>2. UNCHANGED <<session, crypto, op, access, volatile, awaits, believed, noise>>
    BY <1>1 DEF Enter, valueVars
  <2>3. SessionKept
    BY <2>1, <2>2 DEF TransfersInv, SessionKept, CardsOK, Encrypting, Present, PiccStates
  <2>4. noise' >= noise
    BY <2>2 DEF TransfersInv, CardsOK
  <2> QED BY <2>2, <2>3, <2>4 DEF Passive
<1>2. CASE Leave
  <2>1. PICK c \in Present :
              /\ picc' = [picc EXCEPT ![c] = "away"]
              /\ session' = IF session = c THEN <<>> ELSE session
              /\ awaits' = IF session = c THEN FALSE ELSE awaits
    BY <1>2 DEF Leave
  <2>2. UNCHANGED <<crypto, op, access, volatile, believed, noise>>
    BY <1>2 DEF Leave
  <2>3. SessionKept
    BY <2>1, <2>2 DEF TransfersInv, SessionKept, CardsOK, Encrypting, Present, PiccStates
  <2>4. noise' >= noise
    BY <2>2 DEF TransfersInv, CardsOK
  <2> QED BY <2>1, <2>2, <2>3, <2>4 DEF Passive
<1> QED BY <1>1, <1>2

LEMMA RequestKept ==
    ASSUME TransfersInv, NEW wake \in BOOLEAN, PICC_REQA_or_WUPA(wake)
    PROVE  Passive
<1>1. /\ \E called : picc' = [c \in Uids |-> IF c \in called THEN "ready"
                                ELSE IF picc[c] \in {"ready", "active"} THEN "idle" ELSE picc[c]]
      /\ session' = <<>> /\ awaits' = FALSE
      /\ UNCHANGED <<crypto, access, volatile, believed>>
  BY DEF PICC_REQA_or_WUPA
<1>2. op' = "none" /\ (Clear \/ Spoilt)
  BY DEF PICC_REQA_or_WUPA, Return
<1>3. noise' \in Nat /\ noise' >= noise
  BY <1>2, NoiseGrows DEF TransfersInv, CardsOK
<1>4. SessionKept
  BY <1>1, <1>3 DEF TransfersInv, SessionKept, CardsOK, Encrypting, PiccStates
<1> QED BY <1>1, <1>2, <1>3, <1>4 DEF Passive, SecondSteps, TwoSteps

LEMMA SelectingKept ==
    ASSUME TransfersInv, PICC_Select \/ Anticollision \/ Select
    PROVE  Passive
<1>1. UNCHANGED <<session, crypto, access, volatile, awaits, believed>>
  BY DEF PICC_Select, Anticollision, Select, cardVars, valueVars
<1>2. op' \in {"none", "select"}
  BY DEF PICC_Select, Anticollision, Select, Return
<1>3. noise' \in Nat /\ noise' >= noise
  <2>1. Clear \/ Spoilt \/ noise' = noise
    BY DEF PICC_Select, Anticollision, Select, budget
  <2> QED BY <2>1, NoiseGrows DEF TransfersInv, CardsOK
<1>4. CASE Select
  <2>1. picc' = [c \in Uids |->
                  IF c \in Chosen THEN IF sel.level = Levels(c) THEN "active" ELSE "ready"
                  ELSE IF picc[c] = "ready" THEN "idle" ELSE picc[c]]
    BY <1>4 DEF Select
  <2>2. \A c \in Chosen : picc[c] = "ready"
    BY DEF Chosen, Hears
  <2>3. SessionKept
    BY <1>1, <1>3, <2>1, <2>2 DEF TransfersInv, SessionKept, CardsOK, Encrypting, PiccStates
  <2> QED BY <1>1, <1>2, <1>3, <2>3 DEF Passive, SecondSteps, TwoSteps
<1>5. CASE PICC_Select \/ Anticollision
  <2>1. picc' = picc
    BY <1>5 DEF PICC_Select, Anticollision, cardVars
  <2>2. SessionKept
    BY <1>1, <1>3, <2>1 DEF TransfersInv, SessionKept, CardsOK, Encrypting
  <2> QED BY <1>1, <1>2, <1>3, <2>2 DEF Passive, SecondSteps, TwoSteps
<1> QED BY <1>4, <1>5

(* PICC_HaltA ends the session of a card that hears it.                     *)
LEMMA HaltKept ==
    ASSUME TransfersInv, PICC_HaltA, UNCHANGED crypto
    PROVE  /\ SessionKept /\ noise' >= noise
           /\ noise' = 0 /\ crypto => session' = <<>>
           /\ session' = <<>> \/ (session' = session /\ awaits' = awaits) \/ ~crypto
<1>1. noise' \in Nat /\ noise' >= noise /\ (Spoilt => noise' > noise)
  BY NoiseGrows DEF PICC_HaltA, TransfersInv, CardsOK
<1>2. Bound => session \in Active
  BY SessionHears DEF TransfersInv
<1>3. CASE /\ Active # {} /\ Clear /\ status' = "OK"
           /\ picc' = [c \in Uids |-> IF c \in Active THEN "halt" ELSE picc[c]]
           /\ session' = IF session \in Active THEN <<>> ELSE session
           /\ awaits' = FALSE
  <2>1. SessionKept
    BY <1>1, <1>3 DEF TransfersInv, SessionKept, CardsOK, Encrypting, PiccStates
  <2> QED BY <1>1, <1>2, <1>3, <2>1 DEF Bound
<1>4. CASE UNCHANGED <<picc, session, awaits>> /\ ((Clear /\ Active = {}) \/ Spoilt)
  <2>1. SessionKept
    BY <1>1, <1>4 DEF TransfersInv, SessionKept, CardsOK, Encrypting
  <2>2. noise' = 0 /\ crypto => session' = <<>>
    <3>1. CASE Spoilt
      BY <1>1, <3>1 DEF TransfersInv, CardsOK
    <3>2. CASE Active = {}
      BY <1>2, <1>4, <3>2 DEF Bound
    <3> QED BY <1>4, <3>1, <3>2
  <2> QED BY <1>1, <1>4, <2>1, <2>2
<1> QED BY <1>3, <1>4 DEF PICC_HaltA

LEMMA HaltsKept ==
    ASSUME TransfersInv, Halt \/ DumpEnd
    PROVE  TransfersInv' /\ (op # "none" /\ crypto /\ ~crypto' /\ noise = 0 => session = <<>>)
<1>1. UNCHANGED <<volatile, believed, access>>
  BY DEF Halt, DumpEnd
<1>2. CASE PICC_HaltA /\ UNCHANGED crypto /\ (op' = op \/ op' \in {"dump stop", "none"})
  <2>1. /\ SessionKept /\ noise' >= noise
        /\ noise' = 0 /\ crypto => session' = <<>>
        /\ session' = <<>> \/ (session' = session /\ awaits' = awaits) \/ ~crypto
    BY <1>2, HaltKept
  <2>2. CASE op' # "dump stop" \/ op' = op
    <3>1. Passive
      BY <1>1, <1>2, <2>1, <2>2 DEF Passive, SecondSteps, TwoSteps
    <3> QED BY <1>2, <3>1, PassiveKept
  <2>3. CASE op' = "dump stop"
    <3>1. Bound' => Bound /\ session' = session /\ (awaits' <=> awaits)
      BY <1>2, <2>1 DEF Bound
    <3>2. Armed'
      BY <2>3 DEF Armed, SecondSteps, TwoSteps
    <3>3. Promised'
      BY <1>1, <2>3, <3>1 DEF TransfersInv, Promised, None
    <3>4. HaltedFirst'
      BY <1>2, <2>1 DEF HaltedFirst
    <3>5. AccessBitsKept'
      BY <1>1 DEF TransfersInv, AccessBitsKept
    <3> QED BY <1>2, <2>1, <3>2, <3>3, <3>4, <3>5 DEF TransfersInv, SessionKept
  <2> QED BY <2>2, <2>3
<1>3. CASE /\ op = "dump stop" /\ crypto' = FALSE /\ op' = "dump halt"
           /\ UNCHANGED <<picc, session, awaits, status, noise>>
  <2>1. SessionKept
    BY <1>3 DEF TransfersInv, SessionKept, CardsOK, Encrypting
  <2>2. Armed' /\ Promised' /\ HaltedFirst'
    BY <1>3 DEF Armed, Promised, HaltedFirst, Bound
  <2>3. AccessBitsKept'
    BY <1>1 DEF TransfersInv, AccessBitsKept
  <2> QED BY <1>3, <2>1, <2>2, <2>3 DEF TransfersInv, SessionKept, HaltedFirst
<1> QED BY <1>2, <1>3 DEF Halt, DumpEnd, DumpSteps

LEMMA StopKept ==
    ASSUME TransfersInv, PCD_StopCrypto1
    PROVE  TransfersInv' /\ op = "none"
<1>1. /\ op = "none" /\ op' = op /\ crypto' = FALSE
      /\ UNCHANGED <<picc, session, awaits, noise, access>>
  BY DEF PCD_StopCrypto1, cardVars, valueVars, budget
<1>2. SessionKept
  BY <1>1 DEF TransfersInv, SessionKept, CardsOK, Encrypting
<1>3. Armed' /\ Promised' /\ HaltedFirst'
  BY <1>1 DEF Armed, Promised, HaltedFirst, Bound
<1>4. AccessBitsKept'
  BY <1>1 DEF TransfersInv, AccessBitsKept
<1> QED BY <1>1, <1>2, <1>3, <1>4 DEF TransfersInv, SessionKept

(* A new session begins with nothing promised; a card that refuses drops    *)
(* out, and if it had a session that is over.                               *)
LEMMA AuthenticationKept ==
    ASSUME TransfersInv, PCD_Authenticate, access' = access,
           op' \notin SecondSteps \cup {"dump stop"}
    PROVE  TransfersInv' /\ (crypto => crypto')
<1>1. AccessBitsKept'
  BY DEF TransfersInv, AccessBitsKept
<1>2. noise' \in Nat /\ noise' >= noise
  BY NoiseGrows DEF PCD_Authenticate, Unheard, TransfersInv, CardsOK
<1>3. CASE Unheard /\ UNCHANGED <<picc, session, crypto, valueVars>>
  <2>1. SessionKept
    BY <1>2, <1>3 DEF TransfersInv, SessionKept, CardsOK, Encrypting, valueVars
  <2>2. Passive
    BY <1>2, <1>3, <2>1 DEF Passive, valueVars
  <2> QED BY <2>2, <1>3, PassiveKept
<1>4. CASE \E c \in Active : /\ session' = c /\ crypto' = TRUE /\ believed' = None
                             /\ awaits' = FALSE /\ UNCHANGED picc
  <2>1. PICK c \in Active : session' = c
    BY <1>4
  <2>2. c \in Uids /\ picc[c] = "active"
    BY DEF Active, Present
  <2>3. SessionKept
    BY <1>2, <1>4, <2>1, <2>2 DEF TransfersInv, SessionKept, CardsOK, Encrypting
  <2>4. Armed' /\ HaltedFirst'
    BY DEF Armed, HaltedFirst, SecondSteps, TwoSteps
  <2>5. Promised'
    BY <1>4 DEF Promised, None
  <2> QED BY <1>1, <1>4, <2>3, <2>4, <2>5 DEF TransfersInv, SessionKept
<1>5. CASE \E c \in Active : /\ picc' = [picc EXCEPT ![c] = "idle"] /\ awaits' = FALSE
                             /\ session' = IF session = c THEN <<>> ELSE session
                             /\ UNCHANGED <<crypto, volatile, stored, believed>>
  <2>1. PICK c \in Active : /\ picc' = [picc EXCEPT ![c] = "idle"] /\ awaits' = FALSE
                            /\ session' = IF session = c THEN <<>> ELSE session
                            /\ UNCHANGED <<crypto, volatile, stored, believed>>
    BY <1>5
  <2>2. c \in Uids
    BY DEF Active, Present
  <2>3. SessionKept
    BY <1>2, <2>1, <2>2 DEF TransfersInv, SessionKept, CardsOK, Encrypting, PiccStates
  <2>4. session' = <<>> \/ ~crypto
    <3> SUFFICES ASSUME session # c, session' = session, session # <<>> PROVE ~crypto
      BY <2>1
    <3> QED BY DEF Active, Understands
  <2>5. Passive
    BY <1>2, <2>1, <2>3, <2>4 DEF Passive
  <2> QED BY <2>1, <2>5, PassiveKept
<1> QED BY <1>3, <1>4, <1>5 DEF PCD_Authenticate

(* The first step of a command: the card awaits the second, or the session  *)
(* is over, or nothing has happened.                                        *)
LEMMA FirstStepKept ==
    ASSUME TransfersInv, NEW name \in SecondSteps, StepOne(name)
    PROVE  TransfersInv' /\ (crypto => crypto')
<1>1. /\ op = "none" /\ op' = (IF status' = "OK" THEN name ELSE "none")
      /\ UNCHANGED <<crypto, access, believed>>
  BY DEF StepOne, Continue
<1>2. AccessBitsKept'
  BY <1>1 DEF TransfersInv, AccessBitsKept
<1>3. CASE /\ InSession # {} /\ ~awaits /\ awaits' = TRUE /\ Back("OK")
           /\ UNCHANGED <<picc, session, volatile, stored>>
  <2>1. noise' \in Nat
    BY <1>3, NoiseGrows DEF Back, TransfersInv, CardsOK
  <2>2. SessionKept
    BY <1>1, <1>3, <2>1 DEF TransfersInv, SessionKept, CardsOK, Encrypting
  <2>3. Armed' /\ HaltedFirst'
    BY <1>1, <1>3 DEF Armed, HaltedFirst, SecondSteps, TwoSteps
  <2>4. Promised'
    BY <1>1, <1>3 DEF TransfersInv, Promised, None, Bound
  <2> QED BY <1>1, <1>2, <2>2, <2>3, <2>4 DEF TransfersInv, SessionKept
<1>4. CASE Refuse
  <2>1. /\ picc' = [picc EXCEPT ![session] = "idle"] /\ session' = <<>> /\ awaits' = FALSE
        /\ Back("MIFARE_NACK") /\ UNCHANGED <<volatile, stored>>
    BY <1>4 DEF Refuse, DropOut
  <2>2. noise' \in Nat /\ noise' >= noise
    BY <2>1, NoiseGrows DEF Back, TransfersInv, CardsOK
  <2>3. op' = "none"
    BY <1>1, <2>1 DEF Back
  <2>4. SessionKept
    BY <1>1, <2>1, <2>2 DEF TransfersInv, SessionKept, CardsOK, Encrypting, PiccStates
  <2>5. Passive
    BY <1>1, <2>1, <2>2, <2>3, <2>4 DEF Passive, SecondSteps, TwoSteps
  <2> QED BY <1>1, <2>5, PassiveKept
<1>5. CASE Lost \/ NoSession
  <2>1. UNCHANGED <<picc, session, awaits, volatile, stored>> /\ (Clear \/ Spoilt)
    BY <1>5 DEF Lost, NoSession, Unheard
  <2>2. noise' \in Nat /\ noise' >= noise
    BY <2>1, NoiseGrows DEF TransfersInv, CardsOK
  <2>3. op' = "none"
    BY <1>1, <1>5 DEF Lost, NoSession, Unheard
  <2>4. SessionKept
    BY <1>1, <2>1, <2>2 DEF TransfersInv, SessionKept, CardsOK, Encrypting
  <2>5. Passive
    BY <1>1, <2>1, <2>2, <2>3, <2>4 DEF Passive, SecondSteps, TwoSteps
  <2> QED BY <1>1, <2>5, PassiveKept
<1> QED BY <1>3, <1>4, <1>5 DEF StepOne

(* The second step: a card that awaits it executes it, or it is lost and    *)
(* the card goes on waiting.                                                *)
LEMMA SecondStepKept ==
    ASSUME TransfersInv, StepTwo
    PROVE  TransfersInv' /\ (crypto => crypto')
<1>1. /\ op \in SecondSteps /\ op' = "none" /\ (Clear \/ Spoilt)
      /\ UNCHANGED <<picc, session, crypto, access, stored>>
      /\ believed' = IF status' = "OK" THEN (stored + Delta(op)) % 2 ELSE believed
  BY DEF StepTwo, SecondSteps
<1>2. awaits' \in BOOLEAN
  BY DEF StepTwo, TransfersInv, CardsOK
<1>3. noise' \in Nat
  BY <1>1, NoiseGrows DEF TransfersInv, CardsOK
<1>4. SessionKept
  BY <1>1, <1>2, <1>3 DEF TransfersInv, SessionKept, CardsOK, Encrypting
<1>5. Armed' /\ HaltedFirst'
  BY <1>1 DEF Armed, HaltedFirst, SecondSteps, TwoSteps
<1>6. AccessBitsKept'
  BY <1>1 DEF TransfersInv, AccessBitsKept
<1>7. Promised'
  <2> SUFFICES ASSUME Bound', ~awaits' PROVE volatile' = believed'
    BY <1>1 DEF Promised
  <2>1. awaits
    BY <1>1 DEF TransfersInv, Armed, Bound
  <2>2. awaits' # awaits
    BY <2>1
  <2>3. volatile' = (stored + Delta(op)) % 2 /\ status' = "OK"
    BY <2>2 DEF StepTwo, Accept
  <2> QED BY <1>1, <2>3
<1> QED BY <1>1, <1>4, <1>5, <1>6, <1>7 DEF TransfersInv, SessionKept

(* What else ends a command.                                                *)
LEMMA WriteDataKept ==
    ASSUME TransfersInv, WriteData
    PROVE  TransfersInv' /\ (crypto => crypto')
<1>1. /\ op = "write" /\ op' = "none" /\ (Clear \/ Spoilt)
      /\ UNCHANGED <<picc, session, crypto, access, volatile, believed>>
      /\ awaits' \in BOOLEAN
  BY DEF WriteData, Back, Lost, Unheard, NoSession, TransfersInv, CardsOK
<1>2. noise' \in Nat
  BY <1>1, NoiseGrows DEF TransfersInv, CardsOK
<1>3. SessionKept
  BY <1>1, <1>2 DEF TransfersInv, SessionKept, CardsOK, Encrypting
<1>4. Armed' /\ HaltedFirst'
  BY <1>1 DEF Armed, HaltedFirst, SecondSteps, TwoSteps
<1>5. Promised'
  BY <1>1 DEF TransfersInv, Promised, Bound, None
<1>6. AccessBitsKept'
  BY <1>1 DEF TransfersInv, AccessBitsKept
<1> QED BY <1>1, <1>3, <1>4, <1>5, <1>6 DEF TransfersInv, SessionKept

LEMMA RefusalKept ==
    ASSUME TransfersInv,
           \/ WriteRefused \/ Dump
           \/ op = "none" /\ op' = op /\ status' = "INVALID"
              /\ UNCHANGED <<cardVars, crypto, sel, uid, size, dump, access, valueVars, budget>>
    PROVE  Passive
<1>1. /\ UNCHANGED <<picc, session, crypto, access, awaits, volatile, believed, noise>>
      /\ op' = op \/ op' \in {"none", "dump"}
  BY DEF WriteRefused, Dump, cardVars, valueVars, budget
<1>2. SessionKept
  BY <1>1 DEF TransfersInv, SessionKept, CardsOK, Encrypting
<1>3. noise' >= noise
  BY <1>1 DEF TransfersInv, CardsOK
<1> QED BY <1>1, <1>2, <1>3 DEF Passive, SecondSteps, TwoSteps

LEMMA TransferKept ==
    ASSUME TransfersInv, MIFARE_Transfer
    PROVE  /\ Passive
           /\ status' = "OK" /\ believed # None => stored' = believed
<1>1. /\ op' = op /\ UNCHANGED <<crypto, access, volatile, believed>> /\ (Clear \/ Spoilt)
  BY DEF MIFARE_Transfer, DropOut
<1>2. noise' \in Nat /\ noise' >= noise
  BY <1>1, NoiseGrows DEF TransfersInv, CardsOK
<1>3. ASSUME UNCHANGED <<picc, session, awaits>> PROVE Passive
  <2>1. SessionKept
    BY <1>1, <1>2, <1>3 DEF TransfersInv, SessionKept, CardsOK, Encrypting
  <2> QED BY <1>1, <1>2, <1>3, <2>1 DEF Passive
<1>4. ASSUME DropOut PROVE Passive
  <2>1. SessionKept
    BY <1>1, <1>2, <1>4 DEF TransfersInv, SessionKept, CardsOK, Encrypting, PiccStates, DropOut
  <2> QED BY <1>1, <1>2, <1>4, <2>1 DEF Passive, DropOut
<1>5. ASSUME status' = "OK", believed # None PROVE stored' = believed
  <2>1. InSession # {} /\ ~awaits /\ stored' = volatile
    BY <1>5 DEF MIFARE_Transfer, Answered
  <2>2. Bound
    BY <2>1, SessionHears DEF TransfersInv
  <2> QED BY <1>5, <2>1, <2>2 DEF TransfersInv, Promised
<1>6. UNCHANGED <<picc, session, awaits>> \/ DropOut
  BY DEF MIFARE_Transfer
<1> QED BY <1>3, <1>4, <1>5, <1>6

LEMMA DumpBlockKept == ASSUME TransfersInv, DumpBlock PROVE Passive
<1>1. UNCHANGED <<crypto, access, volatile, believed>> /\ op' \in {"dump", "dump end"}
  BY DEF DumpBlock, NextSector
<1>2. Clear \/ Spoilt
  BY DEF DumpBlock, Back
<1>3. noise' \in Nat /\ noise' >= noise
  BY <1>2, NoiseGrows DEF TransfersInv, CardsOK
<1>4. CASE UNCHANGED <<picc, session, awaits>>
  <2>1. SessionKept
    BY <1>1, <1>3, <1>4 DEF TransfersInv, SessionKept, CardsOK, Encrypting
  <2> QED BY <1>1, <1>3, <1>4, <2>1 DEF Passive, SecondSteps, TwoSteps
<1>5. CASE DropOut
  <2>1. SessionKept
    BY <1>1, <1>3, <1>5 DEF TransfersInv, SessionKept, CardsOK, Encrypting, PiccStates, DropOut
  <2> QED BY <1>1, <1>3, <1>5, <2>1 DEF Passive, DropOut, SecondSteps, TwoSteps
<1> QED BY <1>4, <1>5 DEF DumpBlock

LEMMA AccessKept ==
    ASSUME TransfersInv, MIFARE_SetAccessBits
    PROVE  TransfersInv' /\ (crypto => crypto')
<1>1. /\ UNCHANGED <<picc, session, crypto, awaits, volatile, believed, noise>>
      /\ op' \in {"access", "none"} /\ op \in {"access", "none"}
  BY DEF MIFARE_SetAccessBits, cardVars, valueVars, budget
<1>2. SessionKept
  BY <1>1 DEF TransfersInv, SessionKept, CardsOK, Encrypting
<1>3. Armed' /\ HaltedFirst' /\ Promised'
  BY <1>1 DEF TransfersInv, Armed, HaltedFirst, Promised, Bound, SecondSteps, TwoSteps, None
<1>4. AccessBitsKept'
  <2>1. CASE access' = <<>>
    BY <2>1 DEF AccessBitsKept
  <2>2. ASSUME NEW g \in [1 .. 4 -> {0, 1, 3, 6, 7}], access' = <<g, AccessBytes(g)>>
        PROVE  AccessBitsKept'
    <3>1. g \in [1 .. 4 -> 0 .. 7]
      OBVIOUS
    <3>2. access'[1] = g /\ access'[2] = AccessBytes(g)
      BY <2>2
    <3> QED BY <3>1, <3>2, AccessRoundTrip DEF AccessBitsKept
  <2> QED BY <2>1, <2>2 DEF MIFARE_SetAccessBits
<1> QED BY <1>1, <1>2, <1>3, <1>4 DEF TransfersInv, SessionKept

(* Transfers, the dump and the access bits, whatever the radio spoils and   *)
(* whichever cards come and go: an acknowledged Transfer has stored what    *)
(* the acknowledged operations before it promise; a dump from which no      *)
(* frame was lost stops the encryption only after the card has stopped it;  *)
(* what SetAccessBits writes is parsed as what was meant.                   *)
THEOREM TransfersSoundThm == RfidSpec => TransfersSound
<1> DEFINE Hushes == op # "none" /\ crypto /\ ~crypto' /\ noise = 0 => session = <<>>
<1>1. RfidInit => TransfersInv
  <2> SUFFICES ASSUME RfidInit PROVE TransfersInv
    OBVIOUS
  <2>1. CardsOK
    BY DEF RfidInit, CardsOK, PiccStates
  <2> QED BY <2>1 DEF RfidInit, TransfersInv, Encrypting, Armed, Promised, HaltedFirst, AccessBitsKept,
                      SecondSteps, TwoSteps
<1>2. TransfersInv /\ [RfidNext]_rfidVars => TransfersInv' /\ Hushes
  <2> SUFFICES ASSUME TransfersInv, [RfidNext]_rfidVars PROVE TransfersInv' /\ Hushes
    OBVIOUS
  <2>1. ASSUME Passive PROVE TransfersInv' /\ Hushes
    BY <2>1, PassiveKept
  <2>2. CASE Enter \/ Leave
    BY <2>1, <2>2, MovesKept
  <2>3. ASSUME NEW wake \in BOOLEAN, PICC_REQA_or_WUPA(wake) PROVE TransfersInv' /\ Hushes
    BY <2>1, <2>3, RequestKept
  <2>4. CASE PICC_Select \/ Anticollision \/ Select
    BY <2>1, <2>4, SelectingKept
  <2>5. CASE Halt \/ DumpEnd
    BY <2>5, HaltsKept
  <2>6. CASE Authenticate
    <3>1. PCD_Authenticate /\ access' = access /\ op' \notin SecondSteps \cup {"dump stop"}
      BY <2>6 DEF Authenticate, SecondSteps, TwoSteps
    <3> QED BY <3>1, AuthenticationKept
  <2>7. CASE DumpAuthenticate
    <3>1. PCD_Authenticate /\ access' = access /\ op' \notin SecondSteps \cup {"dump stop"}
      BY <2>7 DEF DumpAuthenticate, NextSector, SecondSteps, TwoSteps
    <3> QED BY <3>1, AuthenticationKept
  <2>8. CASE PCD_StopCrypto1
    BY <2>8, StopKept
  <2>9. CASE MIFARE_TwoStepHelper
    <3>1. PICK name \in TwoSteps : StepOne(name)
      BY <2>9 DEF MIFARE_TwoStepHelper
    <3> QED BY <3>1, FirstStepKept DEF SecondSteps
  <2>10. CASE StepTwo
    BY <2>10, SecondStepKept
  <2>11. CASE MIFARE_Transfer
    BY <2>1, <2>11, TransferKept
  <2>12. CASE MIFARE_Write
    <3>1. CASE \E name \in SecondSteps : StepOne(name)
      BY <3>1, FirstStepKept
    <3>2. CASE op = "none" /\ op' = op /\ status' = "INVALID"
               /\ UNCHANGED <<cardVars, crypto, sel, uid, size, dump, access, valueVars, budget>>
      BY <2>1, <3>2, RefusalKept
    <3> QED BY <2>12, <3>1, <3>2 DEF MIFARE_Write, SecondSteps
  <2>13. CASE WriteData
    BY <2>13, WriteDataKept
  <2>14. CASE WriteRefused \/ Dump
    BY <2>1, <2>14, RefusalKept
  <2>15. CASE DumpBlock
    BY <2>1, <2>15, DumpBlockKept
  <2>16. CASE MIFARE_SetAccessBits
    BY <2>16, AccessKept
  <2>17. CASE UNCHANGED rfidVars
    <3>1. UNCHANGED <<picc, session, crypto, awaits, volatile, believed, noise, access, op>>
      BY <2>17 DEF rfidVars
    <3>2. SessionKept /\ noise' >= noise
      BY <3>1 DEF TransfersInv, SessionKept, CardsOK, Encrypting
    <3>3. Passive
      BY <3>1, <3>2 DEF Passive
    <3> QED BY <2>1, <3>3
  <2> QED BY <2>2, <2>3, <2>4, <2>5, <2>6, <2>7, <2>8, <2>9, <2>10, <2>11, <2>12, <2>13, <2>14,
             <2>15, <2>16, <2>17 DEF RfidNext
<1>3. TransfersInv =>
        [MIFARE_Transfer /\ status' = "OK" /\ believed # None => stored' = believed]_rfidVars
  BY TransferKept
<1>4. TransfersInv /\ [RfidNext]_rfidVars => [Hushes]_rfidVars
  BY <1>2
<1>5. TransfersInv => AccessBitsKept
  BY DEF TransfersInv
<1>6. TransfersInv /\ [RfidNext]_rfidVars => TransfersInv'
  BY <1>2
<1> QED BY <1>1, <1>3, <1>4, <1>5, <1>6, PTL
        DEF RfidSpec, TransfersSound, TransferStoresPromise, DumpHalts

-----------------------------------------------------------------------------
(* The card reader: the selection of a card.  Levels of a UID.              *)
LEMMA LevelSizes ==
    /\ ByteBits \in Nat /\ ByteBits > 0 /\ LevelBytes \in Nat /\ LevelBytes > 1
    /\ Step \in Nat /\ Step > 0 /\ LevelBytes = Step + 1
    /\ LevelBits \in Nat /\ LevelBits > 0
BY RfidAssumption DEF Step, LevelBits

LEMMA UidLevels ==
    ASSUME NEW u \in Uids
    PROVE  /\ u \in Seq(CardBytes) /\ Levels(u) \in 1 .. 3 /\ Len(u) = Step * Levels(u) + 1
           /\ u[Step * (Levels(u) - 1) + 1] # CT /\ u # <<>>
<1>1. PICK l \in 1 .. 3 : Len(u) = Step * l + 1 /\ u[Step * (l - 1) + 1] # CT
  BY UidAssumption
<1>2. Len(u) - 1 = Step * l + 0 /\ Len(u) - 1 \in Int
  BY <1>1, LevelSizes
<1>3. Levels(u) = l
  BY <1>2, LevelSizes, ModIs DEF Levels
<1>4. u # <<>>
  BY <1>1, <1>2, LevelSizes
<1> QED BY <1>1, <1>3, <1>4, UidAssumption

(* The bytes a card sends at a level, and that the reader copies.           *)
LevelOfBytes(u, l) ==
    IF l < Levels(u) THEN <<CT>> \o SubSeq(u, Step * (l - 1) + 1, Step * l)
    ELSE SubSeq(u, Step * (l - 1) + 1, Len(u))

(* Positions of a level in a UID. *)
LEMMA LevelPlaces ==
    ASSUME NEW u \in Uids, NEW l \in 1 .. Levels(u)
    PROVE  /\ l \in 1 .. 3 /\ Step * l \in Nat /\ Step * (l - 1) \in Nat /\ Step * l = Step * (l - 1) + Step
           /\ Step * l <= Step * Levels(u) /\ Step * l <= Step * 3
           /\ l < Levels(u) => Step * l + Step <= Step * Levels(u)
           /\ l = Levels(u) => Len(u) = Step * l + 1
<1> DEFINE m == Levels(u)
<1>1. m \in 1 .. 3 /\ Len(u) = Step * m + 1
  BY UidLevels
<1> HIDE DEF m
<1>2. l \in 1 .. m
  BY DEF m
<1>3. l \in 1 .. 3
  BY <1>1, <1>2
<1>4. /\ Step * l \in Nat /\ Step * (l - 1) \in Nat /\ Step * l = Step * (l - 1) + Step
      /\ Step * l <= Step * 3
  BY <1>3, LevelSizes
<1>5. Step * l <= Step * m
  BY <1>1, <1>2, <1>3, LevelSizes
<1>6. l < m => Step * l + Step <= Step * m
  BY <1>1, <1>2, <1>3, LevelSizes
<1> QED BY <1>1, <1>3, <1>4, <1>5, <1>6 DEF m

LEMMA LevelBytesAre ==
    ASSUME NEW u \in Uids, NEW l \in 1 .. Levels(u)
    PROVE  LET b == LevelOfBytes(u, l) IN
           /\ b \in Seq(CardBytes) /\ Len(b) = LevelBytes
           /\ l < Levels(u) => /\ b[1] = CT
                               /\ \A i \in 1 .. Step : b[i + 1] = u[Step * (l - 1) + i]
           /\ l = Levels(u) => /\ b[1] # CT
                               /\ \A i \in 1 .. LevelBytes : b[i] = u[Step * (l - 1) + i]
<1> DEFINE p == Step * (l - 1)
           q == Step * l
<1>1. /\ p \in Nat /\ q \in Nat /\ q = p + Step /\ q <= Len(u)
      /\ l = Levels(u) => Len(u) = q + 1 /\ u[p + 1] # CT
  BY LevelPlaces, UidLevels, LevelSizes
<1>2. u \in Seq(CardBytes) /\ \A i \in 1 .. Len(u) : u[i] \in CardBytes
  BY UidLevels
<1> HIDE DEF p, q
<1>3. CASE l < Levels(u)
  <2> DEFINE t == SubSeq(u, p + 1, q)
  <2>1. \A i \in (p + 1) .. q : u[i] \in CardBytes
    BY <1>1, <1>2
  <2>2. t \in Seq(CardBytes) /\ Len(t) = Step /\ \A i \in 1 .. Step : t[i] = u[p + i]
    <3>1. q - (p + 1) + 1 = Step /\ p + 1 <= q
      BY <1>1, LevelSizes
    <3>2. \A i \in 1 .. Step : (p + 1) + i - 1 = p + i
      BY <1>1, LevelSizes
    <3> QED BY <2>1, <3>1, <3>2, <1>1, SubSeqProperties, Z3
  <2> HIDE DEF t
  <2>3. <<CT>> \in Seq(CardBytes) /\ Len(<<CT>>) = 1 /\ <<CT>>[1] = CT
    BY UidAssumption
  <2> DEFINE b == <<CT>> \o t
  <2>4. b \in Seq(CardBytes) /\ Len(b) = 1 + Step /\ b[1] = CT
        /\ \A i \in 1 .. Step : b[i + 1] = t[i]
    <3>1. /\ b \in Seq(CardBytes) /\ Len(b) = 1 + Step
          /\ \A i \in 1 .. 1 + Step : b[i] = IF i <= 1 THEN <<CT>>[i] ELSE t[i - 1]
      BY <2>2, <2>3, ConcatProperties
    <3>2. \A i \in 1 .. Step : i + 1 \in 1 .. 1 + Step /\ ~(i + 1 <= 1) /\ (i + 1) - 1 = i
      BY LevelSizes
    <3> QED BY <3>1, <3>2, <2>3, LevelSizes
  <2>5. LevelOfBytes(u, l) = b
    BY <1>3 DEF LevelOfBytes, t, p, q
  <2> HIDE DEF b
  <2>6. 1 + Step = LevelBytes
    BY LevelSizes
  <2> QED BY <1>3, <2>2, <2>4, <2>5, <2>6 DEF p
<1>4. CASE l = Levels(u)
  <2> DEFINE b == SubSeq(u, p + 1, Len(u))
  <2>1. Len(u) = p + LevelBytes /\ p + 1 <= Len(u) /\ Len(u) \in Nat
    BY <1>1, <1>4, LevelSizes
  <2>2. b \in Seq(CardBytes) /\ Len(b) = LevelBytes /\ \A i \in 1 .. LevelBytes : b[i] = u[p + i]
    <3>1. \A i \in (p + 1) .. Len(u) : u[i] \in CardBytes
      BY <1>1, <1>2, <2>1
    <3>2. Len(u) - (p + 1) + 1 = LevelBytes
      BY <2>1, <1>1, LevelSizes
    <3>3. \A i \in 1 .. LevelBytes : (p + 1) + i - 1 = p + i
      BY <1>1, LevelSizes
    <3> QED BY <2>1, <3>1, <3>2, <3>3, <1>1, SubSeqProperties, Z3
  <2>3. LevelOfBytes(u, l) = b
    <3>1. Levels(u) \in Int /\ ~(Levels(u) < Levels(u))
      BY UidLevels
    <3> QED BY <1>4, <3>1 DEF LevelOfBytes, p
  <2> HIDE DEF b
  <2>4. b[1] # CT
    BY <2>2, <1>1, <1>4, LevelSizes
  <2> QED BY <1>4, <2>2, <2>3, <2>4 DEF p
<1> QED
  <2>1. l < Levels(u) \/ l = Levels(u)
    BY UidLevels
  <2> QED BY <2>1, <1>3, <1>4

(* Bits and bytes.                                                          *)
LEMMA BitsAre ==
    ASSUME NEW b \in Seq(CardBytes)
    PROVE  /\ Bits(b) \in Seq({0, 1}) /\ Len(Bits(b)) = ByteBits * Len(b)
           /\ \A n \in 0 .. Len(b) - 1 : ByteAt(Bits(b), n) = b[n + 1]
<1> DEFINE k == ByteBits * Len(b)
           e(n) == b[1 + ((n - 1) \div ByteBits)][1 + ((n - 1) % ByteBits)]
<1>1. Len(b) \in Nat /\ k \in Nat /\ Bits(b) = [n \in 1 .. k |-> e(n)]
  BY LevelSizes DEF Bits
<1>2. \A n \in 0 .. Len(b) - 1, i \in 1 .. ByteBits :
         /\ ByteBits * n + i \in 1 .. k /\ e(ByteBits * n + i) = b[n + 1][i]
  <2> TAKE n \in 0 .. Len(b) - 1, i \in 1 .. ByteBits
  <2>1. (ByteBits * n + i) - 1 = ByteBits * n + (i - 1) /\ ByteBits * n \in Nat
    BY LevelSizes
  <2>2. ((ByteBits * n + i) - 1) % ByteBits = i - 1 /\ ((ByteBits * n + i) - 1) \div ByteBits = n
    <3>1. i - 1 \in Int /\ 0 <= i - 1 /\ i - 1 < ByteBits /\ n \in Int /\ (ByteBits * n + i) - 1 \in Int
      BY <2>1, LevelSizes
    <3> QED BY <2>1, <3>1, ModIs, LevelSizes
  <2>3. ByteBits * n + i \in 1 .. k
    <3>1. ByteBits * (n + 1) <= ByteBits * Len(b)
      <4>1. n + 1 \in Int /\ n + 1 <= Len(b)
        BY <1>1
      <4> DEFINE m == n + 1
                 j == Len(b)
      <4>2. m \in Int /\ j \in Int /\ m <= j
        BY <1>1, <4>1
      <4> HIDE DEF m, j
      <4>3. ByteBits * m <= ByteBits * j
        BY <4>2, Scaled, LevelSizes
      <4> QED BY <4>3 DEF m, j
    <3>2. ByteBits * (n + 1) = ByteBits * n + ByteBits
      BY LevelSizes
    <3> DEFINE x == ByteBits * n
    <3>3. x \in Nat /\ i \in 1 .. ByteBits /\ x + ByteBits <= k /\ k \in Nat
      BY <2>1, <3>1, <3>2, <1>1
    <3> HIDE DEF k, x
    <3>4. x + i \in 1 .. k
      BY <3>3, LevelSizes
    <3> QED BY <3>4 DEF x
  <2> QED BY <2>2, <2>3, LevelSizes
<1>3. \A m \in 1 .. k : e(m) \in {0, 1}
  <2> TAKE m \in 1 .. k
  <2> DEFINE q == (m - 1) \div ByteBits
             r == (m - 1) % ByteBits
  <2>1. q \in Int /\ r \in Int /\ 0 <= r /\ r < ByteBits /\ m - 1 = ByteBits * q + r
    <3>1. m - 1 \in Int
      OBVIOUS
    <3> QED BY <3>1, ModParts, LevelSizes
  <2> HIDE DEF q, r
  <2>2. q >= 0
    <3>1. ByteBits * q + r >= 0
      BY <2>1
    <3>2. q <= -1 => ByteBits * q <= -ByteBits
      BY <2>1, LevelSizes
    <3> QED BY <3>1, <3>2, <2>1, LevelSizes
  <2>3. q < Len(b)
    <3>1. ByteBits * q < ByteBits * Len(b)
      BY <2>1, LevelSizes, <1>1
    <3> DEFINE j == Len(b)
    <3>2. q \in Int /\ j \in Int /\ ByteBits * q < ByteBits * j
      BY <2>1, <3>1, <1>1
    <3> HIDE DEF j
    <3>3. q < j
      BY <3>2, Scaled, LevelSizes
    <3> QED BY <3>3 DEF j
  <2>4. 1 + q \in 1 .. Len(b) /\ 1 + r \in 1 .. ByteBits
    BY <2>1, <2>2, <2>3, <1>1, LevelSizes
  <2>5. b[1 + q] \in CardBytes
    BY <2>4
  <2> QED BY <2>4, <2>5 DEF q, r, CardBytes
<1> HIDE DEF e, k
<1>4. Bits(b) \in Seq({0, 1}) /\ Len(Bits(b)) = k
  BY <1>1, <1>3
<1>5. \A n \in 0 .. Len(b) - 1 : ByteAt(Bits(b), n) = b[n + 1]
  <2> TAKE n \in 0 .. Len(b) - 1
  <2> DEFINE s == ByteAt(Bits(b), n)
  <2>1. /\ s \in Seq({0, 1}) /\ Len(s) = ByteBits
        /\ \A i \in 1 .. ByteBits : s[i] = b[n + 1][i]
    <3>1. ByteBits * n \in Int /\ ByteBits * n + 1 \in Int /\ ByteBits * (n + 1) \in Int
          /\ ByteBits * (n + 1) = ByteBits * n + ByteBits
      BY LevelSizes
    <3>2. \A i \in ByteBits * n + 1 .. ByteBits * (n + 1) : Bits(b)[i] \in {0, 1}
      <4> TAKE i \in ByteBits * n + 1 .. ByteBits * (n + 1)
      <4>1. i - ByteBits * n \in 1 .. ByteBits /\ ByteBits * n + (i - ByteBits * n) = i
        BY <3>1, LevelSizes
      <4>2. i \in 1 .. k
        BY <4>1, <1>2
      <4> QED BY <4>2, <1>4
    <3>3. /\ s \in Seq({0, 1}) /\ Len(s) = ByteBits
          /\ \A i \in 1 .. ByteBits : s[i] = Bits(b)[ByteBits * n + 1 + i - 1]
      <4>1. ByteBits * (n + 1) - (ByteBits * n + 1) + 1 = ByteBits /\ ByteBits * n + 1 <= ByteBits * (n + 1)
        BY <3>1, LevelSizes
      <4> DEFINE f == ByteBits * n + 1
                 g == ByteBits * (n + 1)
      <4>2. f \in Int /\ g \in Int /\ f <= g /\ g - f + 1 = ByteBits /\ s = SubSeq(Bits(b), f, g)
            /\ \A i \in f .. g : Bits(b)[i] \in {0, 1}
        BY <3>1, <3>2, <4>1 DEF ByteAt
      <4> HIDE DEF f, g, s
      <4>3. /\ s \in Seq({0, 1}) /\ Len(s) = ByteBits
            /\ \A i \in 1 .. ByteBits : s[i] = Bits(b)[f + i - 1]
        BY <4>2, SubSeqProperties, Z3
      <4> QED BY <4>3 DEF f
    <3>4. \A i \in 1 .. ByteBits : ByteBits * n + 1 + i - 1 = ByteBits * n + i
      BY <3>1, LevelSizes
    <3>5. \A i \in 1 .. ByteBits : Bits(b)[ByteBits * n + i] = b[n + 1][i]
      BY <1>1, <1>2
    <3> QED BY <3>3, <3>4, <3>5
  <2>2. b[n + 1] \in [1 .. ByteBits -> {0, 1}]
    BY <1>1 DEF CardBytes
  <2> HIDE DEF s
  <2>3. s \in [1 .. ByteBits -> {0, 1}]
    BY <2>1
  <2>4. s = b[n + 1]
    BY <2>1, <2>2, <2>3
  <2> QED BY <2>4 DEF s
<1> QED BY <1>4, <1>5 DEF k

LEMMA LevelOfIs ==
    ASSUME NEW u \in Uids, NEW l \in 1 .. Levels(u)
    PROVE  LevelOf(u, l) = Bits(LevelOfBytes(u, l))
BY DEF LevelOf, LevelOfBytes

(* What of a card's UID is copied at a level at which the card is chosen.   *)
Piece(u, l) == IF l < Levels(u) THEN Step ELSE LevelBytes

LEMMA CopiedIs ==
    ASSUME NEW u \in Uids, NEW l \in 1 .. Levels(u), sel.bits = LevelOf(u, l)
    PROVE  /\ Copied \in Seq(CardBytes) /\ Len(Copied) = Piece(u, l)
           /\ \A i \in 1 .. Piece(u, l) : Copied[i] = u[Step * (l - 1) + i]
<1> DEFINE b == LevelOfBytes(u, l)
           bytes == [n \in 1 .. LevelBytes |-> ByteAt(sel.bits, n - 1)]
<1>1. /\ b \in Seq(CardBytes) /\ Len(b) = LevelBytes
      /\ l < Levels(u) => b[1] = CT /\ \A i \in 1 .. Step : b[i + 1] = u[Step * (l - 1) + i]
      /\ l = Levels(u) => b[1] # CT /\ \A i \in 1 .. LevelBytes : b[i] = u[Step * (l - 1) + i]
  BY LevelBytesAre
<1>2. sel.bits = Bits(b)
  BY LevelOfIs
<1>3. Copied = IF bytes[1] = CT THEN Tail(bytes) ELSE bytes
  BY DEF Copied
<1>4. bytes = b
  <2> HIDE DEF b
  <2>1. \A n \in 1 .. LevelBytes : ByteAt(sel.bits, n - 1) = b[n]
    <3> TAKE n \in 1 .. LevelBytes
    <3>1. n - 1 \in 0 .. Len(b) - 1 /\ (n - 1) + 1 = n
      BY <1>1, LevelSizes
    <3> QED BY <1>1, <1>2, <3>1, BitsAre
  <2>2. b \in [1 .. LevelBytes -> CardBytes] /\ b = [n \in 1 .. LevelBytes |-> b[n]]
    BY <1>1
  <2> QED BY <2>1, <2>2
<1> HIDE DEF b, bytes
<1>5. l < Levels(u) \/ (l = Levels(u) /\ ~(l < Levels(u)))
  BY UidLevels
<1>6. CASE l < Levels(u)
  <2>1. Copied = Tail(b) /\ Piece(u, l) = Step
    BY <1>1, <1>3, <1>4, <1>6 DEF Piece
  <2>2. b # <<>>
    BY <1>1, LevelSizes
  <2>3. Tail(b) \in Seq(CardBytes) /\ Len(Tail(b)) = Step /\ \A i \in 1 .. Step : Tail(b)[i] = b[i + 1]
    BY <1>1, <2>2, HeadTailProperties, LevelSizes
  <2> QED BY <2>1, <2>3, <1>1, <1>6
<1>7. CASE l = Levels(u) /\ ~(l < Levels(u))
  <2>1. Copied = b /\ Piece(u, l) = LevelBytes
    BY <1>1, <1>3, <1>4, <1>7 DEF Piece
  <2> QED BY <2>1, <1>1, <1>7
<1> QED BY <1>5, <1>6, <1>7

Agree(s, t, n) == \A i \in 1 .. n : s[i] = t[i]
UidBytes == CardBytes \cup {<<>>}
UidOK == uid \in Seq(UidBytes) /\ Len(uid) = 3 * Step + 1

LEMMA NextUidIs ==
    ASSUME UidOK, NEW u \in Uids, sel.level \in 1 .. Levels(u), sel.bits = LevelOf(u, sel.level),
           Agree(uid, u, Step * (sel.level - 1))
    PROVE  /\ NextUid \in Seq(UidBytes) /\ Len(NextUid) = 3 * Step + 1
           /\ Len(Copied) = Piece(u, sel.level)
           /\ Agree(NextUid, u, Step * (sel.level - 1) + Piece(u, sel.level))
<1> DEFINE l == sel.level
           p == Step * (l - 1)
           k == Piece(u, l)
           head == SubSeq(uid, 1, p)
           tail == SubSeq(uid, p + Len(Copied) + 1, Len(uid))
<1>1. /\ Copied \in Seq(CardBytes) /\ Len(Copied) = k
      /\ \A i \in 1 .. k : Copied[i] = u[p + i]
  BY CopiedIs
<1>2. p \in Nat /\ k \in Nat /\ k > 0 /\ p + k <= Len(uid) /\ Len(uid) = 3 * Step + 1
  <2>1. Step * l \in Nat /\ p \in Nat /\ Step * l = p + Step /\ Step * l <= Step * 3
    BY LevelPlaces
  <2>2. Step * 3 = 3 * Step
    BY LevelSizes
  <2> HIDE DEF p
  <2> QED BY <2>1, <2>2, LevelSizes DEF UidOK, Piece
<1>3. NextUid = (head \o Copied) \o tail
  BY DEF NextUid, UidAfter
<1>4. uid \in Seq(UidBytes) /\ (\A i \in 1 .. Len(uid) : uid[i] \in UidBytes) /\ Copied \in Seq(UidBytes)
  <2>1. CardBytes \subseteq UidBytes
    BY DEF UidBytes
  <2> HIDE DEF UidBytes
  <2> QED BY <1>1, <2>1, SeqMonotonic, ElementOfSeq DEF UidOK
<1>5. \A i \in 1 .. p : uid[i] = u[i]
  BY DEF Agree
<1> HIDE DEF l, p, k, UidBytes
<1>6. head \in Seq(UidBytes) /\ Len(head) = p /\ \A i \in 1 .. p : head[i] = uid[i]
  <2>1. \A i \in 1 .. p : uid[i] \in UidBytes
    BY <1>2, <1>4
  <2>2. (IF 1 <= p THEN p - 1 + 1 ELSE 0) = p /\ p - 1 + 1 = p /\ \A i \in 1 .. p : 1 + i - 1 = i
    BY <1>2
  <2>3. 1 \in Int /\ p \in Int
    BY <1>2
  <2> QED BY <2>1, <2>2, <2>3, SubSeqProperties, Z3
<1>7. tail \in Seq(UidBytes) /\ Len(tail) = Len(uid) - (p + k)
  <2> DEFINE f == p + Len(Copied) + 1
             g == Len(uid)
  <2>1. f \in Int /\ g \in Int /\ (IF f <= g THEN g - f + 1 ELSE 0) = g - (p + k)
    BY <1>1, <1>2, LevelSizes
  <2>2. \A i \in f .. g : uid[i] \in UidBytes
    BY <1>1, <1>2, <1>4
  <2>3. tail = SubSeq(uid, f, g)
    OBVIOUS
  <2> HIDE DEF f, tail
  <2> QED BY <2>1, <2>2, <2>3, SubSeqProperties
<1> HIDE DEF head, tail
<1>8. /\ head \o Copied \in Seq(UidBytes) /\ Len(head \o Copied) = p + k
      /\ \A i \in 1 .. p + k : (head \o Copied)[i] = IF i <= p THEN head[i] ELSE Copied[i - p]
  BY <1>1, <1>4, <1>6, ConcatProperties
<1>9. \A i \in 1 .. p + k : (head \o Copied)[i] = u[i]
  <2> TAKE i \in 1 .. p + k
  <2>1. CASE i <= p
    BY <1>2, <1>5, <1>6, <1>8, <2>1
  <2>2. CASE ~(i <= p)
    <3>1. i - p \in 1 .. k /\ p + (i - p) = i
      BY <1>2, <2>2
    <3> QED BY <1>1, <1>8, <2>2, <3>1
  <2> QED BY <2>1, <2>2
<1> DEFINE begin == head \o Copied
<1> HIDE DEF begin
<1>10. /\ begin \o tail \in Seq(UidBytes) /\ Len(begin \o tail) = Len(begin) + Len(tail)
       /\ \A i \in 1 .. Len(begin) + Len(tail) :
             (begin \o tail)[i] = IF i <= Len(begin) THEN begin[i] ELSE tail[i - Len(begin)]
  BY <1>7, <1>8, ConcatProperties DEF begin
<1>11. Len(begin) = p + k /\ Len(begin) + Len(tail) = Len(uid) /\ NextUid = begin \o tail
  BY <1>2, <1>3, <1>7, <1>8 DEF begin
<1>12. \A i \in 1 .. p + k : NextUid[i] = u[i]
  BY <1>2, <1>9, <1>10, <1>11 DEF begin
<1> QED BY <1>1, <1>2, <1>10, <1>11, <1>12 DEF Agree, l, p, k

(* A UID given to PICC_Select is the frame that only its card answers.      *)
LEMMA GivenLevel ==
    ASSUME NEW u \in Uids, NEW l \in 1 .. Levels(u)
    PROVE  LevelStart(l, u).bits = LevelOf(u, l) /\ ~(LevelStart(l, u).known < LevelBits)
<1> DEFINE p == Step * (l - 1)
           known == SubSeq(u, p + 1, Len(u))
           tag == l < 3 /\ Len(u) > Step * l + 1
           bytes == (IF tag THEN <<CT>> ELSE <<>>) \o known
           first == SubSeq(bytes, 1, IF Len(bytes) < LevelBytes THEN Len(bytes) ELSE LevelBytes)
           b == LevelOfBytes(u, l)
<1>1. /\ b \in Seq(CardBytes) /\ Len(b) = LevelBytes
      /\ l < Levels(u) => b[1] = CT /\ \A i \in 1 .. Step : b[i + 1] = u[p + i]
      /\ l = Levels(u) => \A i \in 1 .. LevelBytes : b[i] = u[p + i]
  BY LevelBytesAre
<1>2. LevelStart(l, u).bits = Bits(first) /\ LevelStart(l, u).known = ByteBits * Len(bytes)
  BY UidLevels DEF LevelStart
<1>3. LevelOf(u, l) = Bits(b)
  BY LevelOfIs
<1>4. p \in Nat /\ Len(u) \in Nat /\ p + LevelBytes <= Len(u) /\ u \in Seq(CardBytes)
  BY LevelPlaces, UidLevels, LevelSizes
<1>5. /\ l < Levels(u) => tag /\ p + LevelBytes < Len(u)
      /\ l = Levels(u) => ~tag /\ p + LevelBytes = Len(u)
  <2>1. Levels(u) \in 1 .. 3 /\ Len(u) = Step * Levels(u) + 1 /\ p + LevelBytes = Step * l + 1
        /\ Step * l \in Nat /\ (l < Levels(u) => Step * l + Step <= Step * Levels(u))
        /\ Step * Levels(u) \in Nat
    BY LevelPlaces, UidLevels, LevelSizes
  <2> HIDE DEF p
  <2> QED BY <2>1, LevelSizes
<1> HIDE DEF p, tag, b
<1>6. known \in Seq(CardBytes) /\ Len(known) = Len(u) - p /\ \A i \in 1 .. Len(u) - p : known[i] = u[p + i]
  <2> DEFINE f == p + 1
             g == Len(u)
  <2>1. f \in Int /\ g \in Int /\ f <= g /\ g - f + 1 = g - p /\ known = SubSeq(u, f, g)
        /\ \A i \in f .. g : u[i] \in CardBytes
    BY <1>4, LevelSizes
  <2>2. \A i \in Int : f + i - 1 = p + i
    BY <1>4
  <2> HIDE DEF f, g, known
  <2>3. known \in Seq(CardBytes) /\ Len(known) = g - p /\ \A i \in 1 .. g - p : known[i] = u[f + i - 1]
    BY <2>1, SubSeqProperties
  <2>4. \A i \in 1 .. g - p : known[i] = u[p + i]
    <3> TAKE i \in 1 .. g - p
    <3>1. i \in Int
      OBVIOUS
    <3> QED BY <3>1, <2>2, <2>3
  <2> QED BY <2>3, <2>4 DEF g
<1> HIDE DEF known
<1>7. /\ bytes \in Seq(CardBytes) /\ Len(bytes) >= LevelBytes /\ Len(bytes) \in Nat
      /\ \A i \in 1 .. LevelBytes : bytes[i] = b[i]
  <2>1. CASE l < Levels(u)
    <3>1. <<CT>> \in Seq(CardBytes) /\ Len(<<CT>>) = 1 /\ <<CT>>[1] = CT
      BY UidAssumption
    <3>2. bytes = <<CT>> \o known
      BY <1>5, <2>1
    <3> HIDE DEF bytes
    <3>3. /\ bytes \in Seq(CardBytes) /\ Len(bytes) = 1 + (Len(u) - p)
          /\ \A i \in 1 .. 1 + (Len(u) - p) : bytes[i] = IF i <= 1 THEN <<CT>>[i] ELSE known[i - 1]
      BY <1>6, <3>1, <3>2, ConcatProperties
    <3>4. ASSUME NEW i \in 1 .. LevelBytes PROVE bytes[i] = b[i]
      <4>1. CASE i = 1
        BY <1>1, <1>4, <3>1, <3>3, <2>1, <4>1, LevelSizes
      <4>2. CASE i # 1
        <5>1. i - 1 \in 1 .. Step /\ (i - 1) + 1 = i /\ ~(i <= 1) /\ i \in 1 .. 1 + (Len(u) - p)
              /\ i - 1 \in 1 .. Len(u) - p
          BY <1>4, <4>2, LevelSizes
        <5> QED BY <5>1, <1>1, <1>6, <3>3, <2>1
      <4> QED BY <4>1, <4>2
    <3>5. 1 + (Len(u) - p) \in Nat /\ 1 + (Len(u) - p) >= LevelBytes
      BY <1>4, LevelSizes
    <3> QED BY <3>3, <3>4, <3>5
  <2>2. CASE l = Levels(u)
    <3>1. bytes = <<>> \o known
      BY <1>5, <2>2
    <3>2. bytes = known
      BY <3>1, <1>6, ConcatEmptySeq
    <3> HIDE DEF bytes
    <3>3. Len(u) - p = LevelBytes
      BY <1>4, <1>5, <2>2, LevelSizes
    <3> QED BY <3>2, <3>3, <1>1, <1>6, <2>2, LevelSizes
  <2>3. l < Levels(u) \/ l = Levels(u)
    BY UidLevels
  <2> QED BY <2>1, <2>2, <2>3
<1> HIDE DEF bytes
<1>8. first = b
  <2>1. first = SubSeq(bytes, 1, LevelBytes)
    BY <1>7, LevelSizes
  <2> HIDE DEF first
  <2>2. \A i \in 1 .. LevelBytes : bytes[i] \in CardBytes
    BY <1>7, LevelSizes
  <2>3. LevelBytes - 1 + 1 = LevelBytes /\ \A i \in 1 .. LevelBytes : 1 + i - 1 = i
    BY LevelSizes
  <2>4. first \in Seq(CardBytes) /\ Len(first) = LevelBytes /\ \A i \in 1 .. LevelBytes : first[i] = bytes[i]
    BY <2>1, <2>2, <2>3, LevelSizes, SubSeqProperties, Z3
  <2> QED BY <2>4, <1>1, <1>7, SeqEqual
<1>9. ~(ByteBits * Len(bytes) < LevelBits)
  <2> DEFINE n == Len(bytes)
  <2>1. n \in Int /\ LevelBytes \in Int /\ LevelBytes <= n
    BY <1>7, LevelSizes
  <2> HIDE DEF n
  <2>2. ByteBits * LevelBytes <= ByteBits * n
    BY <2>1, Scaled, LevelSizes
  <2>3. ByteBits * n \in Int /\ ByteBits * LevelBytes \in Int
    BY <2>1, LevelSizes
  <2> QED BY <2>2, <2>3 DEF n, LevelBits
<1> QED BY <1>2, <1>3, <1>8, <1>9

-----------------------------------------------------------------------------
(* The invariant of a selection.                                            *)

CardsTyped == picc \in [Uids -> PiccStates] /\ level \in [Uids -> Nat]
SelTyped == sel = [level |-> sel.level, known |-> sel.known, bits |-> sel.bits, given |-> sel.given]

(* No card is ready while one is active.                                    *)
OneSpeaks == \A c, d \in Uids : ~(picc[c] = "ready" /\ picc[d] = "active")

(* The cards that are still ready at the level of the selection have the    *)
(* UID read so far.                                                         *)
OnTheWay(c) == sel.level \in 1 .. Levels(c) /\ Agree(uid, c, Step * (sel.level - 1))
Descended ==
    op = "select" =>
        /\ sel.level \in 1 .. 3
        /\ \A c \in Uids : picc[c] = "ready" /\ level[c] = sel.level => OnTheWay(c)

(* So has a card that was given, and the frame is the one it answers.       *)
GivenDescended ==
    op = "select" /\ sel.given # <<>> =>
        /\ sel.given \in Uids /\ OnTheWay(sel.given)
        /\ sel.bits = LevelOf(sel.given, sel.level) /\ ~(sel.known < LevelBits)

SelectInv == UidOK /\ CardsTyped /\ SelTyped /\ OneSpeaks /\ Descended /\ GivenDescended

(* What an answer of OK then means.                                         *)
Reported ==
    op = "select" /\ op' = "none" /\ status' = "OK" =>
        /\ {c \in Uids : picc'[c] = "active"} = {SubSeq(uid', 1, size')}
        /\ sel.given # <<>> => SubSeq(uid', 1, size') = sel.given

(* Steps outside of PICC_Select: cards may leave or fall silent.            *)
Fewer ==
    /\ UNCHANGED <<level, sel, uid>> /\ (op' = op \/ (op # "select" /\ op' # "select"))
    /\ picc' \in [Uids -> PiccStates]
    /\ \A c \in Uids : picc'[c] = picc[c] \/ picc'[c] \notin {"ready", "active"}

LEMMA FewerKept == ASSUME SelectInv, Fewer PROVE SelectInv' /\ Reported
<1>1. UidOK' /\ CardsTyped' /\ SelTyped'
  BY DEF SelectInv, Fewer, UidOK, CardsTyped, SelTyped
<1>2. OneSpeaks'
  BY DEF SelectInv, Fewer, OneSpeaks
<1>3. Descended'
  <2> SUFFICES ASSUME op' = "select" PROVE Descended'
    BY DEF Descended
  <2>1. op = "select"
    BY DEF Fewer
  <2>2. \A c \in Uids : OnTheWay(c)' = OnTheWay(c)
    BY DEF Fewer, OnTheWay, Agree
  <2> QED BY <2>1, <2>2 DEF SelectInv, Fewer, Descended
<1>4. GivenDescended'
  <2> SUFFICES ASSUME op' = "select", sel.given # <<>> PROVE GivenDescended'
    BY DEF GivenDescended, Fewer
  <2>1. op = "select" /\ sel' = sel
    BY DEF Fewer
  <2>2. OnTheWay(sel.given)' <=> OnTheWay(sel.given)
    BY DEF Fewer, OnTheWay, Agree
  <2> QED BY <2>1, <2>2 DEF SelectInv, Fewer, GivenDescended
<1>5. Reported
  BY DEF Fewer, Reported
<1> QED BY <1>1, <1>2, <1>3, <1>4, <1>5 DEF SelectInv

LEMMA CalledKept ==
    ASSUME SelectInv, NEW wake \in BOOLEAN, PICC_REQA_or_WUPA(wake)
    PROVE  SelectInv' /\ Reported
<1>1. PICK called : picc' = [c \in Uids |-> IF c \in called THEN "ready"
                               ELSE IF picc[c] \in {"ready", "active"} THEN "idle" ELSE picc[c]]
  BY DEF PICC_REQA_or_WUPA
<1>2. level' = [c \in Uids |-> 1] /\ op = "none" /\ op' = "none" /\ UNCHANGED <<sel, uid>>
  BY DEF PICC_REQA_or_WUPA, Return
<1>3. CardsTyped' /\ OneSpeaks'
  BY <1>1, <1>2 DEF SelectInv, CardsTyped, OneSpeaks, PiccStates
<1> QED BY <1>2, <1>3 DEF SelectInv, UidOK, SelTyped, Descended, GivenDescended, Reported

LEMMA SelectBegins == ASSUME SelectInv, PICC_Select PROVE SelectInv' /\ Reported
<1>1. PICK given \in Uids \cup {<<>>} : sel' = LevelStart(1, given)
  BY DEF PICC_Select
<1>2. op = "none" /\ op' = "select" /\ UNCHANGED <<picc, level, uid>>
  BY DEF PICC_Select, cardVars
<1>3. sel'.level = 1 /\ sel'.given = given /\ SelTyped'
  BY <1>1 DEF LevelStart, SelTyped
<1>4. \A c \in Uids : OnTheWay(c)'
  <2> TAKE c \in Uids
  <2>1. 1 \in 1 .. Levels(c) /\ Step * (1 - 1) = 0
    BY UidLevels, LevelSizes
  <2> QED BY <1>3, <2>1 DEF OnTheWay, Agree
<1>5. given # <<>> => sel'.bits = LevelOf(given, 1) /\ ~(sel'.known < LevelBits)
  <2> SUFFICES ASSUME given # <<>> PROVE sel'.bits = LevelOf(given, 1) /\ ~(sel'.known < LevelBits)
    OBVIOUS
  <2>1. given \in Uids /\ 1 \in 1 .. Levels(given)
    BY UidLevels
  <2> QED BY <1>1, <2>1, GivenLevel
<1>6. GivenDescended'
  BY <1>3, <1>4, <1>5 DEF GivenDescended
<1> QED BY <1>2, <1>3, <1>4, <1>6 DEF SelectInv, UidOK, CardsTyped, OneSpeaks, Descended, Reported

LEMMA AnticollisionKept == ASSUME SelectInv, Anticollision PROVE SelectInv' /\ Reported
<1>1. op = "select" /\ sel.known < LevelBits /\ UNCHANGED <<picc, level, uid>>
  BY DEF Anticollision, cardVars
<1>2. \/ op' = "none" /\ status' # "OK" /\ sel' = NoSel
      \/ op' = op /\ \E k, b : sel' = [sel EXCEPT !.known = k, !.bits = b]
  BY DEF Anticollision, Return
<1>3. CASE op' = "none" /\ status' # "OK" /\ sel' = NoSel
  BY <1>1, <1>3 DEF SelectInv, UidOK, CardsTyped, SelTyped, OneSpeaks, Descended, GivenDescended, Reported, NoSel
<1>4. CASE op' = op /\ \E k, b : sel' = [sel EXCEPT !.known = k, !.bits = b]
  <2>1. PICK k, b : sel' = [sel EXCEPT !.known = k, !.bits = b]
    BY <1>4
  <2>2. sel'.level = sel.level /\ sel'.given = sel.given /\ SelTyped'
    BY <2>1 DEF SelectInv, SelTyped
  <2>3. sel.given = <<>>
    BY <1>1 DEF SelectInv, GivenDescended
  <2>4. \A c \in Uids : OnTheWay(c)' = OnTheWay(c)
    BY <1>1, <2>2 DEF OnTheWay, Agree
  <2>5. Descended'
    BY <1>1, <1>4, <2>2, <2>4 DEF SelectInv, Descended
  <2> QED BY <1>1, <1>4, <2>2, <2>3, <2>5
          DEF SelectInv, UidOK, CardsTyped, OneSpeaks, GivenDescended, Reported
<1> QED BY <1>2, <1>3, <1>4

LEMMA WholeUid ==
    ASSUME NEW s \in Seq(UidBytes), Len(s) = 3 * Step + 1, NEW u \in Uids, Agree(s, u, Len(u))
    PROVE  SubSeq(s, 1, Len(u)) = u
<1> DEFINE n == Len(u)
<1>1. n \in Nat /\ n <= Len(s) /\ 1 <= n
  <2>1. 1 \in 1 .. Levels(u) /\ Levels(u) \in 1 .. Levels(u) /\ Step * Levels(u) \in Nat
        /\ Step * Levels(u) <= Step * 3 /\ n = Step * Levels(u) + 1
    BY LevelPlaces, UidLevels
  <2> QED BY <2>1, LevelSizes
<1>2. u \in Seq(UidBytes)
  BY UidLevels, SeqMonotonic DEF UidBytes
<1> DEFINE t == SubSeq(s, 1, n)
<1> HIDE DEF UidBytes, n, t
<1>3. t \in Seq(UidBytes) /\ Len(t) = n /\ \A i \in 1 .. n : t[i] = s[i]
  <2>1. \A i \in 1 .. n : s[i] \in UidBytes
    BY <1>1, ElementOfSeq
  <2>2. n - 1 + 1 = n /\ \A i \in 1 .. n : 1 + i - 1 = i
    BY <1>1
  <2> QED BY <1>1, <2>1, <2>2, SubSeqProperties, Z3 DEF t
<1>4. \A i \in 1 .. n : t[i] = u[i]
  BY <1>3 DEF Agree, n
<1>5. t = u
  BY <1>2, <1>3, <1>4, SeqEqual DEF n
<1> QED BY <1>5 DEF t, n

LEMMA SelectKept == ASSUME SelectInv, Select PROVE SelectInv' /\ Reported
<1> DEFINE l == sel.level
           p == Step * (l - 1)
<1>1. /\ op = "select"
      /\ picc' = [c \in Uids |-> IF c \in Chosen THEN IF l = Levels(c) THEN "active" ELSE "ready"
                                  ELSE IF picc[c] = "ready" THEN "idle" ELSE picc[c]]
      /\ level' = [c \in Uids |-> IF c \in Chosen /\ l < Levels(c) THEN level[c] + 1 ELSE 1]
  BY DEF Select
<1>2. \/ op' = "none" /\ status' # "OK" /\ sel' = NoSel /\ (uid' = uid \/ (Chosen # {} /\ uid' = NextUid))
      \/ \E c \in Chosen : /\ l < Levels(c) /\ uid' = NextUid /\ op' = op
                            /\ sel' = LevelStart(l + 1, sel.given)
      \/ \E c \in Chosen : /\ ~(l < Levels(c)) /\ uid' = NextUid /\ size' = Step * l + 1
                            /\ op' = "none" /\ sel' = NoSel
  BY DEF Select, Return
(* Those that are chosen, and a card that was given, are alike.             *)
<1>3. ASSUME NEW c \in Uids, OnTheWay(c), sel.bits = LevelOf(c, l)
      PROVE  /\ NextUid \in Seq(UidBytes) /\ Len(NextUid) = 3 * Step + 1
             /\ Len(Copied) = Piece(c, l) /\ Agree(NextUid, c, p + Piece(c, l)) /\ l \in 1 .. Levels(c)
  BY <1>3, NextUidIs DEF SelectInv, OnTheWay
<1>4. ASSUME NEW c \in Chosen
      PROVE  c \in Uids /\ picc[c] = "ready" /\ OnTheWay(c) /\ sel.bits = LevelOf(c, l)
  BY <1>1, <1>4 DEF Chosen, Hears, Present, SelectInv, Descended
<1>5. ASSUME NEW c \in Uids, NEW d \in Uids, l \in 1 .. Levels(c), l \in 1 .. Levels(d),
             Piece(c, l) = Piece(d, l)
      PROVE  l < Levels(c) <=> l < Levels(d)
  BY <1>5, LevelSizes DEF Piece
<1> HIDE DEF l
<1>6. ASSUME NEW c \in Chosen, NEW d \in Uids, OnTheWay(d), sel.bits = LevelOf(d, l)
      PROVE  l < Levels(c) <=> l < Levels(d)
  BY <1>3, <1>4, <1>5, <1>6
<1>7. UidOK'
  <2>1. uid' = uid \/ (Chosen # {} /\ uid' = NextUid)
    BY <1>2
  <2> QED BY <2>1, <1>3, <1>4 DEF SelectInv, UidOK
<1>8. CardsTyped'
  BY <1>1 DEF SelectInv, CardsTyped, PiccStates
<1>9. SelTyped'
  BY <1>2 DEF SelTyped, NoSel, LevelStart
<1>10. \A c \in Chosen : l < Levels(c) \/ l = Levels(c)
  BY <1>3, <1>4, UidLevels
<1>11. \A c \in Uids : picc'[c] = "ready" => c \in Chosen /\ l < Levels(c)
  BY <1>1, <1>10
<1>12. \A c \in Uids : picc'[c] = "active" => (c \in Chosen /\ l = Levels(c)) \/ picc[c] = "active"
  BY <1>1
<1>13. \A c \in Chosen, d \in Uids : picc[d] # "active"
  BY <1>4 DEF SelectInv, OneSpeaks
<1>14. \A c \in Chosen : ~(l < Levels(c) /\ l = Levels(c))
  BY <1>3, <1>4, UidLevels
<1>15. OneSpeaks'
  <2> SUFFICES ASSUME NEW c \in Uids, NEW d \in Uids, picc'[c] = "ready", picc'[d] = "active"
               PROVE  FALSE
    BY DEF OneSpeaks
  <2>1. c \in Chosen /\ l < Levels(c) /\ d \in Chosen /\ l = Levels(d)
    BY <1>11, <1>12, <1>13
  <2> QED BY <2>1, <1>4, <1>6, <1>14
<1>16. CASE op' = "none" /\ status' # "OK" /\ sel' = NoSel
  BY <1>7, <1>8, <1>9, <1>15, <1>16 DEF SelectInv, Descended, GivenDescended, Reported
<1>17. CASE \E c \in Chosen : /\ l < Levels(c) /\ uid' = NextUid /\ op' = op
                              /\ sel' = LevelStart(l + 1, sel.given)
  <2>1. PICK c \in Chosen : /\ l < Levels(c) /\ uid' = NextUid /\ op' = op
                            /\ sel' = LevelStart(l + 1, sel.given)
    BY <1>17
  <2>2. sel'.level = l + 1 /\ sel'.given = sel.given
    BY <2>1 DEF LevelStart
  <2>3. ASSUME NEW d \in Uids, OnTheWay(d), sel.bits = LevelOf(d, l)
        PROVE  OnTheWay(d)' /\ l + 1 \in 1 .. Levels(d)
    <3>1. l < Levels(d)
      BY <1>6, <2>1, <2>3
    <3>2. l \in 1 .. Levels(d) /\ Levels(d) \in 1 .. 3 /\ Agree(NextUid, d, p + Step)
      BY <1>3, <2>3, <3>1, UidLevels DEF Piece
    <3>3. l + 1 \in 1 .. Levels(d) /\ Step * ((l + 1) - 1) = p + Step
      BY <3>1, <3>2, LevelSizes
    <3> QED BY <2>1, <2>2, <3>2, <3>3 DEF OnTheWay
  <2>4. Descended'
    <3>1. l + 1 \in 1 .. 3
      BY <2>1, <2>3, <1>4, UidLevels
    <3>2. ASSUME NEW d \in Uids, picc'[d] = "ready" PROVE OnTheWay(d)'
      BY <3>2, <1>11, <1>4, <2>3
    <3> QED BY <3>1, <3>2, <2>2 DEF Descended
  <2>5. GivenDescended'
    <3> SUFFICES ASSUME sel.given # <<>> PROVE GivenDescended'
      BY <2>2 DEF GivenDescended
    <3>1. PICK g \in Uids : g = sel.given /\ OnTheWay(g) /\ sel.bits = LevelOf(g, l)
      BY <1>1 DEF SelectInv, GivenDescended, l
    <3>2. l + 1 \in 1 .. Levels(g) /\ OnTheWay(g)'
      BY <2>3, <3>1
    <3>3. sel'.bits = LevelOf(g, l + 1) /\ ~(sel'.known < LevelBits)
      BY <2>1, <3>1, <3>2, GivenLevel
    <3>4. sel'.given = g
      BY <2>2, <3>1
    <3> QED BY <2>2, <3>1, <3>2, <3>3, <3>4 DEF GivenDescended, OnTheWay
  <2>6. Reported
    BY <1>1, <2>1 DEF Reported
  <2> QED BY <1>7, <1>8, <1>9, <1>15, <2>4, <2>5, <2>6 DEF SelectInv
<1>18. CASE \E c \in Chosen : /\ ~(l < Levels(c)) /\ uid' = NextUid /\ size' = Step * l + 1
                              /\ op' = "none" /\ sel' = NoSel
  <2>1. PICK c \in Chosen : /\ ~(l < Levels(c)) /\ uid' = NextUid /\ size' = Step * l + 1
                            /\ op' = "none" /\ sel' = NoSel
    BY <1>18
  <2>2. ASSUME NEW d \in Uids, OnTheWay(d), sel.bits = LevelOf(d, l)
        PROVE  SubSeq(uid', 1, size') = d /\ l = Levels(d)
    <3>1. ~(l < Levels(d)) /\ l \in 1 .. Levels(d)
      BY <1>3, <1>6, <2>1, <2>2
    <3>2. l = Levels(d) /\ Len(d) = Step * l + 1
      BY <3>1, UidLevels
    <3>3. Agree(NextUid, d, p + LevelBytes)
      BY <1>3, <2>2, <3>1 DEF Piece
    <3>4. p + LevelBytes = Len(d)
      BY <3>1, <3>2, UidLevels, LevelSizes
    <3> QED BY <1>3, <2>1, <2>2, <3>2, <3>3, <3>4, WholeUid
  <2>3. \A d \in Chosen : SubSeq(uid', 1, size') = d /\ l = Levels(d)
    BY <2>2, <1>4
  <2>4. {d \in Uids : picc'[d] = "active"} = {SubSeq(uid', 1, size')}
    <3>1. c \in Uids /\ picc'[c] = "active"
      BY <1>1, <1>4, <2>1, <2>3
    <3>2. \A d \in Uids : picc'[d] = "active" => d = c
      BY <1>12, <1>13, <2>1, <2>3
    <3> QED BY <2>1, <2>3, <3>1, <3>2
  <2>5. sel.given # <<>> => SubSeq(uid', 1, size') = sel.given
    <3> SUFFICES ASSUME sel.given # <<>> PROVE SubSeq(uid', 1, size') = sel.given
      OBVIOUS
    <3>1. sel.given \in Uids /\ OnTheWay(sel.given) /\ sel.bits = LevelOf(sel.given, l)
      BY <1>1 DEF SelectInv, GivenDescended, l
    <3> QED BY <2>2, <3>1
  <2>6. Descended' /\ GivenDescended'
    BY <2>1 DEF Descended, GivenDescended
  <2> QED BY <1>7, <1>8, <1>9, <1>15, <2>4, <2>5, <2>6 DEF SelectInv, Reported
<1> QED BY <1>2, <1>16, <1>17, <1>18

LEMMA OthersFewer ==
    ASSUME SelectInv, RfidNext,
           ~(\E wake \in BOOLEAN : PICC_REQA_or_WUPA(wake)), ~PICC_Select, ~Anticollision, ~Select
    PROVE  Fewer
<1> DEFINE Quiet == UNCHANGED <<level, sel, uid>> /\ (op' = op \/ (op # "select" /\ op' # "select"))
           Silenced == /\ picc' \in [Uids -> PiccStates]
                       /\ \A c \in Uids : picc'[c] = picc[c] \/ picc'[c] \notin {"ready", "active"}
<1>1. ASSUME picc' = picc PROVE Silenced
  BY <1>1 DEF SelectInv, CardsTyped
<1>2. ASSUME NEW c, picc' = [picc EXCEPT ![c] = "idle"] \/ picc' = [picc EXCEPT ![c] = "away"]
      PROVE  Silenced
  BY <1>2 DEF SelectInv, CardsTyped, PiccStates
<1>3. ASSUME PICC_HaltA PROVE Silenced
  BY <1>3 DEF PICC_HaltA, SelectInv, CardsTyped, PiccStates
<1>4. ASSUME DropOut PROVE Silenced
  BY <1>4, <1>2 DEF DropOut
<1>5. ASSUME PCD_Authenticate PROVE Silenced
  BY <1>1, <1>2, <1>5 DEF PCD_Authenticate, Unheard
<1>6. ASSUME Lost \/ NoSession \/ Refuse PROVE Silenced
  BY <1>1, <1>4, <1>6 DEF Lost, NoSession, Refuse
<1>7. ASSUME NEW name, StepOne(name), name # "select" PROVE Quiet /\ Silenced
  BY <1>1, <1>6, <1>7 DEF StepOne, Continue
<1> HIDE DEF Silenced
<1>8. CASE Enter \/ Leave
  BY <1>2, <1>8 DEF Enter, Leave, Fewer, Silenced
<1>9. CASE Halt \/ DumpEnd
  BY <1>1, <1>3, <1>9 DEF Halt, DumpEnd, DumpSteps, Fewer, Silenced
<1>10. CASE Authenticate \/ DumpAuthenticate
  BY <1>5, <1>10 DEF Authenticate, DumpAuthenticate, NextSector, Fewer, Silenced
<1>11. CASE PCD_StopCrypto1 \/ WriteRefused \/ Dump
  BY <1>1, <1>11 DEF PCD_StopCrypto1, WriteRefused, Dump, cardVars, Fewer, Silenced
<1>12. CASE MIFARE_TwoStepHelper
  BY <1>7, <1>12 DEF MIFARE_TwoStepHelper, TwoSteps, Fewer, Silenced
<1>13. CASE StepTwo
  BY <1>1, <1>13 DEF StepTwo, TwoSteps, Fewer, Silenced
<1>14. CASE MIFARE_Transfer
  BY <1>1, <1>4, <1>14 DEF MIFARE_Transfer, Fewer, Silenced
<1>15. CASE MIFARE_Write
  BY <1>1, <1>7, <1>15 DEF MIFARE_Write, cardVars, Fewer, Silenced
<1>16. CASE WriteData
  BY <1>1, <1>6, <1>16 DEF WriteData, Fewer, Silenced
<1>17. CASE DumpBlock
  BY <1>1, <1>4, <1>17 DEF DumpBlock, NextSector, Fewer, Silenced
<1>18. CASE MIFARE_SetAccessBits
  BY <1>1, <1>18 DEF MIFARE_SetAccessBits, cardVars, Fewer, Silenced
<1> QED BY <1>8, <1>9, <1>10, <1>11, <1>12, <1>13, <1>14, <1>15, <1>16, <1>17, <1>18 DEF RfidNext

LEMMA SelectInit == RfidInit => SelectInv
<1> SUFFICES ASSUME RfidInit PROVE SelectInv
  OBVIOUS
<1>1. UidOK
  <2> DEFINE n == 3 * Step + 1
  <2>1. n \in Nat
    BY LevelSizes
  <2>2. uid = [i \in 1 .. n |-> <<>>]
    BY DEF RfidInit
  <2> HIDE DEF n
  <2>3. uid \in Seq(UidBytes) /\ Len(uid) = n
    BY <2>1, <2>2 DEF UidBytes
  <2> QED BY <2>3 DEF UidOK, n
<1> QED BY <1>1 DEF RfidInit, SelectInv, CardsTyped, PiccStates, SelTyped, NoSel, OneSpeaks, Descended,
                    GivenDescended

(* A selection that succeeds has made one card active, and reports its UID; *)
(* one that was given a UID reports that one: for any cards with UIDs of up *)
(* to three levels, any collisions, losses and moves (PICC_Select).         *)
THEOREM SelectSoundThm == RfidSpec => SelectSound
<1>1. RfidInit => SelectInv
  BY SelectInit
<1>2. SelectInv /\ [RfidNext]_rfidVars => SelectInv' /\ Reported
  <2> SUFFICES ASSUME SelectInv, [RfidNext]_rfidVars PROVE SelectInv' /\ Reported
    OBVIOUS
  <2>1. ASSUME Fewer PROVE SelectInv' /\ Reported
    BY <2>1, FewerKept
  <2>2. CASE UNCHANGED rfidVars
    <3>1. Fewer
      BY <2>2 DEF rfidVars, Fewer, SelectInv, CardsTyped
    <3> QED BY <2>1, <3>1
  <2> QED BY <2>1, <2>2, CalledKept, SelectBegins, AnticollisionKept, SelectKept, OthersFewer
<1>3. SelectInv /\ [RfidNext]_rfidVars =>
        /\ [op = "select" /\ op' = "none" /\ status' = "OK" =>
              {c \in Uids : picc'[c] = "active"} = {SubSeq(uid', 1, size')}]_rfidVars
        /\ [op = "select" /\ op' = "none" /\ status' = "OK" /\ sel.given # <<>> =>
              SubSeq(uid', 1, size') = sel.given]_rfidVars
  BY <1>2 DEF Reported
<1>4. SelectInv /\ [RfidNext]_rfidVars => SelectInv'
  BY <1>2
<1> QED BY <1>1, <1>3, <1>4, PTL DEF RfidSpec, SelectSound, SelectedIsActive, GivenIsSelected

-----------------------------------------------------------------------------
(* The calendar.  A date is shown for every day until 28 February 2100.     *)

FirstGoodDay == 24855
LastGoodDay == 73107
Year(y) == y + 1900
LEMMA Era == SecsDay = 86400 /\ EraDays = 49710 /\ EraSecs = 23296
             /\ FixPtDaysYear = 93504 /\ BaseYear = 1900
BY DEF SecsDay, EraDays, EraSecs, FixPtDaysYear, BaseYear

LEMMA DayParts ==
    ASSUME NEW c \in Nat, c < 86400
    PROVE  /\ c \div 86400 = 0 /\ c % 86400 = c
           /\ (c + 86400) \div 86400 = 1 /\ (c + 86400) % 86400 = c
<1>1. ASSUME NEW n \in Nat, n = 86400 * 1 + c PROVE n \div 86400 = 1
  BY <1>1
<1>2. ASSUME NEW n \in Nat, n = 86400 * 1 + c PROVE n % 86400 = c
  BY <1>2
<1>3. c \div 86400 = 0 /\ c % 86400 = c
  OBVIOUS
<1>4. c + 86400 \in Nat /\ c + 86400 = 86400 * 1 + c
  OBVIOUS
<1> QED BY <1>1, <1>2, <1>3, <1>4

(* The overflow of the counter is undone.                                   *)
TheDay(d, c) == DayNo(Counter(d, c), Overflowed(d, c))
TheClock(d, c) == DayClock(Counter(d, c), Overflowed(d, c))

LEMMA EraUndone ==
    ASSUME NEW d \in Nat, NEW c \in Nat, c < SecsDay
    PROVE  TheDay(d, c) = d /\ TheClock(d, c) = c
<1> DEFINE t == Counter(d, c)
           o == Overflowed(d, c)
<1>1. CASE ~o
  <2>1. t.days = d /\ t.secs = c
    BY <1>1 DEF Counter
  <2>2. Shifted(t, o) = c
    BY <1>1, <2>1 DEF Shifted
  <2>3. c \div 86400 = 0 /\ c % 86400 = c
    BY DayParts, Era
  <2> QED BY <1>1, <2>1, <2>2, <2>3, Era DEF DayNo, DayClock, TheDay, TheClock
<1>2. CASE o /\ c >= 23296
  <2>1. t.days = d - 49710 /\ t.secs = c - 23296
    BY <1>2, Era DEF Counter
  <2>2. Shifted(t, o) = c
    BY <1>2, <2>1, Era DEF Shifted
  <2>3. c \div 86400 = 0 /\ c % 86400 = c
    BY DayParts, Era
  <2>4. DayNo(t, o) = (t.days + 49710) + Shifted(t, o) \div 86400
    BY <1>2, Era DEF DayNo
  <2>5. DayNo(t, o) = d
    BY <2>1, <2>2, <2>3, <2>4
  <2> QED BY <2>2, <2>3, <2>5, Era DEF DayClock, TheDay, TheClock
<1>3. CASE o /\ c < 23296
  <2>1. t.days = d - 49711 /\ t.secs = c - 23296 + 86400
    BY <1>3, Era DEF Counter
  <2>2. Shifted(t, o) = c + 86400
    BY <1>3, <2>1, Era DEF Shifted
  <2>3. (c + 86400) \div 86400 = 1 /\ (c + 86400) % 86400 = c
    BY DayParts, Era
  <2>4. DayNo(t, o) = (t.days + 49710) + Shifted(t, o) \div 86400
    BY <1>3, Era DEF DayNo
  <2>5. DayNo(t, o) = d
    BY <2>1, <2>2, <2>3, <2>4
  <2> QED BY <2>2, <2>3, <2>5, Era DEF DayClock, TheDay, TheClock
<1> QED BY <1>1, <1>2, <1>3

(* The fixed-point division finds the year: the days before year y.         *)
Before(y) == 365 * y + (y + 3) \div 4

LEMMA YearFound ==
    ASSUME NEW d \in Nat, NEW y \in Nat, Before(y) <= d + 1, d + 1 < Before(y + 1)
    PROVE  /\ ((d + 1) * 256) \div 93504 = y
           /\ (((d + 1) * 256) % 93504) \div 256 = d + 1 - Before(y)
<1> DEFINE f == (d + 1) * 256
           r == f - 93504 * y
<1>1. 4 * ((y + 3) \div 4) >= y /\ 4 * ((y + 3) \div 4) <= y + 3
      /\ 4 * ((y + 4) \div 4) <= y + 4
  OBVIOUS
<1>2. r >= 0 /\ r < 93504
  BY <1>1 DEF Before
<1>3. f \in Nat /\ r \in Nat /\ f = 93504 * y + r
  BY <1>2
<1> HIDE DEF f, r
<1>4. f \div 93504 = y /\ f % 93504 = r
  BY <1>2, <1>3
<1>5. r = 256 * (d + 1 - 365 * y) - 64 * y
  BY DEF r, f
<1>6. r \div 256 = d + 1 - 365 * y - (y + 3) \div 4
  BY <1>1, <1>3, <1>5
<1> QED BY <1>4, <1>6 DEF f, Before

LEMMA YearExists ==
    ASSUME NEW d \in Nat, FirstGoodDay <= d, d <= LastGoodDay
    PROVE  \E y \in Nat : 68 <= y /\ y <= 200 /\ Before(y) <= d + 1 /\ d + 1 < Before(y + 1)
<1> DEFINE y == ((d + 1) * 256) \div 93504
<1>1. y \in Nat /\ 68 <= y /\ y <= 200 /\ 93504 * y <= (d + 1) * 256 /\ (d + 1) * 256 < 93504 * (y + 1)
  BY DEF FirstGoodDay, LastGoodDay
<1> HIDE DEF y
<1>2. Before(y) <= d + 1
  BY <1>1 DEF Before
<1>3. d + 1 < Before(y + 1)
  BY <1>1 DEF Before
<1> QED BY <1>1, <1>2, <1>3

(* Month and day of the month.                                              *)
SumsWith(b) == <<0, 31, 59 + b, 90 + b, 120 + b, 151 + b, 181 + b, 212 + b, 243 + b,
                 273 + b, 304 + b, 334 + b, 365 + b>>
LeapDay(y) == IF y % 4 = 0 THEN 1 ELSE 0

LEMMA Sums ==
    ASSUME NEW y \in Nat, 1901 <= y, y <= 2100
    PROVE  LeapDay(y) \in {0, 1} /\ MonthSums(y) = SumsWith(LeapDay(y))
BY DEF MonthSums, SumsWith, LeapDay

LEMMA MonthFound ==
    ASSUME NEW y \in Nat, 1901 <= y, y <= 2100, NEW doy \in Nat, NEW n \in 1 .. 12,
           MonthSums(y)[n] <= doy, doy < MonthSums(y)[n + 1]
    PROVE  MonthOf(doy, y) = [mon |-> n - 1, mday |-> doy - MonthSums(y)[n] + 1]
<1> DEFINE s == MonthSums(y)
           m == CHOOSE k \in 1 .. 12 : s[k] <= doy /\ doy < s[k + 1]
<1>1. m \in 1 .. 12 /\ s[m] <= doy /\ doy < s[m + 1]
  OBVIOUS
<1> HIDE DEF m
<1>2. \A i, j \in 1 .. 13 : s[i] \in Nat /\ s[j] \in Nat /\ (i < j => s[i] < s[j])
  <2>1. PICK b \in {0, 1} : s = SumsWith(b)
    BY Sums
  <2> QED BY <2>1 DEF SumsWith
<1> HIDE DEF s
<1>3. ~(m < n) /\ ~(n < m)
  <2>1. ASSUME m < n PROVE FALSE
    <3>1. m + 1 = n \/ s[m + 1] < s[n]
      BY <1>1, <1>2, <2>1
    <3> QED BY <1>1, <1>2, <3>1 DEF s
  <2>2. ASSUME n < m PROVE FALSE
    <3>1. n + 1 = m \/ s[n + 1] < s[m]
      BY <1>1, <1>2, <2>2
    <3> QED BY <1>1, <1>2, <3>1 DEF s
  <2> QED BY <2>1, <2>2
<1>4. m = n
  BY <1>1, <1>3
<1>5. MonthOf(doy, y) = [mon |-> m - 1, mday |-> doy - s[m] + 1]
  BY DEF MonthOf, m, s
<1> QED BY <1>4, <1>5 DEF s

(* The last day of a month of the calendar.                                 *)
LEMMA MonthLengths ==
    ASSUME NEW y \in Nat, 1901 <= y, y <= 2100, NEW n \in 1 .. 12, y = 2100 => n # 2
    PROVE  DaysIn(n - 1, y) = MonthSums(y)[n + 1] - MonthSums(y)[n]
<1>1. PICK b \in {0, 1} : b = LeapDay(y) /\ MonthSums(y) = SumsWith(b)
  BY Sums
<1>2. y # 2100 => (Leap(y) <=> y % 4 = 0)
  <2>1. y % 100 = 0 => y = 2000 \/ y = 2100
    OBVIOUS
  <2>2. 2000 % 400 = 0
    OBVIOUS
  <2> QED BY <2>1, <2>2 DEF Leap
<1>3. CASE n = 2
  BY <1>1, <1>2, <1>3 DEF DaysIn, SumsWith, LeapDay
<1>4. CASE n # 2
  <2>1. DaysIn(n - 1, y) = <<31, 28, 31, 30, 31, 30, 31, 31, 30, 31, 30, 31>>[n]
    BY <1>4 DEF DaysIn
  <2> QED BY <1>1, <1>4, <2>1 DEF SumsWith
<1> QED BY <1>3, <1>4

(* What is shown for a day: the year it falls in, its month and day.        *)
Shown(d, y, n) ==
    LET doy == d + 1 - Before(y) IN
    /\ y \in Nat /\ 68 <= y /\ y <= 200 /\ n \in 1 .. 12 /\ Before(y) <= d + 1 /\ d + 1 < Before(y + 1)
    /\ MonthSums(Year(y))[n] <= doy /\ doy < MonthSums(Year(y))[n + 1]

(* A date, and a date with other fields at the same time of day.            *)
DateRecord(s, mi, h, w, yr, mo, md) ==
    [sec |-> s, min |-> mi, hour |-> h, wday |-> w, year |-> yr, mon |-> mo, mday |-> md]
DateAt(c, wday, yr, mon, mday) ==
    DateRecord(c % 60, (c % 3600) \div 60, c \div 3600, wday, yr, mon, mday)
MDay(d, y, n) == (d + 1 - Before(y)) - MonthSums(Year(y))[n] + 1
ShownDate(d, y, n) == DateAt(clock, (d + 1) % 7, Year(y), n - 1, MDay(d, y, n))

LEMMA SameFunction ==
    ASSUME NEW D, NEW f, NEW g, f = [x \in D |-> f[x]], g = [x \in D |-> g[x]],
           \A x \in D : f[x] = g[x]
    PROVE  f = g
<1>1. [x \in D |-> f[x]] = [x \in D |-> g[x]]
  OBVIOUS
<1> QED BY <1>1

Moved(e, w, yr, mo, md) == [e EXCEPT !.wday = w, !.mday = md, !.mon = mo, !.year = yr]

LEMMA RecordFields ==
    ASSUME NEW s, NEW mi, NEW h, NEW w, NEW yr, NEW mo, NEW md
    PROVE  LET e == DateRecord(s, mi, h, w, yr, mo, md) IN
           /\ e.wday = w /\ e.year = yr /\ e.mon = mo /\ e.mday = md
           /\ e.sec = s /\ e.min = mi /\ e.hour = h
BY DEF DateRecord

LEMMA RecordMoved ==
    ASSUME NEW s, NEW mi, NEW h, NEW w, NEW yr, NEW mo, NEW md, NEW w2, NEW yr2, NEW mo2, NEW md2
    PROVE  Moved(DateRecord(s, mi, h, w, yr, mo, md), w2, yr2, mo2, md2) =
             DateRecord(s, mi, h, w2, yr2, mo2, md2)
<1> DEFINE e == DateRecord(s, mi, h, w, yr, mo, md)
           f == Moved(e, w2, yr2, mo2, md2)
           g == DateRecord(s, mi, h, w2, yr2, mo2, md2)
           D == {"sec", "min", "hour", "wday", "year", "mon", "mday"}
<1>1. DOMAIN e = D
  BY DEF DateRecord
<1>2. f = [x \in D |-> f[x]] /\ g = [x \in D |-> g[x]]
  BY <1>1 DEF DateRecord, Moved
<1>3. /\ f.wday = w2 /\ f.year = yr2 /\ f.mon = mo2 /\ f.mday = md2
      /\ f.sec = s /\ f.min = mi /\ f.hour = h
  BY <1>1, RecordFields DEF Moved, DateRecord
<1>4. /\ g.wday = w2 /\ g.year = yr2 /\ g.mon = mo2 /\ g.mday = md2
      /\ g.sec = s /\ g.min = mi /\ g.hour = h
  BY DEF DateRecord
<1> HIDE DEF f, g
<1>5. \A x \in D : f[x] = g[x]
  BY <1>3, <1>4
<1> HIDE DEF D
<1>6. f = g
  BY <1>2, <1>5, SameFunction
<1> QED BY <1>6 DEF f, g

LEMMA DateFields ==
    ASSUME NEW c, NEW w, NEW yr, NEW mo, NEW md
    PROVE  LET e == DateAt(c, w, yr, mo, md) IN
           /\ e.wday = w /\ e.year = yr /\ e.mon = mo /\ e.mday = md
           /\ e.sec = c % 60 /\ e.min = (c % 3600) \div 60 /\ e.hour = c \div 3600
BY RecordFields DEF DateAt

LEMMA DateMoved ==
    ASSUME NEW c, NEW w, NEW yr, NEW mo, NEW md, NEW w2, NEW yr2, NEW mo2, NEW md2
    PROVE  Moved(DateAt(c, w, yr, mo, md), w2, yr2, mo2, md2) = DateAt(c, w2, yr2, mo2, md2)
BY RecordMoved DEF DateAt

LEMMA ShownIs ==
    ASSUME NEW d \in Nat, clock \in Nat, clock < SecsDay, NEW y, NEW n, Shown(d, y, n)
    PROVE  Extracted(d) = ShownDate(d, y, n)
<1> DEFINE doy == d + 1 - Before(y)
           found == ((d + 1) * 256) \div 93504
           rest == (((d + 1) * 256) % 93504) \div 256
           date == MonthOf(rest, found + 1900)
<1>1. TheDay(d, clock) = d /\ TheClock(d, clock) = clock
  BY EraUndone
<1>2. found = y /\ rest = doy
  BY YearFound DEF Shown
<1>3. Extracted(d) = DateAt(clock, (d + 1) % 7, found + 1900, date.mon, date.mday)
  BY <1>1, Era DEF Extracted, ExtractNTPTime, YDay, TheDay, TheClock, DateAt, DateRecord
<1>4. Year(y) \in Nat /\ 1901 <= Year(y) /\ Year(y) <= 2100
  BY DEF Shown, Year
<1>5. /\ doy \in Nat /\ n \in 1 .. 12
      /\ MonthSums(Year(y))[n] <= doy /\ doy < MonthSums(Year(y))[n + 1]
  BY DEF Shown, Before
<1> HIDE DEF found, rest
<1>6. found + 1900 = Year(y)
  BY <1>2 DEF Year
<1>7. date = MonthOf(doy, Year(y))
  BY <1>2, <1>6
<1> HIDE DEF date
<1>8. date = [mon |-> n - 1, mday |-> MDay(d, y, n)]
  <2> HIDE DEF doy
  <2>1. MonthOf(doy, Year(y)) = [mon |-> n - 1, mday |-> doy - MonthSums(Year(y))[n] + 1]
    BY <1>4, <1>5, MonthFound
  <2>2. doy - MonthSums(Year(y))[n] + 1 = MDay(d, y, n)
    BY DEF MDay, doy
  <2> QED BY <1>7, <2>1, <2>2
<1>9. date.mon = n - 1 /\ date.mday = MDay(d, y, n)
  BY <1>8
<1> QED BY <1>3, <1>6, <1>9 DEF ShownDate

(* Every day is shown in some month.                                        *)
LEMMA ShownExists ==
    ASSUME NEW d \in Nat, FirstGoodDay <= d, d <= LastGoodDay
    PROVE  \E y, n : Shown(d, y, n)
<1>1. PICK y \in Nat : 68 <= y /\ y <= 200 /\ Before(y) <= d + 1 /\ d + 1 < Before(y + 1)
  BY YearExists
<1> DEFINE doy == d + 1 - Before(y)
           s == MonthSums(Year(y))
<1>2. PICK b \in {0, 1} : b = LeapDay(Year(y)) /\ s = SumsWith(b)
  <2>1. Year(y) \in Nat /\ 1901 <= Year(y) /\ Year(y) <= 2100
    BY <1>1 DEF Year
  <2> QED BY <2>1, Sums
<1>3. doy \in Nat /\ doy < 365 + b
  <2>1. Before(y + 1) - Before(y) = 365 + b
    BY <1>2 DEF Before, LeapDay, Year
  <2>2. Before(y) \in Nat /\ Before(y + 1) \in Nat
    BY DEF Before
  <2> QED BY <1>1, <2>1, <2>2
<1> HIDE DEF doy
<1>4. \E n \in 1 .. 12 : s[n] <= doy /\ doy < s[n + 1]
  <2> HIDE DEF s
  <2>1. s[1] = 0 /\ s[13] = 365 + b /\ \A k \in 1 .. 13 : s[k] \in Nat
    BY <1>2 DEF SumsWith
  <2>2. ASSUME \A n \in 1 .. 12 : ~(s[n] <= doy /\ doy < s[n + 1]) PROVE FALSE
    <3>1. s[2] <= doy
      BY <2>2, <1>3, <2>1
    <3>2. s[3] <= doy
      BY <2>2, <1>3, <2>1, <3>1
    <3>3. s[4] <= doy
      BY <2>2, <1>3, <2>1, <3>2
    <3>4. s[5] <= doy
      BY <2>2, <1>3, <2>1, <3>3
    <3>5. s[6] <= doy
      BY <2>2, <1>3, <2>1, <3>4
    <3>6. s[7] <= doy
      BY <2>2, <1>3, <2>1, <3>5
    <3>7. s[8] <= doy
      BY <2>2, <1>3, <2>1, <3>6
    <3>8. s[9] <= doy
      BY <2>2, <1>3, <2>1, <3>7
    <3>9. s[10] <= doy
      BY <2>2, <1>3, <2>1, <3>8
    <3>10. s[11] <= doy
      BY <2>2, <1>3, <2>1, <3>9
    <3>11. s[12] <= doy
      BY <2>2, <1>3, <2>1, <3>10
    <3>12. s[13] <= doy
      BY <2>2, <1>3, <2>1, <3>11
    <3> QED BY <1>3, <2>1, <3>12
  <2> QED BY <2>2
<1>5. PICK n \in 1 .. 12 : s[n] <= doy /\ doy < s[n + 1]
  BY <1>4
<1>6. Shown(d, y, n)
  BY <1>1, <1>5 DEF Shown, doy
<1> QED BY <1>6

(* A day and the next one: in the same month, in the next, or in the next   *)
(* year.                                                                    *)
LEMMA NextShown ==
    ASSUME NEW d \in Nat, d + 1 <= LastGoodDay, NEW y, NEW n, Shown(d, y, n)
    PROVE  LET doy == d + 1 - Before(y)
               mday == doy - MonthSums(Year(y))[n] + 1
               last == mday = DaysIn(n - 1, Year(y))
           IN  /\ ~last => Shown(d + 1, y, n)
               /\ last /\ n < 12 => Shown(d + 1, y, n + 1) /\ MonthSums(Year(y))[n + 1] = doy + 1
               /\ last /\ n = 12 => Shown(d + 1, y + 1, 1) /\ Before(y + 1) = d + 2
<1> DEFINE doy == d + 1 - Before(y)
           s == MonthSums(Year(y))
           mday == doy - s[n] + 1
           last == mday = DaysIn(n - 1, Year(y))
<1>1. /\ y \in Nat /\ 68 <= y /\ y <= 200 /\ n \in 1 .. 12
      /\ Before(y) <= d + 1 /\ d + 1 < Before(y + 1)
      /\ s[n] <= doy /\ doy < s[n + 1]
  BY DEF Shown
<1>2. Year(y) \in Nat /\ 1901 <= Year(y) /\ Year(y) <= 2100
  BY <1>1 DEF Year
<1>3. PICK b \in {0, 1} : b = LeapDay(Year(y)) /\ s = SumsWith(b)
  BY <1>2, Sums
<1>4. Before(y) \in Nat /\ Before(y + 1) = Before(y) + 365 + b
  BY <1>1, <1>3 DEF Before, LeapDay, Year
<1>5. s[13] = 365 + b /\ \A k \in 1 .. 13 : s[k] \in Nat
  BY <1>3 DEF SumsWith
<1>6. Year(y) = 2100 => doy <= 57
  BY <1>1 DEF Before, LastGoodDay, Year
<1>7. last <=> doy + 1 = s[n + 1]
  <2>1. CASE Year(y) = 2100 /\ n = 2
    <3>1. b = 1 /\ s[2] = 31 /\ s[3] = 60
      BY <1>3, <2>1 DEF SumsWith, LeapDay
    <3>2. DaysIn(1, 2100) = 28
      BY DEF DaysIn, Leap
    <3> QED BY <1>1, <1>4, <1>6, <2>1, <3>1, <3>2
  <2>2. CASE ~(Year(y) = 2100 /\ n = 2)
    <3>1. DaysIn(n - 1, Year(y)) = s[n + 1] - s[n]
      BY <1>1, <1>2, <2>2, MonthLengths
    <3>2. n + 1 \in 1 .. 13 /\ n \in 1 .. 13
      BY <1>1
    <3>3. s[n] \in Nat /\ s[n + 1] \in Nat /\ doy \in Int
      BY <1>4, <1>5, <3>2
    <3> QED BY <3>1, <3>3
  <2> QED BY <2>1, <2>2
<1>8. n + 1 \in 1 .. 13 /\ s[n] \in Nat /\ s[n + 1] \in Nat /\ doy \in Nat
      /\ (n < 12 => n + 1 \in 1 .. 12 /\ n + 2 \in 1 .. 13)
  BY <1>1, <1>4, <1>5
<1>9. /\ d + 1 + 1 = d + 2 /\ d + 2 - Before(y) = doy + 1 /\ n + 1 + 1 = n + 2
      /\ s[n + 1] <= s[13]
  <2>1. n + 1 = 13 \/ s[n + 1] < s[13]
    BY <1>3, <1>8 DEF SumsWith
  <2>2. n + 1 + 1 = n + 2
    BY <1>1
  <2> QED BY <1>4, <1>5, <1>8, <2>1, <2>2
<1> HIDE DEF s, last
<1>10. ASSUME ~last PROVE Shown(d + 1, y, n)
  <2>1. s[n] <= doy + 1 /\ doy + 1 < s[n + 1]
    BY <1>1, <1>7, <1>8, <1>10
  <2>2. Before(y) <= d + 2 /\ d + 2 < Before(y + 1)
    BY <1>1, <1>4, <1>5, <1>8, <1>9, <2>1
  <2>3. /\ Before(y) <= d + 1 + 1 /\ d + 1 + 1 < Before(y + 1)
        /\ s[n] <= d + 1 + 1 - Before(y) /\ d + 1 + 1 - Before(y) < s[n + 1]
    BY <1>4, <1>8, <1>9, <2>1, <2>2
  <2> QED BY <1>1, <2>3 DEF Shown, s
<1>11. ASSUME last, n < 12 PROVE Shown(d + 1, y, n + 1) /\ s[n + 1] = doy + 1
  <2>1. s[n + 1] = doy + 1
    BY <1>7, <1>11
  <2>2. s[n + 1] < s[n + 2] /\ s[n + 2] <= s[13]
    <3>1. n + 2 = 13 \/ s[n + 2] < s[13]
      BY <1>3, <1>8, <1>11 DEF SumsWith
    <3>2. s[n + 1] < s[n + 2]
      BY <1>1, <1>3, <1>11 DEF SumsWith
    <3> QED BY <1>5, <1>8, <1>11, <3>1, <3>2
  <2>3. Before(y) <= d + 2 /\ d + 2 < Before(y + 1)
    BY <1>1, <1>4, <1>5, <1>8, <1>9, <1>11, <2>1, <2>2
  <2>4. s[n + 1] <= doy + 1 /\ doy + 1 < s[n + 2]
    BY <1>8, <2>1, <2>2
  <2>5. /\ Before(y) <= d + 1 + 1 /\ d + 1 + 1 < Before(y + 1)
        /\ s[n + 1] <= d + 1 + 1 - Before(y) /\ d + 1 + 1 - Before(y) < s[n + 1 + 1]
    BY <1>4, <1>8, <1>9, <1>11, <2>3, <2>4
  <2> QED BY <1>1, <1>8, <1>11, <2>1, <2>5 DEF Shown, s
<1>12. ASSUME last, n = 12 PROVE Shown(d + 1, y + 1, 1) /\ Before(y + 1) = d + 2
  <2>1. doy + 1 = 365 + b
    BY <1>5, <1>7, <1>12
  <2>2. Before(y + 1) = d + 2
    BY <1>4, <2>1
  <2>3. y + 1 <= 200
    BY <1>1, <2>2 DEF Before, LastGoodDay
  <2>4. d + 2 < Before(y + 2)
    BY <1>1, <2>2 DEF Before
  <2>5. Year(y + 1) \in Nat /\ 1901 <= Year(y + 1) /\ Year(y + 1) <= 2100
    BY <1>1, <2>3 DEF Year
  <2>6. MonthSums(Year(y + 1))[1] = 0 /\ MonthSums(Year(y + 1))[1 + 1] = 31
    BY <2>5, Sums DEF SumsWith
  <2>7. y + 1 + 1 = y + 2 /\ d + 1 + 1 = d + 2 /\ d + 2 - Before(y + 1) = 0 /\ y + 1 \in Nat
        /\ 68 <= y + 1
    BY <1>1, <2>2
  <2> QED BY <2>2, <2>3, <2>4, <2>6, <2>7 DEF Shown
<1> QED BY <1>10, <1>11, <1>12 DEF s, last

(* The day after a date is what is shown for the next day.                  *)
LEMMA DateFollows ==
    ASSUME NEW d \in Nat, FirstGoodDay <= d, d + 1 <= LastGoodDay, clock \in Nat, clock < SecsDay
    PROVE  Extracted(d + 1) = DayAfter(Extracted(d))
<1>1. PICK y, n : Shown(d, y, n)
  <2>1. d <= LastGoodDay
    BY DEF LastGoodDay
  <2> QED BY <2>1, ShownExists
<1> DEFINE doy == d + 1 - Before(y)
           mday == MDay(d, y, n)
           last == mday = DaysIn(n - 1, Year(y))
           e == ShownDate(d, y, n)
<1>2. y \in Nat /\ n \in 1 .. 12
  BY <1>1 DEF Shown
<1>3. Extracted(d) = e
  BY <1>1, ShownIs
<1>4. (d + 1 + 1) % 7 = (((d + 1) % 7) + 1) % 7
  OBVIOUS
<1>5. Before(y) \in Nat /\ Before(y + 1) \in Nat /\ MonthSums(Year(y))[n] \in Nat
  <2>1. n \in 1 .. 13 /\ Year(y) \in Nat /\ 1901 <= Year(y) /\ Year(y) <= 2100
    BY <1>1 DEF Shown, Year
  <2> QED BY <1>2, <2>1, Sums DEF SumsWith, Before
<1>6. DayAfter(e) =
        DateAt(clock, (d + 1 + 1) % 7, IF last /\ n = 12 THEN Year(y) + 1 ELSE Year(y),
               IF last THEN n % 12 ELSE n - 1, IF last THEN 1 ELSE mday + 1)
  <2>1. e.mday = mday /\ e.mon = n - 1 /\ e.year = Year(y) /\ e.wday = (d + 1) % 7
    BY DateFields DEF ShownDate
  <2>2. DayAfter(e) = Moved(e, (e.wday + 1) % 7,
                            IF last /\ e.mon = 11 THEN e.year + 1 ELSE e.year,
                            IF last THEN (e.mon + 1) % 12 ELSE e.mon,
                            IF last THEN 1 ELSE e.mday + 1)
    <3> HIDE DEF e
    <3> QED BY <2>1 DEF DayAfter, Moved
  <2>3. DayAfter(e) = DateAt(clock, (e.wday + 1) % 7,
                             IF last /\ e.mon = 11 THEN e.year + 1 ELSE e.year,
                             IF last THEN (e.mon + 1) % 12 ELSE e.mon,
                             IF last THEN 1 ELSE e.mday + 1)
    BY <2>2, DateMoved DEF ShownDate
  <2>4. n - 1 + 1 = n /\ (n - 1 = 11 <=> n = 12)
    BY <1>2
  <2> HIDE DEF e, last, mday
  <2> QED BY <1>4, <2>1, <2>3, <2>4
<1>7. /\ ~last => Shown(d + 1, y, n)
      /\ last /\ n < 12 => Shown(d + 1, y, n + 1) /\ MonthSums(Year(y))[n + 1] = doy + 1
      /\ last /\ n = 12 => Shown(d + 1, y + 1, 1) /\ Before(y + 1) = d + 2
  BY <1>1, NextShown DEF MDay
<1>8. CASE ~last
  <2>1. Extracted(d + 1) = ShownDate(d + 1, y, n)
    BY <1>7, <1>8, ShownIs
  <2>2. MDay(d + 1, y, n) = mday + 1
    BY <1>5 DEF MDay
  <2> HIDE DEF e, last, mday
  <2> QED BY <1>3, <1>6, <1>8, <2>1, <2>2 DEF ShownDate
<1>9. CASE last /\ n < 12
  <2>1. Extracted(d + 1) = ShownDate(d + 1, y, n + 1)
    BY <1>7, <1>9, ShownIs
  <2>2. MDay(d + 1, y, n + 1) = 1
    BY <1>5, <1>7, <1>9 DEF MDay
  <2>3. n % 12 = n /\ (n + 1) - 1 = n /\ n # 12
    BY <1>2, <1>9
  <2> HIDE DEF e, last, mday
  <2> QED BY <1>3, <1>6, <1>9, <2>1, <2>2, <2>3 DEF ShownDate
<1>10. CASE last /\ n = 12
  <2>1. Extracted(d + 1) = ShownDate(d + 1, y + 1, 1)
    BY <1>7, <1>10, ShownIs
  <2>2. MonthSums(Year(y + 1))[1] = 0
    BY DEF MonthSums
  <2>3. MDay(d + 1, y + 1, 1) = 1
    BY <1>7, <1>10, <2>2 DEF MDay
  <2>4. n % 12 = 0 /\ 1 - 1 = 0 /\ Year(y + 1) = Year(y) + 1
    BY <1>2, <1>10 DEF Year
  <2> HIDE DEF e, last, mday
  <2> QED BY <1>3, <1>6, <1>10, <2>1, <2>3, <2>4 DEF ShownDate
<1> QED BY <1>2, <1>8, <1>9, <1>10

(* The day of the year.                                                     *)
LEMMA YearDayIs ==
    ASSUME NEW d \in Nat, clock \in Nat, clock < SecsDay, NEW y, NEW n, Shown(d, y, n)
    PROVE  YearDay(d) = d + 1 - Before(y)
<1>1. TheDay(d, clock) = d
  BY EraUndone
<1>2. (((d + 1) * 256) % 93504) \div 256 = d + 1 - Before(y)
  BY YearFound DEF Shown
<1> QED BY <1>1, <1>2, Era DEF YearDay, YDay, TheDay

LEMMA YearDayNext ==
    ASSUME NEW d \in Nat, FirstGoodDay <= d, d + 1 <= LastGoodDay, clock \in Nat, clock < SecsDay
    PROVE  LET next == Extracted(d + 1) IN
           YearDay(d + 1) = IF next.mon = 0 /\ next.mday = 1 THEN 0 ELSE YearDay(d) + 1
<1>0. PICK y, n : Shown(d, y, n)
  <2>1. d <= LastGoodDay
    BY DEF LastGoodDay
  <2> QED BY <2>1, ShownExists
<1>1. /\ y \in Nat /\ Before(y) \in Nat /\ Before(y) <= d + 1
      /\ YearDay(d) = d + 1 - Before(y)
  <2>1. YearDay(d) = d + 1 - Before(y)
    BY <1>0, YearDayIs
  <2>2. y \in Nat /\ Before(y) <= d + 1
    BY <1>0 DEF Shown
  <2>3. Before(y) \in Nat
    BY <2>2 DEF Before
  <2> QED BY <2>1, <2>2, <2>3
<1>2. \/ \E m \in 1 .. 12 : Shown(d + 1, y, m) /\ (m = 1 => n = 1)
      \/ Shown(d + 1, y + 1, 1) /\ Before(y + 1) = d + 2
  <2>1. n \in 1 .. 12
    BY <1>0 DEF Shown
  <2>2. \/ Shown(d + 1, y, n)
        \/ n < 12 /\ Shown(d + 1, y, n + 1)
        \/ Shown(d + 1, y + 1, 1) /\ Before(y + 1) = d + 2
    <3> DEFINE mday == MDay(d, y, n)
               last == mday = DaysIn(n - 1, Year(y))
    <3>1. /\ ~last => Shown(d + 1, y, n)
          /\ last /\ n < 12 => Shown(d + 1, y, n + 1)
          /\ last /\ n = 12 => Shown(d + 1, y + 1, 1) /\ Before(y + 1) = d + 2
      BY <1>0, NextShown DEF MDay
    <3> HIDE DEF last
    <3> QED BY <2>1, <3>1
  <2>3. n < 12 => n + 1 \in 1 .. 12 /\ n + 1 # 1
    BY <2>1
  <2> QED BY <2>1, <2>2, <2>3
<1>3. ASSUME NEW m \in 1 .. 12, Shown(d + 1, y, m)
      PROVE  LET next == Extracted(d + 1) IN
             YearDay(d + 1) = YearDay(d) + 1 /\ ~(next.mon = 0 /\ next.mday = 1)
  <2>1. YearDay(d + 1) = d + 2 - Before(y)
    BY <1>1, <1>3, YearDayIs
  <2>2. Extracted(d + 1) = ShownDate(d + 1, y, m)
    BY <1>3, ShownIs
  <2>3. MonthSums(Year(y))[1] = 0
    BY DEF MonthSums
  <2>4. m = 1 => MDay(d + 1, y, m) # 1
    BY <1>1, <2>3 DEF MDay
  <2>5. Extracted(d + 1).mon = m - 1 /\ Extracted(d + 1).mday = MDay(d + 1, y, m)
    BY <2>2, DateFields DEF ShownDate
  <2> QED BY <1>1, <2>1, <2>4, <2>5
<1>4. ASSUME Shown(d + 1, y + 1, 1), Before(y + 1) = d + 2
      PROVE  LET next == Extracted(d + 1) IN
             YearDay(d + 1) = 0 /\ next.mon = 0 /\ next.mday = 1
  <2>1. YearDay(d + 1) = d + 2 - Before(y + 1)
    BY <1>4, YearDayIs
  <2>2. Extracted(d + 1) = ShownDate(d + 1, y + 1, 1)
    BY <1>4, ShownIs
  <2>3. MonthSums(Year(y + 1))[1] = 0
    BY DEF MonthSums
  <2>4. MDay(d + 1, y + 1, 1) = 1
    BY <1>4, <2>3 DEF MDay
  <2>5. Extracted(d + 1).mon = 1 - 1 /\ Extracted(d + 1).mday = MDay(d + 1, y + 1, 1)
    BY <2>2, DateFields DEF ShownDate
  <2> QED BY <1>4, <2>1, <2>4, <2>5
<1> QED BY <1>2, <1>3, <1>4

(* The first date, and the time of day.                                     *)
LEMMA FirstDate ==
    ASSUME clock \in Nat, clock < SecsDay
    PROVE  LET e == Extracted(FirstGoodDay)
           IN  /\ e.year = 1968 /\ e.mon = 0 /\ e.mday = 20 /\ e.wday = 6
               /\ YearDay(FirstGoodDay) = 19
<1>1. Before(68) = 24837 /\ Before(68 + 1) = 25203
  BY DEF Before
<1>2. MonthSums(Year(68))[1] = 0 /\ MonthSums(Year(68))[1 + 1] = 31
  BY DEF MonthSums
<1>3. Shown(FirstGoodDay, 68, 1) /\ FirstGoodDay \in Nat
  BY <1>1, <1>2 DEF Shown, FirstGoodDay
<1>4. (FirstGoodDay + 1) % 7 = 6 /\ Year(68) = 1968 /\ 1 - 1 = 0 /\ MDay(FirstGoodDay, 68, 1) = 20
  BY <1>1, <1>2 DEF FirstGoodDay, MDay, Year
<1>5. Extracted(FirstGoodDay) = ShownDate(FirstGoodDay, 68, 1)
  BY <1>3, ShownIs
<1>6. YearDay(FirstGoodDay) = 19
  <2>1. YearDay(FirstGoodDay) = FirstGoodDay + 1 - Before(68)
    BY <1>3, YearDayIs
  <2> QED BY <1>1, <2>1 DEF FirstGoodDay
<1> QED BY <1>4, <1>5, <1>6, DateFields DEF ShownDate

LEMMA DivMod ==
    ASSUME NEW n \in Nat, NEW q \in Nat, NEW r \in Nat
    PROVE  /\ r < 60 /\ n = 60 * q + r => n \div 60 = q /\ n % 60 = r
           /\ r < 3600 /\ n = 3600 * q + r => n \div 3600 = q /\ n % 3600 = r
<1>1. r < 60 /\ n = 60 * q + r => n \div 60 = q
  OBVIOUS
<1>2. r < 60 /\ n = 60 * q + r => n % 60 = r
  OBVIOUS
<1>3. r < 3600 /\ n = 3600 * q + r => n \div 3600 = q
  OBVIOUS
<1>4. r < 3600 /\ n = 3600 * q + r => n % 3600 = r
  OBVIOUS
<1> QED BY <1>1, <1>2, <1>3, <1>4

LEMMA TimeParts ==
    ASSUME NEW c \in Nat
    PROVE  (c \div 3600) * 3600 + ((c % 3600) \div 60) * 60 + (c % 60) = c
<1> DEFINE h == c \div 3600
           r == c % 3600
           m == r \div 60
           k == r % 60
<1>1. h \in Nat /\ r \in Nat /\ c = 3600 * h + r
  OBVIOUS
<1> HIDE DEF h, r
<1>2. m \in Nat /\ k \in Nat /\ k < 60 /\ r = 60 * m + k
  BY <1>1
<1> HIDE DEF m, k
<1>3. 60 * h + m \in Nat /\ c = 60 * (60 * h + m) + k
  BY <1>1, <1>2
<1>4. c % 60 = k
  BY <1>2, <1>3, DivMod
<1>5. h * 3600 + m * 60 + k = c
  BY <1>1, <1>2
<1>6. h * 3600 + m * 60 + (c % 60) = c
  BY <1>4, <1>5
<1> QED BY <1>6 DEF h, r, m

LEMMA TimeShown ==
    ASSUME NEW d \in Nat, FirstGoodDay <= d, d <= LastGoodDay, clock \in Nat, clock < SecsDay
    PROVE  LET t == Extracted(d) IN t.hour * 3600 + t.min * 60 + t.sec = clock
<1>1. PICK y, n : Shown(d, y, n)
  BY ShownExists
<1>2. Extracted(d) = ShownDate(d, y, n)
  BY <1>1, ShownIs
<1> DEFINE e == ShownDate(d, y, n)
<1>3. e.sec = clock % 60 /\ e.min = (clock % 3600) \div 60 /\ e.hour = clock \div 3600
  BY DateFields DEF ShownDate
<1> HIDE DEF e
<1> QED BY <1>2, <1>3, TimeParts DEF e

(* In the first half of a second the thousandths are right.                 *)
LEMMA MillisShown ==
    ASSUME fraction \in 0 .. 1023, fraction < 512
    PROVE  Millis * 1024 <= fraction * 1000 /\ fraction * 1000 < (Millis + 1) * 1024
<1>1. Millis = ((fraction * 1000) \div 1024) % 65536
  BY DEF Millis
<1> DEFINE q == (fraction * 1000) \div 1024
           r == (fraction * 1000) % 1024
<1>2. q \in Nat /\ r \in Nat /\ r < 1024 /\ fraction * 1000 = 1024 * q + r
  <2>1. fraction * 1000 \in Nat
    OBVIOUS
  <2>2. ASSUME NEW k \in Nat
        PROVE  /\ k \div 1024 \in Nat /\ k % 1024 \in Nat /\ k % 1024 < 1024
               /\ k = 1024 * (k \div 1024) + (k % 1024)
    OBVIOUS
  <2> QED BY <2>1, <2>2
<1>3. Millis = q % 65536
  BY <1>1
<1> HIDE DEF q, r
<1>4. q < 65536
  BY <1>2
<1>5. q % 65536 = q
  BY <1>2, <1>4
<1> QED BY <1>2, <1>3, <1>5

(* From 20 January 1968 to 28 February 2100 each day is shown with the date *)
(* that follows the one before it, at every second of the day, and the time *)
(* of day is right, and the days of the year are counted: also around the   *)
(* overflow of the 32-bit counter.                                          *)
THEOREM CalendarSoundThm ==
    ASSUME FirstDay = FirstGoodDay, LastDay <= LastGoodDay, FirstDay < LastDay,
           Clocks \subseteq {c \in Nat : c < SecsDay}
    PROVE  CalendarSpec => []CalendarSound
<1> DEFINE Inv == /\ day \in Nat /\ FirstDay <= day /\ day + 1 <= LastDay
                  /\ clock \in Nat /\ clock < SecsDay /\ fraction \in 0 .. 1023
<1>1. FirstDay \in Nat /\ LastDay \in Nat /\ Fractions \subseteq 0 .. 1023
  BY CalendarAssumption
<1>2. CalendarInit => Inv
  <2>1. SecsDay - 1 \in Nat /\ SecsDay - 1 < SecsDay
    BY DEF SecsDay
  <2> QED BY <1>1, <2>1 DEF CalendarInit
<1>3. Inv /\ [LookAt]_calendarVars => Inv'
  <2>1. ASSUME Inv, LookAt PROVE Inv'
    <3>1. day' \in FirstDay .. LastDay - 1
      BY <2>1 DEF LookAt
    <3>2. day' \in Nat /\ FirstDay <= day' /\ day' + 1 <= LastDay
      <4>1. ASSUME NEW d \in FirstDay .. LastDay - 1
            PROVE  d \in Nat /\ FirstDay <= d /\ d + 1 <= LastDay
        BY <1>1
      <4> QED BY <3>1, <4>1
    <3>3. clock' \in Nat /\ clock' < SecsDay /\ fraction' \in 0 .. 1023
      BY <1>1, <2>1 DEF LookAt
    <3> QED BY <3>2, <3>3 DEF SecsDay
  <2>2. ASSUME Inv, UNCHANGED calendarVars PROVE Inv'
    BY <2>2 DEF calendarVars
  <2> QED BY <2>1, <2>2
<1>4. Inv => CalendarSound
  <2> SUFFICES ASSUME Inv PROVE CalendarSound
    OBVIOUS
  <2>1. day + 1 <= LastGoodDay /\ FirstGoodDay <= day /\ day <= LastGoodDay
    BY <1>1 DEF FirstGoodDay, LastGoodDay
  <2>2. DatesFollow
    <3>1. Extracted(day + 1) = DayAfter(Extracted(day))
      BY <2>1, DateFollows
    <3> QED BY <3>1, FirstDate DEF DatesFollow
  <2>3. TimeOfDay
    <3>1. LET t == Extracted(day) IN t.hour * 3600 + t.min * 60 + t.sec = clock
      BY <2>1, TimeShown
    <3> QED BY <3>1, MillisShown DEF TimeOfDay
  <2>4. YearDayFollows
    BY <2>1, YearDayNext, FirstDate DEF YearDayFollows
  <2> QED BY <2>2, <2>3, <2>4 DEF CalendarSound
<1> QED BY <1>2, <1>3, <1>4, PTL DEF CalendarSpec

-----------------------------------------------------------------------------
(* The network clock.  Numbers that are the same time: apart by a multiple  *)
(* of the range of a stamp.                                                 *)
Cong(m, n) == \E k \in Int : m = n + k * Range64

LEMMA ClockSizes ==
    /\ Seconds \in Nat /\ Seconds > 0 /\ Ticks \in Nat /\ Ticks > 0
    /\ UnitsPerTick \in Nat /\ UnitsPerTick > 0
    /\ Units \in Nat /\ Units > 0 /\ Units \div 2 \in Nat /\ Units = 2 * (Units \div 2)
    /\ Range64 \in Nat /\ Range64 > 0 /\ Range64 \div 2 \in Nat /\ Range64 = 2 * (Range64 \div 2)
    /\ Units >= 4
<1>1. /\ Seconds \in Nat /\ Seconds > 0 /\ Ticks \in Nat /\ Ticks > 0
      /\ UnitsPerTick \in Nat /\ UnitsPerTick > 0 /\ Seconds % 2 = 0 /\ Ticks % 2 = 0
  BY ClockAssumption
<1>2. PICK h \in Nat : Ticks = 2 * h
  BY <1>1
<1>3. PICK g \in Nat : Seconds = 2 * g
  BY <1>1
<1>4. Units \in Nat /\ Units > 0
  BY <1>1 DEF Units
<1>5. h * UnitsPerTick \in Nat /\ Units = 2 * (h * UnitsPerTick) + 0
  BY <1>1, <1>2 DEF Units
<1>6. Range64 \in Nat /\ Range64 > 0
  BY <1>1, <1>4 DEF Range64
<1>7. g * Units \in Nat /\ Range64 = 2 * (g * Units) + 0
  BY <1>3, <1>4 DEF Range64
<1>8. \A m \in Nat : Units = 2 * m + 0 => Units \div 2 = m
  BY <1>4
<1>9. \A m \in Nat : Range64 = 2 * m + 0 => Range64 \div 2 = m
  BY <1>6
<1>10. Units \div 2 = h * UnitsPerTick
  BY <1>5, <1>8
<1>11. Range64 \div 2 = g * Units
  BY <1>7, <1>9
<1>12. Units >= 4
  <2>1. UnitsPerTick >= 2 /\ Ticks >= 2
    BY <1>1, <1>2, ClockAssumption
  <2>2. Ticks = 2 + (Ticks - 2) /\ (Ticks - 2) * UnitsPerTick >= 0 /\ (Ticks - 2) * UnitsPerTick \in Int
    BY <1>1, <2>1
  <2>3. Units = 2 * UnitsPerTick + (Ticks - 2) * UnitsPerTick
    BY <1>1 DEF Units
  <2> QED BY <1>1, <2>1, <2>2, <2>3
<1> QED BY <1>1, <1>4, <1>5, <1>6, <1>7, <1>10, <1>11, <1>12

LEMMA CongTrans ==
    ASSUME NEW l \in Int, NEW m \in Int, NEW n \in Int, Cong(l, m), Cong(m, n)
    PROVE  Cong(l, n)
<1>1. PICK j \in Int : l = m + j * Range64
  BY DEF Cong
<1>2. PICK k \in Int : m = n + k * Range64
  BY DEF Cong
<1>3. j + k \in Int /\ l = n + (j + k) * Range64
  BY <1>1, <1>2, ClockSizes
<1> QED BY <1>3 DEF Cong

LEMMA CongSum ==
    ASSUME NEW l \in Int, NEW m \in Int, NEW n \in Int, NEW o \in Int, Cong(l, m), Cong(n, o)
    PROVE  Cong(l + n, m + o) /\ Cong(l - n, m - o)
<1>1. PICK j \in Int : l = m + j * Range64
  BY DEF Cong
<1>2. PICK k \in Int : n = o + k * Range64
  BY DEF Cong
<1>3. j + k \in Int /\ l + n = (m + o) + (j + k) * Range64
  BY <1>1, <1>2, ClockSizes
<1>4. j - k \in Int /\ l - n = (m - o) + (j - k) * Range64
  BY <1>1, <1>2, ClockSizes
<1> QED BY <1>3, <1>4 DEF Cong

LEMMA CongSame == ASSUME NEW n \in Int PROVE Cong(n, n)
<1>1. 0 \in Int /\ n = n + 0 * Range64
  BY ClockSizes
<1> QED BY <1>1 DEF Cong

(* The number nearest to 0 that is the same.                                *)
LEMMA CentredNearest ==
    ASSUME NEW n \in Int, NEW x \in Int, Cong(n, x)
    PROVE  Centred(n) \in Int /\ Abs(Centred(n)) <= Abs(x)
<1> DEFINE h == Range64 \div 2
           q == (n + h) \div Range64
           c == Centred(n)
<1>1. h \in Nat /\ Range64 \in Nat /\ Range64 > 0 /\ Range64 = 2 * h
  BY ClockSizes
<1> HIDE DEF h
<1>2. /\ q \in Int /\ c \in Int /\ -h <= c /\ c < h
      /\ n = c + q * Range64
  <2>1. n + h \in Int
    BY <1>1
  <2>2. /\ q \in Int /\ (n + h) % Range64 \in Int /\ 0 <= (n + h) % Range64
        /\ (n + h) % Range64 < Range64 /\ n + h = Range64 * q + ((n + h) % Range64)
    BY <1>1, <2>1, ModParts
  <2>3. c = ((n + h) % Range64) - h
    BY DEF Centred, h
  <2> HIDE DEF q, c
  <2> QED BY <1>1, <2>2, <2>3
<1>3. PICK k \in Int : n = x + k * Range64
  BY DEF Cong
<1> HIDE DEF q, c
<1>4. x = c + (q - k) * Range64
  BY <1>1, <1>2, <1>3
<1>5. CASE q = k
  <2>1. x = c
    BY <1>1, <1>2, <1>4, <1>5
  <2> QED BY <1>2, <2>1 DEF Abs, c
<1>6. CASE q - k >= 1
  <2>1. (q - k) * Range64 >= Range64
    BY <1>1, <1>2, <1>6
  <2>2. (q - k) * Range64 \in Int
    BY <1>1, <1>2
  <2>3. x >= h
    BY <1>1, <1>2, <1>4, <2>1, <2>2
  <2> QED BY <1>1, <1>2, <2>3 DEF Abs, c
<1>7. CASE q - k <= -1
  <2>1. (q - k) * Range64 <= -Range64
    BY <1>1, <1>2, <1>7
  <2>2. (q - k) * Range64 \in Int
    BY <1>1, <1>2
  <2>3. x <= -h
    BY <1>1, <1>2, <1>4, <2>1, <2>2
  <2> QED BY <1>1, <1>2, <2>3 DEF Abs, c
<1> QED BY <1>2, <1>5, <1>6, <1>7


-----------------------------------------------------------------------------
(* Stamps.                                                                  *)
IsStamp(t) ==
    /\ t.seconds \in Int /\ t.fraction \in Int
    /\ -(Units \div 2) <= t.fraction /\ t.fraction < Units \div 2

LEMMA InUnitsInt ==
    ASSUME NEW t, IsStamp(t)
    PROVE  InUnits(t) \in Int
<1>1. t.fraction % Units \in Int
  BY ClockSizes, ModParts DEF IsStamp
<1> QED BY <1>1, ClockSizes DEF InUnits, IsStamp

LEMMA FracIs ==
    ASSUME NEW f \in Int
    PROVE  /\ Frac(f) \in Int /\ -(Units \div 2) <= Frac(f) /\ Frac(f) < Units \div 2
           /\ Frac(f) % Units = f % Units
           /\ -(Units \div 2) <= f /\ f < Units \div 2 => Frac(f) = f
<1> DEFINE h == Units \div 2
           q == (f + h) \div Units
           g == Frac(f)
           j == g \div Units
           r == g % Units
<1>1. h \in Nat /\ Units \in Nat /\ Units > 0 /\ Units = 2 * h
  BY ClockSizes
<1> HIDE DEF h
<1>2. q \in Int /\ g \in Int /\ -h <= g /\ g < h /\ f = g + q * Units
  <2>1. f + h \in Int
    BY <1>1
  <2>2. /\ q \in Int /\ (f + h) % Units \in Int /\ 0 <= (f + h) % Units
        /\ (f + h) % Units < Units /\ f + h = Units * q + ((f + h) % Units)
    BY <1>1, <2>1, ModParts
  <2>3. g = ((f + h) % Units) - h
    BY DEF Frac, h
  <2> HIDE DEF q, g
  <2> QED BY <1>1, <2>2, <2>3
<1> HIDE DEF q, g
<1>3. j \in Int /\ r \in Int /\ 0 <= r /\ r < Units /\ g = Units * j + r
  BY <1>1, <1>2, ModParts
<1> HIDE DEF j, r
<1>4. q + j \in Int /\ f = Units * (q + j) + r
  BY <1>1, <1>2, <1>3
<1>5. f % Units = r
  BY <1>1, <1>3, <1>4, ModIs
<1>6. ASSUME -h <= f, f < h PROVE g = f
  <2>1. ~(q >= 1) /\ ~(q <= -1)
    BY <1>1, <1>2, <1>6
  <2>2. q = 0
    BY <1>2, <2>1
  <2> QED BY <1>1, <1>2, <2>2
<1> QED BY <1>2, <1>5, <1>6 DEF g, r, h

LEMMA StampUnits ==
    ASSUME NEW s \in Int, NEW f \in Int
    PROVE  /\ IsStamp(Stamp(s, f)) /\ Stamp(s, f).fraction = Frac(f)
           /\ Cong(InUnits(Stamp(s, f)), s * Units + (f % Units))
<1> DEFINE t == Stamp(s, f)
           q == s \div Seconds
           r == s % Seconds
           u == f % Units
<1>1. /\ Seconds \in Nat /\ Seconds > 0 /\ Units \in Nat /\ Units > 0 /\ Range64 = Seconds * Units
      /\ Range64 \in Int
  BY ClockSizes DEF Range64
<1>2. q \in Int /\ r \in Int /\ s = Seconds * q + r
  BY <1>1, ModParts
<1>3. t.seconds = r /\ t.fraction = Frac(f)
  BY DEF Stamp, Sec
<1>4. u \in Int
  BY <1>1, ModParts
<1>5. Frac(f) % Units = u
  BY FracIs
<1> HIDE DEF t, q, r, u
<1>6. IsStamp(t)
  BY <1>2, <1>3, FracIs DEF IsStamp
<1>7. InUnits(t) = r * Units + u
  BY <1>3, <1>5 DEF InUnits
<1>8. -q \in Int /\ r * Units + u = (s * Units + u) + (-q) * Range64
  BY <1>1, <1>2, <1>4
<1>9. Cong(InUnits(t), s * Units + u)
  BY <1>7, <1>8 DEF Cong
<1> QED BY <1>3, <1>6, <1>9 DEF t, u

(* The fraction of a stamp, and the sum of two, without their sign.         *)
LEMMA Unsigned ==
    ASSUME NEW f \in Int, -Units <= f, f < Units
    PROVE  f % Units = IF f < 0 THEN f + Units ELSE f
<1>1. Units \in Nat /\ Units > 0
  BY ClockSizes
<1>2. CASE f < 0
  <2>1. f + Units \in Int /\ 0 <= f + Units /\ f + Units < Units /\ f = Units * (-1) + (f + Units)
    BY <1>1, <1>2
  <2>2. f % Units = f + Units
    BY <1>1, <2>1, ModIs
  <2> QED BY <1>2, <2>2
<1>3. CASE ~(f < 0)
  <2>1. 0 <= f /\ f = Units * 0 + f
    BY <1>1, <1>3
  <2>2. f % Units = f
    BY <1>1, <2>1, ModIs
  <2> QED BY <1>3, <2>2
<1> QED BY <1>2, <1>3

(* A sum of stamps is right but for a second, which it has too many or too  *)
(* few when the signs of the fractions differ.                              *)
LEMMA HalfIs == ASSUME NEW n \in Int PROVE Half(n) \in Int /\ (n = 2 * Half(n) \/ n = 2 * Half(n) + 1)
BY DEF Half

(* Which way it errs, from the signs.                                       *)
SumSigns(t1, t2, e) ==
    /\ t1.fraction = 0 \/ t2.fraction = 0 => e \in {0, Units}
    /\ e = -Units => AddNTPtime(t1, t2).fraction >= 0
    /\ e = Units => /\ AddNTPtime(t1, t2).fraction = t2.fraction + t1.fraction
                    /\ t2.fraction + t1.fraction < 0
    /\ t1.fraction < 0 /\ t2.fraction < 0 => e = 0
DiffSigns(t1, t2, e) ==
    /\ e = -Units => t1.fraction >= 0
    /\ e = Units => t1.fraction < 0 \/ t2.fraction - t1.fraction = -1
    /\ t1.fraction = 0 => e \in {-Units, 0}

LEMMA AddUnits ==
    ASSUME NEW t1, NEW t2, IsStamp(t1), IsStamp(t2)
    PROVE  /\ IsStamp(AddNTPtime(t1, t2))
           /\ \E e \in {-Units, 0, Units} :
                /\ Cong(InUnits(AddNTPtime(t1, t2)), InUnits(t1) + InUnits(t2) + e)
                /\ SumSigns(t1, t2, e)
<1> DEFINE a == t1.fraction
           b == t2.fraction
           h == Units \div 2
           c == Bit(Half(b) + Half(a) < 0)
           sum == Stamp(t2.seconds + t1.seconds + c, b + a)
           exact == InUnits(t1) + InUnits(t2)
           s == t2.seconds + t1.seconds + c
           ua == a % Units
           ub == b % Units
           uc == (b + a) % Units
           e == ((uc - ua) - ub) + c * Units
<1>1. /\ a \in Int /\ b \in Int /\ -h <= a /\ a < h /\ -h <= b /\ b < h
      /\ h \in Nat /\ Units = 2 * h /\ Units \in Nat /\ Units > 0
      /\ t1.seconds \in Int /\ t2.seconds \in Int
  BY ClockSizes DEF IsStamp
<1>2. AddNTPtime(t1, t2) = Stamp(s, b + a)
  BY DEF AddNTPtime
<1>3. c \in {0, 1} /\ (c = 1 <=> Half(b) + Half(a) < 0)
  BY DEF Bit
<1>4. InUnits(t1) = t1.seconds * Units + ua /\ InUnits(t2) = t2.seconds * Units + ub
  BY DEF InUnits
<1>5. /\ ua = IF a < 0 THEN a + Units ELSE a
      /\ ub = IF b < 0 THEN b + Units ELSE b
      /\ uc = IF b + a < 0 THEN b + a + Units ELSE b + a
  <2>1. -Units <= a /\ a < Units /\ -Units <= b /\ b < Units
        /\ b + a \in Int /\ -Units <= b + a /\ b + a < Units
    BY <1>1
  <2> HIDE DEF a, b
  <2> QED BY <1>1, <2>1, Unsigned
<1> HIDE DEF h, c, ua, ub, uc, a, b
<1>6. /\ e \in {-Units, 0, Units} /\ (a = 0 \/ b = 0 => e \in {0, Units})
      /\ e = -Units => 0 <= b + a /\ b + a < h
      /\ e = Units => -h <= b + a /\ b + a < 0
      /\ a < 0 /\ b < 0 => e = 0
  <2>1. /\ Half(a) \in Int /\ (a = 2 * Half(a) \/ a = 2 * Half(a) + 1)
        /\ Half(b) \in Int /\ (b = 2 * Half(b) \/ b = 2 * Half(b) + 1)
    BY <1>1, HalfIs
  <2>2. CASE c = 1
    <3>1. Half(b) + Half(a) < 0
      BY <1>3, <2>2
    <3>2. e = ((uc - ua) - ub) + Units
      BY <1>1, <2>2
    <3>3. b + a <= 0 /\ (b + a = 0 => a # 0)
      BY <1>1, <2>1, <3>1
    <3> QED BY <1>1, <1>5, <2>1, <3>1, <3>2, <3>3
  <2>3. CASE c = 0
    <3>1. ~(Half(b) + Half(a) < 0)
      BY <1>3, <2>3
    <3>2. e = (uc - ua) - ub
      BY <1>1, <1>5, <2>3
    <3>3. b + a >= 0
      BY <1>1, <2>1, <3>1
    <3> QED BY <1>1, <1>5, <2>1, <3>1, <3>2, <3>3
  <2> QED BY <1>3, <2>2, <2>3
<1>7. s \in Int /\ b + a \in Int /\ ua \in Int /\ ub \in Int /\ uc \in Int /\ c \in Int
  BY <1>1, <1>3, <1>5
<1>8. s * Units + uc = exact + e
  <2> DEFINE x == t1.seconds
             y == t2.seconds
  <2>1. x \in Int /\ y \in Int /\ Units \in Int
    BY <1>1
  <2> HIDE DEF x, y
  <2>2. (y + x + c) * Units + uc =
          ((x * Units + ua) + (y * Units + ub)) + (((uc - ua) - ub) + c * Units)
    BY <1>7, <2>1
  <2> QED BY <1>4, <2>2 DEF x, y
<1>9. IsStamp(Stamp(s, b + a)) /\ Cong(InUnits(Stamp(s, b + a)), s * Units + uc)
  BY <1>7, StampUnits DEF uc
<1>10. Cong(InUnits(AddNTPtime(t1, t2)), InUnits(t1) + InUnits(t2) + e)
  BY <1>2, <1>8, <1>9
<1>11. e \in {-Units, 0, Units} /\ SumSigns(t1, t2, e)
  <2>1. AddNTPtime(t1, t2).fraction = Frac(b + a)
    BY <1>2, <1>7, StampUnits
  <2>2. -h <= b + a /\ b + a < h => Frac(b + a) = b + a
    BY <1>7, FracIs DEF h
  <2>3. e = -Units => Frac(b + a) >= 0
    BY <1>1, <1>6, <1>7, <2>2
  <2>4. e = Units => Frac(b + a) = b + a /\ b + a < 0
    BY <1>1, <1>6, <1>7, <2>2
  <2> QED BY <1>6, <2>1, <2>3, <2>4 DEF SumSigns, a, b
<1> HIDE DEF e
<1>12. \E x \in {-Units, 0, Units} :
         /\ Cong(InUnits(AddNTPtime(t1, t2)), InUnits(t1) + InUnits(t2) + x)
         /\ SumSigns(t1, t2, x)
  BY <1>10, <1>11
<1> QED BY <1>2, <1>9, <1>12

(* So is a difference.                                                      *)
LEMMA DiffUnits ==
    ASSUME NEW t1, NEW t2, IsStamp(t1), IsStamp(t2)
    PROVE  /\ IsStamp(DiffNTPtime(t1, t2))
           /\ \E e \in {-Units, 0, Units} :
                /\ Cong(InUnits(DiffNTPtime(t1, t2)), InUnits(t2) - InUnits(t1) + e)
                /\ DiffSigns(t1, t2, e)
<1> DEFINE a == t1.fraction
           b == t2.fraction
           h == Units \div 2
           c == Bit(Half(b) - Half(a) < 0)
           sum == Stamp((t2.seconds - t1.seconds) - c, b - a)
           exact == InUnits(t2) - InUnits(t1)
           s == (t2.seconds - t1.seconds) - c
           ua == a % Units
           ub == b % Units
           uc == (b - a) % Units
           e == ((uc + ua) - ub) - c * Units
<1>1. /\ a \in Int /\ b \in Int /\ -h <= a /\ a < h /\ -h <= b /\ b < h
      /\ h \in Nat /\ Units = 2 * h /\ Units \in Nat /\ Units > 0
      /\ t1.seconds \in Int /\ t2.seconds \in Int
  BY ClockSizes DEF IsStamp
<1>2. DiffNTPtime(t1, t2) = Stamp(s, b - a)
  BY DEF DiffNTPtime
<1>3. c \in {0, 1} /\ (c = 1 <=> Half(b) - Half(a) < 0)
  BY DEF Bit
<1>4. InUnits(t1) = t1.seconds * Units + ua /\ InUnits(t2) = t2.seconds * Units + ub
  BY DEF InUnits
<1>5. /\ ua = IF a < 0 THEN a + Units ELSE a
      /\ ub = IF b < 0 THEN b + Units ELSE b
      /\ uc = IF b - a < 0 THEN (b - a) + Units ELSE b - a
  <2>1. -Units <= a /\ a < Units /\ -Units <= b /\ b < Units
        /\ b - a \in Int /\ -Units <= b - a /\ b - a < Units
    BY <1>1
  <2> HIDE DEF a, b
  <2> QED BY <1>1, <2>1, Unsigned
<1> HIDE DEF h, c, ua, ub, uc, a, b
<1>6. /\ e \in {-Units, 0, Units}
      /\ e = -Units => a >= 0
      /\ e = Units => a < 0 \/ b - a = -1
      /\ a = 0 => e \in {-Units, 0}
  <2>1. /\ Half(a) \in Int /\ (a = 2 * Half(a) \/ a = 2 * Half(a) + 1)
        /\ Half(b) \in Int /\ (b = 2 * Half(b) \/ b = 2 * Half(b) + 1)
    BY <1>1, HalfIs
  <2>2. CASE c = 1
    <3>1. Half(b) - Half(a) < 0
      BY <1>3, <2>2
    <3>2. e = ((uc + ua) - ub) - Units
      BY <1>1, <2>2
    <3>3. b - a <= 0
      BY <1>1, <2>1, <3>1
    <3> QED BY <1>1, <1>5, <2>1, <3>1, <3>2, <3>3
  <2>3. CASE c = 0
    <3>1. ~(Half(b) - Half(a) < 0)
      BY <1>3, <2>3
    <3>2. e = (uc + ua) - ub
      BY <1>1, <1>5, <2>3
    <3>3. b - a >= -1 /\ (b - a = -1 => a # 0)
      BY <1>1, <2>1, <3>1
    <3> QED BY <1>1, <1>5, <2>1, <3>1, <3>2, <3>3
  <2> QED BY <1>3, <2>2, <2>3
<1>7. s \in Int /\ b - a \in Int /\ ua \in Int /\ ub \in Int /\ uc \in Int /\ c \in Int
  BY <1>1, <1>3, <1>5
<1>8. s * Units + uc = exact + e
  <2> DEFINE x == t1.seconds
             y == t2.seconds
  <2>1. x \in Int /\ y \in Int /\ Units \in Int
    BY <1>1
  <2> HIDE DEF x, y
  <2>2. ((y - x) - c) * Units + uc =
          ((y * Units + ub) - (x * Units + ua)) + (((uc + ua) - ub) - c * Units)
    BY <1>7, <2>1
  <2> QED BY <1>4, <2>2 DEF x, y
<1>9. IsStamp(Stamp(s, b - a)) /\ Cong(InUnits(Stamp(s, b - a)), s * Units + uc)
  BY <1>7, StampUnits DEF uc
<1>10. Cong(InUnits(DiffNTPtime(t1, t2)), InUnits(t2) - InUnits(t1) + e)
  BY <1>2, <1>8, <1>9
<1>11. e \in {-Units, 0, Units} /\ DiffSigns(t1, t2, e)
  BY <1>6 DEF a, b, DiffSigns
<1> HIDE DEF e
<1>12. \E x \in {-Units, 0, Units} :
         /\ Cong(InUnits(DiffNTPtime(t1, t2)), InUnits(t2) - InUnits(t1) + x)
         /\ DiffSigns(t1, t2, x)
  BY <1>10, <1>11
<1> QED BY <1>2, <1>9, <1>12

(* The server's clock and a reading of the board's at a tick: of what has   *)
(* passed, or less than a second behind it, at the last tick of a second,   *)
(* with a fraction of 0.                                                    *)
Passed == tick * UnitsPerTick
ServerAt(k) == LET n == start + k * UnitsPerTick IN Stamp(n \div Units, n)
Readings(k) ==
    {Stamp(k \div Ticks, (k % Ticks) * UnitsPerTick)}
    \cup {Stamp(k \div Ticks, 0) : x \in {y \in {k} : y % Ticks = Ticks - 1}}

LEMMA ServerAtReads ==
    ASSUME NEW k \in Nat, start \in Nat
    PROVE  /\ k * UnitsPerTick \in Nat /\ IsStamp(ServerAt(k))
           /\ Cong(InUnits(ServerAt(k)), start + k * UnitsPerTick)
<1> DEFINE p == k * UnitsPerTick
           n == start + p
           q == n \div Units
           r == n % Units
<1>1. UnitsPerTick \in Nat /\ Units \in Nat /\ Units > 0
  BY ClockSizes
<1>2. p \in Nat
  BY <1>1
<1>3. n \in Int
  BY <1>2
<1>4. ServerAt(k) = Stamp(q, n)
  BY DEF ServerAt
<1> HIDE DEF n, p
<1>5. q \in Int /\ r \in Int /\ n = Units * q + r
  BY <1>1, <1>3, ModParts
<1> HIDE DEF q
<1>6. IsStamp(Stamp(q, n)) /\ Cong(InUnits(Stamp(q, n)), q * Units + (n % Units))
  BY <1>3, <1>5, StampUnits
<1>7. q * Units + (n % Units) = n
  BY <1>1, <1>5
<1> QED BY <1>2, <1>4, <1>6, <1>7 DEF n, p

LEMMA ServerReads ==
    ASSUME tick \in Nat, start \in Nat
    PROVE  Passed \in Nat /\ IsStamp(ServerTime) /\ Cong(InUnits(ServerTime), start + Passed)
<1>1. ServerTime = ServerAt(tick)
  BY DEF ServerTime, ServerAt
<1> QED BY <1>1, ServerAtReads DEF Passed

Late(k, now, late) ==
    /\ late \in {0, Units - UnitsPerTick}
    /\ late # 0 => now.fraction = 0 /\ k % Ticks = Ticks - 1
    /\ late = 0 /\ k % Ticks = Ticks - 1 => now.fraction < 0
    /\ Cong(InUnits(now), k * UnitsPerTick - late)

LEMMA ReadingAt ==
    ASSUME NEW k \in Nat, NEW now \in Readings(k)
    PROVE  /\ IsStamp(now) /\ 0 < Units - UnitsPerTick /\ Units - UnitsPerTick < Units
           /\ \E late \in Int : Late(k, now, late)
<1> DEFINE q == k \div Ticks
           r == k % Ticks
           f == r * UnitsPerTick
           g == (Ticks - 1) * UnitsPerTick
           p == k * UnitsPerTick
           h == Units \div 2
<1>1. /\ Ticks \in Nat /\ Ticks > 0 /\ UnitsPerTick \in Nat /\ UnitsPerTick > 0
      /\ Units \in Nat /\ Units > 0 /\ Units = Ticks * UnitsPerTick
      /\ h \in Nat /\ Units = 2 * h
  BY ClockSizes DEF Units
<1>2. q \in Int /\ r \in Int /\ 0 <= r /\ r < Ticks /\ k = Ticks * q + r
  BY <1>1, ModParts
<1>3. now = Stamp(q, f) \/ (now = Stamp(q, 0) /\ r = Ticks - 1)
  BY DEF Readings
<1> HIDE DEF q, r, h
<1>4. f \in Int /\ 0 <= f /\ f < Units
  <2>1. (Ticks - r) * UnitsPerTick > 0
    BY <1>1, <1>2
  <2>2. f = Units - (Ticks - r) * UnitsPerTick /\ (Ticks - r) * UnitsPerTick \in Int
    BY <1>1, <1>2
  <2>3. f \in Int /\ 0 <= f
    BY <1>1, <1>2
  <2> HIDE DEF f
  <2> QED BY <1>1, <2>1, <2>2, <2>3
<1>5. p \in Int /\ p = q * Units + f /\ q * Units \in Int
  BY <1>1, <1>2
<1>6. r = Ticks - 1 => f = Units - UnitsPerTick
  BY <1>1
<1>7. 0 < Units - UnitsPerTick /\ Units - UnitsPerTick < Units /\ h <= Units - UnitsPerTick
  <2>1. Ticks >= 2
    BY ClockAssumption
  <2>2. (Ticks - 2) * UnitsPerTick >= 0 /\ (Ticks - 2) * UnitsPerTick \in Int
    BY <1>1, <2>1
  <2>3. Units = 2 * UnitsPerTick + (Ticks - 2) * UnitsPerTick
    BY <1>1
  <2> QED BY <1>1, <2>2, <2>3
<1> HIDE DEF f, p
<1>8. CASE now = Stamp(q, f)
  <2>1. f % Units = f
    <3>1. f = Units * 0 + f
      BY <1>1, <1>4
    <3> QED BY <1>1, <1>4, <3>1, ModIs
  <2>2. /\ IsStamp(now) /\ Cong(InUnits(now), q * Units + (f % Units))
        /\ now.fraction = Frac(f)
    BY <1>2, <1>4, <1>8, StampUnits
  <2>3. q * Units + (f % Units) = p - 0
    BY <1>5, <2>1
  <2>4. Cong(InUnits(now), p - 0)
    BY <2>2, <2>3
  <2>5. ASSUME r = Ticks - 1 PROVE Frac(f) < 0
    <3>1. /\ Frac(f) \in Int /\ -h <= Frac(f) /\ Frac(f) < h /\ Frac(f) % Units = f
      BY <1>4, <2>1, FracIs DEF h
    <3>2. Frac(f) % Units = IF Frac(f) < 0 THEN Frac(f) + Units ELSE Frac(f)
      BY <1>1, <3>1, Unsigned
    <3> QED BY <1>1, <1>6, <1>7, <2>5, <3>1, <3>2
  <2> QED BY <1>1, <1>7, <2>2, <2>4, <2>5 DEF Late, p, r
<1>9. CASE now = Stamp(q, 0) /\ r = Ticks - 1
  <2>1. 0 % Units = 0 /\ Frac(0) = 0
    <3>1. 0 = Units * 0 + 0
      BY <1>1
    <3>2. 0 % Units = 0
      BY <1>1, <3>1, ModIs
    <3>3. -h <= 0 /\ 0 < h
      BY <1>1
    <3> QED BY <3>2, <3>3, FracIs DEF h
  <2>2. /\ IsStamp(now) /\ now.fraction = 0
        /\ Cong(InUnits(now), q * Units + (0 % Units))
    BY <1>2, <1>9, <2>1, StampUnits
  <2>3. q * Units + (0 % Units) = p - (Units - UnitsPerTick)
    BY <1>1, <1>5, <1>6, <1>9, <2>1
  <2>4. Cong(InUnits(now), p - (Units - UnitsPerTick))
    BY <2>2, <2>3
  <2> QED BY <1>1, <1>7, <1>9, <2>2, <2>4 DEF Late, p, r
<1> QED BY <1>3, <1>7, <1>8, <1>9

LEMMA BoardReads ==
    ASSUME tick \in Nat, NEW now \in GetSystemClockAsNTPTime
    PROVE  /\ IsStamp(now)
           /\ \E late \in Int :
                /\ 0 <= late /\ late < Units
                /\ late # 0 => now.fraction = 0
                /\ Cong(InUnits(now), Passed - late)
<1>1. now \in Readings(tick)
  BY DEF GetSystemClockAsNTPTime, Readings
<1>2. IsStamp(now) /\ 0 < Units - UnitsPerTick /\ Units - UnitsPerTick < Units
  BY <1>1, ReadingAt
<1>3. PICK late \in Int : Late(tick, now, late)
  BY <1>1, ReadingAt
<1>4. 0 <= late /\ late < Units
  BY <1>2, <1>3, ClockSizes DEF Late
<1> QED BY <1>2, <1>3, <1>4 DEF Late, Passed

(* Sums of stamps of any kind are stamps.                                   *)
IntStamp(t) == t.seconds \in Int /\ t.fraction \in Int

LEMMA SumIsStamp ==
    ASSUME NEW t1, NEW t2, IntStamp(t1), IntStamp(t2)
    PROVE  IsStamp(AddNTPtime(t1, t2)) /\ IsStamp(DiffNTPtime(t1, t2))
<1>1. /\ Half(t1.fraction) \in Int /\ Half(t2.fraction) \in Int
      /\ Bit(Half(t2.fraction) + Half(t1.fraction) < 0) \in Int
      /\ Bit(Half(t2.fraction) - Half(t1.fraction) < 0) \in Int
  BY HalfIs DEF IntStamp, Bit
<1>2. /\ t2.seconds + t1.seconds + Bit(Half(t2.fraction) + Half(t1.fraction) < 0) \in Int
      /\ (t2.seconds - t1.seconds) - Bit(Half(t2.fraction) - Half(t1.fraction) < 0) \in Int
      /\ t2.fraction + t1.fraction \in Int /\ t2.fraction - t1.fraction \in Int
  BY <1>1 DEF IntStamp
<1> QED BY <1>2, StampUnits DEF AddNTPtime, DiffNTPtime

LEMMA HalfIsStamp ==
    ASSUME NEW t, IntStamp(t)
    PROVE  IntStamp(NTPdiv2(t))
<1>1. Half(t.fraction) \in Int /\ Half(t.seconds) \in Int /\ Units \div 2 \in Int
  BY HalfIs, ClockSizes DEF IntStamp
<1> QED BY <1>1 DEF IntStamp, NTPdiv2

-----------------------------------------------------------------------------
(* A clock set by hand is a second apart from the servers' at most.         *)
HandInv ==
    /\ tick \in Nat /\ start \in Nat /\ IsStamp(ref)
    /\ \A r \in requests : IsStamp(r.origin)
    /\ \A m \in replies : IsStamp(m.origin) /\ IsStamp(m.receive) /\ IsStamp(m.transmit)
    /\ setBy = "hand" =>
         \E e \in Int : -Units <= e /\ e <= Units /\ Cong(InUnits(ref), start + e)

LEMMA SetByHand ==
    ASSUME tick \in Nat, start \in Nat, NEW now \in GetSystemClockAsNTPTime
    PROVE  LET t == DiffNTPtime(now, ServerTime) IN
           /\ IsStamp(t)
           /\ \E e \in Int : -Units <= e /\ e <= Units /\ Cong(InUnits(t), start + e)
<1> DEFINE t == DiffNTPtime(now, ServerTime)
           n == InUnits(now)
           s == InUnits(ServerTime)
<1>1. Passed \in Nat /\ IsStamp(ServerTime) /\ Cong(s, start + Passed)
  BY ServerReads
<1>2. PICK late \in Int : /\ 0 <= late /\ late < Units /\ (late # 0 => now.fraction = 0)
                          /\ Cong(n, Passed - late)
  BY BoardReads
<1>3. IsStamp(now)
  BY BoardReads
<1>4. PICK e \in {-Units, 0, Units} :
         Cong(InUnits(t), s - n + e) /\ DiffSigns(now, ServerTime, e)
  BY <1>1, <1>3, DiffUnits
<1>5. IsStamp(t)
  BY <1>1, <1>3, DiffUnits
<1>6. n \in Int /\ s \in Int /\ InUnits(t) \in Int /\ Units \in Nat /\ Units > 0
  BY <1>1, <1>3, <1>5, InUnitsInt, ClockSizes
<1> HIDE DEF t, n, s
<1>7. e \in Int /\ late + e \in Int /\ -Units <= late + e /\ late + e <= Units
  BY <1>2, <1>4, <1>6 DEF DiffSigns
<1>8. Cong(s - n, (start + Passed) - (Passed - late))
  BY <1>1, <1>2, <1>6, CongSum
<1>9. Cong((s - n) + e, ((start + Passed) - (Passed - late)) + e)
  BY <1>1, <1>2, <1>6, <1>7, <1>8, CongSum, CongSame
<1>10. ((start + Passed) - (Passed - late)) + e = start + (late + e) /\ (s - n) + e \in Int
       /\ start + (late + e) \in Int /\ (s - n) + e = s - n + e
  BY <1>1, <1>2, <1>6, <1>7
<1>11. Cong(InUnits(t), start + (late + e))
  BY <1>4, <1>6, <1>9, <1>10, CongTrans
<1> QED BY <1>5, <1>7, <1>11 DEF t

LEMMA HandReads ==
    ASSUME HandInv, setBy = "hand", NEW now \in GetSystemClockAsNTPTime
    PROVE  LET t == AddNTPtime(now, ref) IN
           Apart(t, ServerTime) \in Int /\ Abs(Apart(t, ServerTime)) <= 2 * Units
<1> DEFINE t == AddNTPtime(now, ref)
           n == InUnits(now)
           s == InUnits(ServerTime)
           b == InUnits(ref)
<1>1. Passed \in Nat /\ IsStamp(ServerTime) /\ Cong(s, start + Passed)
  BY ServerReads DEF HandInv
<1>2. PICK late \in Int : /\ 0 <= late /\ late < Units /\ (late # 0 => now.fraction = 0)
                          /\ Cong(n, Passed - late)
  BY BoardReads DEF HandInv
<1>3. IsStamp(now) /\ IsStamp(ref) /\ start \in Int
  BY BoardReads DEF HandInv
<1>4. PICK e \in {-Units, 0, Units} :
         Cong(InUnits(t), n + b + e) /\ SumSigns(now, ref, e)
  BY <1>3, AddUnits
<1>5. IsStamp(t)
  BY <1>3, AddUnits
<1>6. /\ n \in Int /\ s \in Int /\ b \in Int /\ InUnits(t) \in Int
      /\ Units \in Nat /\ Units > 0
  BY <1>1, <1>3, <1>5, InUnitsInt, ClockSizes
<1>7. PICK d \in Int : -Units <= d /\ d <= Units /\ Cong(b, start + d)
  BY DEF HandInv
<1> HIDE DEF t, n, s, b
<1>8. /\ e \in Int /\ (d - late) + e \in Int
      /\ -(2 * Units) <= (d - late) + e /\ (d - late) + e <= 2 * Units
  BY <1>2, <1>4, <1>6, <1>7 DEF SumSigns
<1>9. Cong(n + b, (Passed - late) + (start + d))
  BY <1>1, <1>2, <1>3, <1>6, <1>7, CongSum
<1>10. Cong((n + b) + e, ((Passed - late) + (start + d)) + e)
  <2>1. n + b \in Int /\ (Passed - late) + (start + d) \in Int /\ Cong(e, e)
    BY <1>1, <1>2, <1>3, <1>6, <1>7, <1>8, CongSame
  <2> QED BY <1>8, <1>9, <2>1, CongSum
<1>11. Cong(InUnits(t), ((Passed - late) + (start + d)) + e)
  BY <1>1, <1>2, <1>3, <1>4, <1>6, <1>7, <1>8, <1>10, CongTrans
<1>12. Cong(InUnits(t) - s, (((Passed - late) + (start + d)) + e) - (start + Passed))
  BY <1>1, <1>2, <1>3, <1>6, <1>7, <1>8, <1>11, CongSum
<1>13. (((Passed - late) + (start + d)) + e) - (start + Passed) = (d - late) + e
  BY <1>1, <1>2, <1>3, <1>7, <1>8
<1>14. Cong(InUnits(t) - s, (d - late) + e)
  BY <1>12, <1>13
<1>15. Centred(InUnits(t) - s) \in Int /\ Abs(Centred(InUnits(t) - s)) <= Abs((d - late) + e)
  BY <1>6, <1>8, <1>14, CentredNearest
<1>16. Abs((d - late) + e) <= 2 * Units /\ Abs((d - late) + e) \in Int
  BY <1>6, <1>8 DEF Abs
<1>17. Abs(Centred(InUnits(t) - s)) <= 2 * Units
  BY <1>6, <1>15, <1>16 DEF Abs
<1> QED BY <1>15, <1>17 DEF Apart, t, s

LEMMA HandInit == ASSUME ClockInit PROVE HandInv
<1>1. Starts \subseteq Nat /\ Seconds \div 2 \in Int
  BY ClockAssumption, ClockSizes
<1>2. IsStamp(ref)
  BY <1>1, StampUnits DEF ClockInit
<1> QED BY <1>1, <1>2 DEF ClockInit, HandInv

LEMMA HandStep == ASSUME HandInv, [ClockNext]_clockVars PROVE HandInv'
<1>1. IntStamp(ref) /\ tick \in Nat /\ start \in Nat
  BY DEF HandInv, IntStamp, IsStamp
<1>2. \A now \in NTPGetTime : IsStamp(now)
  <2>1. ASSUME NEW now \in GetSystemClockAsNTPTime PROVE IsStamp(AddNTPtime(now, ref))
    <3>1. IntStamp(now)
      BY <1>1, BoardReads DEF IsStamp, IntStamp
    <3> QED BY <1>1, <3>1, SumIsStamp
  <2> QED BY <2>1 DEF NTPGetTime
<1>3. CASE Tick
  BY <1>3 DEF Tick, HandInv, world, IsStamp
<1>4. CASE NTPSetTime
  BY <1>1, <1>4, SetByHand DEF NTPSetTime, HandInv, world
<1>5. CASE UpdateNTPTime
  BY <1>5 DEF UpdateNTPTime, HandInv, world
<1>6. CASE GetNTPServerList
  BY <1>6 DEF GetNTPServerList, HandInv, world
<1>7. CASE SendRequest
  <2>1. PICK origin \in NTPGetTime : requests' \subseteq requests \cup {[origin |-> origin]}
    BY <1>7 DEF SendRequest
  <2>2. \A r \in requests' : IsStamp(r.origin)
    BY <1>2, <2>1 DEF HandInv
  <2> QED BY <1>7, <2>2 DEF SendRequest, HandInv, world
<1>8. CASE Answer
  <2>1. IsStamp(ServerTime)
    BY <1>1, ServerReads
  <2>2. PICK r \in requests :
           /\ requests' = requests \ {r}
           /\ replies' = replies \cup {[origin |-> r.origin, receive |-> ServerTime,
                                        transmit |-> ServerTime]}
    BY <1>8 DEF Answer
  <2>3. \A m \in replies' : IsStamp(m.origin) /\ IsStamp(m.receive) /\ IsStamp(m.transmit)
    BY <2>1, <2>2 DEF HandInv
  <2>4. \A q \in requests' : IsStamp(q.origin)
    BY <2>2 DEF HandInv
  <2>5. UNCHANGED <<tick, start, ref, setBy>>
    BY <1>8 DEF Answer, world
  <2> QED BY <2>3, <2>4, <2>5 DEF HandInv
<1>9. CASE NoAnswer
  BY <1>9 DEF NoAnswer, HandInv, world
<1>10. CASE Reply
  <2>1. PICK m \in replies, d \in NTPGetTime : ref' = SNTP_GetTime(m, d)
    BY <1>10 DEF Reply
  <2>2. IntStamp(m.origin) /\ IntStamp(m.receive) /\ IntStamp(m.transmit) /\ IntStamp(d)
    BY <1>2, <2>1 DEF HandInv, IsStamp, IntStamp
  <2>3. IntStamp(DiffNTPtime(m.origin, m.receive)) /\ IntStamp(DiffNTPtime(d, m.transmit))
    BY <2>2, SumIsStamp DEF IntStamp, IsStamp
  <2>4. /\ IntStamp(NTPdiv2(DiffNTPtime(m.origin, m.receive)))
        /\ IntStamp(NTPdiv2(DiffNTPtime(d, m.transmit)))
    BY <2>3, HalfIsStamp
  <2>5. IntStamp(Correction(m, d))
    BY <2>4, SumIsStamp DEF Correction, IntStamp, IsStamp
  <2>6. IsStamp(ref')
    BY <1>1, <2>1, <2>5, SumIsStamp DEF SNTP_GetTime
  <2> QED BY <1>10, <2>6 DEF Reply, HandInv, world
<1>11. CASE UNCHANGED clockVars
  BY <1>11 DEF clockVars, HandInv, world
<1> QED BY <1>3, <1>4, <1>5, <1>6, <1>7, <1>8, <1>9, <1>10, <1>11 DEF ClockNext

(* A clock set by hand shows the time within two seconds ever after, for    *)
(* stamps and ticks of any size: those of the source too.                   *)
THEOREM HandSetHoldsThm == ClockSpec => []HandSetHolds
<1>1. ClockInit => HandInv
  BY HandInit
<1>2. HandInv /\ [ClockNext]_clockVars => HandInv'
  BY HandStep
<1>3. HandInv => HandSetHolds
  <2> SUFFICES ASSUME HandInv, setBy = "hand", NEW e \in Errors PROVE e <= 2 * Units
    BY DEF HandSetHolds
  <2>1. PICK t \in NTPGetTime : e = Abs(Apart(t, ServerTime))
    BY DEF Errors
  <2>2. PICK now \in GetSystemClockAsNTPTime : t = AddNTPtime(now, ref)
    BY DEF NTPGetTime
  <2> QED BY <2>1, <2>2, HandReads
<1> QED BY <1>1, <1>2, <1>3, PTL DEF ClockSpec

-----------------------------------------------------------------------------
(* An exchange with a server.  Stamps whose seconds fit, which a difference *)
(* is, and the half of one: right but for half a second, which it has too   *)
(* many when the seconds are even and the fraction is negative.             *)
Fits(t) == IsStamp(t) /\ t.seconds \in Nat /\ t.seconds < Seconds

LEMMA DiffFits ==
    ASSUME NEW t1, NEW t2, IsStamp(t1), IsStamp(t2)
    PROVE  /\ Fits(DiffNTPtime(t1, t2))
           /\ DiffNTPtime(t1, t2).fraction = Frac(t2.fraction - t1.fraction)
<1> DEFINE c == Bit(Half(t2.fraction) - Half(t1.fraction) < 0)
           s == (t2.seconds - t1.seconds) - c
           f == t2.fraction - t1.fraction
<1>1. DiffNTPtime(t1, t2) = Stamp(s, f)
  BY DEF DiffNTPtime
<1>2. s \in Int /\ f \in Int
  BY DEF Bit, IsStamp
<1> HIDE DEF s, f
<1>3. IsStamp(Stamp(s, f)) /\ Stamp(s, f).fraction = Frac(f) /\ Stamp(s, f).seconds = s % Seconds
  BY <1>2, StampUnits DEF Stamp, Sec
<1>4. s % Seconds \in Nat /\ s % Seconds < Seconds
  BY <1>2, ClockSizes, ModParts
<1> QED BY <1>1, <1>3, <1>4 DEF Fits, f

LEMMA FitsUnits ==
    ASSUME NEW t, Fits(t)
    PROVE  /\ InUnits(t) \in Int /\ 0 <= InUnits(t) /\ InUnits(t) < Range64
           /\ Negative(t) => Range64 \div 2 <= InUnits(t)
           /\ ~Negative(t) => InUnits(t) < Range64 \div 2
<1> DEFINE s == t.seconds
           u == t.fraction % Units
           g == Seconds \div 2
<1>1. /\ Seconds \in Nat /\ Units \in Nat /\ Units > 0 /\ s \in Nat /\ s < Seconds
      /\ Range64 = Seconds * Units
  BY ClockSizes DEF Fits, Range64
<1>2. u \in Int /\ 0 <= u /\ u < Units
  BY <1>1, ModParts DEF Fits, IsStamp
<1>3. g \in Nat /\ Seconds = 2 * g
  BY <1>1, ClockAssumption
<1>4. Range64 \div 2 \in Nat /\ Range64 = 2 * (Range64 \div 2)
  BY ClockSizes
<1>5. InUnits(t) = s * Units + u /\ (Negative(t) <=> s >= g)
  BY DEF InUnits, Negative
<1> HIDE DEF s, u, g
<1>6. g * Units \in Nat /\ Range64 = 2 * (g * Units) /\ s * Units \in Nat
  BY <1>1, <1>3
<1>7. Range64 \div 2 = g * Units
  BY <1>4, <1>6
<1>8. s * Units <= Range64 - Units
  <2>1. (Seconds - 1 - s) * Units >= 0 /\ (Seconds - 1 - s) * Units \in Int
    BY <1>1
  <2>2. s * Units = (Seconds * Units - Units) - (Seconds - 1 - s) * Units
    BY <1>1
  <2> QED BY <1>1, <1>6, <2>1, <2>2
<1>9. CASE s >= g
  <2>1. (s - g) * Units >= 0 /\ (s - g) * Units \in Int
    BY <1>1, <1>3, <1>9
  <2>2. s * Units = g * Units + (s - g) * Units
    BY <1>1, <1>3
  <2> QED BY <1>1, <1>2, <1>5, <1>6, <1>7, <1>8, <1>9, <2>1, <2>2
<1>10. CASE ~(s >= g)
  <2>1. ((g - 1) - s) * Units >= 0 /\ ((g - 1) - s) * Units \in Int
    BY <1>1, <1>3, <1>10
  <2>2. s * Units = (g * Units - Units) - ((g - 1) - s) * Units
    BY <1>1, <1>3
  <2>3. InUnits(t) < g * Units
    BY <1>1, <1>2, <1>5, <1>6, <2>1, <2>2
  <2> QED BY <1>1, <1>2, <1>5, <1>6, <1>7, <1>10, <2>3
<1> QED BY <1>9, <1>10

HalfErrs(t, g, rho) ==
    /\ 2 * InUnits(NTPdiv2(t)) = InUnits(t) + g - rho
    /\ g = Units => NTPdiv2(t).fraction < 0
    /\ t.fraction = -1 => NTPdiv2(t).fraction = -1

LEMMA HalfUnits ==
    ASSUME NEW t, Fits(t)
    PROVE  /\ IsStamp(NTPdiv2(t))
           /\ \E g \in {0, Units}, rho \in {0, 1} : HalfErrs(t, g, rho)
<1> DEFINE s == t.seconds
           f == t.fraction
           h == Units \div 2
           q == Half(s)
           k == Half(f)
           d == NTPdiv2(t)
           v == d.fraction
           p == q * Units
<1>1. /\ h \in Nat /\ Units = 2 * h /\ Units \in Nat /\ Units > 0 /\ s \in Nat
      /\ f \in Int /\ -h <= f /\ f < h
  BY ClockSizes DEF Fits, IsStamp
<1>2. q \in Int /\ (s = 2 * q \/ s = 2 * q + 1) /\ (s % 2 = 1 <=> s = 2 * q + 1)
  BY <1>1 DEF Half
<1>3. k \in Int /\ (f = 2 * k \/ f = 2 * k + 1)
  BY <1>1, HalfIs
<1>4. d.seconds = q /\ v = IF s % 2 = 1 /\ f >= 0 THEN k - h ELSE k
  BY DEF NTPdiv2
<1>5. InUnits(d) = q * Units + (v % Units) /\ InUnits(t) = s * Units + (f % Units)
  BY <1>4 DEF InUnits
<1>6. f = -1 => v = -1
  BY <1>1, <1>3, <1>4
<1> HIDE DEF s, f, h, q, k, d, v
<1>7. v \in Int /\ -h <= v /\ v < h
  BY <1>1, <1>3, <1>4
<1>8. /\ v % Units = IF v < 0 THEN v + Units ELSE v
      /\ f % Units = IF f < 0 THEN f + Units ELSE f
  <2>1. -Units <= v /\ v < Units /\ -Units <= f /\ f < Units
    BY <1>1, <1>7
  <2> QED BY <1>1, <1>7, <2>1, Unsigned
<1> DEFINE r == s * Units
           x == InUnits(d)
           y == InUnits(t)
<1>9. p \in Int /\ r \in Int /\ (s = 2 * q => r = 2 * p) /\ (s = 2 * q + 1 => r = 2 * p + Units)
  BY <1>1, <1>2
<1>10. /\ x = p + (IF v < 0 THEN v + Units ELSE v)
       /\ y = r + (IF f < 0 THEN f + Units ELSE f)
  BY <1>5, <1>8
<1> HIDE DEF p, r, x, y
<1>11. \E g \in {0, Units}, rho \in {0, 1} :
          2 * x = y + g - rho /\ (g = Units => v < 0)
  <2> DEFINE rho == f - 2 * k
  <2>1. rho \in {0, 1} /\ f = 2 * k + rho
    BY <1>1, <1>3
  <2> HIDE DEF rho
  <2>2. CASE s = 2 * q /\ f < 0
    <3>1. v = k /\ v < 0
      BY <1>1, <1>2, <1>3, <1>4, <2>2
    <3>2. 2 * x = y + Units - rho
      BY <1>1, <1>3, <1>9, <1>10, <2>1, <2>2, <3>1
    <3> QED BY <2>1, <3>1, <3>2
  <2>3. CASE ~(s = 2 * q /\ f < 0)
    <3>1. 2 * x = y + 0 - rho
      <4>1. CASE s = 2 * q
        <5>1. v = k /\ v >= 0 /\ f >= 0
          BY <1>1, <1>2, <1>3, <1>4, <2>3, <4>1
        <5> QED BY <1>1, <1>3, <1>9, <1>10, <2>1, <4>1, <5>1
      <4>2. CASE s = 2 * q + 1 /\ f >= 0
        <5>1. v = k - h /\ v < 0
          BY <1>1, <1>2, <1>3, <1>4, <4>2
        <5> QED BY <1>1, <1>3, <1>9, <1>10, <2>1, <4>2, <5>1
      <4>3. CASE s = 2 * q + 1 /\ ~(f >= 0)
        <5>1. v = k /\ v < 0
          BY <1>1, <1>2, <1>3, <1>4, <4>3
        <5> QED BY <1>1, <1>3, <1>9, <1>10, <2>1, <4>3, <5>1
      <4> QED BY <1>2, <4>1, <4>2, <4>3
    <3>2. 0 # Units
      BY <1>1
    <3> QED BY <2>1, <3>1, <3>2
  <2> QED BY <2>2, <2>3
<1>12. IsStamp(d)
  BY <1>2, <1>4, <1>7 DEF IsStamp, h, v
<1> QED BY <1>6, <1>11, <1>12 DEF HalfErrs, d, v, f, x, y

(* Numbers that are the same and near each other, and the nearest to 0.     *)
LEMMA CongNear ==
    ASSUME NEW x \in Int, NEW y \in Int, Cong(x, y), x - y < Range64, y - x < Range64
    PROVE  x = y
<1>1. PICK k \in Int : x = y + k * Range64
  BY DEF Cong
<1>2. Range64 \in Nat /\ Range64 > 0
  BY ClockSizes
<1>3. ~(k >= 1) /\ ~(k <= -1)
  BY <1>1, <1>2
<1>4. k = 0
  BY <1>3
<1> QED BY <1>1, <1>2, <1>4

LEMMA CentredIs ==
    ASSUME NEW n \in Int, NEW x \in Int, Cong(n, x),
           -(Range64 \div 2) <= x, x < Range64 \div 2
    PROVE  Centred(n) = x
<1> DEFINE h == Range64 \div 2
<1>1. h \in Nat /\ Range64 \in Nat /\ Range64 > 0 /\ Range64 = 2 * h
  BY ClockSizes
<1>2. PICK k \in Int : n = x + k * Range64
  BY DEF Cong
<1> HIDE DEF h
<1>3. n + h \in Int /\ x + h \in Int /\ 0 <= x + h /\ x + h < Range64 /\ n + h = Range64 * k + (x + h)
  BY <1>1, <1>2 DEF h
<1>4. (n + h) % Range64 = x + h
  BY <1>1, <1>3, ModIs
<1> QED BY <1>1, <1>4 DEF Centred, h

LEMMA Within ==
    ASSUME NEW U \in Nat, NEW delta \in Int, NEW e \in Int, 2 * e <= delta + 10 * U,
           2 * e >= 1 - delta - 10 * U
    PROVE  Abs(e) <= Half(Abs(delta)) + 5 * U
<1>1. Half(Abs(delta)) \in Int /\ (Abs(delta) = 2 * Half(Abs(delta)) \/ Abs(delta) = 2 * Half(Abs(delta)) + 1)
  BY DEF Half, Abs
<1> DEFINE h == Half(Abs(delta))
<1> HIDE DEF h
<1>2. h \in Int /\ (Abs(delta) = 2 * h \/ Abs(delta) = 2 * h + 1)
  BY <1>1 DEF h
<1>3. delta <= 2 * h + 1
  BY <1>2 DEF Abs
<1> QED BY <1>2, <1>3 DEF h, Abs

(* An exchange: a request made at tick s, answered at tick a, the answer    *)
(* read at tick p, and the clock read again at once.  What can be wrong are *)
(* the carries and borrows of seven sums, two halves and three readings of  *)
(* the board's clock: together more than five seconds, but some exclude     *)
(* others.                                                                  *)
LEMMA Exchange ==
    ASSUME start \in Nat, IsStamp(ref),
           NEW s \in Nat, NEW a \in Nat, NEW p \in Nat, s <= a, a <= p,
           p * UnitsPerTick + 5 * Units <= Range64 \div 2,
           NEW asking \in Readings(s), NEW now \in Readings(p), NEW after \in Readings(p),
           NEW o, o = AddNTPtime(asking, ref),
           NEW d, d = AddNTPtime(now, ref),
           NEW r, r = ServerAt(a),
           Negative(DiffNTPtime(o, r)) = Negative(DiffNTPtime(d, r)),
           NEW c, c = AddNTPtime(NTPdiv2(DiffNTPtime(o, r)), NTPdiv2(DiffNTPtime(d, r))),
           NEW new, new = AddNTPtime(c, ref),
           NEW t, t = AddNTPtime(after, new)
    PROVE  Abs(Apart(t, ServerAt(p))) <= Half(Abs(Apart(d, o))) + 5 * Units
<1> DEFINE U == Units
           v == ServerAt(p)
           d1 == DiffNTPtime(o, r)
           d2 == DiffNTPtime(d, r)
           h1 == NTPdiv2(d1)
           h2 == NTPdiv2(d2)
           ps == s * UnitsPerTick
           pa == a * UnitsPerTick
           pp == p * UnitsPerTick
           h == Range64 \div 2
<1>1. /\ U \in Nat /\ U >= 4 /\ UnitsPerTick \in Nat /\ Range64 \in Nat /\ h \in Nat
      /\ Range64 = 2 * h
  BY ClockSizes
<1>2. PICK lo \in Int : Late(s, asking, lo)
  BY ReadingAt
<1>3. PICK l \in Int : Late(p, now, l)
  BY ReadingAt
<1>4. PICK l2 \in Int : Late(p, after, l2)
  BY ReadingAt
<1>5. 0 < U - UnitsPerTick /\ U - UnitsPerTick < U
  BY ReadingAt
<1>6. /\ IsStamp(asking) /\ IsStamp(now) /\ IsStamp(after) /\ IsStamp(r) /\ IsStamp(v)
      /\ Cong(InUnits(r), start + pa) /\ Cong(InUnits(v), start + pp)
  BY ReadingAt, ServerAtReads
<1>7. PICK eo \in {-U, 0, U} :
         Cong(InUnits(o), InUnits(asking) + InUnits(ref) + eo) /\ SumSigns(asking, ref, eo)
  BY <1>6, AddUnits
<1>8. PICK e6 \in {-U, 0, U} :
         Cong(InUnits(d), InUnits(now) + InUnits(ref) + e6) /\ SumSigns(now, ref, e6)
  BY <1>6, AddUnits
<1>9. IsStamp(o) /\ IsStamp(d)
  BY <1>6, AddUnits
<1>10. PICK e1 \in {-U, 0, U} : Cong(InUnits(d1), InUnits(r) - InUnits(o) + e1) /\ DiffSigns(o, r, e1)
  BY <1>6, <1>9, DiffUnits
<1>11. PICK e2 \in {-U, 0, U} : Cong(InUnits(d2), InUnits(r) - InUnits(d) + e2) /\ DiffSigns(d, r, e2)
  BY <1>6, <1>9, DiffUnits
<1>12. Fits(d1) /\ Fits(d2) /\ d2.fraction = Frac(r.fraction - d.fraction)
  BY <1>6, <1>9, DiffFits
<1>13. PICK g1 \in {0, U}, rho1 \in {0, 1} : HalfErrs(d1, g1, rho1)
  BY <1>12, HalfUnits
<1>14. PICK g2 \in {0, U}, rho2 \in {0, 1} : HalfErrs(d2, g2, rho2)
  BY <1>12, HalfUnits
<1>15. IsStamp(h1) /\ IsStamp(h2)
  BY <1>12, HalfUnits
<1>16. PICK e3 \in {-U, 0, U} : Cong(InUnits(c), InUnits(h1) + InUnits(h2) + e3) /\ SumSigns(h1, h2, e3)
  BY <1>15, AddUnits
<1>17. IsStamp(c)
  BY <1>15, AddUnits
<1>18. PICK e4 \in {-U, 0, U} : Cong(InUnits(new), InUnits(c) + InUnits(ref) + e4) /\ SumSigns(c, ref, e4)
  BY <1>17, AddUnits
<1>19. IsStamp(new)
  BY <1>17, AddUnits
<1>20. PICK e5 \in {-U, 0, U} : Cong(InUnits(t), InUnits(after) + InUnits(new) + e5) /\ SumSigns(after, new, e5)
  BY <1>6, <1>19, AddUnits
<1>21. IsStamp(t)
  BY <1>6, <1>19, AddUnits
<1> DEFINE R == InUnits(r)
           V == InUnits(v)
           O == InUnits(o)
           D == InUnits(d)
           B == InUnits(ref)
           A0 == InUnits(asking)
           A1 == InUnits(now)
           A2 == InUnits(after)
           X1 == InUnits(d1)
           X2 == InUnits(d2)
           H1 == InUnits(h1)
           H2 == InUnits(h2)
           C == InUnits(c)
           N == InUnits(new)
           T == InUnits(t)
<1>22. /\ R \in Int /\ V \in Int /\ O \in Int /\ D \in Int /\ B \in Int /\ A0 \in Int /\ A1 \in Int
       /\ A2 \in Int /\ X1 \in Int /\ X2 \in Int /\ H1 \in Int /\ H2 \in Int /\ C \in Int
       /\ N \in Int /\ T \in Int
  BY <1>6, <1>9, <1>12, <1>15, <1>17, <1>19, <1>21, InUnitsInt DEF Fits
<1>23. ps \in Nat /\ pa \in Nat /\ pp \in Nat /\ ps <= pa /\ pa <= pp /\ pp + 5 * U <= h
  <2>1. pa = ps + (a - s) * UnitsPerTick /\ (a - s) * UnitsPerTick \in Nat
    BY <1>1
  <2>2. pp = pa + (p - a) * UnitsPerTick /\ (p - a) * UnitsPerTick \in Nat
    BY <1>1
  <2>3. ps \in Nat /\ pa \in Nat /\ pp \in Nat
    BY <1>1
  <2> HIDE DEF ps, pa, h
  <2> QED BY <2>1, <2>2, <2>3 DEF h
<1>24. /\ Cong(A0, ps - lo) /\ Cong(A1, pp - l) /\ Cong(A2, pp - l2)
       /\ lo \in {0, U - UnitsPerTick} /\ l \in {0, U - UnitsPerTick} /\ l2 \in {0, U - UnitsPerTick}
  BY <1>2, <1>3, <1>4 DEF Late
<1>25. /\ Cong(R, start + pa) /\ Cong(V, start + pp)
       /\ Cong(O, A0 + B + eo) /\ Cong(D, A1 + B + e6)
       /\ Cong(X1, R - O + e1) /\ Cong(X2, R - D + e2)
       /\ Cong(C, H1 + H2 + e3) /\ Cong(N, C + B + e4) /\ Cong(T, A2 + N + e5)
  BY <1>6, <1>7, <1>8, <1>10, <1>11, <1>16, <1>18, <1>20
<1>26. 2 * H1 = X1 + g1 - rho1 /\ 2 * H2 = X2 + g2 - rho2
  BY <1>13, <1>14 DEF HalfErrs
<1>27. X1 - X2 < h /\ X2 - X1 < h
  BY <1>1, <1>12, <1>22, FitsUnits
<1>28. Apart(t, v) = Centred(T - V) /\ Apart(d, o) = Centred(D - O)
  BY DEF Apart
(* What excludes what.                                                      *)
<1>29. (l # 0 => e6 # -U) /\ (l2 # 0 => e5 # -U)
  BY <1>1, <1>3, <1>4, <1>8, <1>20 DEF Late, SumSigns
<1>30. eo = U => e1 # -U
  BY <1>1, <1>7, <1>9, <1>10 DEF SumSigns, DiffSigns, IsStamp
<1>31. g1 = U /\ g2 = U => e3 # U
  BY <1>1, <1>13, <1>14, <1>16 DEF HalfErrs, SumSigns
<1>32. l # 0 => l2 = l \/ (l2 = 0 /\ ~(e4 = U /\ e5 = U))
  <2>1. e4 = U => new.fraction < 0
    BY <1>18, <1>17 DEF SumSigns, IsStamp
  <2>2. l # 0 /\ l2 = 0 => after.fraction < 0
    BY <1>3, <1>4 DEF Late
  <2>3. after.fraction < 0 /\ new.fraction < 0 => e5 # U
    BY <1>1, <1>20 DEF SumSigns
  <2> QED BY <1>24, <2>1, <2>2, <2>3
<1>33. e6 = -U /\ e2 = U => ~(e3 = U /\ e4 = U)
  <2> SUFFICES ASSUME e6 = -U, e2 = U, e3 = U, e4 = U PROVE FALSE
    OBVIOUS
  <2>1. d.fraction >= 0 /\ ref.fraction # 0
    BY <1>1, <1>8 DEF SumSigns
  <2>2. r.fraction - d.fraction = -1
    BY <1>1, <1>9, <1>11, <2>1 DEF DiffSigns, IsStamp
  <2>3. h2.fraction = -1
    <3>1. -(Units \div 2) <= -1 /\ -1 < Units \div 2
      BY ClockSizes
    <3>2. Frac(-1) = -1
      BY <3>1, FracIs
    <3> QED BY <1>12, <1>14, <2>2, <3>2 DEF HalfErrs
  <2>4. c.fraction = h2.fraction + h1.fraction /\ c.fraction < 0 /\ ~(h1.fraction < 0)
    BY <1>1, <1>16, <2>3 DEF SumSigns
  <2>5. c.fraction = -1
    BY <1>15, <2>3, <2>4 DEF IsStamp
  <2>6. ref.fraction + c.fraction < 0 /\ ~(ref.fraction < 0)
    BY <1>1, <1>18, <2>5 DEF SumSigns
  <2> QED BY <2>1, <2>5, <2>6 DEF IsStamp
<1> HIDE DEF U, ps, pa, pp, h, R, V, O, D, B, A0, A1, A2, X1, X2, H1, H2, C, N, T
(* The delay, as the stamps show it.                                        *)
<1> DEFINE W == pp - ps
           y == pp - pa
           delta == W + lo - l + e6 - eo
<1>34. /\ l \in Nat /\ lo \in Nat /\ l2 \in Nat /\ l < U /\ lo < U /\ l2 < U
       /\ W \in Nat /\ y \in Nat /\ y <= W /\ delta \in Int /\ W <= pp
  BY <1>1, <1>5, <1>23, <1>24
<1>35. Cong(D - O, delta)
  <2>1. PICK i1 \in Int : D = A1 + B + e6 + i1 * Range64
    BY <1>25 DEF Cong
  <2>2. PICK i2 \in Int : O = A0 + B + eo + i2 * Range64
    BY <1>25 DEF Cong
  <2>3. PICK i3 \in Int : A1 = pp - l + i3 * Range64
    BY <1>24 DEF Cong
  <2>4. PICK i4 \in Int : A0 = ps - lo + i4 * Range64
    BY <1>24 DEF Cong
  <2>5. D - O = delta + (i1 - i2 + i3 - i4) * Range64
    BY <1>1, <1>22, <1>23, <1>34, <2>1, <2>2, <2>3, <2>4
  <2> QED BY <2>5 DEF Cong
<1>36. -h < delta - 2 * U /\ delta + 2 * U < h
  BY <1>1, <1>23, <1>34
<1>37. Apart(d, o) = delta
  <2>1. -h <= delta /\ delta < h /\ D - O \in Int
    BY <1>1, <1>22, <1>34, <1>36
  <2> QED BY <1>28, <1>34, <1>35, <2>1, CentredIs DEF h
<1>38. X1 - X2 = delta + e1 - e2
  <2>1. PICK i1 \in Int : X1 = R - O + e1 + i1 * Range64
    BY <1>25 DEF Cong
  <2>2. PICK i2 \in Int : X2 = R - D + e2 + i2 * Range64
    BY <1>25 DEF Cong
  <2>3. PICK i3 \in Int : D - O = delta + i3 * Range64
    BY <1>35 DEF Cong
  <2>4. X1 - X2 = (delta + e1 - e2) + (i1 - i2 + i3) * Range64
    BY <1>1, <1>22, <1>34, <2>1, <2>2, <2>3
  <2>5. Cong(X1 - X2, delta + e1 - e2)
    BY <2>4 DEF Cong
  <2>6. /\ X1 - X2 \in Int /\ delta + e1 - e2 \in Int
        /\ (X1 - X2) - (delta + e1 - e2) < Range64 /\ (delta + e1 - e2) - (X1 - X2) < Range64
    BY <1>1, <1>22, <1>27, <1>34, <1>36
  <2> QED BY <2>5, <2>6, CongNear
(* The error.                                                               *)
<1> DEFINE rho == rho1 + rho2
           k == H1 + H2 - X2
           e == k - y + e2 + e3 + (l - l2) + e4 + e5 - e6
<1>39. /\ rho \in Int /\ 0 <= rho /\ rho <= 2 /\ k \in Int
       /\ 2 * k = delta + e1 - e2 + g1 + g2 - rho
  BY <1>1, <1>22, <1>26, <1>34, <1>38
<1>40. Cong(T - V, e) /\ e \in Int
  <2>1. PICK i1 \in Int : T = A2 + N + e5 + i1 * Range64
    BY <1>25 DEF Cong
  <2>2. PICK i2 \in Int : N = C + B + e4 + i2 * Range64
    BY <1>25 DEF Cong
  <2>3. PICK i3 \in Int : C = H1 + H2 + e3 + i3 * Range64
    BY <1>25 DEF Cong
  <2>4. PICK i4 \in Int : X2 = R - D + e2 + i4 * Range64
    BY <1>25 DEF Cong
  <2>5. PICK i5 \in Int : R = start + pa + i5 * Range64
    BY <1>25 DEF Cong
  <2>6. PICK i6 \in Int : D = A1 + B + e6 + i6 * Range64
    BY <1>25 DEF Cong
  <2>7. PICK i7 \in Int : A1 = pp - l + i7 * Range64
    BY <1>24 DEF Cong
  <2>8. PICK i8 \in Int : A2 = pp - l2 + i8 * Range64
    BY <1>24 DEF Cong
  <2>9. PICK i9 \in Int : V = start + pp + i9 * Range64
    BY <1>25 DEF Cong
  <2> DEFINE i == i1 + i2 + i3 + i4 + i5 - i6 - i7 + i8 - i9
  <2>10. T - V = e + i * Range64
    BY <1>1, <1>22, <1>23, <1>34, <2>1, <2>2, <2>3, <2>4, <2>5, <2>6, <2>7, <2>8, <2>9
  <2>11. i \in Int /\ e \in Int
    BY <1>1, <1>22, <1>34, <1>39
  <2> HIDE DEF i, e
  <2> QED BY <2>10, <2>11 DEF Cong
<1>41. 2 * e <= delta + 10 * U
  <2> HIDE DEF W, y, rho, k, delta
  <2>1. g1 + g2 + 2 * e3 <= 3 * U
    BY <1>1, <1>31
  <2>2. CASE l = 0 /\ e6 = -U /\ e2 = U
    <3>1. g1 + g2 + 2 * e3 + 2 * e4 <= 4 * U
      BY <1>1, <1>33, <2>1, <2>2
    <3> QED BY <1>1, <1>34, <1>39, <2>2, <3>1
  <2>3. CASE l = 0 /\ ~(e6 = -U /\ e2 = U)
    <3>1. e2 - 2 * e6 <= 2 * U
      BY <1>1, <2>3
    <3> QED BY <1>1, <1>34, <1>39, <2>1, <2>3, <3>1
  <2>4. CASE l # 0
    <3>1. (l - l2) + e4 + e5 <= 2 * U
      BY <1>1, <1>32, <1>34, <2>4
    <3>2. -e6 <= 0
      BY <1>1, <1>29, <2>4
    <3> QED BY <1>1, <1>34, <1>39, <2>1, <3>1, <3>2
  <2> QED BY <2>2, <2>3, <2>4
<1>42. 2 * e >= 1 - delta - 10 * U
  <2> HIDE DEF W, y, rho, k, delta
  <2>1. e5 - l2 >= -U
    BY <1>1, <1>29, <1>34
  <2>2. e1 - 2 * eo >= -(2 * U)
    BY <1>1, <1>30
  <2>3. g1 + g2 >= 0 /\ e2 >= -U /\ e3 >= -U /\ e4 >= -U
    BY <1>1
  <2>4. 2 * e = delta + e1 + e2 + (g1 + g2) - rho - 2 * y + 2 * e3 + 2 * l + 2 * e4
                  + 2 * (e5 - l2) - 2 * e6
    BY <1>1, <1>34, <1>39
  <2>5. -(2 * y) >= -(2 * delta) + 2 * lo - 2 * l + 2 * e6 - 2 * eo
    BY <1>1, <1>34 DEF delta
  <2> HIDE DEF e
  <2> QED BY <1>1, <1>34, <1>39, <1>40, <2>1, <2>2, <2>3, <2>4, <2>5
<1>43. Abs(e) <= Half(Abs(delta)) + 5 * U
  <2> HIDE DEF delta, e
  <2> QED BY <1>1, <1>34, <1>40, <1>41, <1>42, Within
<1>44. Centred(T - V) \in Int /\ Abs(Centred(T - V)) <= Abs(e)
  <2>1. T - V \in Int
    BY <1>22
  <2> HIDE DEF e
  <2> QED BY <1>40, <2>1, CentredNearest
<1>45. Abs(e) \in Int /\ Half(Abs(delta)) \in Int /\ Abs(Centred(T - V)) \in Int
  <2>1. Abs(e) \in Int /\ Abs(delta) \in Int /\ Abs(Centred(T - V)) \in Int
    <3> HIDE DEF e, delta
    <3> QED BY <1>34, <1>40, <1>44 DEF Abs
  <2> QED BY <2>1, HalfIs
<1>46. Abs(Centred(T - V)) <= Half(Abs(delta)) + 5 * U
  <2> HIDE DEF e, delta
  <2> QED BY <1>1, <1>43, <1>44, <1>45
<1> QED BY <1>28, <1>37, <1>46 DEF U, v

(* What is on its way during an update carries readings of clocks, made in  *)
(* the order of the exchange, and the reference has not moved since.        *)
Asked(m, s) == \E asking \in Readings(s) : m.origin = AddNTPtime(asking, ref)

ExchangeInv ==
    /\ tick \in Nat /\ tick <= MaxTicks /\ start \in Nat /\ IsStamp(ref)
    /\ at = "idle" => requests = {} /\ replies = {}
    /\ \A q \in requests : \E s \in Nat : s <= tick /\ Asked(q, s)
    /\ \A m \in replies : \E s, a \in Nat :
          s <= a /\ a <= tick /\ Asked(m, s) /\ m.receive = ServerAt(a) /\ m.transmit = ServerAt(a)

LEMMA ExchangeInit == ASSUME ClockInit PROVE ExchangeInv
<1>1. HandInv
  BY HandInit
<1>2. 0 <= MaxTicks
  BY ClockAssumption
<1> QED BY <1>1, <1>2 DEF ClockInit, HandInv, ExchangeInv

(* Nothing but the clock of the board has moved.                            *)
LEMMA ExchangeKept ==
    ASSUME ExchangeInv, tick \in Nat, tick' \in Nat, tick <= tick', tick' <= MaxTicks,
           UNCHANGED <<start, ref>>, requests' \subseteq requests, replies' \subseteq replies,
           at' = "idle" => requests' = {} /\ replies' = {}
    PROVE  ExchangeInv'
<1>1. ASSUME NEW q \in requests' PROVE \E s \in Nat : s <= tick' /\ Asked(q, s)'
  <2>1. PICK s \in Nat : s <= tick /\ Asked(q, s)
    BY <1>1 DEF ExchangeInv
  <2>2. Asked(q, s)'
    BY <2>1 DEF Asked, Readings
  <2>3. s <= tick'
    BY <2>1
  <2> QED BY <2>2, <2>3
<1>2. ASSUME NEW m \in replies'
      PROVE  \E s, a \in Nat : /\ s <= a /\ a <= tick' /\ Asked(m, s)'
                               /\ m.receive = ServerAt(a)' /\ m.transmit = ServerAt(a)'
  <2>1. PICK s \in Nat, a \in Nat :
           /\ s <= a /\ a <= tick /\ Asked(m, s)
           /\ m.receive = ServerAt(a) /\ m.transmit = ServerAt(a)
    BY <1>2 DEF ExchangeInv
  <2>2. Asked(m, s)' /\ ServerAt(a)' = ServerAt(a)
    BY <2>1 DEF Asked, Readings, ServerAt
  <2>3. a <= tick'
    BY <2>1
  <2> QED BY <2>1, <2>2, <2>3
<1> QED BY <1>1, <1>2 DEF ExchangeInv, IsStamp

LEMMA ExchangeStep == ASSUME HandInv, ExchangeInv, [ClockNext]_clockVars PROVE ExchangeInv'
<1>1. tick \in Nat /\ tick <= MaxTicks /\ MaxTicks \in Nat
  BY ClockAssumption DEF ExchangeInv
<1>2. HandInv'
  BY HandStep
<1>3. CASE Tick
  BY <1>1, <1>3, ExchangeKept DEF Tick, world, ExchangeInv
<1>4. CASE NTPSetTime
  BY <1>1, <1>2, <1>4 DEF NTPSetTime, world, ExchangeInv, HandInv
<1>5. CASE UpdateNTPTime
  BY <1>1, <1>5, ExchangeKept DEF UpdateNTPTime, world
<1>6. CASE GetNTPServerList
  BY <1>1, <1>6, ExchangeKept DEF GetNTPServerList, world
<1>7. CASE SendRequest
  <2>1. PICK origin \in NTPGetTime : requests' \subseteq requests \cup {[origin |-> origin]}
    BY <1>7 DEF SendRequest
  <2>2. Asked([origin |-> origin], tick)
    BY <2>1 DEF NTPGetTime, GetSystemClockAsNTPTime, Asked, Readings
  <2>3. ASSUME NEW q \in requests' PROVE \E s \in Nat : s <= tick /\ Asked(q, s)
    <3>1. CASE q \in requests
      BY <3>1 DEF ExchangeInv
    <3>2. CASE q = [origin |-> origin]
      BY <1>1, <2>2, <3>2
    <3> QED BY <2>1, <2>3, <3>1, <3>2
  <2>4. UNCHANGED <<tick, start, ref, replies>> /\ at' # "idle"
    BY <1>7 DEF SendRequest, world
  <2>5. \A q : \A s \in Nat : Asked(q, s)' <=> Asked(q, s)
    BY <2>4 DEF Asked, Readings
  <2>6. \A a \in Nat : ServerAt(a)' = ServerAt(a)
    BY <2>4 DEF ServerAt
  <2> QED BY <2>3, <2>4, <2>5, <2>6 DEF ExchangeInv, IsStamp
<1>8. CASE Answer
  <2>1. PICK q \in requests :
           /\ requests' = requests \ {q}
           /\ replies' = replies \cup {[origin |-> q.origin, receive |-> ServerTime,
                                        transmit |-> ServerTime]}
    BY <1>8 DEF Answer
  <2>2. PICK s \in Nat : s <= tick /\ Asked(q, s)
    BY <2>1 DEF ExchangeInv
  <2>3. ServerTime = ServerAt(tick)
    BY DEF ServerTime, ServerAt
  <2> DEFINE new == [origin |-> q.origin, receive |-> ServerTime, transmit |-> ServerTime]
  <2>4. Asked(new, s) /\ new.receive = ServerAt(tick) /\ new.transmit = ServerAt(tick)
    BY <2>2, <2>3 DEF Asked
  <2> HIDE DEF new
  <2>5. UNCHANGED <<tick, start, ref, at>>
    BY <1>8 DEF Answer, world
  <2>6. at # "idle"
    BY <2>1 DEF ExchangeInv
  <2>7. ASSUME NEW m \in replies'
        PROVE  \E i, a \in Nat : /\ i <= a /\ a <= tick /\ Asked(m, i)
                                 /\ m.receive = ServerAt(a) /\ m.transmit = ServerAt(a)
    <3>1. CASE m \in replies
      BY <3>1 DEF ExchangeInv
    <3>2. CASE m = new
      BY <1>1, <2>2, <2>4, <3>2
    <3> QED BY <2>1, <2>7, <3>1, <3>2 DEF new
  <2>8. \A m : \A i \in Nat : Asked(m, i)' <=> Asked(m, i)
    BY <2>5 DEF Asked, Readings
  <2>9. \A a \in Nat : ServerAt(a)' = ServerAt(a)
    BY <2>5 DEF ServerAt
  <2> QED BY <2>1, <2>5, <2>6, <2>7, <2>8, <2>9 DEF ExchangeInv, IsStamp
<1>9. CASE NoAnswer
  BY <1>1, <1>9, ExchangeKept DEF NoAnswer, world
<1>10. CASE Reply
  BY <1>1, <1>2, <1>10 DEF Reply, world, ExchangeInv, HandInv
<1>11. CASE UNCHANGED clockVars
  BY <1>1, <1>11, ExchangeKept DEF clockVars, world, ExchangeInv
<1> QED BY <1>3, <1>4, <1>5, <1>6, <1>7, <1>8, <1>9, <1>10, <1>11 DEF ClockNext

(* The board counts less than half of what a stamp holds: its milliseconds  *)
(* 49 days of 68 years.                                                     *)
TicksCovered == MaxTicks * UnitsPerTick + 5 * Units <= Range64 \div 2

LEMMA ReplySets ==
    ASSUME TicksCovered, ExchangeInv, Reply, NEW m \in replies, NEW d \in NTPGetTime,
           ref' = SNTP_GetTime(m, d), SameSide(m, d)
    PROVE  Close(m, d)
<1> SUFFICES ASSUME NEW e \in Errors'
             PROVE  e <= Half(Abs(Apart(d, m.origin))) + 5 * Units
  BY DEF Close
<1>1. /\ tick \in Nat /\ tick <= MaxTicks /\ start \in Nat /\ IsStamp(ref)
      /\ UNCHANGED <<tick, start>>
  BY DEF ExchangeInv, Reply, world
<1>2. PICK s \in Nat, a \in Nat :
         /\ s <= a /\ a <= tick /\ Asked(m, s)
         /\ m.receive = ServerAt(a) /\ m.transmit = ServerAt(a)
  BY DEF ExchangeInv
<1>3. PICK asking \in Readings(s) : m.origin = AddNTPtime(asking, ref)
  BY <1>2 DEF Asked
<1>4. PICK now \in Readings(tick) : d = AddNTPtime(now, ref)
  BY DEF NTPGetTime, GetSystemClockAsNTPTime, Readings
<1>5. PICK after \in Readings(tick) : e = Abs(Apart(AddNTPtime(after, ref'), ServerAt(tick)))
  <2>1. ServerTime' = ServerAt(tick)
    BY <1>1 DEF ServerTime, ServerAt
  <2>2. PICK t \in NTPGetTime' : e = Abs(Apart(t, ServerTime'))
    BY DEF Errors
  <2>3. PICK after \in GetSystemClockAsNTPTime' : t = AddNTPtime(after, ref')
    BY <2>2 DEF NTPGetTime
  <2>4. after \in Readings(tick)
    BY <1>1, <2>3 DEF GetSystemClockAsNTPTime, Readings
  <2> QED BY <2>1, <2>2, <2>3, <2>4
<1>6. tick * UnitsPerTick + 5 * Units <= Range64 \div 2
  <2>1. MaxTicks \in Nat /\ UnitsPerTick \in Nat /\ Units \in Nat
    BY ClockAssumption, ClockSizes
  <2>2. (MaxTicks - tick) * UnitsPerTick >= 0 /\ (MaxTicks - tick) * UnitsPerTick \in Int
    BY <1>1, <2>1
  <2>3. MaxTicks * UnitsPerTick = tick * UnitsPerTick + (MaxTicks - tick) * UnitsPerTick
    BY <1>1, <2>1
  <2>4. tick * UnitsPerTick \in Int /\ Range64 \div 2 \in Int
    BY <1>1, <2>1, ClockSizes
  <2> QED BY <2>1, <2>2, <2>3, <2>4 DEF TicksCovered
<1> DEFINE o == m.origin
           r == ServerAt(a)
           c == AddNTPtime(NTPdiv2(DiffNTPtime(o, r)), NTPdiv2(DiffNTPtime(d, r)))
           new == AddNTPtime(c, ref)
           t == AddNTPtime(after, new)
<1>7. ref' = new
  BY <1>2 DEF SNTP_GetTime, Correction
<1>8. Negative(DiffNTPtime(o, r)) = Negative(DiffNTPtime(d, r))
  BY <1>2 DEF SameSide
<1>9. e = Abs(Apart(t, ServerAt(tick)))
  BY <1>5, <1>7
<1>10. o = AddNTPtime(asking, ref)
  BY <1>3
<1>11. c = AddNTPtime(NTPdiv2(DiffNTPtime(o, r)), NTPdiv2(DiffNTPtime(d, r)))
  OBVIOUS
<1>12. new = AddNTPtime(c, ref)
  OBVIOUS
<1>13. t = AddNTPtime(after, new) /\ r = ServerAt(a)
  OBVIOUS
<1> HIDE DEF o, r, c, new, t
<1>14. Abs(Apart(t, ServerAt(tick))) <= Half(Abs(Apart(d, o))) + 5 * Units
  BY <1>1, <1>2, <1>4, <1>6, <1>8, <1>10, <1>11, <1>12, <1>13, Exchange
<1> QED BY <1>9, <1>14 DEF o

(* An exchange moves the clock to within half the delay of the answer and   *)
(* five seconds, if both differences have the same sign: whichever request  *)
(* the answer is to, however late it comes, and for stamps of any size.     *)
THEOREM UpdateSetsClockThm == ASSUME TicksCovered PROVE ClockSpec => UpdateSetsClock
<1>1. ClockInit => HandInv /\ ExchangeInv
  BY HandInit, ExchangeInit
<1>2. HandInv /\ ExchangeInv /\ [ClockNext]_clockVars => (HandInv /\ ExchangeInv)'
  BY HandStep, ExchangeStep
<1>3. ASSUME ExchangeInv
      PROVE  [\A m \in replies, d \in NTPGetTime :
                 Reply /\ ref' = SNTP_GetTime(m, d) /\ SameSide(m, d) => Close(m, d)]_clockVars
  BY <1>3, ReplySets
<1> QED BY <1>1, <1>2, <1>3, PTL DEF ClockSpec, UpdateSetsClock

(* However the clock was set it was set well.                               *)
THEOREM ClockSoundThm == ASSUME TicksCovered PROVE ClockSpec => ClockSound
<1>1. ClockSpec => []HandSetHolds
  BY HandSetHoldsThm
<1>2. ClockSpec => UpdateSetsClock
  BY UpdateSetsClockThm
<1> QED BY <1>1, <1>2, PTL DEF ClockSound

-----------------------------------------------------------------------------
(* Commands: what a packet is, and what is asked of one.                    *)

(* A field as it lies in the buffer.                                        *)
At(k, x, w, v, place) == [kind |-> k, of |-> x, w |-> w, v |-> v, at |-> place]

Hits(fields) ==
    \A f \in fields :
        /\ f.kind = "ptr" => \A g \in fields :
             g.kind = "data" /\ g.of = f.of => f.at + f.v = g.at
        /\ f.kind = "len" => \E g \in fields :
             g.kind = "data" /\ g.of = f.of /\ g.w = f.v
Timed(fields) == \E f \in fields : f.kind = "data" /\ f.of = "time"
Excess(name, fields) ==
    IF name = "timers" THEN 4 ELSE IF name = "select" /\ ~Timed(fields) THEN 8 ELSE 0
Decoded(ev, res) ==
    /\ \E s \in Stored : s[1] = ev
    /\ \A s \in Stored : s[1] = ev => s[2] <= res

(* What holds of a packet whatever the lengths, and what holds of one that  *)
(* fits the buffer.                                                         *)
MeantRight(p) == Hits(p.fields) /\ Decoded(p.awaits, p.result)
Told(p) ==
    /\ p.length = p.header + p.told
    /\ p.told - p.written = Excess(p.name, p.fields)
FitsBuffer(p) == InBuffer(p) \in 0 .. TxBufferSize - 1 /\ OnTheWire(p) < TxBufferSize
Fine(p) == MeantRight(p) /\ Told(p) /\ FitsBuffer(p)
Keyed(p, k) == \A f \in p.fields : f.kind = "len" /\ f.of = "key" => f.v = k

(* A field is put where args stands, and args moves behind it.              *)
LEMMA Written ==
    ASSUME NEW a, NEW k, NEW x, NEW w, NEW v
    PROVE  /\ (a ++ Field(k, x, w, v)).at = a.at + w
           /\ (a ++ Field(k, x, w, v)).fields = a.fields \cup {At(k, x, w, v, a.at)}
<1>1. a ++ Field(k, x, w, v) = ToStream(a, Field(k, x, w, v))
  BY DEF ++
<1>2. QED
  BY <1>1 DEF ToStream, Field, Placed, At

LEMMA Codes ==
    /\ HCI.connect = 1 /\ HCI.disconnect = 2 /\ HCI.setscan = 3 /\ HCI.policy = 4
    /\ HCI.addprofile = 5 /\ HCI.delprofile = 6 /\ HCI.getscan = 7 /\ HCI.mask = 8
    /\ HCI.status = 9 /\ HCI.configstart = 10 /\ HCI.configstop = 11 /\ HCI.prefix = 12
    /\ HCI.configurepatch = 13 /\ HCI.socket = 4097 /\ HCI.bind = 4098
    /\ HCI.evsend = 4099 /\ HCI.recv = 4100 /\ HCI.accept = 4101 /\ HCI.listen = 4102
    /\ HCI.bsdconnect = 4103 /\ HCI.select = 4104 /\ HCI.setsockopt = 4105
    /\ HCI.getsockopt = 4106 /\ HCI.close = 4107 /\ HCI.recvfrom = 4109
    /\ HCI.evsendto = 4111 /\ HCI.hostname = 4112 /\ HCI.mdns = 4113
    /\ HCI.send = 129 /\ HCI.sendto = 131 /\ HCI.nvcreate = 515 /\ HCI.nvread = 513
    /\ HCI.nvwrite = 144 /\ HCI.evnvwrite = 514 /\ HCI.nvpatch = 516 /\ HCI.version = 519
    /\ HCI.buffers = 16395 /\ HCI.start = 16384 /\ HCI.dhcp = 8193 /\ HCI.pingsend = 8194
    /\ HCI.pingreport = 8195 /\ HCI.pingstop = 8196 /\ HCI.ipconfig = 8197
    /\ HCI.arpflush = 8198 /\ HCI.debuglevel = 8200 /\ HCI.timers = 8201
  BY DEF HCI

ByteCodes == {13, 8193, 8194, 8196, 8198, 8200, 8201, 513, 515, 516, 8195, 4113}
WordCodes ==
    {4105, 1, 9, 5, 6, 4, 3, 10, 11, 12, 8, 2, 4097, 4098, 4102, 4107, 4103, 514}

LEMMA StoredIs ==
    Stored = (ByteCodes \X {1}) \cup (WordCodes \X {4})
        \cup {<<16395, 0>>, <<16384, 0>>, <<519, 5>>, <<4112, 8>>, <<4101, 24>>,
              <<4100, 12>>, <<4109, 12>>, <<4099, 8>>, <<4111, 8>>, <<4104, 16>>, <<4106, 5>>, <<7, 50>>,
              <<8197, 58>>}
<1>1. StatusByteEvents = ByteCodes
  BY Codes DEF StatusByteEvents, ByteCodes
<1>2. StatusWordEvents = WordCodes
  BY Codes DEF StatusWordEvents, WordCodes
<1>3. /\ 1 + 4 = 5 /\ 4 + 4 = 8 /\ 4 + 4 + 16 = 24 /\ 4 + 4 + 4 = 12 /\ 4 + 4 + 4 + 4 = 16
      /\ 4 + 1 = 5 /\ 4 + 4 + 2 + 2 + 38 = 50 /\ 5 * 4 + 6 + 32 = 58
  OBVIOUS
<1>4. QED
  BY <1>1, <1>2, <1>3, Codes, SMTT(60) DEF Stored

LEMMA Decodes ==
    ASSUME NEW ev, NEW w \in Nat, NEW res \in Nat, w <= res, <<ev, w>> \in Stored,
           \A s \in Stored : s[1] = ev => s[2] = w
    PROVE  Decoded(ev, res)
<1>1. \E s \in Stored : s[1] = ev
  OBVIOUS
<1> QED
  BY <1>1 DEF Decoded

LEMMA AnswersDecode ==
    /\ \A ev \in WordCodes : Decoded(ev, 4)
    /\ \A ev \in ByteCodes : Decoded(ev, 1)
    /\ Decoded(16395, 0) /\ Decoded(16384, 0) /\ Decoded(519, 5) /\ Decoded(4112, 8)
    /\ Decoded(4101, 24) /\ Decoded(4100, 12) /\ Decoded(4109, 12) /\ Decoded(4099, 12)
    /\ Decoded(4111, 12) /\ Decoded(4104, 16) /\ Decoded(4106, 5) /\ Decoded(7, 50)
    /\ Decoded(8197, 58)
<1>1. \A ev \in WordCodes :
        <<ev, 4>> \in Stored /\ \A s \in Stored : s[1] = ev => s[2] = 4
  BY StoredIs DEF ByteCodes, WordCodes
<1>2. \A ev \in ByteCodes :
        <<ev, 1>> \in Stored /\ \A s \in Stored : s[1] = ev => s[2] = 1
  BY StoredIs DEF ByteCodes, WordCodes
<1>3. <<16395, 0>> \in Stored /\ \A s \in Stored : s[1] = 16395 => s[2] = 0
  BY StoredIs DEF ByteCodes, WordCodes
<1>4. <<16384, 0>> \in Stored /\ \A s \in Stored : s[1] = 16384 => s[2] = 0
  BY StoredIs DEF ByteCodes, WordCodes
<1>5. <<519, 5>> \in Stored /\ \A s \in Stored : s[1] = 519 => s[2] = 5
  BY StoredIs DEF ByteCodes, WordCodes
<1>6. <<4112, 8>> \in Stored /\ \A s \in Stored : s[1] = 4112 => s[2] = 8
  BY StoredIs DEF ByteCodes, WordCodes
<1>7. <<4101, 24>> \in Stored /\ \A s \in Stored : s[1] = 4101 => s[2] = 24
  BY StoredIs DEF ByteCodes, WordCodes
<1>8. <<4100, 12>> \in Stored /\ \A s \in Stored : s[1] = 4100 => s[2] = 12
  BY StoredIs DEF ByteCodes, WordCodes
<1>9. <<4109, 12>> \in Stored /\ \A s \in Stored : s[1] = 4109 => s[2] = 12
  BY StoredIs DEF ByteCodes, WordCodes
<1>10. <<4099, 8>> \in Stored /\ \A s \in Stored : s[1] = 4099 => s[2] = 8
  BY StoredIs DEF ByteCodes, WordCodes
<1>11. <<4111, 8>> \in Stored /\ \A s \in Stored : s[1] = 4111 => s[2] = 8
  BY StoredIs DEF ByteCodes, WordCodes
<1>12. <<4104, 16>> \in Stored /\ \A s \in Stored : s[1] = 4104 => s[2] = 16
  BY StoredIs DEF ByteCodes, WordCodes
<1>13. <<4106, 5>> \in Stored /\ \A s \in Stored : s[1] = 4106 => s[2] = 5
  BY StoredIs DEF ByteCodes, WordCodes
<1>14. <<7, 50>> \in Stored /\ \A s \in Stored : s[1] = 7 => s[2] = 50
  BY StoredIs DEF ByteCodes, WordCodes
<1>15. <<8197, 58>> \in Stored /\ \A s \in Stored : s[1] = 8197 => s[2] = 58
  BY StoredIs DEF ByteCodes, WordCodes
<1>16. \A ev \in WordCodes : Decoded(ev, 4)
  BY <1>1, Decodes DEF WordCodes
<1>17. \A ev \in ByteCodes : Decoded(ev, 1)
  BY <1>2, Decodes DEF ByteCodes
<1>18. /\ Decoded(16395, 0) /\ Decoded(16384, 0) /\ Decoded(519, 5) /\ Decoded(4112, 8)
       /\ Decoded(4101, 24) /\ Decoded(4100, 12) /\ Decoded(4109, 12)
  BY <1>3, <1>4, <1>5, <1>6, <1>7, <1>8, <1>9, Decodes
<1>19. /\ Decoded(4099, 12) /\ Decoded(4111, 12) /\ Decoded(4104, 16) /\ Decoded(4106, 5)
       /\ Decoded(7, 50) /\ Decoded(8197, 58)
  BY <1>10, <1>11, <1>12, <1>13, <1>14, <1>15, Decodes
<1> QED
  BY <1>16, <1>17, <1>18, <1>19

Roomy == TxBufferSize \in 131 .. 65535
Even(n) == IF n % 2 = 0 THEN 1 ELSE 0

(* hci_command_send.                                                        *)
LEMMA CommandFine ==
    ASSUME NEW name, NEW code, NEW a, NEW n \in 0 .. 255, NEW ev, NEW res,
           Hits(a.fields), Decoded(ev, res), a.at \in Nat
    PROVE  /\ hci_command_send(name, code, a, n, ev, res).fields = a.fields
           /\ MeantRight(hci_command_send(name, code, a, n, ev, res))
           /\ /\ Roomy
              /\ n - a.at = Excess(name, a.fields)
              /\ 9 + n + Even(n) < TxBufferSize
              => Fine(hci_command_send(name, code, a, n, ev, res))
<1> DEFINE p == hci_command_send(name, code, a, n, ev, res)
<1>1. n % 256 = n
  OBVIOUS
<1>2. /\ p.fields = a.fields /\ p.awaits = ev /\ p.result = res /\ p.name = name
      /\ p.header = 4 /\ p.told = n /\ p.length = n + 4 /\ p.written = a.at
  BY <1>1 DEF hci_command_send, Packet
<1> HIDE DEF p
<1>3. MeantRight(p)
  BY <1>2 DEF MeantRight
<1>4. ASSUME Roomy, n - a.at = Excess(name, a.fields), 9 + n + Even(n) < TxBufferSize
      PROVE  Fine(p)
  <2>1. Excess(name, a.fields) \in Nat
    BY DEF Excess
  <2>2. Told(p)
    BY <1>2, <1>4 DEF Told
  <2>3. (n + 4) % 2 = n % 2
    OBVIOUS
  <2>4. InBuffer(p) = 9 + a.at /\ OnTheWire(p) = 9 + n + Even(n)
    BY <1>2, <2>3 DEF InBuffer, OnTheWire, SPI_HEADER_SIZE, Even
  <2>5. a.at <= n /\ Even(n) \in Nat
    BY <1>4, <2>1 DEF Even
  <2>6. FitsBuffer(p)
    BY <1>4, <2>4, <2>5 DEF FitsBuffer, Roomy
  <2> QED
    BY <1>3, <2>2, <2>6 DEF Fine
<1> QED
  BY <1>2, <1>3, <1>4 DEF p

(* What is to be shown of a packet: the first part whatever the lengths.    *)
Goes(p) == MeantRight(p) /\ (Roomy => Fine(p))

(* A command of no more than 120 bytes fits any buffer.                     *)
LEMMA ShortGoes ==
    ASSUME NEW name, NEW code, NEW a, NEW n \in 0 .. 120, NEW ev, NEW res,
           Hits(a.fields), Decoded(ev, res), a.at \in Nat, n - a.at = Excess(name, a.fields)
    PROVE  Goes(hci_command_send(name, code, a, n, ev, res))
<1>1. ASSUME Roomy
      PROVE  9 + n + Even(n) < TxBufferSize
  <2>1. CASE n = 120
    BY <1>1, <2>1 DEF Even, Roomy
  <2>2. CASE n <= 119
    BY <1>1, <2>2 DEF Even, Roomy
  <2> QED
    BY <2>1, <2>2
<1>2. n \in 0 .. 255
  OBVIOUS
<1> QED
  BY <1>1, <1>2, CommandFine DEF Goes

(* hci_data_send and hci_data_command_send.                                 *)
LEMMA Padded ==
    ASSUME NEW total \in Nat
    PROVE  /\ total % 2 \in 0 .. 1
           /\ (5 + total) % 2 = 0 <=> total % 2 = 1
           /\ total < 65536 => total % 65536 = total
  OBVIOUS

LEMMA DataFine ==
    ASSUME NEW p, NEW total \in Nat, MeantRight(p),
           p.name \notin {"timers", "select"}, p.header = 5, p.told = total % 65536,
           p.length = 5 + total, p.written = total,
           Roomy, 10 + total + (total % 2) < TxBufferSize
    PROVE  Fine(p)
<1>1. total % 2 \in 0 .. 1 /\ ((5 + total) % 2 = 0 <=> total % 2 = 1)
  BY Padded
<1> DEFINE odd == total % 2
           pad == IF (5 + total) % 2 = 0 THEN 1 ELSE 0
<1>2. pad = odd /\ odd \in 0 .. 1
  BY <1>1
<1>3. InBuffer(p) = 5 + 5 + total /\ OnTheWire(p) = 5 + (5 + total) + pad
  BY DEF InBuffer, OnTheWire, SPI_HEADER_SIZE
<1>4. 10 + total + odd < TxBufferSize
  OBVIOUS
<1> HIDE DEF odd, pad
<1>5. TxBufferSize \in 131 .. 65535
  BY DEF Roomy
<1>6. total < 65536
  BY <1>2, <1>4, <1>5
<1>7. p.told = total
  BY <1>6, Padded
<1>8. Told(p)
  BY <1>7 DEF Told, Excess
<1>9. FitsBuffer(p)
  BY <1>2, <1>3, <1>4, <1>5 DEF FitsBuffer
<1> QED
  BY <1>8, <1>9 DEF Fine

LEMMA SendFine ==
    ASSUME NEW code, NEW a, NEW nargs \in Nat, NEW ndata \in Nat, NEW ntail \in Nat,
           NEW ev, NEW res, Hits(a.fields), Decoded(ev, res),
           NEW total \in Nat, a.at = total, total = nargs + ndata + ntail
    PROVE  /\ MeantRight(hci_data_send("send", code, a, nargs, ndata, ntail, ev, res))
           /\ Roomy /\ 10 + total + (total % 2) < TxBufferSize
              => Fine(hci_data_send("send", code, a, nargs, ndata, ntail, ev, res))
<1> DEFINE p == hci_data_send("send", code, a, nargs, ndata, ntail, ev, res)
<1>1. 5 + nargs + ndata + ntail = 5 + total
  OBVIOUS
<1>2. /\ p.fields = a.fields /\ p.awaits = ev /\ p.result = res /\ p.name = "send"
      /\ p.header = 5 /\ p.told = total % 65536 /\ p.length = 5 + total
      /\ p.written = total
  BY <1>1 DEF hci_data_send, Packet
<1> HIDE DEF p
<1>3. MeantRight(p)
  BY <1>2 DEF MeantRight
<1>4. Roomy /\ 10 + total + (total % 2) < TxBufferSize => Fine(p)
  BY <1>2, <1>3, DataFine
<1> QED
  BY <1>3, <1>4 DEF p

LEMMA WriteFine ==
    ASSUME NEW code, NEW a, NEW n \in Nat, NEW ev, NEW res, Hits(a.fields), Decoded(ev, res),
           NEW total \in Nat, a.at = total, total = 16 + n
    PROVE  /\ MeantRight(hci_data_command_send("nvwrite", code, a, 16, n, ev, res))
           /\ Roomy /\ 10 + total + (total % 2) < TxBufferSize
              => Fine(hci_data_command_send("nvwrite", code, a, 16, n, ev, res))
<1> DEFINE p == hci_data_command_send("nvwrite", code, a, 16, n, ev, res)
<1>1. 16 + n + 5 = 5 + total
  OBVIOUS
<1>2. /\ p.fields = a.fields /\ p.awaits = ev /\ p.result = res /\ p.name = "nvwrite"
      /\ p.header = 5 /\ p.told = total % 65536 /\ p.length = 5 + total
      /\ p.written = total
  BY <1>1 DEF hci_data_command_send, Packet
<1> HIDE DEF p
<1>3. MeantRight(p)
  BY <1>2 DEF MeantRight
<1>4. Roomy /\ 10 + total + (total % 2) < TxBufferSize => Fine(p)
  BY <1>2, <1>3, DataFine
<1> QED
  BY <1>3, <1>4 DEF p

(* Arguments that are numbers and data that nothing points to.              *)
LEMMA PlainHits ==
    ASSUME NEW fields, \A f \in fields : f.kind # "ptr" /\ f.kind # "len"
    PROVE  Hits(fields)
  BY DEF Hits

LEMMA NumsArgs ==
    ASSUME NEW n \in Nat, NEW w \in Nat, w = 4 * n
    PROVE  /\ (Args ++ Nums(n)).at = w
           /\ (Args ++ Nums(n)).fields = {At("num", "none", w, 0, 0)}
<1>1. Args.at = 0 /\ Args.fields = {}
  BY DEF Args
<1>2. /\ (Args ++ Field("num", "none", w, 0)).at = Args.at + w
      /\ (Args ++ Field("num", "none", w, 0)).fields
           = Args.fields \cup {At("num", "none", w, 0, Args.at)}
  BY Written
<1>3. Args ++ Nums(n) = Args ++ Field("num", "none", w, 0)
  BY DEF Nums
<1>4. 0 + w = w
  OBVIOUS
<1>5. QED
  BY <1>1, <1>2, <1>3, <1>4

LEMMA NoArgs ==
    Args.at = 0 /\ Args.fields = {} /\ Hits(Args.fields) /\ Args.at \in Nat
<1>1. Args.at = 0 /\ Args.fields = {}
  BY DEF Args
<1>2. QED
  BY <1>1, PlainHits

LEMMA NumArgs ==
    /\ (Args ++ Num).at = 4 /\ (Args ++ Num).fields = {At("num", "none", 4, 0, 0)}
    /\ Hits((Args ++ Num).fields)
<1>1. (Args ++ Num).at = 4 /\ (Args ++ Num).fields = {At("num", "none", 4, 0, 0)}
  BY NoArgs, Written DEF Num
<1>2. QED
  BY <1>1, PlainHits DEF At

LEMMA NumsHit ==
    ASSUME NEW n \in Nat
    PROVE  Hits((Args ++ Nums(n)).fields)
<1>1. (Args ++ Nums(n)).fields = {At("num", "none", 4 * n, 0, 0)}
  BY 4 * n \in Nat, NumsArgs
<1>2. QED
  BY <1>1, PlainHits DEF At

LEMMA NumbersGo ==
    ASSUME NEW name, NEW code, NEW n \in 1 .. 9, NEW w \in 0 .. 120, w = 4 * n,
           NEW ev, NEW res, Decoded(ev, res), name # "timers", name # "select"
    PROVE  /\ Goes(hci_command_send(name, code, Args ++ Nums(n), w, ev, res))
           /\ Goes(hci_command_send(name, code, Args ++ Num, 4, ev, res))
           /\ Goes(hci_command_send(name, code, Args, 0, ev, res))
<1>1. \A fields : Excess(name, fields) = 0
  BY DEF Excess
<1>2. (Args ++ Nums(n)).at \in Nat /\ w - (Args ++ Nums(n)).at = 0
  BY NumsArgs
<1>3. Goes(hci_command_send(name, code, Args ++ Nums(n), w, ev, res))
  <2> DEFINE a == Args ++ Nums(n)
  <2>1. Hits(a.fields) /\ a.at \in Nat /\ w - a.at = Excess(name, a.fields)
    BY <1>1, <1>2, NumsHit
  <2> HIDE DEF a
  <2>2. Goes(hci_command_send(name, code, a, w, ev, res))
    BY <2>1, ShortGoes, w \in 0 .. 120
  <2> QED
    BY <2>2 DEF a
<1>4. Goes(hci_command_send(name, code, Args ++ Num, 4, ev, res))
  <2> DEFINE a == Args ++ Num
  <2>1. Hits(a.fields) /\ a.at \in Nat /\ 4 - a.at = Excess(name, a.fields)
    BY <1>1, NumArgs
  <2> HIDE DEF a
  <2>2. Goes(hci_command_send(name, code, a, 4, ev, res))
    BY <2>1, ShortGoes, 4 \in 0 .. 120
  <2> QED
    BY <2>2 DEF a
<1>5. Goes(hci_command_send(name, code, Args, 0, ev, res))
  <2>1. Hits(Args.fields) /\ Args.at \in Nat /\ 0 - Args.at = Excess(name, Args.fields)
    BY <1>1, NoArgs
  <2>2. QED
    BY <2>1, ShortGoes, 0 \in 0 .. 120
<1> QED
  BY <1>3, <1>4, <1>5

(* The layouts with pointers: each of them hits, whatever the lengths.       *)
LEMMA ConnectArgs ==
    ASSUME NEW ssid \in Nat, NEW key \in Nat
    PROVE  LET a == Args ++ PtrTo("ssid", 28) ++ LenOf("ssid", ssid) ++ Num
                 ++ PtrTo("key", 16 + ssid) ++ LenOf("key", key) ++ Short
                 ++ Data("bssid", 6) ++ Data("ssid", ssid) ++ Data("key", key)
           IN /\ Hits(a.fields) /\ a.at = 28 + ssid + key
              /\ Keyed(a, key)
<1> DEFINE a1 == Args ++ PtrTo("ssid", 28) ++ LenOf("ssid", ssid) ++ Num
           a2 == a1 ++ PtrTo("key", 16 + ssid) ++ LenOf("key", key) ++ Short
           a3 == a2 ++ Data("bssid", 6) ++ Data("ssid", ssid) ++ Data("key", key)
<1>0. Args.at = 0 /\ Args.fields = {}
  BY NoArgs
<1>1. /\ a1.at = 12
      /\ a1.fields
           = {At("ptr", "ssid", 4, 28, 0), At("len", "ssid", 4, ssid, 4),
            At("num", "none", 4, 0, 8)}
  BY <1>0, Written DEF LenOf, Num, PtrTo
<1> HIDE DEF a1
<1>2. /\ a2.at = 22
      /\ a2.fields = a1.fields \cup
           {At("ptr", "key", 4, 16 + ssid, 12), At("len", "key", 4, key, 16),
            At("num", "none", 2, 0, 20)}
  BY <1>1, Written DEF LenOf, PtrTo, Short
<1> HIDE DEF a2
<1>3. /\ a3.at = 28 + ssid + key
      /\ a3.fields = a2.fields \cup
           {At("data", "bssid", 6, 0, 22), At("data", "ssid", ssid, 0, 28),
            At("data", "key", key, 0, 28 + ssid)}
  BY <1>2, Written DEF Data
<1>4. Hits(a3.fields) /\ Keyed(a3, key)
  <2> HIDE DEF a3
  <2> QED
    BY <1>1, <1>2, <1>3 DEF Hits, At, Keyed
<1> QED
  BY <1>3, <1>4 DEF a1, a2

LEMMA OpenArgs ==
    ASSUME NEW ssid \in Nat, NEW key \in Nat
    PROVE  LET a == Args ++ Num ++ PtrTo("ssid", 20) ++ LenOf("ssid", ssid)
                 ++ Short ++ Data("bssid", 6) ++ Num ++ Data("ssid", ssid)
           IN /\ Hits(a.fields) /\ a.at = 24 + ssid
              /\ Keyed(a, key)
<1> DEFINE a1 == Args ++ Num ++ PtrTo("ssid", 20) ++ LenOf("ssid", ssid)
           a2 == a1 ++ Short ++ Data("bssid", 6)
           a3 == a2 ++ Num ++ Data("ssid", ssid)
<1>0. Args.at = 0 /\ Args.fields = {}
  BY NoArgs
<1>1. /\ a1.at = 12
      /\ a1.fields
           = {At("num", "none", 4, 0, 0), At("ptr", "ssid", 4, 20, 4),
            At("len", "ssid", 4, ssid, 8)}
  BY <1>0, Written DEF LenOf, Num, PtrTo
<1> HIDE DEF a1
<1>2. /\ a2.at = 20
      /\ a2.fields = a1.fields \cup
           {At("num", "none", 2, 0, 12), At("data", "bssid", 6, 0, 14)}
  BY <1>1, Written DEF Data, Short
<1> HIDE DEF a2
<1>3. /\ a3.at = 24 + ssid
      /\ a3.fields = a2.fields \cup
           {At("num", "none", 4, 0, 20), At("data", "ssid", ssid, 0, 24)}
  BY <1>2, Written DEF Data, Num
<1>4. Hits(a3.fields) /\ Keyed(a3, key)
  <2> HIDE DEF a3
  <2> QED
    BY <1>1, <1>2, <1>3 DEF Hits, At, Keyed
<1> QED
  BY <1>3, <1>4 DEF a1, a2

LEMMA WepArgs ==
    ASSUME NEW ssid \in Nat, NEW key \in Nat
    PROVE  LET a == Args ++ Num ++ PtrTo("ssid", 32) ++ LenOf("ssid", ssid)
                 ++ Short ++ Data("bssid", 6) ++ Num
                 ++ PtrTo("key", 12 + ssid) ++ LenOf("key", key) ++ Num
                 ++ Data("ssid", ssid) ++ Data("key", key)
                 ++ Data("key2", key) ++ Data("key3", key)
                 ++ Data("key4", key)
           IN /\ Hits(a.fields) /\ a.at = 36 + ssid + key * 4
              /\ Keyed(a, key)
<1> DEFINE a1 == Args ++ Num ++ PtrTo("ssid", 32) ++ LenOf("ssid", ssid)
           a2 == a1 ++ Short ++ Data("bssid", 6) ++ Num
           a3 == a2 ++ PtrTo("key", 12 + ssid) ++ LenOf("key", key) ++ Num
           a4 == a3 ++ Data("ssid", ssid) ++ Data("key", key) ++ Data("key2", key)
           a5 == a4 ++ Data("key3", key) ++ Data("key4", key)
<1>0. Args.at = 0 /\ Args.fields = {}
  BY NoArgs
<1>1. /\ a1.at = 12
      /\ a1.fields
           = {At("num", "none", 4, 0, 0), At("ptr", "ssid", 4, 32, 4),
            At("len", "ssid", 4, ssid, 8)}
  BY <1>0, Written DEF LenOf, Num, PtrTo
<1> HIDE DEF a1
<1>2. /\ a2.at = 24
      /\ a2.fields = a1.fields \cup
           {At("num", "none", 2, 0, 12), At("data", "bssid", 6, 0, 14),
            At("num", "none", 4, 0, 20)}
  BY <1>1, Written DEF Data, Num, Short
<1> HIDE DEF a2
<1>3. /\ a3.at = 36
      /\ a3.fields = a2.fields \cup
           {At("ptr", "key", 4, 12 + ssid, 24), At("len", "key", 4, key, 28),
            At("num", "none", 4, 0, 32)}
  BY <1>2, Written DEF LenOf, Num, PtrTo
<1> HIDE DEF a3
<1>4. /\ a4.at = 36 + ssid + key + key
      /\ a4.fields = a3.fields \cup
           {At("data", "ssid", ssid, 0, 36),
            At("data", "key", key, 0, 36 + ssid),
            At("data", "key2", key, 0, 36 + ssid + key)}
  BY <1>3, Written DEF Data
<1> HIDE DEF a4
<1>5. /\ a5.at = 36 + ssid + key + key + key + key
      /\ a5.fields = a4.fields \cup
           {At("data", "key3", key, 0, 36 + ssid + key + key),
            At("data", "key4", key, 0, 36 + ssid + key + key + key)}
  BY <1>4, Written DEF Data
<1>6. Hits(a5.fields) /\ Keyed(a5, key)
  <2> HIDE DEF a5
  <2> QED
    BY <1>1, <1>2, <1>3, <1>4, <1>5 DEF Hits, At, Keyed
<1> QED
  BY <1>5, <1>6 DEF a1, a2, a3, a4

LEMMA WpaArgs ==
    ASSUME NEW ssid \in Nat, NEW key \in Nat
    PROVE  LET a == Args ++ Num ++ PtrTo("ssid", 40) ++ LenOf("ssid", ssid)
                 ++ Short ++ Data("bssid", 6) ++ Num ++ Num ++ Num ++ Num
                 ++ PtrTo("key", 8 + ssid) ++ LenOf("key", key)
                 ++ Data("ssid", ssid) ++ Data("key", key)
           IN /\ Hits(a.fields) /\ a.at = 44 + ssid + key
              /\ Keyed(a, key)
<1> DEFINE a1 == Args ++ Num ++ PtrTo("ssid", 40) ++ LenOf("ssid", ssid)
           a2 == a1 ++ Short ++ Data("bssid", 6) ++ Num
           a3 == a2 ++ Num ++ Num ++ Num
           a4 == a3 ++ PtrTo("key", 8 + ssid) ++ LenOf("key", key)
           a5 == a4 ++ Data("ssid", ssid) ++ Data("key", key)
<1>0. Args.at = 0 /\ Args.fields = {}
  BY NoArgs
<1>1. /\ a1.at = 12
      /\ a1.fields
           = {At("num", "none", 4, 0, 0), At("ptr", "ssid", 4, 40, 4),
            At("len", "ssid", 4, ssid, 8)}
  BY <1>0, Written DEF LenOf, Num, PtrTo
<1> HIDE DEF a1
<1>2. /\ a2.at = 24
      /\ a2.fields = a1.fields \cup
           {At("num", "none", 2, 0, 12), At("data", "bssid", 6, 0, 14),
            At("num", "none", 4, 0, 20)}
  BY <1>1, Written DEF Data, Num, Short
<1> HIDE DEF a2
<1>3. /\ a3.at = 36
      /\ a3.fields = a2.fields \cup
           {At("num", "none", 4, 0, 24), At("num", "none", 4, 0, 28),
            At("num", "none", 4, 0, 32)}
  BY <1>2, Written DEF Num
<1> HIDE DEF a3
<1>4. /\ a4.at = 44
      /\ a4.fields = a3.fields \cup
           {At("ptr", "key", 4, 8 + ssid, 36), At("len", "key", 4, key, 40)}
  BY <1>3, Written DEF LenOf, PtrTo
<1> HIDE DEF a4
<1>5. /\ a5.at = 44 + ssid + key
      /\ a5.fields = a4.fields \cup
           {At("data", "ssid", ssid, 0, 44),
            At("data", "key", key, 0, 44 + ssid)}
  BY <1>4, Written DEF Data
<1>6. Hits(a5.fields) /\ Keyed(a5, key)
  <2> HIDE DEF a5
  <2> QED
    BY <1>1, <1>2, <1>3, <1>4, <1>5 DEF Hits, At, Keyed
<1> QED
  BY <1>5, <1>6 DEF a1, a2, a3, a4

LEMMA AddrArgs ==
    LET a == Args ++ Num ++ PtrTo("addr", 8) ++ LenOf("addr", 8)
                 ++ Data("addr", 8)
           IN /\ Hits(a.fields) /\ a.at = 20
<1> DEFINE a1 == Args ++ Num ++ PtrTo("addr", 8)
           a2 == a1 ++ LenOf("addr", 8) ++ Data("addr", 8)
<1>0. Args.at = 0 /\ Args.fields = {}
  BY NoArgs
<1>1. /\ a1.at = 8
      /\ a1.fields
           = {At("num", "none", 4, 0, 0), At("ptr", "addr", 4, 8, 4)}
  BY <1>0, Written DEF Num, PtrTo
<1> HIDE DEF a1
<1>2. /\ a2.at = 20
      /\ a2.fields = a1.fields \cup
           {At("len", "addr", 4, 8, 8), At("data", "addr", 8, 0, 12)}
  BY <1>1, Written DEF Data, LenOf
<1>3. Hits(a2.fields)
  <2> HIDE DEF a2
  <2> QED
    BY <1>1, <1>2 DEF Hits, At
<1> QED
  BY <1>2, <1>3 DEF a1

LEMMA HostArgs ==
    ASSUME NEW n \in Nat
    PROVE  LET a == Args ++ PtrTo("name", 8) ++ LenOf("name", n)
                 ++ Data("name", n)
           IN /\ Hits(a.fields) /\ a.at = 8 + n
<1> DEFINE a1 == Args ++ PtrTo("name", 8) ++ LenOf("name", n) ++ Data("name", n)
<1>0. Args.at = 0 /\ Args.fields = {}
  BY NoArgs
<1>1. /\ a1.at = 8 + n
      /\ a1.fields
           = {At("ptr", "name", 4, 8, 0), At("len", "name", 4, n, 4),
            At("data", "name", n, 0, 8)}
  BY <1>0, Written DEF Data, LenOf, PtrTo
<1>2. Hits(a1.fields)
  <2> HIDE DEF a1
  <2> QED
    BY <1>1 DEF Hits, At
<1> QED
  BY <1>1, <1>2

LEMMA MdnsArgs ==
    ASSUME NEW n \in Nat
    PROVE  LET a == Args ++ Num ++ PtrTo("name", 8) ++ LenOf("name", n)
                 ++ Data("name", n)
           IN /\ Hits(a.fields) /\ a.at = 12 + n
<1> DEFINE a1 == Args ++ Num ++ PtrTo("name", 8)
           a2 == a1 ++ LenOf("name", n) ++ Data("name", n)
<1>0. Args.at = 0 /\ Args.fields = {}
  BY NoArgs
<1>1. /\ a1.at = 8
      /\ a1.fields
           = {At("num", "none", 4, 0, 0), At("ptr", "name", 4, 8, 4)}
  BY <1>0, Written DEF Num, PtrTo
<1> HIDE DEF a1
<1>2. /\ a2.at = 12 + n
      /\ a2.fields = a1.fields \cup
           {At("len", "name", 4, n, 8), At("data", "name", n, 0, 12)}
  BY <1>1, Written DEF Data, LenOf
<1>3. Hits(a2.fields)
  <2> HIDE DEF a2
  <2> QED
    BY <1>1, <1>2 DEF Hits, At
<1> QED
  BY <1>2, <1>3 DEF a1

LEMMA SelectArgs ==
    LET a == Args ++ Num ++ PtrTo("read", 20) ++ PtrTo("write", 20)
                 ++ PtrTo("except", 20) ++ PtrTo("time", 20) ++ Num
                 ++ Data("read", 4) ++ Data("write", 4) ++ Data("except", 4)
           IN /\ Hits(a.fields) /\ a.at = 36 /\ ~Timed(a.fields)
<1> DEFINE a1 == Args ++ Num ++ PtrTo("read", 20) ++ PtrTo("write", 20)
           a2 == a1 ++ PtrTo("except", 20) ++ PtrTo("time", 20) ++ Num
           a3 == a2 ++ Data("read", 4) ++ Data("write", 4) ++ Data("except", 4)
<1>0. Args.at = 0 /\ Args.fields = {}
  BY NoArgs
<1>1. /\ a1.at = 12
      /\ a1.fields
           = {At("num", "none", 4, 0, 0), At("ptr", "read", 4, 20, 4),
            At("ptr", "write", 4, 20, 8)}
  BY <1>0, Written DEF Num, PtrTo
<1> HIDE DEF a1
<1>2. /\ a2.at = 24
      /\ a2.fields = a1.fields \cup
           {At("ptr", "except", 4, 20, 12), At("ptr", "time", 4, 20, 16),
            At("num", "none", 4, 0, 20)}
  BY <1>1, Written DEF Num, PtrTo
<1> HIDE DEF a2
<1>3. /\ a3.at = 36
      /\ a3.fields = a2.fields \cup
           {At("data", "read", 4, 0, 24), At("data", "write", 4, 0, 28),
            At("data", "except", 4, 0, 32)}
  BY <1>2, Written DEF Data
<1>4. Hits(a3.fields) /\ ~Timed(a3.fields)
  <2> HIDE DEF a3
  <2> QED
    BY <1>1, <1>2, <1>3 DEF Hits, At, Timed
<1> QED
  BY <1>3, <1>4 DEF a1, a2

LEMMA TimedArgs ==
    LET a == Args ++ Num ++ PtrTo("read", 20) ++ PtrTo("write", 20)
                 ++ PtrTo("except", 20) ++ PtrTo("time", 20) ++ Num
                 ++ Data("read", 4) ++ Data("write", 4) ++ Data("except", 4)
                 ++ Data("time", 8)
           IN /\ Hits(a.fields) /\ a.at = 44 /\ Timed(a.fields)
<1> DEFINE a1 == Args ++ Num ++ PtrTo("read", 20) ++ PtrTo("write", 20)
           a2 == a1 ++ PtrTo("except", 20) ++ PtrTo("time", 20) ++ Num
           a3 == a2 ++ Data("read", 4) ++ Data("write", 4)
           a4 == a3 ++ Data("except", 4) ++ Data("time", 8)
<1>0. Args.at = 0 /\ Args.fields = {}
  BY NoArgs
<1>1. /\ a1.at = 12
      /\ a1.fields
           = {At("num", "none", 4, 0, 0), At("ptr", "read", 4, 20, 4),
            At("ptr", "write", 4, 20, 8)}
  BY <1>0, Written DEF Num, PtrTo
<1> HIDE DEF a1
<1>2. /\ a2.at = 24
      /\ a2.fields = a1.fields \cup
           {At("ptr", "except", 4, 20, 12), At("ptr", "time", 4, 20, 16),
            At("num", "none", 4, 0, 20)}
  BY <1>1, Written DEF Num, PtrTo
<1> HIDE DEF a2
<1>3. /\ a3.at = 32
      /\ a3.fields = a2.fields \cup
           {At("data", "read", 4, 0, 24), At("data", "write", 4, 0, 28)}
  BY <1>2, Written DEF Data
<1> HIDE DEF a3
<1>4. /\ a4.at = 44
      /\ a4.fields = a3.fields \cup
           {At("data", "except", 4, 0, 32), At("data", "time", 8, 0, 36)}
  BY <1>3, Written DEF Data
<1>5. Hits(a4.fields) /\ Timed(a4.fields)
  <2> HIDE DEF a4
  <2> QED
    BY <1>1, <1>2, <1>3, <1>4 DEF Hits, At, Timed
<1> QED
  BY <1>4, <1>5 DEF a1, a2, a3

LEMMA OptionArgs ==
    ASSUME NEW n \in Nat
    PROVE  LET a == Args ++ Nums(3) ++ PtrTo("opt", 8) ++ LenOf("opt", n)
                 ++ Data("opt", n)
           IN /\ Hits(a.fields) /\ a.at = 20 + n
<1> DEFINE a0 == Args ++ Nums(3)
           a1 == a0 ++ PtrTo("opt", 8) ++ LenOf("opt", n) ++ Data("opt", n)
<1>0. a0.at = 12 /\ a0.fields = {At("num", "none", 12, 0, 0)}
  BY NumsArgs, 12 = 4 * 3
<1> HIDE DEF a0
<1>1. /\ a1.at = 20 + n
      /\ a1.fields = a0.fields \cup
           {At("ptr", "opt", 4, 8, 12), At("len", "opt", 4, n, 16),
            At("data", "opt", n, 0, 20)}
  BY <1>0, Written DEF Data, LenOf, PtrTo
<1>2. Hits(a1.fields)
  <2> HIDE DEF a1
  <2> QED
    BY <1>0, <1>1 DEF Hits, At
<1> QED
  BY <1>1, <1>2 DEF a0

LEMMA SendArgs ==
    ASSUME NEW n \in Nat
    PROVE  LET a == Args ++ Num ++ PtrTo("data", 12) ++ LenOf("data", n)
                 ++ Num ++ Data("data", n)
           IN /\ Hits(a.fields) /\ a.at = 16 + n
<1> DEFINE a1 == Args ++ Num ++ PtrTo("data", 12) ++ LenOf("data", n)
           a2 == a1 ++ Num ++ Data("data", n)
<1>0. Args.at = 0 /\ Args.fields = {}
  BY NoArgs
<1>1. /\ a1.at = 12
      /\ a1.fields
           = {At("num", "none", 4, 0, 0), At("ptr", "data", 4, 12, 4),
            At("len", "data", 4, n, 8)}
  BY <1>0, Written DEF LenOf, Num, PtrTo
<1> HIDE DEF a1
<1>2. /\ a2.at = 16 + n
      /\ a2.fields = a1.fields \cup
           {At("num", "none", 4, 0, 12), At("data", "data", n, 0, 16)}
  BY <1>1, Written DEF Data, Num
<1>3. Hits(a2.fields)
  <2> HIDE DEF a2
  <2> QED
    BY <1>1, <1>2 DEF Hits, At
<1> QED
  BY <1>2, <1>3 DEF a1

LEMMA SendtoArgs ==
    ASSUME NEW n \in Nat
    PROVE  LET a == Args ++ Num ++ PtrTo("data", 20) ++ LenOf("data", n)
                 ++ Num ++ PtrTo("addr", n + 8) ++ LenOf("addr", 8)
                 ++ Data("data", n) ++ Data("addr", 8)
           IN /\ Hits(a.fields) /\ a.at = 24 + n + 8
<1> DEFINE a1 == Args ++ Num ++ PtrTo("data", 20) ++ LenOf("data", n)
           a2 == a1 ++ Num ++ PtrTo("addr", n + 8) ++ LenOf("addr", 8)
           a3 == a2 ++ Data("data", n) ++ Data("addr", 8)
<1>0. Args.at = 0 /\ Args.fields = {}
  BY NoArgs
<1>1. /\ a1.at = 12
      /\ a1.fields
           = {At("num", "none", 4, 0, 0), At("ptr", "data", 4, 20, 4),
            At("len", "data", 4, n, 8)}
  BY <1>0, Written DEF LenOf, Num, PtrTo
<1> HIDE DEF a1
<1>2. /\ a2.at = 24
      /\ a2.fields = a1.fields \cup
           {At("num", "none", 4, 0, 12), At("ptr", "addr", 4, n + 8, 16),
            At("len", "addr", 4, 8, 20)}
  BY <1>1, Written DEF LenOf, Num, PtrTo
<1> HIDE DEF a2
<1>3. /\ a3.at = 32 + n
      /\ a3.fields = a2.fields \cup
           {At("data", "data", n, 0, 24), At("data", "addr", 8, 0, 24 + n)}
  BY <1>2, Written DEF Data
<1>4. Hits(a3.fields)
  <2> HIDE DEF a3
  <2> QED
    BY <1>1, <1>2, <1>3 DEF Hits, At
<1> QED
  BY <1>3, <1>4 DEF a1, a2

(* The packets of fixed length.                                             *)
LEMMA PlainPackets ==
    \A p \in {ReadBufferSize, wlan_disconnect, wlan_ioctl_set_connection_policy,
              wlan_ioctl_del_profile, wlan_ioctl_get_scan_results, wlan_set_event_mask,
              wlan_ioctl_statusget, wlan_smart_config_start, wlan_smart_config_stop, socket,
              closesocket, accept, listen, getsockopt, simple_link_recv(HCI.recv),
              simple_link_recv(HCI.recvfrom), netapp_ping_send, netapp_ping_report,
              netapp_ping_stop, netapp_ipconfig, netapp_arp_flush, netapp_set_debug_level,
              nvmem_read, nvmem_read_sp_version, nvmem_create_entry} : Goes(p)
<1> USE Codes
<1>0. /\ 12 = 4 * 3 /\ 8 = 4 * 2 /\ 16 = 4 * 4 
      /\ \A n \in 0 .. 16 : n \in 0 .. 120
  OBVIOUS
<1>1. /\ Decoded(HCI.buffers, 0) /\ Decoded(HCI.disconnect, 4) /\ Decoded(HCI.policy, 4)
      /\ Decoded(HCI.delprofile, 4) /\ Decoded(HCI.getscan, 50) /\ Decoded(HCI.mask, 4)
      /\ Decoded(HCI.status, 4) /\ Decoded(HCI.configstart, 4) /\ Decoded(HCI.configstop, 4)
      /\ Decoded(HCI.socket, 4) /\ Decoded(HCI.close, 4) /\ Decoded(HCI.accept, 24)
      /\ Decoded(HCI.listen, 4) /\ Decoded(HCI.getsockopt, 5)
      /\ Decoded(HCI.recv, 12) /\ Decoded(HCI.recvfrom, 12)
  BY AnswersDecode DEF ByteCodes, WordCodes
<1>2. /\ Decoded(HCI.pingsend, 1) /\ Decoded(HCI.pingreport, 1) /\ Decoded(HCI.pingstop, 1)
      /\ Decoded(HCI.ipconfig, 58) /\ Decoded(HCI.arpflush, 1)
      /\ Decoded(HCI.debuglevel, 1) /\ Decoded(HCI.nvread, 1) /\ Decoded(HCI.version, 5)
      /\ Decoded(HCI.nvcreate, 1)
  BY AnswersDecode DEF ByteCodes, WordCodes
<1>3. ASSUME NEW name, name # "timers", name # "select", NEW code, NEW ev, NEW res,
             Decoded(ev, res)
      PROVE  /\ Goes(hci_command_send(name, code, Args, 0, ev, res))
             /\ Goes(hci_command_send(name, code, Args ++ Num, 4, ev, res))
             /\ Goes(hci_command_send(name, code, Args ++ Nums(2), 8, ev, res))
             /\ Goes(hci_command_send(name, code, Args ++ Nums(3), 12, ev, res))
             /\ Goes(hci_command_send(name, code, Args ++ Nums(4), 16, ev, res))
  BY <1>0, <1>3, NumbersGo
<1>4. /\ Goes(ReadBufferSize) /\ Goes(wlan_disconnect) /\ Goes(wlan_ioctl_statusget)
      /\ Goes(wlan_smart_config_stop)
  BY <1>1, <1>3 DEF ReadBufferSize, wlan_disconnect, wlan_ioctl_statusget,
     wlan_smart_config_stop
<1>5. /\ Goes(netapp_ping_report) /\ Goes(netapp_ping_stop) /\ Goes(netapp_ipconfig)
      /\ Goes(netapp_arp_flush) /\ Goes(nvmem_read_sp_version)
  BY <1>2, <1>3 DEF netapp_ping_report, netapp_ping_stop, netapp_ipconfig,
     netapp_arp_flush, nvmem_read_sp_version
<1>6. /\ Goes(wlan_ioctl_del_profile) /\ Goes(wlan_ioctl_get_scan_results)
      /\ Goes(wlan_set_event_mask) /\ Goes(wlan_smart_config_start) /\ Goes(closesocket)
      /\ Goes(accept)
  BY <1>1, <1>3 DEF wlan_ioctl_del_profile, wlan_ioctl_get_scan_results,
     wlan_set_event_mask, wlan_smart_config_start, closesocket, accept
<1>7. Goes(netapp_set_debug_level) /\ Goes(nvmem_create_entry) /\ Goes(nvmem_read)
      /\ Goes(netapp_ping_send)
  BY <1>2, <1>3 DEF netapp_set_debug_level, nvmem_create_entry, nvmem_read, netapp_ping_send
<1>8. /\ Goes(wlan_ioctl_set_connection_policy) /\ Goes(socket) /\ Goes(getsockopt)
      /\ Goes(listen) /\ Goes(simple_link_recv(HCI.recv)) /\ Goes(simple_link_recv(HCI.recvfrom))
  BY <1>1, <1>3 DEF wlan_ioctl_set_connection_policy, socket, getsockopt, listen,
     simple_link_recv
<1> QED
  BY <1>4, <1>5, <1>6, <1>7, <1>8

LEMMA DataPackets ==
    \A p \in {SimpleLink_Init_Start, wlan_ioctl_set_scan_params, wlan_smart_config_set_prefix,
              netapp_dhcp, netapp_timeout_values} : Goes(p)
<1>1. /\ Decoded(HCI.start, 0) /\ Decoded(HCI.setscan, 4) /\ Decoded(HCI.prefix, 4)
      /\ Decoded(HCI.dhcp, 1) /\ Decoded(HCI.timers, 1)
  BY AnswersDecode, Codes DEF ByteCodes, WordCodes
<1>2. \A name, fields : name # "timers" /\ name # "select" => Excess(name, fields) = 0
  BY DEF Excess
<1>3. Goes(SimpleLink_Init_Start)
  <2> DEFINE a == Args ++ Byte8
  <2>1. a.at = 1 /\ a.fields = {At("num", "none", 1, 0, 0)}
    BY NoArgs, Written DEF Byte8
  <2>2. Hits(a.fields)
    BY <2>1, PlainHits DEF At
  <2>3. 1 - a.at = Excess("start", a.fields) /\ a.at \in Nat
    BY <1>2, <2>1
  <2> HIDE DEF a
  <2>4. Goes(hci_command_send("start", HCI.start, a, 1, HCI.start, 0))
    BY <1>1, <2>2, <2>3, 1 \in 0 .. 120, ShortGoes
  <2> QED
    BY <2>4 DEF a, SimpleLink_Init_Start
<1>4. Goes(wlan_ioctl_set_scan_params)
  <2> DEFINE b == Args ++ Nums(9)
             a == b ++ Data("intervals", 64)
  <2>1. b.at = 36 /\ b.fields = {At("num", "none", 36, 0, 0)}
    BY NumsArgs, 36 = 4 * 9
  <2> HIDE DEF b
  <2>2. a.at = 100 /\ a.fields = b.fields \cup {At("data", "intervals", 64, 0, 36)}
    BY <2>1, Written DEF Data
  <2>3. Hits(a.fields)
    BY <2>1, <2>2, PlainHits DEF At
  <2>4. 100 - a.at = Excess("setscan", a.fields) /\ a.at \in Nat
    BY <1>2, <2>2
  <2> HIDE DEF a
  <2>5. Goes(hci_command_send("setscan", HCI.setscan, a, 100, HCI.setscan, 4))
    BY <1>1, <2>3, <2>4, 100 \in 0 .. 120, ShortGoes
  <2>6. 4 * 16 = 64
    OBVIOUS
  <2> QED
    BY <2>5, <2>6 DEF a, b, wlan_ioctl_set_scan_params
<1>5. Goes(wlan_smart_config_set_prefix)
  <2> DEFINE a == Args ++ Data("prefix", 3)
  <2>1. a.at = 3 /\ a.fields = {At("data", "prefix", 3, 0, 0)}
    BY NoArgs, Written DEF Data
  <2>2. Hits(a.fields)
    BY <2>1, PlainHits DEF At
  <2>3. 3 - a.at = Excess("prefix", a.fields) /\ a.at \in Nat
    BY <1>2, <2>1
  <2> HIDE DEF a
  <2>4. Goes(hci_command_send("prefix", HCI.prefix, a, 3, HCI.prefix, 4))
    BY <1>1, <2>2, <2>3, 3 \in 0 .. 120, ShortGoes
  <2> QED
    BY <2>4 DEF a, wlan_smart_config_set_prefix
<1>6. Goes(netapp_dhcp)
  <2> DEFINE b == Args ++ Data("ip", 4) ++ Data("subnet", 4) ++ Data("gateway", 4)
             a == b ++ Num ++ Data("dns", 4)
  <2>1. /\ b.at = 12
        /\ b.fields = {At("data", "ip", 4, 0, 0), At("data", "subnet", 4, 0, 4),
                       At("data", "gateway", 4, 0, 8)}
    BY NoArgs, Written DEF Data
  <2> HIDE DEF b
  <2>2. /\ a.at = 20
        /\ a.fields = b.fields \cup {At("num", "none", 4, 0, 12), At("data", "dns", 4, 0, 16)}
    BY <2>1, Written DEF Data, Num
  <2>3. Hits(a.fields)
    BY <2>1, <2>2, PlainHits DEF At
  <2>4. 20 - a.at = Excess("dhcp", a.fields) /\ a.at \in Nat
    BY <1>2, <2>2
  <2> HIDE DEF a
  <2>5. Goes(hci_command_send("dhcp", HCI.dhcp, a, 20, HCI.dhcp, 1))
    BY <1>1, <2>3, <2>4, 20 \in 0 .. 120, ShortGoes
  <2> QED
    BY <2>5 DEF a, b, netapp_dhcp
<1>7. Goes(netapp_timeout_values)
  <2> DEFINE a == Args ++ Nums(4)
  <2>1. a.at = 16 /\ Hits(a.fields)
    BY NumsArgs, NumsHit, 16 = 4 * 4
  <2>2. 20 - a.at = Excess("timers", a.fields) /\ a.at \in Nat
    BY <2>1 DEF Excess
  <2> HIDE DEF a
  <2>3. Goes(hci_command_send("timers", HCI.timers, a, 20, HCI.timers, 1))
    BY <1>1, <2>1, <2>2, 20 \in 0 .. 120, ShortGoes
  <2> QED
    BY <2>3 DEF a, netapp_timeout_values
<1> QED
  BY <1>3, <1>4, <1>5, <1>6, <1>7

(* The packets with pointers.                                               *)
LEMMA PointerPackets ==
    \A p \in {bind, connect, select(TRUE), select(FALSE), setsockopt(4)} : Goes(p)
<1>1. /\ Decoded(HCI.bind, 4) /\ Decoded(HCI.bsdconnect, 4) /\ Decoded(HCI.select, 16)
      /\ Decoded(HCI.setsockopt, 4)
  BY AnswersDecode, Codes DEF ByteCodes, WordCodes
<1>2. \A name, fields : name # "timers" /\ name # "select" => Excess(name, fields) = 0
  BY DEF Excess
<1>3. Goes(bind) /\ Goes(connect)
  <2> DEFINE a == Args ++ Num ++ PtrTo("addr", 8) ++ LenOf("addr", 8) ++ Data("addr", 8)
  <2>1. Hits(a.fields) /\ a.at = 20
    BY AddrArgs
  <2>2. /\ 20 - a.at = Excess("bind", a.fields) /\ a.at \in Nat
        /\ 20 - a.at = Excess("bsdconnect", a.fields)
    BY <1>2, <2>1
  <2> HIDE DEF a
  <2>3. /\ Goes(hci_command_send("bind", HCI.bind, a, 20, HCI.bind, 4))
        /\ Goes(hci_command_send("bsdconnect", HCI.bsdconnect, a, 20, HCI.bsdconnect, 4))
    BY <1>1, <2>1, <2>2, 20 \in 0 .. 120, ShortGoes
  <2> QED
    BY <2>3 DEF a, bind, connect, bind_
<1>4. Goes(select(TRUE)) /\ Goes(select(FALSE))
  <2> DEFINE a == Args ++ Num ++ PtrTo("read", 20) ++ PtrTo("write", 20) ++ PtrTo("except", 20)
                    ++ PtrTo("time", 20) ++ Num ++ Data("read", 4) ++ Data("write", 4)
                    ++ Data("except", 4)
             b == a ++ Data("time", 8)
  <2>1. Hits(a.fields) /\ a.at = 36 /\ ~Timed(a.fields)
    BY SelectArgs
  <2>2. Hits(b.fields) /\ b.at = 44 /\ Timed(b.fields)
    BY TimedArgs
  <2>3. /\ 44 - a.at = Excess("select", a.fields) /\ a.at \in Nat
        /\ 44 - b.at = Excess("select", b.fields) /\ b.at \in Nat
    BY <2>1, <2>2 DEF Excess
  <2>4. /\ select(TRUE) = hci_command_send("select", HCI.select, a, 44, HCI.select, 16)
        /\ select(FALSE) = hci_command_send("select", HCI.select, b, 44, HCI.select, 16)
    BY Zenon DEF select
  <2> HIDE DEF a, b
  <2> QED
    BY <1>1, <2>1, <2>2, <2>3, <2>4, 44 \in 0 .. 120, ShortGoes
<1>5. Goes(setsockopt(4))
  <2> DEFINE a == Args ++ Nums(3) ++ PtrTo("opt", 8) ++ LenOf("opt", 4) ++ Data("opt", 4)
  <2>1. Hits(a.fields) /\ a.at = 24
    BY OptionArgs, 20 + 4 = 24, 4 \in Nat
  <2>2. 24 - a.at = Excess("setsockopt", a.fields) /\ a.at \in Nat
    BY <1>2, <2>1
  <2>3. setsockopt(4) = hci_command_send("setsockopt", HCI.setsockopt, a, 24, HCI.setsockopt, 4)
    BY 20 + 4 = 24 DEF setsockopt
  <2> HIDE DEF a
  <2> QED
    BY <1>1, <2>1, <2>2, <2>3, 24 \in 0 .. 120, ShortGoes
<1> QED
  BY <1>3, <1>4, <1>5

(* The packets whose lengths the caller chooses.                            *)
Ample ==
    /\ Roomy /\ WepKeyLengths \subseteq 0 .. 13
    /\ \A n \in NameLengths : 17 + n + Even(n) < TxBufferSize
    /\ \A n \in DataLengths : 42 + n + (n % 2) < TxBufferSize

LEMMA ConnectPackets ==
    ASSUME NEW ssid \in 0 .. 32, NEW key \in 0 .. 32
    PROVE  Goes(wlan_connect(ssid, key))
<1> DEFINE a == Args ++ PtrTo("ssid", 28) ++ LenOf("ssid", ssid) ++ Num
                  ++ PtrTo("key", 16 + ssid) ++ LenOf("key", key) ++ Short
                  ++ Data("bssid", 6) ++ Data("ssid", ssid) ++ Data("key", key)
           n == 28 + ssid + key
<1>0. ssid \in Nat /\ key \in Nat
  OBVIOUS
<1>1. Hits(a.fields) /\ a.at = n
  BY <1>0, ConnectArgs, Zenon
<1>2. 29 + ssid + key - 1 = n /\ n \in 0 .. 120
  OBVIOUS
<1>3. wlan_connect(ssid, key) = hci_command_send("connect", HCI.connect, a, n, HCI.connect, 4)
  BY <1>2 DEF wlan_connect
<1>4. Decoded(HCI.connect, 4)
  BY AnswersDecode, Codes DEF ByteCodes, WordCodes
<1> HIDE DEF a, n
<1>5. n - a.at = Excess("connect", a.fields) /\ a.at \in Nat
  BY <1>1, <1>2 DEF Excess
<1> QED
  BY <1>1, <1>2, <1>3, <1>4, <1>5, ShortGoes

(* The length of the key is found again from the profile the phone writes.  *)
LEMMA KeyFound ==
    ASSUME NEW key \in 0 .. 32, NEW c \in FirstChars
    PROVE  /\ KeyLengthOf(PhoneProfile(key, c)) \in 0 .. 32
           /\ ~(key = 32 /\ c = 31) => KeyLengthOf(PhoneProfile(key, c)) = key
<1>1. CASE key < 31
  <2>1. (key >= 31) = FALSE /\ (IF key = 32 THEN c ELSE key) = key
    BY <1>1
  <2>2. PhoneProfile(key, c) = [first |-> key, last |-> FALSE]
    BY <2>1, Zenon DEF PhoneProfile
  <2> QED
    BY <2>2 DEF KeyLengthOf
<1>2. CASE key = 31
  <2>1. (key >= 31) = TRUE /\ (IF key = 32 THEN c ELSE key) = 31
    BY <1>2
  <2>2. PhoneProfile(key, c) = [first |-> 31, last |-> TRUE]
    BY <2>1, Zenon DEF PhoneProfile
  <2> QED
    BY <1>2, <2>2 DEF KeyLengthOf
<1>3. CASE key = 32
  <2>1. (key >= 31) = TRUE /\ (IF key = 32 THEN c ELSE key) = c
    BY <1>3
  <2>2. PhoneProfile(key, c) = [first |-> c, last |-> TRUE]
    BY <2>1, Zenon DEF PhoneProfile
  <2> QED
    BY <1>3, <2>2 DEF KeyLengthOf, FirstChars
<1> QED
  BY <1>1, <1>2, <1>3

LEMMA ProfilePackets ==
    ASSUME NEW ssid \in 0 .. 32, NEW key \in 0 .. 32, NEW sec \in 0 .. 2
    PROVE  /\ MeantRight(wlan_add_profile(sec, ssid, key))
           /\ Keyed(wlan_add_profile(sec, ssid, key), key)
           /\ Roomy /\ (sec = 1 => key <= 13) => Fine(wlan_add_profile(sec, ssid, key))
<1> DEFINE open == Args ++ Num ++ PtrTo("ssid", 20) ++ LenOf("ssid", ssid) ++ Short
                     ++ Data("bssid", 6) ++ Num ++ Data("ssid", ssid)
           wep == Args ++ Num ++ PtrTo("ssid", 32) ++ LenOf("ssid", ssid) ++ Short
                    ++ Data("bssid", 6) ++ Num ++ PtrTo("key", 12 + ssid)
                    ++ LenOf("key", key) ++ Num ++ Data("ssid", ssid) ++ Data("key", key)
                    ++ Data("key2", key) ++ Data("key3", key) ++ Data("key4", key)
           wpa == Args ++ Num ++ PtrTo("ssid", 40) ++ LenOf("ssid", ssid) ++ Short
                    ++ Data("bssid", 6) ++ Num ++ Num ++ Num ++ Num ++ PtrTo("key", 8 + ssid)
                    ++ LenOf("key", key) ++ Data("ssid", ssid) ++ Data("key", key)
           send(a, n) ==
               hci_command_send("addprofile", HCI.addprofile, a, n, HCI.addprofile, 4)
<1>0. ssid \in Nat /\ key \in Nat
  OBVIOUS
<1>1. Hits(open.fields) /\ open.at = 24 + ssid /\ Keyed(open, key)
  BY <1>0, OpenArgs, Zenon
<1>2. Hits(wep.fields) /\ wep.at = 36 + ssid + key * 4 /\ Keyed(wep, key)
  BY <1>0, WepArgs, Zenon
<1>3. Hits(wpa.fields) /\ wpa.at = 44 + ssid + key /\ Keyed(wpa, key)
  BY <1>0, WpaArgs, Zenon
<1>4. /\ sec = 0 => wlan_add_profile(sec, ssid, key) = send(open, 24 + ssid)
      /\ sec = 1 => wlan_add_profile(sec, ssid, key) = send(wep, 36 + ssid + key * 4)
      /\ sec = 2 => wlan_add_profile(sec, ssid, key) = send(wpa, 44 + ssid + key)
  BY DEF wlan_add_profile
<1>5. Decoded(HCI.addprofile, 4)
  BY AnswersDecode, Codes DEF ByteCodes, WordCodes
<1> HIDE DEF open, wep, wpa
<1>6. ASSUME NEW a, Hits(a.fields), NEW n \in 0 .. 255, a.at = n, Keyed(a, key)
      PROVE  /\ MeantRight(send(a, n)) /\ Keyed(send(a, n), key)
             /\ n <= 120 => Goes(send(a, n))
  <2>1. n - a.at = Excess("addprofile", a.fields) /\ a.at \in Nat
    BY <1>6 DEF Excess
  <2>2. send(a, n).fields = a.fields
    BY DEF hci_command_send, Packet
  <2>3. MeantRight(send(a, n))
    BY <1>5, <1>6, <2>1, CommandFine
  <2>4. Keyed(send(a, n), key)
    BY <1>6, <2>2 DEF Keyed
  <2>5. n <= 120 => Goes(send(a, n))
    BY <1>5, <1>6, <2>1, n <= 120 => n \in 0 .. 120, ShortGoes
  <2> QED
    BY <2>3, <2>4, <2>5
<1> HIDE DEF send
<1>7. CASE sec = 0
  <2>1. 24 + ssid \in 0 .. 255 /\ 24 + ssid <= 120
    OBVIOUS
  <2> QED
    BY <1>1, <1>4, <1>6, <1>7, <2>1 DEF Goes
<1>8. CASE sec = 1
  <2>1. 36 + ssid + key * 4 \in 0 .. 255 /\ (key <= 13 => 36 + ssid + key * 4 <= 120)
    OBVIOUS
  <2> QED
    BY <1>2, <1>4, <1>6, <1>8, <2>1 DEF Goes
<1>9. CASE sec = 2
  <2>1. 44 + ssid + key \in 0 .. 255 /\ 44 + ssid + key <= 120
    OBVIOUS
  <2> QED
    BY <1>3, <1>4, <1>6, <1>9, <2>1 DEF Goes
<1> QED
  BY <1>7, <1>8, <1>9

LEMMA NamePackets ==
    ASSUME NEW n \in NameLengths, NEW p \in gethostbyname(n) \cup mdnsAdvertiser(n)
    PROVE  MeantRight(p) /\ (Ample => Fine(p))
<1>0. n \in Nat
  BY CommandAssumption
<1>1. CASE p \in gethostbyname(n)
  <2> DEFINE m == n % 256
             a == Args ++ PtrTo("name", 8) ++ LenOf("name", m) ++ Data("name", m)
             k == 8 + m
  <2>1. m \in 0 .. 255 /\ m \in Nat
    BY <1>0
  <2>2. m <= 230 /\ p = hci_command_send("hostname", HCI.hostname, a, 9 + m - 1, HCI.hostname, 8)
    BY <1>1, <2>1 DEF gethostbyname, HOSTNAME_MAX_LENGTH
  <2>3. Hits(a.fields) /\ a.at = k
    BY <2>1, HostArgs, Zenon
  <2>4. Ample => 17 + m + Even(m) < TxBufferSize
    <3>1. SUFFICES ASSUME Ample
                   PROVE  17 + m + Even(m) < TxBufferSize
      OBVIOUS
    <3>2. 17 + n + Even(n) < TxBufferSize /\ TxBufferSize \in Nat
      BY <3>1, CommandAssumption DEF Ample
    <3>3. m = n \/ m + 1 <= n
      BY <1>0
    <3>4. Even(m) \in 0 .. 1 /\ Even(n) \in 0 .. 1
      BY DEF Even
    <3>5. CASE m = n
      BY <3>2, <3>5
    <3>6. CASE m + 1 <= n
      <4> DEFINE em == Even(m)
                 en == Even(n)
      <4> HIDE DEF m, em, en
      <4>1. em \in 0 .. 1 /\ en \in 0 .. 1 /\ 17 + n + en < TxBufferSize
        BY <3>2, <3>4 DEF em, en
      <4>2. 17 + m + em < TxBufferSize
        BY <1>0, <2>1, <3>2, <3>6, <4>1
      <4> QED
        BY <4>2 DEF em
    <3> QED
      BY <3>3, <3>5, <3>6
  <2> HIDE DEF m, a
  <2>5. 9 + m - 1 = k /\ k \in 0 .. 255
    BY <2>1, <2>2
  <2>6. Even(k) = Even(m) /\ 9 + k = 17 + m
    BY <2>1 DEF Even
  <2>7. Decoded(HCI.hostname, 8)
    BY AnswersDecode, Codes DEF ByteCodes, WordCodes
  <2>8. Ample => 9 + k + Even(k) < TxBufferSize
    BY <2>4, <2>6
  <2> HIDE DEF k
  <2>9. k - a.at = Excess("hostname", a.fields) /\ a.at \in Nat
    BY <2>3, <2>5 DEF Excess
  <2> QED
    BY <2>2, <2>3, <2>5, <2>7, <2>8, <2>9, CommandFine DEF Ample
<1>2. CASE p \in mdnsAdvertiser(n)
  <2> DEFINE a == Args ++ Num ++ PtrTo("name", 8) ++ LenOf("name", n) ++ Data("name", n)
             k == 12 + n
  <2>1. n <= 32 /\ p = hci_command_send("mdns", HCI.mdns, a, k, HCI.mdns, 1)
    BY <1>0, <1>2 DEF mdnsAdvertiser, MDNS_DEVICE_SERVICE_MAX_LENGTH
  <2>2. Hits(a.fields) /\ a.at = k
    BY <1>0, MdnsArgs, Zenon
  <2>3. k \in 0 .. 120
    BY <1>0, <2>1
  <2>4. Decoded(HCI.mdns, 1)
    BY AnswersDecode, Codes DEF ByteCodes, WordCodes
  <2> HIDE DEF a, k
  <2>5. k - a.at = Excess("mdns", a.fields) /\ a.at \in Nat
    BY <2>2, <2>3 DEF Excess
  <2> QED
    BY <2>1, <2>2, <2>3, <2>4, <2>5, ShortGoes DEF Goes, Ample
<1> QED
  BY <1>1, <1>2

LEMMA SendPackets ==
    ASSUME NEW n \in DataLengths,
           NEW p \in {simple_link_send(HCI.send, n), simple_link_send(HCI.sendto, n),
                      nvmem_write(n)}
    PROVE  MeantRight(p) /\ (Ample => Fine(p))
<1>0. n \in Nat
  BY CommandAssumption
<1> DEFINE short == Args ++ Num ++ PtrTo("data", 12) ++ LenOf("data", n) ++ Num
                      ++ Data("data", n)
           long == Args ++ Num ++ PtrTo("data", 20) ++ LenOf("data", n) ++ Num
                     ++ PtrTo("addr", n + 8) ++ LenOf("addr", 8) ++ Data("data", n)
                     ++ Data("addr", 8)
           s == 16 + n
           t == 32 + n
<1>1. Hits(short.fields) /\ short.at = s
  BY <1>0, SendArgs, Zenon
<1>2. Hits(long.fields) /\ long.at = t
  <2>1. Hits(long.fields) /\ long.at = 24 + n + 8
    BY <1>0, SendtoArgs, Zenon
  <2>2. 24 + n + 8 = t
    BY <1>0
  <2> QED
    BY <2>1, <2>2
<1>3. HCI.send # HCI.sendto
  BY Codes
<1>4. /\ simple_link_send(HCI.send, n)
           = hci_data_send("send", HCI.send, short, 16, n, 0, HCI.evsend, 12)
      /\ simple_link_send(HCI.sendto, n)
           = hci_data_send("send", HCI.sendto, long, 24, n, 8, HCI.evsendto, 12)
      /\ nvmem_write(n)
           = hci_data_command_send("nvwrite", HCI.nvwrite, short, 16, n, HCI.evnvwrite, 4)
  BY <1>3, Zenon DEF simple_link_send, nvmem_write
<1>5. Decoded(HCI.evsend, 12) /\ Decoded(HCI.evsendto, 12) /\ Decoded(HCI.evnvwrite, 4)
  BY AnswersDecode, Codes DEF ByteCodes, WordCodes
<1>6. s \in Nat /\ s = 16 + n + 0 /\ s = 16 + n /\ t \in Nat /\ t = 24 + n + 8
  BY <1>0
<1>7. ASSUME Ample
      PROVE  10 + s + (s % 2) < TxBufferSize /\ 10 + t + (t % 2) < TxBufferSize
  <2>1. 42 + n + (n % 2) < TxBufferSize /\ TxBufferSize \in Nat
    BY <1>7, CommandAssumption DEF Ample
  <2>2. s % 2 = n % 2 /\ t % 2 = n % 2 /\ n % 2 \in 0 .. 1
    BY <1>0
  <2>3. ASSUME NEW e \in 0 .. 1, 42 + n + e < TxBufferSize
        PROVE  10 + (16 + n) + e < TxBufferSize /\ 10 + (32 + n) + e < TxBufferSize
    BY <1>0, <2>1, <2>3
  <2> QED
    BY <2>1, <2>2, <2>3
<1> HIDE DEF short, long, s, t
<1>8. /\ MeantRight(simple_link_send(HCI.send, n))
      /\ Ample => Fine(simple_link_send(HCI.send, n))
  BY <1>0, <1>1, <1>4, <1>5, <1>6, <1>7, SendFine DEF Ample
<1>9. /\ MeantRight(simple_link_send(HCI.sendto, n))
      /\ Ample => Fine(simple_link_send(HCI.sendto, n))
  BY <1>0, <1>2, <1>4, <1>5, <1>6, <1>7, SendFine DEF Ample
<1>10. MeantRight(nvmem_write(n)) /\ (Ample => Fine(nvmem_write(n)))
  BY <1>0, <1>1, <1>4, <1>5, <1>6, <1>7, WriteFine DEF Ample
<1> QED
  BY <1>8, <1>9, <1>10

LEMMA FixedPackets ==
    ASSUME NEW p \in Fixed
    PROVE  Goes(p)
<1>1. \/ p \in {ReadBufferSize, wlan_disconnect, wlan_ioctl_set_connection_policy,
              wlan_ioctl_del_profile, wlan_ioctl_get_scan_results, wlan_set_event_mask,
              wlan_ioctl_statusget, wlan_smart_config_start, wlan_smart_config_stop, socket,
              closesocket, accept, listen, getsockopt, simple_link_recv(HCI.recv),
              simple_link_recv(HCI.recvfrom), netapp_ping_send, netapp_ping_report,
              netapp_ping_stop, netapp_ipconfig, netapp_arp_flush, netapp_set_debug_level,
              nvmem_read, nvmem_read_sp_version, nvmem_create_entry}
      \/ p \in {SimpleLink_Init_Start, wlan_ioctl_set_scan_params,
                wlan_smart_config_set_prefix, netapp_dhcp, netapp_timeout_values}
      \/ p \in {bind, connect, select(TRUE), select(FALSE), setsockopt(4)}
  BY DEF Fixed
<1> QED
  BY <1>1, PlainPackets, DataPackets, PointerPackets

KeyKnown == phoneKey # NoKey /\ ~Ambiguous

(* Whatever is called, with whatever lengths, the packet is meant right; in *)
(* an ample buffer it is told right and fits.                               *)
LEMMA EveryPacket ==
    ASSUME CommandNext
    PROVE  /\ ~overrun /\ MeantRight(packet') /\ (Ample => Fine(packet'))
           /\ KeyKnown' => Keyed(packet', phoneKey')
           /\ overrun' = (InBuffer(packet') >= TxBufferSize)
<1>1. ASSUME NEW p, Build(p), MeantRight(p), Ample => Fine(p)
      PROVE  /\ ~overrun /\ MeantRight(packet') /\ (Ample => Fine(packet'))
             /\ KeyKnown' => Keyed(packet', phoneKey')
             /\ overrun' = (InBuffer(packet') >= TxBufferSize)
  BY <1>1, Zenon DEF Build, Sends, KeyKnown
<1>2. CASE CallFixed
  BY <1>1, <1>2, FixedPackets DEF CallFixed, Goes, Ample
<1>3. CASE CallConnect
  <2>1. PICK s \in SsidLengths, k \in KeyLengths : Build(wlan_connect(s, k))
    BY <1>3 DEF CallConnect
  <2>2. s \in 0 .. 32 /\ k \in 0 .. 32
    BY CommandAssumption
  <2> QED
    BY <1>1, <2>1, <2>2, ConnectPackets DEF Goes, Ample
<1>4. CASE CallProfile
  <2>1. PICK s \in SsidLengths :
          \/ \E k \in WepKeyLengths : BuildProfile(1, s, k)
          \/ \E k \in KeyLengths, sec \in {0, 2, 3} : BuildProfile(sec, s, k)
    BY <1>4 DEF CallProfile
  <2>2. PICK sec \in 0 .. 3, k \in 0 .. 32 :
          /\ BuildProfile(sec, s, k)
          /\ sec = 1 => k \in WepKeyLengths
    <3>1. CASE \E k \in WepKeyLengths : BuildProfile(1, s, k)
      <4>1. PICK k \in WepKeyLengths : BuildProfile(1, s, k)
        BY <3>1
      <4>2. k \in 0 .. 32 /\ 1 \in 0 .. 3
        BY CommandAssumption
      <4> QED
        BY <4>1, <4>2
    <3>2. CASE \E k \in KeyLengths, sec \in {0, 2, 3} : BuildProfile(sec, s, k)
      <4>1. PICK k \in KeyLengths, sec \in {0, 2, 3} : BuildProfile(sec, s, k)
        BY <3>2
      <4>2. sec \in 0 .. 3 /\ sec # 1 /\ k \in 0 .. 32
        BY CommandAssumption
      <4> QED
        BY <4>1, <4>2
    <3> QED
      BY <2>1, <3>1, <3>2
  <2>3. s \in 0 .. 32 /\ k \in 0 .. 32 /\ (Ample /\ sec = 1 => k <= 13)
    BY <2>2, CommandAssumption DEF Ample
  <2>7. PICK c \in FirstChars :
          Sends(wlan_smart_config_process(sec, s, k, c)) /\ phoneKey' = k /\ firstChar' = c
    BY <2>2 DEF BuildProfile
  <2> DEFINE eff == IF sec = 3 THEN 2 ELSE sec
             l == KeyLengthOf(PhoneProfile(k, c))
             p == wlan_add_profile(eff, s, l)
  <2>8. l \in 0 .. 32 /\ (~(k = 32 /\ c = 31) => l = k)
    BY <2>3, KeyFound
  <2>9. Ample /\ sec = 1 => l <= 13
    BY <2>3, <2>8
  <2>4. wlan_smart_config_process(sec, s, k, c) = p
    BY DEF wlan_smart_config_process
  <2>5. eff \in 0 .. 2 /\ (eff = 1 => sec = 1)
    OBVIOUS
  <2> HIDE DEF eff
  <2> HIDE DEF l
  <2>6. MeantRight(p) /\ Keyed(p, l) /\ (Ample => Fine(p))
    BY <2>3, <2>5, <2>8, <2>9, ProfilePackets DEF Ample
  <2> HIDE DEF p
  <2>10. KeyKnown' => Keyed(packet', phoneKey')
    BY <2>4, <2>6, <2>7, <2>8 DEF KeyKnown, Ambiguous, Sends
  <2> QED
    BY <2>4, <2>6, <2>7, <2>10, Zenon DEF Sends
<1>5. CASE CallHostname
  BY <1>1, <1>5, NamePackets DEF CallHostname
<1>6. CASE CallSend
  BY <1>1, <1>6, SendPackets DEF CallSend
<1> QED
  BY <1>2, <1>3, <1>4, <1>5, <1>6 DEF CommandNext

LEMMA MeantIs ==
    MeantRight(packet) /\ (KeyKnown => Keyed(packet, phoneKey))
    => PointersHit /\ AnswerDecoded /\ KeyRecovered
  BY DEF MeantRight, Keyed, KeyKnown, PointersHit, AnswerDecoded, KeyRecovered, KeyLengthIs, Hits, Decoded

LEMMA FineIs ==
    ASSUME Fine(packet), ~overrun
    PROVE  ToldIsWritten /\ CommandsFit
  BY DEF Fine, Told, FitsBuffer, ToldIsWritten, CommandsFit, Excess, Timed

LEMMA FirstPacket ==
    ASSUME CommandInit
    PROVE  /\ MeantRight(packet) /\ (Ample => Fine(packet)) /\ ~overrun
           /\ KeyKnown => Keyed(packet, phoneKey)
<1>1. Goes(ReadBufferSize)
  BY PlainPackets
<1> QED
  BY <1>1 DEF CommandInit, Goes, Ample, KeyKnown

(* The pointers of every command lead to the data they are for, whatever    *)
(* the lengths before it, its answer is one the decoder knows and fits the  *)
(* variable, and the length of a phone's key is found again: for every      *)
(* length the callers can give, in a buffer of whatever size.               *)
THEOREM PointersHitThm == CommandSpec => [](PointersHit /\ AnswerDecoded /\ KeyRecovered)
<1> DEFINE Inv == MeantRight(packet) /\ (KeyKnown => Keyed(packet, phoneKey))
<1>1. CommandInit => Inv
  BY FirstPacket
<1>2. Inv /\ [CommandNext]_commandVars => Inv'
  <2>1. CASE CommandNext
    BY <2>1, EveryPacket
  <2>2. CASE UNCHANGED commandVars
    BY <2>2 DEF commandVars, KeyKnown, Ambiguous
  <2> QED
    BY <2>1, <2>2
<1>3. Inv => PointersHit /\ AnswerDecoded /\ KeyRecovered
  BY MeantIs
<1> QED
  BY <1>1, <1>2, <1>3, PTL DEF CommandSpec

(* In a buffer of at least 131 bytes every command fits, with what its      *)
(* pointers lead to, and the radio is told of the bytes that were written:  *)
(* for every SSID and WPA key, every WEP key of at most 13 bytes, and every *)
(* name and every data that leave the buffer the bytes around them.         *)
THEOREM CommandsSoundThm ==
    ASSUME Ample
    PROVE  CommandSpec => []CommandsSound
<1> DEFINE Inv == /\ MeantRight(packet) /\ Fine(packet) /\ ~overrun
                  /\ KeyKnown => Keyed(packet, phoneKey)
<1>1. CommandInit => Inv
  BY FirstPacket
<1>2. Inv /\ [CommandNext]_commandVars => Inv'
  <2>1. CASE CommandNext
    <3>1. Fine(packet') /\ InBuffer(packet') \in 0 .. TxBufferSize - 1
      BY <2>1, EveryPacket DEF Fine, FitsBuffer
    <3>2. ~overrun'
      <4> DEFINE n == InBuffer(packet')
      <4> HIDE DEF n
      <4>1. n \in 0 .. TxBufferSize - 1 /\ TxBufferSize \in Nat
            => ~(n >= TxBufferSize)
        OBVIOUS
      <4> QED
        BY <2>1, <3>1, <4>1, EveryPacket, CommandAssumption DEF n
    <3> QED
      BY <2>1, <3>1, <3>2, EveryPacket
  <2>2. CASE UNCHANGED commandVars
    BY <2>2 DEF commandVars, KeyKnown, Ambiguous
  <2> QED
    BY <2>1, <2>2
<1>3. Inv => CommandsSound
  BY MeantIs, FineIs DEF CommandsSound
<1> QED
  BY <1>1, <1>2, <1>3, PTL DEF CommandSpec

=============================================================================
