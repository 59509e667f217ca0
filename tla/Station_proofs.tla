---------------------------- MODULE Station_proofs ----------------------------
(***************************************************************************)
(* Theorems about Station, for any number of calls, drops and events, and  *)
(* for any sketch, CPX's own or another.                                   *)
(*                                                                         *)
(* The bits lag behind the radio by the events that have not been          *)
(* delivered.  What carries the theorems is therefore a history: the link  *)
(* as it was before and after each of these events, which starts with what *)
(* the bits say and ends with what the radio is.                           *)
(***************************************************************************)
EXTENDS Station, SequenceTheorems, TLAPS

EventNames == {"SIMPLE_CONFIG_DONE", "UNSOL_CONNECT", "UNSOL_DISCONNECT", "UNSOL_DHCP"}
Links == {"none", "joined", "unleased", "leased"}

(* The event e leads from the link l to the link m.                         *)
Leads(e, l, m) ==
    \/ e = "UNSOL_CONNECT" /\ l = "none" /\ m = "joined"
    \/ e = "UNSOL_DHCP" /\ l \in {"joined", "unleased"} /\ m \in {"unleased", "leased"}
    \/ e = "UNSOL_DISCONNECT" /\ m = "none"
    \/ e = "SIMPLE_CONFIG_DONE" /\ m = l

(* The bits say that the link is l.                                         *)
Say(l) ==
    /\ "IsConnected" \in bits <=> l # "none"
    /\ "HasDHCP" \in bits <=> l \in {"unleased", "leased"}

(* t is what the link was when each of the events had happened, t[0] before *)
(* the first of them.                                                       *)
Tells(t) ==
    /\ t[Len(events)] = chip.link
    /\ \A i \in 1..Len(events) : Leads(events[i], t[i - 1], t[i])
    /\ ~hist.cleared /\ ~hist.restarted => Say(t[0])
    /\ t[0] # "none" /\ ~hist.cleared => "IsConnected" \in bits

History == \E t \in [0..Len(events) -> Links] : Tells(t)

(* A connection that is known of or on its way has been one since the radio *)
(* started, or the radio has been restarted.                                *)
JoinedBefore ==
    /\ "IsConnected" \in bits => hist.joined \/ hist.restarted
    /\ \A i \in 1..Len(events) : events[i] = "UNSOL_CONNECT" => hist.joined \/ hist.restarted
    /\ ~chip.on => ~hist.joined \/ hist.restarted

Radios ==
    [on : BOOLEAN, link : Links, want : BOOLEAN, auto : BOOLEAN, profile : BOOLEAN,
     smart : BOOLEAN, socks : 0..MaxSockets, lost : 0..MaxSockets]

RadioTypes ==
    /\ _initialised \in BOOLEAN /\ bits \subseteq Bits
    /\ chip \in Radios
    /\ ~chip.on => chip.link = "none" /\ ~chip.smart /\ chip.socks = 0
    /\ events \in Seq(EventNames) /\ Len(events) <= MaxEvents
    /\ hist \in [cleared : BOOLEAN, restarted : BOOLEAN, joined : BOOLEAN]
    /\ drops \in 0..MaxDrops

ControlTypes ==
    /\ job = "" \/ (job \in DOMAIN Script /\ line \in 1..(Len(Script[job]) + 1))
    /\ result \in {"none", "true", "false"}
    /\ sketch \in DOMAIN MethodOf \cup {"off", "free", "dhcp", "up", "halted"}
    /\ k \in 0..(LastTry + 2) /\ calls \in 0..MaxCalls

(* connectToAP and connectTCP do not run off the end of their scripts.      *)
Returns ==
    /\ job = "connectToAP" => line <= 8
    /\ job = "connectTCP" => line <= 2

(* Where doWiFi is, which method it is in, and how often getIp has tried.   *)
Place ==
    /\ sketch # "free" /\ job # "" => sketch \in DOMAIN MethodOf /\ job = MethodOf[sketch]
    /\ sketch \in {"off", "free", "begin", "join", "dhcp", "address"} => k = 0
    /\ sketch = "lookup" => k <= LastTry + 1

(* doWiFi's sockets are those whose closing was refused, and one while       *)
(* connectTCP connects it, and once it has.                                 *)
AllLost == chip.socks = chip.lost
OneSocket ==
    sketch # "free" =>
        \/ AllLost
        \/ /\ chip.socks = chip.lost + 1
           /\ \/ job = "connectTCP" /\ line = 2
              \/ sketch = "tcp" /\ job = "" /\ result = "true"
              \/ sketch = "up"

StationInv ==
    /\ RadioTypes
    /\ ControlTypes
    /\ Returns
    /\ Place
    /\ OneSocket
    /\ History
    /\ JoinedBefore
    /\ DhcpNeedsLink

(* What the bounds are.                                                     *)
LEMMA Bounds == MaxCalls \in Nat /\ MaxDrops \in Nat /\ LastTry \in Nat /\ MaxEvents \in Nat \ {0}
                /\ 0 <= LastTry + 1 /\ 0 \in 0..(LastTry + 2) /\ 0 \in 0..MaxCalls
                /\ 0 \in 0..MaxDrops /\ 0 \in 0..MaxSockets /\ 0 <= MaxEvents /\ 0 <= 1 /\ 1 <= 1
  BY StationAssumption DEF MaxSockets

-----------------------------------------------------------------------------
(* The scripts.                                                             *)

(* The lines that occur in any script: opening and connecting a socket are  *)
(* connectTCP's, and only connectToAP starts again.                         *)
Commands ==
    {"policy(0,0,0)", "policy(0,0,1)", "del_profile", "event_mask", "create_entry", "set_prefix",
     "smart_config_start", "scan", "connect", "disconnect", "config_mac", "dhcp", "nvmem_read",
     "ipconfig", "gethostbyname"}
Deeds == {"once", "pins", "wlan_start", "wlan_stop", "initialised", "clear", "leave", "address"}

Common ==
    {Must(c) : c \in Commands} \cup {Try(c) : c \in Commands} \cup {Await(b) : b \in Bits}
    \cup {Do(x) : x \in Deeds} \cup {Need, NeedLink}

(* What the constructors of lines make.                                     *)
LEMMA LineFields ==
    ASSUME NEW x
    PROVE  /\ Must(x).do = "command" /\ Must(x).arg = x
           /\ Try(x).do = "command" /\ Try(x).arg = x
           /\ Await(x).do = "await" /\ Await(x).arg = x
           /\ Do(x).do = "do" /\ Do(x).arg = x
           /\ Need.do = "need" /\ Need.arg = "initialised"
           /\ NeedLink.do = "need" /\ NeedLink.arg = "link"
  BY DEF Must, Try, Await, Do, Need, NeedLink, Line

LEMMA CommonFields ==
    ASSUME NEW l \in Common
    PROVE  /\ l.do = "command" => l.arg # "socket"
           /\ l.do = "do" => l.arg \in Deeds
  <1>1. CASE \E c \in Commands : l = Must(c) \/ l = Try(c)
    <2> PICK c \in Commands : l = Must(c) \/ l = Try(c)
      BY <1>1
    <2>1. l.do = "command" /\ l.arg = c
      BY LineFields
    <2> QED  BY <2>1 DEF Commands
  <1>2. CASE \E b \in Bits : l = Await(b)
    BY <1>2, LineFields
  <1>3. CASE \E x \in Deeds : l = Do(x)
    BY <1>3, LineFields
  <1>4. CASE l = Need \/ l = NeedLink
    BY <1>4, LineFields
  <1> QED  BY <1>1, <1>2, <1>3, <1>4 DEF Common

LEMMA CommonLines ==
    /\ \A c \in Commands : Must(c) \in Common /\ Try(c) \in Common
    /\ \A b \in Bits : Await(b) \in Common
    /\ \A x \in Deeds : Do(x) \in Common
    /\ Need \in Common /\ NeedLink \in Common
  BY DEF Common

(* What a sequence is made of.                                              *)
LEMMA Members ==
    ASSUME NEW S, NEW a \in S, NEW b \in S, NEW c \in S, NEW d \in S, NEW e \in S
    PROVE  /\ <<a>> \in Seq(S) /\ <<a, b>> \in Seq(S) /\ <<a, b, c>> \in Seq(S)
           /\ <<a, b, c, d, e>> \in Seq(S)
  OBVIOUS

LEMMA RestartScript == Restart \in Seq(Common)
  <1>1. Do("wlan_stop") \in Common /\ Do("wlan_start") \in Common
    BY CommonLines DEF Commands, Bits, Deeds
  <1> QED  BY <1>1 DEF Restart

LEMMA BeginScript ==
    ASSUME NEW smart \in BOOLEAN
    PROVE  begin(smart) \in Seq(Common)
  <1> DEFINE s1 == <<Do("once"), Do("pins"), Do("wlan_start")>>
             s2 == IF smart THEN <<Try("policy(0,0,1)")>>
                   ELSE <<Try("policy(0,0,0)"), Try("del_profile")>>
             s3 == <<Must("event_mask"), Do("initialised")>>
             s4 == IF smart THEN <<Await("IsConnected")>> ELSE <<>>
  <1>1. s1 \in Seq(Common)
    <2>1. Do("once") \in Common /\ Do("pins") \in Common /\ Do("wlan_start") \in Common
      BY CommonLines DEF Commands, Bits, Deeds
    <2> QED  BY <2>1
  <1>2. s2 \in Seq(Common)
    <2>1. /\ Try("policy(0,0,1)") \in Common /\ Try("policy(0,0,0)") \in Common
          /\ Try("del_profile") \in Common
      BY CommonLines DEF Commands, Bits, Deeds
    <2>2. CASE smart
      BY <2>1, <2>2, Members
    <2>3. CASE ~smart
      BY <2>1, <2>3, Members
    <2> QED  BY <2>2, <2>3
  <1>3. s3 \in Seq(Common)
    <2>1. Must("event_mask") \in Common /\ Do("initialised") \in Common
      BY CommonLines DEF Commands, Bits, Deeds
    <2> QED  BY <2>1
  <1>4. s4 \in Seq(Common)
    <2>1. Await("IsConnected") \in Common
      BY CommonLines DEF Commands, Bits, Deeds
    <2> QED  BY <2>1
  <1>5. begin(smart) = s1 \o s2 \o s3 \o s4
    BY DEF begin
  <1> HIDE DEF s1, s2, s3, s4
  <1>6. s1 \o s2 \in Seq(Common)
    BY <1>1, <1>2, ConcatProperties
  <1>7. s1 \o s2 \o s3 \in Seq(Common)
    BY <1>6, <1>3, ConcatProperties
  <1>8. s1 \o s2 \o s3 \o s4 \in Seq(Common)
    BY <1>7, <1>4, ConcatProperties
  <1> QED  BY <1>5, <1>8

LEMMA SmartScript == startSmartConfig \in Seq(Common)
  <1> DEFINE s1 == <<Do("clear"), Need, Must("policy(0,0,0)"), Must("del_profile"), Do("leave")>>
             s2 == <<Must("create_entry"), Must("set_prefix"), Must("smart_config_start"),
                     Await("IsSmartConfigFinished"), Must("policy(0,0,1)")>>
             s3 == <<Must("event_mask"), Await("IsConnected")>>
  <1>1. s1 \in Seq(Common)
    <2>1. /\ Do("clear") \in Common /\ Need \in Common /\ Must("policy(0,0,0)") \in Common
          /\ Must("del_profile") \in Common /\ Do("leave") \in Common
      BY CommonLines DEF Commands, Bits, Deeds
    <2> QED  BY <2>1, Members
  <1>2. s2 \in Seq(Common)
    <2>1. /\ Must("create_entry") \in Common /\ Must("set_prefix") \in Common
          /\ Must("smart_config_start") \in Common
          /\ Await("IsSmartConfigFinished") \in Common /\ Must("policy(0,0,1)") \in Common
      BY CommonLines DEF Commands, Bits, Deeds
    <2> QED  BY <2>1, Members
  <1>3. s3 \in Seq(Common)
    <2>1. Must("event_mask") \in Common /\ Await("IsConnected") \in Common
      BY CommonLines DEF Commands, Bits, Deeds
    <2> QED  BY <2>1
  <1>4. startSmartConfig = s1 \o Restart \o s2 \o Restart \o s3
    BY DEF startSmartConfig
  <1> HIDE DEF s1, s2, s3
  <1>5. s1 \o Restart \in Seq(Common)
    BY <1>1, RestartScript, ConcatProperties
  <1>6. s1 \o Restart \o s2 \in Seq(Common)
    BY <1>5, <1>2, ConcatProperties
  <1>7. s1 \o Restart \o s2 \o Restart \in Seq(Common)
    BY <1>6, RestartScript, ConcatProperties
  <1>8. s1 \o Restart \o s2 \o Restart \o s3 \in Seq(Common)
    BY <1>7, <1>3, ConcatProperties
  <1> QED  BY <1>4, <1>8

(* The methods that join a network and open a socket, line by line.         *)
Joining ==
    {Need, Try("scan"), Must("policy(0,0,0)"), Must("connect"), Await("IsConnected")}

LEMMA ApScript ==
    /\ Len(Script["connectToAP"]) = 8
    /\ \A i \in 1..7 : Script["connectToAP"][i] \in Joining
    /\ Script["connectToAP"][8] = Do("again")
  <1> DEFINE s1 == <<Need, Try("scan"), Try("scan")>>
             s2 == <<Need, Must("policy(0,0,0)"), Must("connect")>>
             s3 == <<Await("IsConnected"), Do("again")>>
  <1>1. Script["connectToAP"] = s1 \o s2 \o s3
    BY DEF Script, connectToAP, connectSecure
  <1>2. /\ Need \in Joining /\ Try("scan") \in Joining /\ Must("policy(0,0,0)") \in Joining
        /\ Must("connect") \in Joining /\ Await("IsConnected") \in Joining
    BY DEF Joining
  <1>3. s1 \in Seq(Joining) /\ Len(s1) = 3 /\ s2 \in Seq(Joining) /\ Len(s2) = 3
    BY <1>2, Members
  <1> DEFINE S == Joining \cup {Do("again")}
  <1>4. s3 \in Seq(S) /\ Len(s3) = 2 /\ s3[1] \in Joining /\ s3[2] = Do("again")
    <2>1. Await("IsConnected") \in S /\ Do("again") \in S
      BY <1>2
    <2> HIDE DEF S
    <2> QED  BY <1>2, <2>1, Members
  <1> HIDE DEF s1, s2, s3
  <1>5. s1 \o s2 \in Seq(Joining) /\ Len(s1 \o s2) = 6
    <2>1. s1 \o s2 \in Seq(Joining) /\ Len(s1 \o s2) = Len(s1) + Len(s2)
      BY <1>3, ConcatProperties, Zenon
    <2> QED  BY <1>3, <2>1
  <1>6. s1 \o s2 \in Seq(S)
    BY <1>5, SeqMonotonic
  <1> HIDE DEF S
  <1> DEFINE s == s1 \o s2
  <1>7. s \in Seq(S) /\ Len(s) = 6 /\ s \in Seq(Joining)
    BY <1>5, <1>6
  <1> HIDE DEF s
  <1>8. /\ Len(s \o s3) = 6 + 2
        /\ \A i \in 1..(6 + 2) : (s \o s3)[i] = IF i <= 6 THEN s[i] ELSE s3[i - 6]
    <2>1. /\ Len(s \o s3) = Len(s) + Len(s3)
          /\ \A i \in 1..(Len(s) + Len(s3)) :
                (s \o s3)[i] = IF i <= Len(s) THEN s[i] ELSE s3[i - Len(s)]
      BY <1>4, <1>7, ConcatProperties, Zenon
    <2> QED  BY <1>4, <1>7, <2>1, Zenon
  <1>9. ASSUME NEW i \in 1..7
        PROVE  (s \o s3)[i] \in Joining
    <2>1. CASE i = 7
      BY <2>1, <1>8, <1>4
    <2>2. CASE i # 7
      <3>1. i \in 1..Len(s) /\ i <= 6
        BY <2>2, <1>7
      <3>2. s[i] \in Joining
        BY <3>1, <1>7, ElementOfSeq
      <3> QED  BY <3>1, <3>2, <1>8
    <2> QED  BY <2>1, <2>2
  <1>10. (s \o s3)[8] = Do("again") /\ Len(s \o s3) = 8
    BY <1>8, <1>4
  <1>11. Script["connectToAP"] = s \o s3
    BY <1>1 DEF s
  <1> QED  BY <1>9, <1>10, <1>11

LEMMA TcpScript == Script["connectTCP"] = <<Must("socket"), Do("connect")>>
  BY DEF Script

(* Every other method consists of common lines.                             *)
LEMMA CommonScripts ==
    ASSUME NEW j \in DOMAIN Script \ {"connectToAP", "connectTCP"}
    PROVE  Script[j] \in Seq(Common)
  <1>1. CASE j = "begin"
    BY <1>1, BeginScript DEF Script
  <1>2. CASE j = "beginSmart"
    BY <1>2, BeginScript DEF Script
  <1>3. CASE j = "startSmartConfig"
    BY <1>3, SmartScript DEF Script
  <1>4. CASE j \in {"reboot", "setMacAddress", "setStaticIPAddress"}
    <2>1. /\ Script["reboot"] = <<Need>> \o Restart
          /\ Script["setMacAddress"] = <<Need, Must("config_mac")>> \o Restart
          /\ Script["setStaticIPAddress"] = <<Must("dhcp")>> \o Restart
      BY DEF Script
    <2>2. Need \in Common /\ Must("config_mac") \in Common /\ Must("dhcp") \in Common
      BY CommonLines DEF Commands, Bits, Deeds
    <2>3. /\ <<Need>> \in Seq(Common) /\ <<Need, Must("config_mac")>> \in Seq(Common)
          /\ <<Must("dhcp")>> \in Seq(Common)
      BY <2>2, Members
    <2>4. /\ <<Need>> \o Restart \in Seq(Common)
          /\ <<Need, Must("config_mac")>> \o Restart \in Seq(Common)
          /\ <<Must("dhcp")>> \o Restart \in Seq(Common)
      BY <2>3, RestartScript, ConcatProperties
    <2> QED  BY <1>4, <2>1, <2>4
  <1>5. CASE j \in {"stop", "disconnect", "deleteProfiles", "connectSecure"}
    <2>1. /\ Need \in Common /\ Do("wlan_stop") \in Common /\ Must("disconnect") \in Common
          /\ Must("policy(0,0,0)") \in Common /\ Must("del_profile") \in Common
          /\ Must("connect") \in Common
      BY CommonLines DEF Commands, Bits, Deeds
    <2>2. /\ <<Need, Do("wlan_stop")>> \in Seq(Common)
          /\ <<Need, Must("disconnect")>> \in Seq(Common)
          /\ <<Need, Must("policy(0,0,0)"), Must("del_profile")>> \in Seq(Common)
          /\ <<Need, Must("policy(0,0,0)"), Must("connect")>> \in Seq(Common)
      BY <2>1, Members
    <2>3. /\ Script["stop"] = <<Need, Do("wlan_stop")>>
          /\ Script["disconnect"] = <<Need, Must("disconnect")>>
          /\ Script["deleteProfiles"] = <<Need, Must("policy(0,0,0)"), Must("del_profile")>>
          /\ Script["connectSecure"] = <<Need, Must("policy(0,0,0)"), Must("connect")>>
      BY DEF Script, connectSecure
    <2> QED  BY <1>5, <2>2, <2>3
  <1>6. CASE j \in {"getMacAddress", "getIPAddress", "getHostByName"}
    <2>1. /\ Need \in Common /\ NeedLink \in Common /\ Must("nvmem_read") \in Common
          /\ Try("ipconfig") \in Common /\ Do("address") \in Common
          /\ Must("gethostbyname") \in Common
      BY CommonLines DEF Commands, Bits, Deeds
    <2>2. /\ <<Need, Must("nvmem_read")>> \in Seq(Common)
          /\ <<NeedLink, Try("ipconfig"), Do("address")>> \in Seq(Common)
          /\ <<NeedLink, Must("gethostbyname")>> \in Seq(Common)
      BY <2>1
    <2>3. /\ Script["getMacAddress"] = <<Need, Must("nvmem_read")>>
          /\ Script["getIPAddress"] = <<NeedLink, Try("ipconfig"), Do("address")>>
          /\ Script["getHostByName"] = <<NeedLink, Must("gethostbyname")>>
      BY DEF Script
    <2> QED  BY <1>6, <2>2, <2>3
  <1> QED  BY <1>1, <1>2, <1>3, <1>4, <1>5, <1>6 DEF Script

(* The length of a script and the lines with an effect of their own.        *)
LEMMA Lengths ==
    ASSUME NEW j \in DOMAIN Script
    PROVE  /\ Len(Script[j]) \in Nat
           /\ j = "connectToAP" => Len(Script[j]) = 8
           /\ j = "connectTCP" => Len(Script[j]) = 2
  <1>1. CASE j = "connectToAP"
    BY <1>1, ApScript
  <1>2. CASE j = "connectTCP"
    BY <1>2, TcpScript
  <1>3. CASE j \notin {"connectToAP", "connectTCP"}
    BY <1>3, CommonScripts, LenProperties
  <1> QED  BY <1>1, <1>2, <1>3

LEMMA LineOf ==
    ASSUME NEW j \in DOMAIN Script, NEW n \in 1..Len(Script[j])
    PROVE  /\ Script[j][n].do = "command" /\ Script[j][n].arg = "socket"
                => j = "connectTCP" /\ n = 1
           /\ Script[j][n].do = "do" /\ Script[j][n].arg = "connect"
                <=> j = "connectTCP" /\ n = 2
           /\ Script[j][n].do = "do" /\ Script[j][n].arg = "again"
                <=> j = "connectToAP" /\ n = 8
           /\ j = "connectToAP" /\ n < 8 => Script[j][n].do # "do"
  <1>1. CASE j = "connectToAP"
    <2>1. n \in 1..8
      BY <1>1, ApScript
    <2>2. CASE n = 8
      BY <1>1, <2>2, ApScript, LineFields
    <2>3. CASE n # 8
      <3>1. n \in 1..7
        BY <2>1, <2>3
      <3>2. Script[j][n] \in Joining
        BY <1>1, <3>1, ApScript
      <3>3. \A l \in Joining : l.do # "do" /\ l.arg # "socket"
        BY LineFields, ZenonT(30) DEF Joining
      <3> QED  BY <1>1, <3>1, <3>2, <3>3
    <2> QED  BY <2>2, <2>3
  <1>2. CASE j = "connectTCP"
    <2>1. n \in 1..2 /\ Script[j][1] = Must("socket") /\ Script[j][2] = Do("connect")
      BY <1>2, TcpScript
    <2>2. CASE n = 1
      BY <1>2, <2>1, <2>2, LineFields
    <2>3. CASE n = 2
      BY <1>2, <2>1, <2>3, LineFields
    <2> QED  BY <2>1, <2>2, <2>3
  <1>3. CASE j \notin {"connectToAP", "connectTCP"}
    <2>1. Script[j] \in Seq(Common)
      BY <1>3, CommonScripts
    <2>2. Script[j][n] \in Common
      BY <2>1, ElementOfSeq
    <2> QED  BY <1>3, <2>2, CommonFields DEF Deeds
  <1> QED  BY <1>1, <1>2, <1>3

-----------------------------------------------------------------------------
(* Control: the line of a method and the place of the sketch.               *)

Control == ControlTypes /\ Returns /\ Place

LEMMA EmptyIsNoMethod == "" \notin DOMAIN Script
  BY DEF Script

LEMMA NextLine ==
    ASSUME NEW n \in Nat, NEW l \in 1..(n + 1), l <= n
    PROVE  l \in 1..n /\ l + 1 \in 1..(n + 1)
  OBVIOUS

(* A method goes on to its next line, unless that would be past the end of  *)
(* connectToAP or connectTCP.                                               *)
LEMMA OnwardKeeps ==
    ASSUME Control, job # "", line <= Len(Script[job]), Onward, UNCHANGED sketchVars,
           ~Doing("connect"), ~Doing("again")
    PROVE  Control'
  <1>1. job \in DOMAIN Script /\ line \in 1..(Len(Script[job]) + 1)
    BY DEF Control, ControlTypes
  <1>2. PICK n \in Nat : /\ Len(Script[job]) = n /\ line \in 1..(n + 1) /\ line <= n
                         /\ job = "connectToAP" => n = 8
                         /\ job = "connectTCP" => n = 2
    BY <1>1, Lengths
  <1>3. line \in 1..Len(Script[job])
    BY <1>2, NextLine, Zenon
  <1>4. Script[job][line].do = "do" => Script[job][line].arg \notin {"connect", "again"}
    BY <1>3 DEF Doing, At, Current
  <1>5. ~(job = "connectTCP" /\ line = 2) /\ ~(job = "connectToAP" /\ line = 8)
    BY <1>1, <1>3, <1>4, LineOf
  <1>6. job' = job /\ line' = line + 1 /\ result' = result
    BY DEF Onward
  <1>7. line' \in 1..(Len(Script[job]) + 1)
    BY <1>2, <1>6, NextLine, Zenon
  <1>8. ControlTypes'
    BY <1>1, <1>6, <1>7 DEF Control, ControlTypes, sketchVars
  <1>9. Returns'
    <2>1. CASE job = "connectToAP"
      BY <2>1, <1>2, <1>5, <1>6 DEF Returns
    <2>2. CASE job = "connectTCP"
      BY <2>2, <1>2, <1>5, <1>6 DEF Returns
    <2> QED  BY <2>1, <2>2, <1>6 DEF Returns
  <1>10. Place'
    BY <1>6 DEF Control, Place, sketchVars
  <1> QED  BY <1>8, <1>9, <1>10 DEF Control

(* A method returns.                                                        *)
LEMMA ReturnKeeps ==
    ASSUME Control, NEW r \in {"true", "false"}, Return(r), UNCHANGED sketchVars
    PROVE  Control'
  <1>1. job' = "" /\ result' = r
    BY DEF Return
  <1>2. ControlTypes'
    BY <1>1 DEF Control, ControlTypes, sketchVars
  <1>3. Returns' /\ Place'
    BY <1>1 DEF Returns, Control, Place, sketchVars
  <1> QED  BY <1>2, <1>3 DEF Control

(* connectToAP tests the bit: it returns or starts again.                   *)
LEMMA TestedKeeps ==
    ASSUME Control, job = "connectToAP", Tested, UNCHANGED sketchVars
    PROVE  Control'
  <1>1. CASE "IsConnected" \in bits
    <2>1. Return("true")
      BY <1>1 DEF Tested
    <2> QED  BY <2>1, ReturnKeeps
  <1>2. CASE "IsConnected" \notin bits
    <2>1. line' = 2 /\ job' = job /\ result' = result
      BY <1>2 DEF Tested
    <2>2. job \in DOMAIN Script /\ Len(Script[job]) = 8
      BY Lengths, ApScript, EmptyIsNoMethod DEF Control, ControlTypes
    <2>3. line' \in 1..(Len(Script[job]) + 1)
      BY <2>1, <2>2
    <2>4. ControlTypes'
      BY <2>1, <2>2, <2>3 DEF Control, ControlTypes, sketchVars
    <2>5. Returns' /\ Place'
      BY <2>1 DEF Returns, Control, Place, sketchVars
    <2> QED  BY <2>4, <2>5 DEF Control
  <1> QED  BY <1>1, <1>2

(* Whatever line a method is at.                                            *)
LEMMA MethodControl ==
    ASSUME Control, Method
    PROVE  Control' /\ job # "" /\ UNCHANGED sketchVars
  <1> DEFINE Mid == job # "" /\ line <= Len(Script[job]) /\ UNCHANGED sketchVars
  <1>1. CASE NeedLine
    <2>1. Mid /\ ~Doing("connect") /\ ~Doing("again") /\ (Onward \/ Return("false"))
      BY <1>1 DEF NeedLine, At, Doing, Lines
    <2> QED  BY <2>1, OnwardKeeps, ReturnKeeps
  <1>2. CASE CommandSucceeds
    <2>1. Mid /\ ~Doing("connect") /\ ~Doing("again") /\ Onward
      BY <1>2 DEF CommandSucceeds, At, Doing, Lines
    <2> QED  BY <2>1, OnwardKeeps
  <1>3. CASE CommandFails
    <2>1. Mid /\ ~Doing("connect") /\ ~Doing("again") /\ (Onward \/ Failed)
      BY <1>3 DEF CommandFails, At, Doing, Lines
    <2>2. Failed => (job = "connectToAP" /\ Tested) \/ Return("false")
      BY DEF Failed
    <2> QED  BY <2>1, <2>2, OnwardKeeps, ReturnKeeps, TestedKeeps
  <1>4. CASE Awaited \/ TimesOut
    <2>1. Mid /\ ~Doing("connect") /\ ~Doing("again") /\ (Onward \/ Return("false"))
      BY <1>4 DEF Awaited, TimesOut, At, Doing, Lines
    <2> QED  BY <2>1, OnwardKeeps, ReturnKeeps
  <1>5. CASE Once \/ Pins
    <2>1. Mid /\ ~Doing("connect") /\ ~Doing("again")
          /\ (Onward \/ Return("false") \/ Return("true"))
      BY <1>5 DEF Once, Pins, At, Doing, Lines
    <2> QED  BY <2>1, OnwardKeeps, ReturnKeeps
  <1>6. CASE Again
    <2>1. Mid /\ job \in DOMAIN Script /\ line \in 1..(Len(Script[job]) + 1) /\ Tested
          /\ Script[job][line].do = "do" /\ Script[job][line].arg = "again"
      BY <1>6 DEF Again, At, Doing, Current, Lines, Control, ControlTypes
    <2>2. line \in 1..Len(Script[job])
      <3>1. PICK n \in Nat : Len(Script[job]) = n /\ line \in 1..(n + 1) /\ line <= n
        BY <2>1, Lengths
      <3> QED  BY <3>1, NextLine, Zenon
    <2>3. job = "connectToAP"
      BY <2>1, <2>2, LineOf
    <2> QED  BY <2>1, <2>3, TestedKeeps
  <1>7. CASE Address \/ ConnectSucceeds \/ ConnectFails \/ Finished
    <2>1. job # "" /\ UNCHANGED sketchVars /\ (Return("true") \/ Return("false"))
      BY <1>7 DEF Address, ConnectSucceeds, ConnectFails, Finished, At, Doing, Lines
    <2> QED  BY <2>1, ReturnKeeps
  <1>8. CASE Initialised \/ Clear \/ wlan_stop \/ wlan_start
    <2>1. Mid /\ ~Doing("connect") /\ ~Doing("again") /\ Onward
      BY <1>8 DEF Initialised, Clear, wlan_stop, wlan_start, At, Doing, Lines
    <2> QED  BY <2>1, OnwardKeeps
  <1>9. CASE Leave
    <2>1. Mid /\ ~Doing("connect") /\ ~Doing("again")
          /\ (Onward \/ Return("false") \/ UNCHANGED programCounter)
      BY <1>9 DEF Leave, At, Doing, Lines
    <2>2. CASE UNCHANGED programCounter
      BY <2>1, <2>2 DEF Control, ControlTypes, Returns, Place, programCounter, sketchVars
    <2> QED  BY <2>1, <2>2, OnwardKeeps, ReturnKeeps
  <1> QED  BY <1>1, <1>2, <1>3, <1>4, <1>5, <1>6, <1>7, <1>8, <1>9 DEF Method

LEMMA Methods ==
    ASSUME NEW s \in DOMAIN MethodOf
    PROVE  MethodOf[s] \in DOMAIN Script /\ (MethodOf[s] = "connectTCP" => s = "tcp")
  BY DEF MethodOf, Script

(* The sketch calls a method.                                               *)
LEMMA InvokeKeeps ==
    ASSUME Control, NEW m \in DOMAIN Script, Invoke(m), sketch' = sketch, k' = k,
           calls' \in 0..MaxCalls,
           sketch # "free" => sketch \in DOMAIN MethodOf /\ m = MethodOf[sketch]
    PROVE  Control'
  <1>1. job' = m /\ line' = 1 /\ result' = "none"
    BY DEF Invoke
  <1>2. PICK n \in Nat : Len(Script[m]) = n
    BY Lengths
  <1>3. line' \in 1..(Len(Script[m]) + 1)
    <2>1. 1 \in 1..(n + 1)
      OBVIOUS
    <2> QED  BY <1>1, <1>2, <2>1
  <1>4. ControlTypes'
    BY <1>1, <1>3 DEF Control, ControlTypes
  <1>5. Returns'
    BY <1>1 DEF Returns
  <1>6. Place'
    BY <1>1 DEF Control, Place
  <1> QED  BY <1>4, <1>5, <1>6 DEF Control

(* The sketch goes from one place to another, k being kept.                 *)
LEMMA EnterKeeps ==
    ASSUME Control, job = "", job' = job, result' \in {"none", "true", "false"}, calls' = calls,
           NEW s \in DOMAIN MethodOf \cup {"off", "free", "dhcp", "up", "halted"},
           sketch' = s, k' = k,
           s \in {"off", "free", "begin", "join", "dhcp", "address", "lookup"} => k = 0
    PROVE  Control'
  <1>1. ControlTypes'
    BY DEF Control, ControlTypes
  <1>2. Returns'
    BY DEF Returns
  <1>3. k = 0 => k <= LastTry + 1
    BY Bounds, Zenon
  <1>4. Place'
    BY <1>3 DEF Place
  <1> QED  BY <1>1, <1>2, <1>4 DEF Control

LEMMA SketchControl ==
    ASSUME Control, Sketch
    PROVE  Control' /\ job = ""
  <1> DEFINE Places == DOMAIN MethodOf \cup {"off", "free", "dhcp", "up", "halted"}
  <1>1. sketch \in Places /\ calls \in 0..MaxCalls /\ result \in {"none", "true", "false"}
    BY DEF Control, ControlTypes
  <1>2. DOMAIN MethodOf = {"begin", "join", "address", "lookup", "tcp"}
    BY DEF MethodOf
  <1>3. job # "" /\ sketch # "free" => sketch \in DOMAIN MethodOf
    BY DEF Control, Place
  <1>4. sketch \in {"off", "free", "begin", "join", "dhcp", "address"} => k = 0
    BY DEF Control, Place
  <1>5. CASE PowerUp
    <2>1. job = "" /\ job' = job /\ result' = result /\ calls' = calls /\ k' = k
          /\ sketch' \in {"begin", "free"} /\ k = 0
      BY <1>2, <1>3, <1>4, <1>5 DEF PowerUp, Enter, programCounter
    <2> QED  BY <1>1, <1>2, <2>1, EnterKeeps
  <1>6. CASE CallMethod
    <2>1. /\ sketch \in DOMAIN MethodOf /\ Invoke(MethodOf[sketch])
          /\ sketch' = sketch /\ k' = k /\ calls' = calls /\ job = ""
      BY <1>6 DEF CallMethod, sketchVars, Invoke
    <2> QED  BY <1>1, <2>1, InvokeKeeps, Methods
  <1>7. CASE Use
    <2>1. job = "" /\ job' = job /\ result' = "none" /\ sketch \in DOMAIN MethodOf
      BY <1>7 DEF Use
    <2>2. CASE sketch # "lookup"
      <3>1. k' = k /\ calls' = calls
        BY <1>2, <1>7, <2>1, <2>2 DEF Use, Enter
      <3>2. sketch' \in {"join", "halted", "dhcp", "lookup", "address", "up", "tcp"}
        BY <1>2, <1>7, <2>1, <2>2 DEF Use, Enter
      <3>3. sketch = "tcp" => sketch' \in {"up", "tcp"}
        BY <1>7 DEF Use, Enter
      <3>4. sketch # "tcp" => k = 0
        BY <1>2, <1>4, <2>1, <2>2
      <3> QED  BY <1>1, <1>2, <2>1, <3>1, <3>2, <3>3, <3>4, EnterKeeps
    <2>3. CASE sketch = "lookup"
      <3>1. AfterLookup /\ calls' = calls
        BY <1>7, <2>3 DEF Use
      <3>2. PICK n \in Nat : k = n /\ n <= LastTry + 1
        <4>1. k \in 0..(LastTry + 2)
          BY DEF Control, ControlTypes
        <4>2. k \in Nat
          BY <4>1, Bounds
        <4>3. k <= LastTry + 1
          BY <2>3 DEF Control, Place
        <4> QED  BY <4>2, <4>3
      <3>3. k' = n + 1 /\ sketch' \in {"lookup", "tcp", "halted"} /\ (sketch' = "lookup" => n <= LastTry)
        BY <3>1, <3>2 DEF AfterLookup
      <3>4. n + 1 \in 0..(LastTry + 2) /\ (n <= LastTry => n + 1 <= LastTry + 1)
        BY <3>2, Bounds
      <3>5. ControlTypes'
        BY <1>1, <1>2, <2>1, <3>1, <3>3, <3>4 DEF Control, ControlTypes
      <3>6. Returns' /\ Place'
        BY <2>1, <3>3, <3>4 DEF Returns, Place
      <3> QED  BY <2>1, <3>5, <3>6 DEF Control
    <2> QED  BY <2>2, <2>3
  <1>8. CASE checkDHCP \/ Dotted
    <2>1. job = "" /\ job' = job /\ result' = result /\ calls' = calls /\ k' = k
          /\ sketch' \in {"address", "tcp"} /\ (sketch' = "address" => k = 0)
      BY <1>2, <1>3, <1>4, <1>8 DEF checkDHCP, Dotted, Enter, programCounter
    <2> QED  BY <1>1, <1>2, <2>1, EnterKeeps
  <1>9. CASE AnyProgram
    <2>1. PICK m \in DOMAIN Script : Invoke(m)
      BY <1>9 DEF AnyProgram
    <2>2. sketch = "free" /\ sketch' = sketch /\ k' = k /\ calls < MaxCalls /\ calls' = calls + 1
      BY <1>9 DEF AnyProgram
    <2>3. calls' \in 0..MaxCalls
      BY <1>1, <2>2, Bounds
    <2>4. job = ""
      BY <2>1 DEF Invoke
    <2> QED  BY <2>1, <2>2, <2>3, <2>4, InvokeKeeps
  <1> QED  BY <1>5, <1>6, <1>7, <1>8, <1>9 DEF Sketch

(* The network, the callback and a stuttering step leave the program alone. *)
LEMMA ControlKept ==
    ASSUME Control, [StationNext]_stationVars
    PROVE  Control'
  <1>1. CASE UNCHANGED <<programCounter, sketchVars>>
    BY <1>1 DEF Control, ControlTypes, Returns, Place, programCounter, sketchVars
  <1>2. Network \/ CC3000_UsynchCallback \/ UNCHANGED stationVars
        => UNCHANGED <<programCounter, sketchVars>>
    BY DEF Network, Associate, Lease, LeaseFails, Dhcp, Drop, SmartConfigDone, Emit,
           CC3000_UsynchCallback, stationVars
  <1> QED  BY <1>1, <1>2, MethodControl, SketchControl DEF StationNext

-----------------------------------------------------------------------------
(* The radio, the bits and the events.                                      *)

(* What a command that succeeds makes of the radio.                         *)
LEMMA ExecutedRadio ==
    ASSUME chip \in Radios, NEW c, c = "socket" => chip.socks < MaxSockets
    PROVE  /\ Executed(c) \in Radios
           /\ Executed(c).on = chip.on
           /\ c = "disconnect" => /\ Executed(c).link = "none"
                                  /\ Executed(c).socks = 0 /\ Executed(c).lost = 0
           /\ c # "disconnect" => Executed(c).link = chip.link
           /\ c = "socket" => Executed(c).socks = chip.socks + 1
           /\ c # "disconnect" => Executed(c).lost = chip.lost
           /\ c \notin {"disconnect", "socket"} => Executed(c).socks = chip.socks
  <1> USE DEF Radios
  <1>1. CASE c = "policy(0,0,0)"
    BY <1>1 DEF Executed
  <1>2. CASE c = "policy(0,0,1)"
    BY <1>2 DEF Executed
  <1>3. CASE c = "del_profile"
    BY <1>3 DEF Executed
  <1>4. CASE c = "connect"
    BY <1>4 DEF Executed
  <1>5. CASE c = "disconnect"
    <2>1. 0 \in 0..MaxSockets
      BY DEF MaxSockets
    <2> QED  BY <1>5, <2>1 DEF Executed, Unlinked, Links
  <1>6. CASE c = "smart_config_start"
    BY <1>6 DEF Executed
  <1>7. CASE c = "socket"
    <2>1. PICK n \in 0..MaxSockets : n = chip.socks
      OBVIOUS
    <2>2. n + 1 \in 0..MaxSockets
      BY <1>7, <2>1 DEF MaxSockets
    <2>3. Executed(c) = [chip EXCEPT !.socks = n + 1]
      BY <1>7, <2>1 DEF Executed
    <2> QED  BY <1>7, <2>1, <2>2, <2>3
  <1>8. CASE c \notin {"policy(0,0,0)", "policy(0,0,1)", "del_profile", "connect", "disconnect",
                       "smart_config_start", "socket"}
    BY <1>8 DEF Executed
  <1> QED  BY <1>1, <1>2, <1>3, <1>4, <1>5, <1>6, <1>7, <1>8

(* The history is longer by one event, or shorter by one.                   *)
LEMMA MoreEvents ==
    ASSUME RadioTypes, NEW e \in EventNames, events' = Append(events, e)
    PROVE  /\ events' \in Seq(EventNames) /\ Len(events') = Len(events) + 1
           /\ Len(events) \in Nat
           /\ \A i \in 1..Len(events) : events'[i] = events[i]
           /\ events'[Len(events) + 1] = e
  BY DEF RadioTypes

LEMMA FewerEvents ==
    ASSUME RadioTypes, events # <<>>, events' = Tail(events)
    PROVE  /\ events' \in Seq(EventNames) /\ Len(events') = Len(events) - 1
           /\ Len(events) \in Nat \ {0}
           /\ Head(events) = events[1] /\ events[1] \in EventNames
           /\ \A i \in 1..Len(events') : events'[i] = events[i + 1]
  <1>1. events \in Seq(EventNames)
    BY DEF RadioTypes
  <1>2. /\ Head(events) \in EventNames /\ Tail(events) \in Seq(EventNames)
        /\ Len(Tail(events)) = Len(events) - 1
        /\ \A i \in 1..Len(Tail(events)) : Tail(events)[i] = events[i + 1]
    BY <1>1, HeadTailProperties, Zenon
  <1>3. Len(events) \in Nat \ {0}
    BY <1>1, EmptySeq
  <1>4. Head(events) = events[1]
    BY <1>1
  <1> QED  BY <1>2, <1>3, <1>4

(* The network changes the link and tells of it.                            *)
Told(e, l) ==
    /\ events' = Append(events, e) /\ Len(events) < MaxEvents
    /\ chip'.link = l /\ Leads(e, chip.link, l)
    /\ bits' = bits /\ hist'.cleared = hist.cleared /\ hist'.restarted = hist.restarted

LEMMA HistoryGrows ==
    ASSUME RadioTypes, History, NEW e \in EventNames, NEW l \in Links, Told(e, l)
    PROVE  History'
  <1>1. PICK t \in [0..Len(events) -> Links] : Tells(t)
    BY DEF History
  <1>2. PICK n \in Nat : n = Len(events) /\ n + 1 = Len(events') /\ events'[n + 1] = e
                         /\ \A i \in 1..n : events'[i] = events[i]
    BY MoreEvents DEF Told
  <1> DEFINE u == [i \in 0..(n + 1) |-> IF i = n + 1 THEN l ELSE t[i]]
  <1>3. u \in [0..(n + 1) -> Links]
    BY <1>1, <1>2
  <1>4. u[0] = t[0] /\ u[n] = t[n] /\ u[n + 1] = l
    BY <1>2
  <1>5. ASSUME NEW i \in 1..(n + 1)
        PROVE  Leads(events'[i], u[i - 1], u[i])
    <2>1. CASE i = n + 1
      <3>1. i - 1 = n
        BY <2>1
      <3>2. t[n] = chip.link
        BY <1>1, <1>2 DEF Tells
      <3> QED  BY <2>1, <3>1, <3>2, <1>2, <1>4 DEF Told
    <2>2. CASE i # n + 1
      <3>1. i \in 1..n
        BY <2>2
      <3>2. u[i] = t[i] /\ u[i - 1] = t[i - 1]
        BY <3>1
      <3> QED  BY <3>1, <3>2, <1>1, <1>2 DEF Tells
    <2> QED  BY <2>1, <2>2
  <1>6. Tells(u)'
    <2>1. chip'.link = l
      BY DEF Told
    <2>2. /\ ~hist'.cleared /\ ~hist'.restarted => Say(t[0])'
          /\ t[0] # "none" /\ ~hist'.cleared => "IsConnected" \in bits'
      BY <1>1 DEF Tells, Told, Say
    <2> HIDE DEF u
    <2> QED  BY <1>2, <1>4, <1>5, <2>1, <2>2 DEF Tells
  <1> QED  BY <1>2, <1>3, <1>6 DEF History

(* The interrupt delivers the first of the events.                          *)
LEMMA DeliveryKeeps ==
    ASSUME RadioTypes, History, JoinedBefore, DhcpNeedsLink, CC3000_UsynchCallback
    PROVE  (RadioTypes /\ History /\ JoinedBefore /\ DhcpNeedsLink)'
  <1>1. /\ events # <<>> /\ events' = Tail(events) /\ bits' = BitsAfter(Head(events))
        /\ chip' = chip /\ hist' = hist /\ _initialised' = _initialised /\ drops' = drops
    BY DEF CC3000_UsynchCallback
  <1>2. PICK n \in Nat : /\ Len(events) = n + 1 /\ Len(events') = n
                         /\ \A i \in 1..n : events'[i] = events[i + 1]
    <2>1. /\ Len(events') = Len(events) - 1 /\ Len(events) \in Nat \ {0}
          /\ \A i \in 1..Len(events') : events'[i] = events[i + 1]
      BY <1>1, FewerEvents
    <2>2. Len(events) - 1 \in Nat /\ Len(events) = (Len(events) - 1) + 1
      BY <2>1
    <2> QED  BY <2>1, <2>2
  <1>3. PICK e \in EventNames : e = events[1] /\ bits' = BitsAfter(e)
    BY <1>1, FewerEvents
  <1>4. RadioTypes'
    <2>1. events' \in Seq(EventNames) /\ n <= MaxEvents
      <3>1. n + 1 <= MaxEvents
        BY <1>2 DEF RadioTypes
      <3> QED  BY <3>1, <1>1, FewerEvents, Bounds
    <2>2. bits' \subseteq Bits
      BY <1>3 DEF BitsAfter, EventNames, RadioTypes, Bits
    <2> QED  BY <1>1, <1>2, <2>1, <2>2 DEF RadioTypes
  <1>5. PICK t \in [0..(n + 1) -> Links] : Tells(t)
    BY <1>2 DEF History
  <1>6. Leads(e, t[0], t[1])
    <2>1. 1 \in 1..(n + 1) /\ 1 - 1 = 0
      OBVIOUS
    <2> QED  BY <2>1, <1>2, <1>3, <1>5 DEF Tells
  <1>7. History'
    <2> DEFINE u == [i \in 0..n |-> t[i + 1]]
    <2>1. u \in [0..n -> Links]
      BY <1>5
    <2>2. u[0] = t[1] /\ u[n] = chip.link
      BY <1>2, <1>5 DEF Tells
    <2>3. ASSUME NEW i \in 1..n
          PROVE  Leads(events'[i], u[i - 1], u[i])
      <3>1. i + 1 \in 1..(n + 1) /\ (i + 1) - 1 = i
        OBVIOUS
      <3>2. Leads(events[i + 1], t[i], t[i + 1])
        BY <3>1, <1>2, <1>5 DEF Tells
      <3>3. u[i - 1] = t[i] /\ u[i] = t[i + 1]
        OBVIOUS
      <3> QED  BY <3>2, <3>3, <1>2
    <2>4. ~hist.cleared /\ ~hist.restarted => Say(t[1])'
      <3>1. ~hist.cleared /\ ~hist.restarted => Say(t[0])
        BY <1>5 DEF Tells
      <3> QED  BY <3>1, <1>3, <1>6 DEF Say, Leads, BitsAfter, EventNames
    <2>5. t[1] # "none" /\ ~hist.cleared => "IsConnected" \in bits'
      <3>1. t[0] # "none" /\ ~hist.cleared => "IsConnected" \in bits
        BY <1>5 DEF Tells
      <3> QED  BY <3>1, <1>3, <1>6 DEF Leads, BitsAfter, EventNames
    <2>6. Tells(u)'
      <3> HIDE DEF u
      <3> QED  BY <1>1, <1>2, <2>2, <2>3, <2>4, <2>5 DEF Tells
    <2> QED  BY <1>2, <2>1, <2>6 DEF History
  <1>8. JoinedBefore'
    <2>1. e = "UNSOL_CONNECT" => hist.joined \/ hist.restarted
      <3>1. 1 \in 1..(n + 1)
        OBVIOUS
      <3> QED  BY <3>1, <1>2, <1>3 DEF JoinedBefore
    <2>2. ASSUME NEW i \in 1..n, events'[i] = "UNSOL_CONNECT"
          PROVE  hist.joined \/ hist.restarted
      <3>1. i + 1 \in 1..(n + 1)
        OBVIOUS
      <3> QED  BY <3>1, <2>2, <1>2 DEF JoinedBefore
    <2>3. "IsConnected" \in bits' => e = "UNSOL_CONNECT" \/ "IsConnected" \in bits
      BY <1>3 DEF BitsAfter, EventNames
    <2> QED  BY <1>1, <1>2, <2>1, <2>2, <2>3 DEF JoinedBefore
  <1>9. DhcpNeedsLink'
    <2>1. e = "UNSOL_DHCP" /\ ~hist.cleared => "IsConnected" \in bits
      BY <1>5, <1>6 DEF Tells, Leads
    <2> QED  BY <1>1, <1>3, <2>1 DEF DhcpNeedsLink, BitsAfter, EventNames
  <1> QED  BY <1>4, <1>7, <1>8, <1>9

Radio == RadioTypes /\ History /\ JoinedBefore /\ DhcpNeedsLink

(* A step that neither changes the link nor tells of it.                    *)
LEMMA QuietKeeps ==
    ASSUME Radio, chip' \in Radios, chip'.on = chip.on, chip'.link = chip.link,
           ~chip.on => chip' = chip, _initialised' \in BOOLEAN, drops' = drops,
           UNCHANGED <<bits, events, hist>>
    PROVE  Radio'
  <1>1. RadioTypes'
    BY DEF Radio, RadioTypes
  <1>2. History'
    <2>1. PICK t \in [0..Len(events) -> Links] : Tells(t)
      BY DEF Radio, History
    <2>2. Tells(t)'
      BY <2>1 DEF Tells, Say
    <2> QED  BY <2>1, <2>2 DEF History
  <1>3. JoinedBefore' /\ DhcpNeedsLink'
    BY DEF Radio, JoinedBefore, DhcpNeedsLink
  <1> QED  BY <1>1, <1>2, <1>3 DEF Radio

(* A step that changes the link and tells of it.                            *)
LEMMA ToldKeeps ==
    ASSUME Radio, NEW e \in EventNames, NEW l \in Links, Told(e, l),
           chip' \in Radios, chip.on, chip'.on = chip.on,
           hist' \in [cleared : BOOLEAN, restarted : BOOLEAN, joined : BOOLEAN],
           hist.joined => hist'.joined, e = "UNSOL_CONNECT" => hist'.joined,
           _initialised' = _initialised, drops' \in 0..MaxDrops
    PROVE  Radio'
  <1>1. PICK n \in Nat : /\ n = Len(events) /\ n + 1 = Len(events') /\ events'[n + 1] = e
                         /\ \A i \in 1..n : events'[i] = events[i]
                         /\ events' \in Seq(EventNames)
    BY MoreEvents DEF Told, Radio
  <1>2. RadioTypes'
    <2>1. n + 1 <= MaxEvents
      <3>1. n < MaxEvents
        BY <1>1 DEF Told
      <3> QED  BY <3>1, Bounds
    <2>2. bits' = bits
      BY DEF Told
    <2> QED  BY <1>1, <2>1, <2>2 DEF Radio, RadioTypes
  <1>3. History'
    BY HistoryGrows DEF Radio
  <1>4. JoinedBefore'
    <2>1. bits' = bits /\ hist'.restarted = hist.restarted
      BY DEF Told
    <2>2. ASSUME NEW i \in 1..(n + 1), events'[i] = "UNSOL_CONNECT"
          PROVE  hist'.joined \/ hist'.restarted
      <3>1. CASE i = n + 1
        BY <3>1, <2>2, <1>1
      <3>2. CASE i # n + 1
        <4>1. i \in 1..n
          BY <3>2
        <4> QED  BY <4>1, <2>1, <2>2, <1>1 DEF Radio, JoinedBefore
      <3> QED  BY <3>1, <3>2
    <2> QED  BY <1>1, <2>1, <2>2 DEF Radio, JoinedBefore
  <1>5. DhcpNeedsLink'
    BY DEF Told, Radio, DhcpNeedsLink
  <1> QED  BY <1>2, <1>3, <1>4, <1>5 DEF Radio

(* The radio leaves the network on command, and tells of it if it was in one. *)
LEMMA DisconnectKeeps ==
    ASSUME Radio, Execute("disconnect"), UNCHANGED <<stationMemory, hist, drops>>
    PROVE  Radio'
  <1>1. chip.on /\ chip \in Radios /\ chip' = Executed("disconnect")
    BY DEF Execute, Radio, RadioTypes
  <1>2. chip' \in Radios /\ chip'.on = chip.on /\ chip'.link = "none"
    BY <1>1, ExecutedRadio
  <1>3. bits' = bits /\ hist' = hist /\ drops' = drops /\ _initialised' = _initialised
    BY DEF stationMemory
  <1>4. CASE chip.link # "none"
    <2>1. Told("UNSOL_DISCONNECT", "none")
      BY <1>2, <1>3, <1>4 DEF Told, Leads, Execute
    <2> QED  BY <1>1, <1>2, <1>3, <2>1, ToldKeeps DEF EventNames, Links, Radio, RadioTypes
  <1>5. CASE chip.link = "none"
    <2>1. events' = events
      BY <1>5 DEF Execute
    <2> QED  BY <1>1, <1>2, <1>3, <1>5, <2>1, QuietKeeps DEF Radio, RadioTypes
  <1> QED  BY <1>4, <1>5

LEMMA NetworkKeeps ==
    ASSUME Radio, Network
    PROVE  Radio'
  <1> USE DEF Emit, EventNames, Links, stationMemory
  <1>1. /\ chip \in Radios /\ _initialised \in BOOLEAN /\ drops \in 0..MaxDrops
        /\ hist \in [cleared : BOOLEAN, restarted : BOOLEAN, joined : BOOLEAN]
        /\ chip.link # "none" \/ chip.smart => chip.on
    BY DEF Radio, RadioTypes
  <1>2. CASE Associate
    <2>1. Told("UNSOL_CONNECT", "joined") /\ chip' \in Radios /\ chip'.on = chip.on /\ chip.on
      BY <1>1, <1>2 DEF Associate, Told, Leads, Radios
    <2>2. /\ hist' = [hist EXCEPT !.joined = TRUE] /\ drops' = drops
          /\ _initialised' = _initialised
      BY <1>2 DEF Associate
    <2> QED  BY <1>1, <2>1, <2>2, ToldKeeps
  <1>3. CASE Lease \/ LeaseFails
    <2> PICK l \in {"unleased", "leased"} : Dhcp(l)
      BY <1>3 DEF Lease, LeaseFails
    <2>1. Told("UNSOL_DHCP", l) /\ chip' \in Radios /\ chip'.on = chip.on /\ chip.on
      BY <1>1 DEF Dhcp, Told, Leads, Radios
    <2>2. hist' = hist /\ drops' = drops /\ _initialised' = _initialised
      BY DEF Dhcp
    <2> QED  BY <1>1, <2>1, <2>2, ToldKeeps
  <1>4. CASE Drop
    <2>1. chip' = [Unlinked EXCEPT !.want = chip.auto /\ chip.profile]
      BY <1>4 DEF Drop
    <2>2. chip' \in Radios /\ chip'.on = chip.on /\ chip'.link = "none"
      <3>1. PICK w \in BOOLEAN : w = (chip.auto /\ chip.profile)
        BY <1>1 DEF Radios
      <3>2. 0 \in 0..MaxSockets
        BY DEF MaxSockets
      <3>3. chip' = [chip EXCEPT !.link = "none", !.want = w, !.socks = 0, !.lost = 0]
        BY <1>1, <2>1, <3>1 DEF Unlinked, Radios
      <3> QED  BY <1>1, <3>2, <3>3 DEF Radios
    <2>3. Told("UNSOL_DISCONNECT", "none") /\ chip.on
      BY <1>1, <1>4, <2>2 DEF Drop, Told, Leads
    <2>4. hist' = hist /\ _initialised' = _initialised
      BY <1>4 DEF Drop
    <2>5. drops' \in 0..MaxDrops
      <3>1. drops < MaxDrops /\ drops' = drops + 1
        BY <1>4 DEF Drop
      <3> QED  BY <1>1, <3>1, Bounds
    <2> QED  BY <1>1, <2>2, <2>3, <2>4, <2>5, ToldKeeps
  <1>5. CASE SmartConfigDone
    <2>1. /\ chip' = [chip EXCEPT !.smart = FALSE, !.profile = TRUE]
          /\ chip' \in Radios /\ chip'.on = chip.on /\ chip'.link = chip.link /\ chip.on
      BY <1>1, <1>5 DEF SmartConfigDone, Radios
    <2> PICK l \in Links : l = chip.link
      BY <1>1 DEF Radios
    <2>2. Told("SIMPLE_CONFIG_DONE", l)
      BY <1>5, <2>1 DEF SmartConfigDone, Told, Leads
    <2>3. hist' = hist /\ drops' = drops /\ _initialised' = _initialised
      BY <1>5 DEF SmartConfigDone
    <2> QED  BY <1>1, <2>1, <2>2, <2>3, ToldKeeps
  <1> QED  BY <1>2, <1>3, <1>4, <1>5 DEF Network

(* A restart: the bits stay, the events do not.                             *)
LEMMA StopKeeps ==
    ASSUME Radio, wlan_stop
    PROVE  Radio'
  <1>1. /\ chip' = [Off EXCEPT !.auto = chip.auto, !.profile = chip.profile]
        /\ events' = <<>> /\ hist' = [hist EXCEPT !.restarted = TRUE]
        /\ bits' = bits /\ _initialised' = _initialised /\ drops' = drops
    BY DEF wlan_stop, Lines, stationMemory
  <1>2. /\ chip \in Radios /\ Len(events') = 0 /\ events' \in Seq(EventNames)
        /\ hist \in [cleared : BOOLEAN, restarted : BOOLEAN, joined : BOOLEAN]
    BY <1>1, EmptySeq DEF Radio, RadioTypes
  <1>3. /\ chip' \in Radios /\ chip'.link = "none" /\ ~chip'.on /\ ~chip'.smart
        /\ chip'.socks = 0 /\ chip'.lost = 0
    <2>1. 0 \in 0..MaxSockets
      BY DEF MaxSockets
    <2> QED  BY <1>1, <1>2, <2>1 DEF Radios, Off, Links
  <1>4. hist'.restarted /\ hist'.cleared = hist.cleared
        /\ hist' \in [cleared : BOOLEAN, restarted : BOOLEAN, joined : BOOLEAN]
    BY <1>1, <1>2
  <1>5. RadioTypes'
    BY <1>1, <1>2, <1>3, <1>4, Bounds DEF Radio, RadioTypes
  <1>6. History'
    <2> DEFINE u == [i \in 0..0 |-> "none"]
    <2>1. u \in [0..0 -> Links] /\ u[0] = "none"
      BY DEF Links
    <2> HIDE DEF u
    <2>2. Tells(u)'
      BY <1>2, <1>3, <1>4, <2>1 DEF Tells
    <2> QED  BY <1>2, <2>1, <2>2 DEF History
  <1>7. JoinedBefore' /\ DhcpNeedsLink'
    BY <1>1, <1>2, <1>4 DEF Radio, JoinedBefore, DhcpNeedsLink
  <1> QED  BY <1>5, <1>6, <1>7 DEF Radio

LEMMA StartKeeps ==
    ASSUME Radio, wlan_start
    PROVE  Radio'
  <1>1. /\ ~chip.on /\ chip' = [chip EXCEPT !.on = TRUE, !.want = chip.auto /\ chip.profile]
        /\ events' = events /\ hist' = [hist EXCEPT !.joined = FALSE]
        /\ bits' = bits /\ _initialised' = _initialised /\ drops' = drops
    BY DEF wlan_start, Lines, stationMemory
  <1>2. /\ chip \in Radios
        /\ hist \in [cleared : BOOLEAN, restarted : BOOLEAN, joined : BOOLEAN]
    BY DEF Radio, RadioTypes
  <1>3. chip' \in Radios /\ chip'.on /\ chip'.link = chip.link
    <2>1. PICK w \in BOOLEAN : w = (chip.auto /\ chip.profile)
      BY <1>2 DEF Radios
    <2>2. chip' = [chip EXCEPT !.on = TRUE, !.want = w]
      BY <1>1, <2>1
    <2> QED  BY <1>2, <2>2 DEF Radios
  <1>4. /\ hist'.restarted = hist.restarted /\ hist'.cleared = hist.cleared
        /\ hist' \in [cleared : BOOLEAN, restarted : BOOLEAN, joined : BOOLEAN]
    BY <1>1, <1>2
  <1>5. RadioTypes'
    BY <1>1, <1>3, <1>4 DEF Radio, RadioTypes
  <1>6. History'
    <2>1. PICK t \in [0..Len(events) -> Links] : Tells(t)
      BY DEF Radio, History
    <2>2. Tells(t)'
      BY <1>1, <1>3, <1>4, <2>1 DEF Tells, Say
    <2> QED  BY <1>1, <2>1, <2>2 DEF History
  <1>7. JoinedBefore' /\ DhcpNeedsLink'
    BY <1>1, <1>3, <1>4 DEF Radio, JoinedBefore, DhcpNeedsLink
  <1> QED  BY <1>5, <1>6, <1>7 DEF Radio

(* startSmartConfig clears the bits behind the back of the events.          *)
LEMMA ClearKeeps ==
    ASSUME Radio, Clear
    PROVE  Radio'
  <1>1. /\ bits' = {} /\ hist' = [hist EXCEPT !.cleared = TRUE]
        /\ chip' = chip /\ events' = events /\ _initialised' = _initialised /\ drops' = drops
    BY DEF Clear, Lines
  <1>2. hist \in [cleared : BOOLEAN, restarted : BOOLEAN, joined : BOOLEAN]
    BY DEF Radio, RadioTypes
  <1>3. /\ hist'.restarted = hist.restarted /\ hist'.joined = hist.joined /\ hist'.cleared
        /\ hist' \in [cleared : BOOLEAN, restarted : BOOLEAN, joined : BOOLEAN]
    BY <1>1, <1>2
  <1>4. RadioTypes'
    BY <1>1, <1>3 DEF Radio, RadioTypes
  <1>5. History'
    <2>1. PICK t \in [0..Len(events) -> Links] : Tells(t)
      BY DEF Radio, History
    <2>2. Tells(t)'
      BY <1>1, <1>3, <2>1 DEF Tells
    <2> QED  BY <1>1, <2>1, <2>2 DEF History
  <1>6. JoinedBefore' /\ DhcpNeedsLink'
    BY <1>1, <1>3 DEF Radio, JoinedBefore, DhcpNeedsLink
  <1> QED  BY <1>4, <1>5, <1>6 DEF Radio

LEMMA MethodKeeps ==
    ASSUME Radio, Method
    PROVE  Radio'
  <1>1. chip \in Radios /\ _initialised \in BOOLEAN
    BY DEF Radio, RadioTypes
  <1>2. CASE Quiet /\ Lines
    <2>1. UNCHANGED <<chip, bits, events, hist, _initialised, drops>>
      BY <1>2 DEF Quiet, Lines, stationMemory
    <2> QED  BY <1>1, <2>1, QuietKeeps
  <1>3. NeedLine \/ CommandFails \/ Awaited \/ TimesOut \/ Once \/ Pins \/ Again \/ Address
           \/ ConnectSucceeds \/ Finished => Quiet /\ Lines
    BY DEF NeedLine, CommandFails, Awaited, TimesOut, Once, Pins, Again, Address,
           ConnectSucceeds, Finished
  <1>4. CASE CommandSucceeds
    <2>1. /\ UNCHANGED <<stationMemory, hist, drops>> /\ Execute(Current.arg)
          /\ Current.arg = "socket" => chip.socks < MaxSockets
      BY <1>4 DEF CommandSucceeds, Lines
    <2>2. CASE Current.arg = "disconnect"
      BY <2>1, <2>2, DisconnectKeeps
    <2>3. CASE Current.arg # "disconnect"
      <3>1. chip.on /\ chip' = Executed(Current.arg) /\ events' = events
        BY <2>1, <2>3 DEF Execute
      <3>2. chip' \in Radios /\ chip'.on = chip.on /\ chip'.link = chip.link
        BY <1>1, <2>1, <2>3, <3>1, ExecutedRadio
      <3> QED  BY <1>1, <2>1, <3>1, <3>2, QuietKeeps DEF stationMemory
    <2> QED  BY <2>2, <2>3
  <1>5. CASE Initialised
    BY <1>1, <1>5, QuietKeeps DEF Initialised, Lines
  <1>6. CASE Leave
    <2>1. \/ Quiet /\ Lines
          \/ Execute("disconnect") /\ UNCHANGED <<stationMemory, hist, drops>>
      BY <1>6 DEF Leave, Lines
    <2> QED  BY <1>2, <2>1, DisconnectKeeps
  <1>7. CASE ConnectFails
    <2>1. PICK m \in 0..MaxSockets, n \in 0..MaxSockets : m = chip.socks /\ n = chip.lost
      BY <1>1 DEF Radios
    <2>2. /\ chip.on
          /\ \/ chip' = chip
             \/ m > n /\ chip' = [chip EXCEPT !.socks = m - 1]
             \/ m > n /\ chip' = [chip EXCEPT !.lost = n + 1]
      BY <1>7, <2>1 DEF ConnectFails
    <2>3. chip' \in Radios /\ chip'.on = chip.on /\ chip'.link = chip.link
      <3>1. m > n => m - 1 \in 0..MaxSockets /\ n + 1 \in 0..MaxSockets
        BY <2>1 DEF MaxSockets
      <3> QED  BY <1>1, <2>2, <3>1 DEF Radios
    <2>4. UNCHANGED <<bits, events, hist, _initialised, drops>>
      BY <1>7 DEF ConnectFails, Lines, stationMemory
    <2> QED  BY <1>1, <2>2, <2>3, <2>4, QuietKeeps
  <1> QED
    BY <1>2, <1>3, <1>4, <1>5, <1>6, <1>7, StopKeeps, StartKeeps, ClearKeeps DEF Method

LEMMA RadioKept ==
    ASSUME Radio, [StationNext]_stationVars
    PROVE  Radio'
  <1>1. CASE UNCHANGED <<stationMemory, chip, events, drops, hist>>
    BY <1>1, QuietKeeps DEF Radio, RadioTypes, stationMemory
  <1>2. Sketch \/ UNCHANGED stationVars => UNCHANGED <<stationMemory, chip, events, drops, hist>>
    BY DEF Sketch, PowerUp, CallMethod, Use, checkDHCP, Dotted, AnyProgram, Beside, stationVars
  <1> QED  BY <1>1, <1>2, NetworkKeeps, DeliveryKeeps, MethodKeeps DEF StationNext, Radio

-----------------------------------------------------------------------------
(* The socket of doWiFi.                                                    *)

(* The line a method is at is one of its script, if it is not the end.      *)
LEMMA AtLine ==
    ASSUME Control, job # "", line <= Len(Script[job])
    PROVE  job \in DOMAIN Script /\ line \in 1..Len(Script[job])
  <1>1. job \in DOMAIN Script /\ line \in 1..(Len(Script[job]) + 1)
    BY DEF Control, ControlTypes
  <1>2. PICK n \in Nat : Len(Script[job]) = n
    BY <1>1, Lengths
  <1> QED  BY <1>1, <1>2, NextLine, Zenon

(* A method of doWiFi that finds a socket open is about to connect it.      *)
LEMMA OpenIsConnecting ==
    ASSUME Control, OneSocket, job # "", sketch # "free", ~AllLost
    PROVE  job = "connectTCP" /\ sketch = "tcp" /\ Doing("connect")
  <1>1. sketch \in DOMAIN MethodOf /\ job = MethodOf[sketch]
    BY DEF Control, Place
  <1>2. sketch # "up"
    BY <1>1 DEF MethodOf
  <1>3. job = "connectTCP" /\ line = 2
    BY <1>2 DEF OneSocket
  <1>4. sketch = "tcp"
    BY <1>1, <1>3, Methods
  <1>5. line <= Len(Script[job]) /\ Script[job][line] = Do("connect")
    BY <1>3, TcpScript
  <1> QED  BY <1>3, <1>4, <1>5, LineFields DEF Doing, At, Current

LEMMA NoSocket == AllLost' => OneSocket'
  BY DEF OneSocket

LEMMA OneOpen ==
    ASSUME chip'.socks = chip'.lost + 1, \/ job' = "connectTCP" /\ line' = 2
                                         \/ sketch' = "tcp" /\ job' = "" /\ result' = "true"
                                         \/ sketch' = "up"
    PROVE  OneSocket'
  BY Zenon DEF OneSocket

LEMMA MethodSocket ==
    ASSUME Radio, Control, OneSocket, Method, sketch # "free"
    PROVE  OneSocket'
  <1>1. job # "" /\ sketch' = sketch
    BY MethodControl DEF sketchVars
  <1>2. chip \in Radios
    BY DEF Radio, RadioTypes
  <1>3. ~Doing("connect") => AllLost
    BY <1>1, OpenIsConnecting
  <1>4. AllLost' => OneSocket'
    BY NoSocket, Zenon
  <1>5. CASE NeedLine \/ CommandFails \/ Awaited \/ TimesOut \/ Once \/ Pins \/ Again \/ Address
    <2>1. ~Doing("connect") /\ chip' = chip
      BY <1>5 DEF NeedLine, CommandFails, Awaited, TimesOut, Once, Pins, Again, Address, Doing, At,
                  Quiet
    <2> QED  BY <1>3, <1>4, <2>1 DEF AllLost
  <1>6. CASE Finished
    <2>1. chip' = chip /\ line > Len(Script[job])
      BY <1>6 DEF Finished, Quiet
    <2>2. ~(line <= Len(Script[job]))
      <3>1. job \in DOMAIN Script /\ line \in 1..(Len(Script[job]) + 1)
        BY <1>1 DEF Control, ControlTypes
      <3> QED  BY <2>1, <3>1, Lengths
    <2> QED  BY <1>3, <1>4, <2>1, <2>2 DEF Doing, At, AllLost
  <1>7. CASE Initialised \/ Clear
    <2>1. ~Doing("connect") /\ chip' = chip
      BY <1>7 DEF Initialised, Clear, Doing, At
    <2> QED  BY <1>3, <1>4, <2>1 DEF AllLost
  <1>8. CASE wlan_start
    <2>1. ~Doing("connect") /\ chip'.socks = chip.socks /\ chip'.lost = chip.lost
      BY <1>2, <1>8 DEF wlan_start, Doing, At, Radios
    <2> QED  BY <1>3, <1>4, <2>1 DEF AllLost
  <1>9. CASE wlan_stop
    <2>1. chip'.socks = 0 /\ chip'.lost = 0
      BY <1>9 DEF wlan_stop, Off
    <2> QED  BY <1>4, <2>1 DEF AllLost
  <1>10. CASE Leave
    <2>1. ~Doing("connect") /\ (chip' = chip \/ chip' = Executed("disconnect"))
      BY <1>10 DEF Leave, Doing, At, Quiet, Execute
    <2>2. Executed("disconnect").socks = 0 /\ Executed("disconnect").lost = 0
      BY <1>2, ExecutedRadio
    <2> QED  BY <1>3, <1>4, <2>1, <2>2 DEF AllLost
  <1>11. CASE CommandSucceeds
    <2>1. /\ At("command") /\ ~Doing("connect") /\ Onward /\ chip' = Executed(Current.arg)
          /\ Current.arg = "socket" => chip.socks < MaxSockets
      BY <1>11 DEF CommandSucceeds, Execute, Doing, At
    <2>2. chip.socks = chip.lost
      BY <1>3, <2>1 DEF AllLost
    <2>3. CASE Current.arg = "socket"
      <3>1. chip'.socks = chip'.lost + 1
        BY <1>2, <2>1, <2>2, <2>3, ExecutedRadio
      <3>2. /\ job \in DOMAIN Script /\ line \in 1..Len(Script[job])
            /\ Script[job][line].do = "command" /\ Script[job][line].arg = "socket"
        BY <1>1, <2>1, <2>3, AtLine DEF At, Current
      <3>3. job = "connectTCP" /\ line = 1
        BY <3>2, LineOf
      <3>4. job' = "connectTCP" /\ line' = 2
        BY <2>1, <3>3 DEF Onward
      <3> QED  BY <3>1, <3>4, OneOpen, Zenon
    <2>4. CASE Current.arg # "socket"
      <3>1. AllLost'
        BY <1>2, <2>1, <2>2, <2>4, ExecutedRadio DEF AllLost
      <3> QED  BY <1>4, <3>1
    <2> QED  BY <2>3, <2>4
  <1>12. CASE ConnectSucceeds
    <2>1. chip' = chip /\ job' = "" /\ result' = "true"
      BY <1>12 DEF ConnectSucceeds, Quiet, Return
    <2>2. ~AllLost => sketch' = "tcp"
      BY <1>1, OpenIsConnecting
    <2> QED  BY <2>1, <2>2 DEF OneSocket, AllLost
  <1>13. CASE ConnectFails
    <2>1. PICK m \in 0..MaxSockets, n \in 0..MaxSockets : m = chip.socks /\ n = chip.lost
      BY <1>2 DEF Radios
    <2>2. m = n \/ m = n + 1
      <3>1. chip.socks = chip.lost \/ chip.socks = chip.lost + 1
        BY Zenon DEF OneSocket, AllLost
      <3> QED  BY <2>1, <3>1, Zenon
    <2>3. AllLost'
      <3>1. CASE m = n
        <4>1. ~(m > n)
          BY <3>1
        <4>2. chip' = chip
          BY <1>13, <2>1, <4>1, Zenon DEF ConnectFails
        <4> QED  BY <2>1, <3>1, <4>2 DEF AllLost
      <3>2. CASE m = n + 1
        <4>1. m > n /\ m - 1 = n
          BY <3>2
        <4>2. \/ chip' = [chip EXCEPT !.socks = m - 1]
              \/ chip' = [chip EXCEPT !.lost = n + 1]
          BY <1>13, <2>1, <4>1 DEF ConnectFails
        <4>3. chip'.socks = chip'.lost
          BY <1>2, <2>1, <3>2, <4>1, <4>2 DEF Radios
        <4> QED  BY <4>3 DEF AllLost
      <3> QED  BY <2>2, <3>1, <3>2
    <2> QED  BY <1>4, <2>3
  <1> QED
    BY <1>5, <1>6, <1>7, <1>8, <1>9, <1>10, <1>11, <1>12, <1>13 DEF Method

LEMMA SketchSocket ==
    ASSUME Radio, Control, OneSocket, Sketch, sketch # "free", sketch' # "free"
    PROVE  OneSocket'
  <1>1. job = "" /\ chip' = chip
    BY SketchControl DEF Sketch, PowerUp, CallMethod, Use, checkDHCP, Dotted, AnyProgram, Beside
  <1>2. ~AllLost => (sketch = "tcp" /\ result = "true") \/ sketch = "up"
    BY <1>1 DEF OneSocket
  <1>3. ~AllLost => sketch' = "up"
    <2>1. CASE Use
      BY <1>2, <2>1 DEF Use, Enter, MethodOf
    <2>2. CASE CallMethod
      BY <1>2, <2>2 DEF CallMethod, MethodOf
    <2>3. CASE PowerUp \/ checkDHCP \/ Dotted
      BY <1>2, <2>3 DEF PowerUp, checkDHCP, Dotted
    <2>4. ~AnyProgram
      BY DEF AnyProgram
    <2> QED  BY <2>1, <2>2, <2>3, <2>4 DEF Sketch
  <1> QED  BY <1>1, <1>3 DEF OneSocket, AllLost

LEMMA SocketKept ==
    ASSUME Radio, Control, OneSocket, [StationNext]_stationVars
    PROVE  OneSocket'
  <1> SUFFICES ASSUME sketch' # "free"
               PROVE  OneSocket'
    BY DEF OneSocket
  <1>1. CASE Network
    <2>1. /\ UNCHANGED <<job, line, result, sketch>>
          /\ \/ chip'.socks = chip.socks /\ chip'.lost = chip.lost
             \/ chip'.socks = 0 /\ chip'.lost = 0
      BY <1>1 DEF Network, Associate, Lease, LeaseFails, Dhcp, Drop, Unlinked, SmartConfigDone,
                  Emit, programCounter, sketchVars, Radio, RadioTypes, Radios
    <2>2. CASE chip'.socks = chip.socks /\ chip'.lost = chip.lost
      BY <2>1, <2>2, Zenon DEF OneSocket, AllLost
    <2> QED  BY <2>1, <2>2, NoSocket DEF AllLost
  <1>2. CASE CC3000_UsynchCallback \/ UNCHANGED stationVars
    <2>1. UNCHANGED <<job, line, result, sketch, chip>>
      BY <1>2 DEF CC3000_UsynchCallback, programCounter, sketchVars, stationVars
    <2> QED  BY <2>1 DEF OneSocket, AllLost
  <1>3. CASE Method
    <2>1. sketch' = sketch
      BY <1>3, MethodControl DEF sketchVars
    <2> QED  BY <1>3, <2>1, MethodSocket
  <1>4. CASE Sketch
    <2>1. sketch # "free"
      BY <1>4 DEF Sketch, PowerUp, CallMethod, Use, checkDHCP, Dotted, AnyProgram, MethodOf
    <2> QED  BY <1>4, <2>1, SketchSocket
  <1> QED  BY <1>1, <1>2, <1>3, <1>4 DEF StationNext

-----------------------------------------------------------------------------
(* The theorems.                                                            *)

(* All parts together are an inductive invariant.                           *)
LEMMA StationInvariant == StationSpec => []StationInv
  <1>1. StationInit => StationInv
    <2> SUFFICES ASSUME StationInit PROVE StationInv
      OBVIOUS
    <2>1. /\ _initialised = FALSE /\ bits = {} /\ chip = Off /\ events = <<>>
          /\ job = "" /\ result = "none" /\ sketch = "off" /\ k = 0 /\ calls = 0 /\ drops = 0
          /\ hist = [cleared |-> FALSE, restarted |-> FALSE, joined |-> FALSE]
      BY DEF StationInit
    <2>2. /\ chip \in Radios /\ ~chip.on /\ chip.link = "none" /\ ~chip.smart
          /\ chip.socks = 0 /\ chip.lost = 0
      <3>1. Off \in Radios
        BY Bounds DEF Radios, Off, Links
      <3> QED  BY <2>1, <3>1 DEF Off
    <2>3. events \in Seq(EventNames) /\ Len(events) = 0
      BY <2>1, EmptySeq
    <2>4. RadioTypes
      BY <2>1, <2>2, <2>3, Bounds DEF RadioTypes
    <2>5. ControlTypes
      BY <2>1, Bounds, Zenon DEF ControlTypes
    <2>6. Returns /\ Place
      BY <2>1, Zenon DEF Returns, Place
    <2>7. OneSocket
      BY <2>2, Zenon DEF OneSocket, AllLost
    <2>8. History
      <3> DEFINE u == [i \in 0..0 |-> "none"]
      <3>1. u \in [0..0 -> Links] /\ u[0] = "none"
        BY DEF Links
      <3> HIDE DEF u
      <3>2. \A i \in 1..0 : FALSE
        OBVIOUS
      <3>3. Say(u[0])
        BY <2>1, <3>1, Zenon DEF Say
      <3>4. Tells(u)
        BY <2>2, <2>3, <3>1, <3>2, <3>3, Zenon DEF Tells
      <3> QED  BY <2>3, <3>1, <3>4, Zenon DEF History
    <2>9. JoinedBefore /\ DhcpNeedsLink
      <3>1. \A i \in 1..0 : FALSE
        OBVIOUS
      <3> QED  BY <2>1, <2>3, <3>1, Zenon DEF JoinedBefore, DhcpNeedsLink
    <2> QED  BY <2>4, <2>5, <2>6, <2>7, <2>8, <2>9 DEF StationInv
  <1>2. StationInv /\ [StationNext]_stationVars => StationInv'
    BY RadioKept, ControlKept, SocketKept DEF StationInv, Radio, Control
  <1> QED  BY <1>1, <1>2, PTL DEF StationSpec

(* Type correctness, for any number of calls, drops and events.             *)
THEOREM StationTypeCorrect == StationSpec => []StationTypeOK
  <1>1. StationInv => StationTypeOK
    <2> SUFFICES ASSUME StationInv PROVE StationTypeOK
      OBVIOUS
    <2> QED  BY DEF StationInv, RadioTypes, ControlTypes, StationTypeOK, Radios, Links
  <1> QED  BY <1>1, StationInvariant, PTL

(* Once all events have been delivered the bits say whether the station is  *)
(* joined and whether DHCP has ended since, with a lease or without, for a  *)
(* sketch that neither restarts the radio nor clears them: the end of the   *)
(* history is then its beginning.                                           *)
THEOREM BitsFollowLinkThm == StationSpec => []BitsFollowLink
  <1>1. StationInv => BitsFollowLink
    <2> SUFFICES ASSUME StationInv, events = <<>>, ~hist.cleared, ~hist.restarted
                 PROVE  /\ "IsConnected" \in bits <=> chip.link # "none"
                        /\ "HasDHCP" \in bits <=> chip.link \in {"unleased", "leased"}
      BY DEF BitsFollowLink, Settled
    <2>1. PICK t \in [0..Len(events) -> Links] : Tells(t)
      BY DEF StationInv, History
    <2>2. Len(events) = 0
      OBVIOUS
    <2>3. t[0] = chip.link /\ Say(t[0])
      BY <2>1, <2>2 DEF Tells
    <2> QED  BY <2>3 DEF Say
  <1> QED  BY <1>1, StationInvariant, PTL

(* The whole invariant of the run: besides these two, HasDHCP comes without *)
(* IsConnected only of clearing the bits, and doWiFi has one socket besides *)
(* those whose closing was refused.                                         *)
THEOREM StationSoundThm == StationSpec => []StationSound
  <1>1. StationInv => DhcpNeedsLink /\ SocketsClosed
    <2>1. StationInv => DhcpNeedsLink
      BY DEF StationInv
    <2>2. ASSUME StationInv, sketch # "free" PROVE chip.socks <= chip.lost + 1
      <3>1. PICK m \in 0..MaxSockets, n \in 0..MaxSockets : m = chip.socks /\ n = chip.lost
        BY <2>2 DEF StationInv, RadioTypes, Radios
      <3>2. m = n \/ m = n + 1
        BY <2>2, <3>1 DEF StationInv, OneSocket, AllLost
      <3> QED  BY <3>1, <3>2
    <2> QED  BY <2>1, <2>2 DEF SocketsClosed
  <1> QED  BY <1>1, StationInvariant, StationTypeCorrect, BitsFollowLinkThm, PTL DEF StationSound

LEMMA LastLine ==
    ASSUME NEW l \in 1..(8 + 1), l <= 8
    PROVE  l \in 1..8 /\ l <= 8 /\ ~(l > 8) /\ (l < 8 \/ l = 8)
  OBVIOUS

(* connectToAP returns true only if the station has joined since the radio  *)
(* started, or if the bit was left over from before a restart.              *)
THEOREM ConnectedMeansJoinedThm == StationSpec => ConnectedMeansJoined
  <1> DEFINE Joined == job = "connectToAP" /\ job' = "" /\ result' = "true"
                       => hist.joined \/ hist.restarted
  <1>1. StationInv /\ [StationNext]_stationVars => [Joined]_stationVars
    <2> SUFFICES ASSUME StationInv, StationNext, job = "connectToAP", job' = "", result' = "true"
                 PROVE  hist.joined \/ hist.restarted
      OBVIOUS
    <2>1. Control
      BY DEF StationInv, Control
    <2>2. "IsConnected" \in bits => hist.joined \/ hist.restarted
      BY DEF StationInv, JoinedBefore
    <2>3. Tested => "IsConnected" \in bits
      BY DEF Tested
    <2>4. Method
      <3>1. Network \/ CC3000_UsynchCallback => job' = job
        BY DEF Network, Associate, Lease, LeaseFails, Dhcp, Drop, SmartConfigDone, Emit,
               CC3000_UsynchCallback, programCounter
      <3> QED  BY <2>1, <3>1, SketchControl DEF StationNext
    <2>5. ~Onward /\ ~Return("false") /\ ~UNCHANGED programCounter
      BY DEF Onward, Return, programCounter
    <2>6. line \in 1..8 /\ line <= Len(Script[job]) /\ ~(line > 8) /\ (line < 8 \/ line = 8)
      <3>1. job \in DOMAIN Script /\ line \in 1..(Len(Script[job]) + 1) /\ line <= 8
        BY <2>1 DEF Control, ControlTypes, Returns, StationInv
      <3>2. Len(Script[job]) = 8
        BY ApScript
      <3> QED  BY <3>1, <3>2, LastLine, Zenon
    <2>7. ~Finished
      <3>1. Len(Script[job]) = 8
        BY ApScript
      <3> QED  BY <2>6, <3>1 DEF Finished
    <2>8. At("do") => Doing("again")
      <3>1. job \in DOMAIN Script /\ line \in 1..Len(Script[job])
        BY <2>1, <2>6, AtLine
      <3>2. At("do") => line = 8
        BY <2>6, <3>1, LineOf DEF At, Current
      <3> QED  BY <3>1, <3>2, LineOf DEF Doing, At, Current
    <2>9. ASSUME NEW x, x # "again"
          PROVE  ~Doing(x)
      BY <2>8, <2>9 DEF Doing
    <2>10. ~Once /\ ~Pins /\ ~Address /\ ~ConnectSucceeds /\ ~ConnectFails
      BY <2>9 DEF Once, Pins, Address, ConnectSucceeds, ConnectFails
    <2>11. ~NeedLine /\ ~CommandSucceeds /\ ~Awaited /\ ~TimesOut /\ ~Initialised /\ ~Clear
           /\ ~Leave /\ ~wlan_stop /\ ~wlan_start
      BY <2>5 DEF NeedLine, CommandSucceeds, Awaited, TimesOut, Initialised, Clear, Leave,
                  wlan_stop, wlan_start
    <2>12. CommandFails => Tested
      BY <2>5 DEF CommandFails, Failed
    <2>13. Again => Tested
      BY DEF Again
    <2> QED  BY <2>2, <2>3, <2>4, <2>7, <2>10, <2>11, <2>12, <2>13 DEF Method
  <1> QED  BY <1>1, StationInvariant, PTL DEF StationSpec, ConnectedMeansJoined

============================================================================
