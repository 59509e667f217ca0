-------------------------------- MODULE Station --------------------------------
(***************************************************************************)
(* The radio as a station: the methods of class Adafruit_CC3000 that start *)
(* it, join a network and leave it (Adafruit_CC3000.cpp), the callback for *)
(* the radio's events, and the sketch that boots with them (doWiFi in      *)
(* CPX_cpp.ino).  A method is a script of lines; between any two of them   *)
(* the network may change and events may arrive.                           *)
(***************************************************************************)
EXTENDS Integers, Sequences

CONSTANTS
    MaxCalls,       \* bound: methods called by a sketch other than CPX
    MaxDrops,       \* bound: times the access point drops the station
    MaxEvents,      \* bound: events on their way
    LastTry         \* 20, the limit of k in getIp

ASSUME StationAssumption ==
    /\ {MaxCalls, MaxDrops, LastTry} \subseteq Nat
    /\ MaxEvents \in Nat \ {0}

VARIABLES
    _initialised,
    bits,           \* cc3000Bitset
    chip,           \* the radio
    events,         \* events on their way to CC3000_UsynchCallback
    job, line,      \* the method that runs and the line it is at
    result,         \* what the last method returned
    sketch, k,      \* where the sketch is, and the attempts in getIp
    calls, drops,
    hist            \* history: cleared, restarted: the bits were cleared, the
                    \* radio was stopped, behind the back of the events; joined:
                    \* the station has joined since the radio started

stationMemory == <<_initialised, bits>>
programCounter == <<job, line, result>>
sketchVars == <<sketch, k, calls>>
stationVars == <<stationMemory, chip, events, programCounter, sketchVars, drops, hist>>

-----------------------------------------------------------------------------
(* Lines of a script.  Must is CHECK_SUCCESS: return false if the command  *)
(* fails; Try ignores the result.                                          *)

Line(do, x) == [do |-> do, arg |-> x, checked |-> FALSE]
Must(c) == [Line("command", c) EXCEPT !.checked = TRUE]
Try(c) == Line("command", c)
Need == Line("need", "initialised")     \* if (!_initialised) return false
NeedLink == Line("need", "link")        \* ... and IsConnected and HasDHCP
Await(b) == Line("await", b)            \* poll until the bit is set, or time out
Do(x) == Line("do", x)
Restart == <<Do("wlan_stop"), Do("wlan_start")>>

begin(smart) ==
    <<Do("once"), Do("pins"), Do("wlan_start")>>
    \o (IF smart THEN <<Try("policy(0,0,1)")>> ELSE <<Try("policy(0,0,0)"), Try("del_profile")>>)
    \o <<Must("event_mask"), Do("initialised")>>
    \o (IF smart THEN <<Await("IsConnected")>> ELSE <<>>)

startSmartConfig ==
    <<Do("clear"), Need, Must("policy(0,0,0)"), Must("del_profile"), Do("leave")>> \o Restart
    \o <<Must("create_entry"), Must("set_prefix"), Must("smart_config_start"),
         Await("IsSmartConfigFinished"), Must("policy(0,0,1)")>> \o Restart
    \o <<Must("event_mask"), Await("IsConnected")>>

connectSecure == <<Need, Must("policy(0,0,0)"), Must("connect")>>

connectToAP ==
    <<Need, Try("scan"), Try("scan")>> \o connectSecure \o <<Await("IsConnected"), Do("again")>>

Script ==
    [ begin |-> begin(FALSE), beginSmart |-> begin(TRUE),
      reboot |-> <<Need>> \o Restart,
      stop |-> <<Need, Do("wlan_stop")>>,
      disconnect |-> <<Need, Must("disconnect")>>,
      deleteProfiles |-> <<Need, Must("policy(0,0,0)"), Must("del_profile")>>,
      setMacAddress |-> <<Need, Must("config_mac")>> \o Restart,
      setStaticIPAddress |-> <<Must("dhcp")>> \o Restart,
      getMacAddress |-> <<Need, Must("nvmem_read")>>,
      getIPAddress |-> <<NeedLink, Try("ipconfig"), Do("address")>>,
      startSmartConfig |-> startSmartConfig,
      connectSecure |-> connectSecure, connectToAP |-> connectToAP,
      getHostByName |-> <<NeedLink, Must("gethostbyname")>>,
      connectTCP |-> <<Must("socket"), Do("connect")>> ]

Current == Script[job][line]
At(do) == job # "" /\ line <= Len(Script[job]) /\ Current.do = do
Doing(x) == At("do") /\ Current.arg = x

Onward == line' = line + 1 /\ UNCHANGED <<job, result>>
Return(r) == job' = "" /\ line' = 0 /\ result' = r

(* The loop of connectToAP ends once the station is connected, and a method *)
(* it calls that fails is followed by that test.                           *)
Tested_always == Return("true")

Tested ==
    IF "IsConnected" \in bits
    THEN Return("true")
    ELSE line' = 2 /\ UNCHANGED <<job, result>>

Failed == IF job = "connectToAP" /\ line > 1 THEN Tested ELSE Return("false")

-----------------------------------------------------------------------------
(* A radio as it comes from its last use, with its policy and profiles.    *)
(* Of its sockets, lost are those whose closing it has refused.             *)

Bits == {"IsSmartConfigFinished", "IsConnected", "HasDHCP"}
Off == [on |-> FALSE, link |-> "none", want |-> FALSE, auto |-> TRUE, profile |-> TRUE,
        smart |-> FALSE, socks |-> 0, lost |-> 0]

StationInit ==
    /\ _initialised = FALSE /\ bits = {}
    /\ chip = Off /\ events = <<>>
    /\ job = "" /\ line = 0 /\ result = "none"
    /\ sketch = "off" /\ k = 0 /\ calls = 0 /\ drops = 0
    /\ hist = [cleared |-> FALSE, restarted |-> FALSE, joined |-> FALSE]

-----------------------------------------------------------------------------
(* The radio and the network.                                              *)

Emit(c, e) ==
    /\ Len(events) < MaxEvents
    /\ chip' = c /\ events' = Append(events, e)
    /\ UNCHANGED <<stationMemory, programCounter, sketchVars>>

Associate ==
    /\ chip.on /\ chip.want /\ chip.link = "none"
    /\ Emit([chip EXCEPT !.link = "joined"], "UNSOL_CONNECT")
    /\ hist' = [hist EXCEPT !.joined = TRUE] /\ UNCHANGED drops

(* The event tells in its status whether an address was leased.            *)
Dhcp(l) ==
    /\ chip.link \in {"joined", "unleased"}
    /\ Emit([chip EXCEPT !.link = l], "UNSOL_DHCP") /\ UNCHANGED <<drops, hist>>
Lease == Dhcp("leased")
LeaseFails == Dhcp("unleased")

Unlinked == [chip EXCEPT !.link = "none", !.socks = 0, !.lost = 0]

(* The station does not join again by itself unless its policy is to use    *)
(* the stored profiles.                                                     *)
Drop ==
    /\ chip.link # "none" /\ drops < MaxDrops /\ drops' = drops + 1
    /\ Emit([Unlinked EXCEPT !.want = chip.auto /\ chip.profile], "UNSOL_DISCONNECT")
    /\ UNCHANGED hist

SmartConfigDone ==
    /\ chip.smart
    /\ Emit([chip EXCEPT !.smart = FALSE, !.profile = TRUE], "SIMPLE_CONFIG_DONE")
    /\ UNCHANGED <<drops, hist>>

Network == Associate \/ Lease \/ LeaseFails \/ Drop \/ SmartConfigDone

BitsAfter_reset1(e) ==
    CASE e = "SIMPLE_CONFIG_DONE" -> bits \cup {"IsSmartConfigFinished"}
      [] e = "UNSOL_CONNECT" -> bits \cup {"IsConnected"}
      [] e = "UNSOL_DISCONNECT" -> bits \ {"IsConnected"}
      [] e = "UNSOL_DHCP" -> bits \cup {"HasDHCP"}

BitsAfter(e) ==
    CASE e = "SIMPLE_CONFIG_DONE" -> bits \cup {"IsSmartConfigFinished"}
      [] e = "UNSOL_CONNECT" -> bits \cup {"IsConnected"}
      [] e = "UNSOL_DISCONNECT" -> bits \ {"IsConnected", "HasDHCP"}
      [] e = "UNSOL_DHCP" -> bits \cup {"HasDHCP"}

(* The interrupt handler delivers an event between any two lines.           *)
CC3000_UsynchCallback ==
    /\ events # <<>> /\ events' = Tail(events)
    /\ bits' = BitsAfter(Head(events))
    /\ UNCHANGED <<_initialised, chip, programCounter, sketchVars, drops, hist>>

-----------------------------------------------------------------------------
(* The lines.                                                              *)

Quiet == UNCHANGED <<chip, events, hist>> /\ UNCHANGED stationMemory
Lines == UNCHANGED <<sketchVars, drops>>

NeedLine ==
    /\ At("need") /\ Quiet /\ Lines
    /\ IF _initialised /\ (Current.arg = "link" => {"IsConnected", "HasDHCP"} \subseteq bits)
       THEN Onward ELSE Return("false")

(* A command that succeeds.  A radio that is off answers none: the program  *)
(* waits for ever.                                                          *)
Executed(c) ==
    CASE c = "policy(0,0,0)" -> [chip EXCEPT !.auto = FALSE]
      [] c = "policy(0,0,1)" -> [chip EXCEPT !.auto = TRUE, !.want = @ \/ chip.profile]
      [] c = "del_profile" -> [chip EXCEPT !.profile = FALSE]
      [] c = "connect" -> [chip EXCEPT !.want = TRUE]
      [] c = "disconnect" -> [Unlinked EXCEPT !.want = FALSE]
      [] c = "smart_config_start" -> [chip EXCEPT !.smart = TRUE]
      [] c = "socket" -> [chip EXCEPT !.socks = @ + 1]
      [] OTHER -> chip

Execute(c) ==
    /\ chip.on /\ chip' = Executed(c)
    /\ IF c = "disconnect" /\ chip.link # "none"
       THEN Len(events) < MaxEvents /\ events' = Append(events, "UNSOL_DISCONNECT")
       ELSE UNCHANGED events

MaxSockets == 4
CommandSucceeds ==
    /\ At("command") /\ Execute(Current.arg) /\ Onward
    /\ Current.arg = "socket" => chip.socks < MaxSockets
    /\ Lines /\ UNCHANGED <<stationMemory, hist>>

CommandFails ==
    /\ At("command") /\ chip.on
    /\ IF Current.checked THEN Failed ELSE Onward
    /\ Quiet /\ Lines

Awaited ==
    /\ At("await") /\ Current.arg \in bits /\ Onward /\ Quiet /\ Lines

TimesOut ==
    /\ At("await") /\ Current.arg \notin bits
    /\ IF job = "connectToAP" THEN Onward ELSE Return("false")
    /\ Quiet /\ Lines

Once == Doing("once") /\ (IF _initialised THEN Return("true") ELSE Onward) /\ Quiet /\ Lines
Pins == Doing("pins") /\ (Onward \/ Return("false")) /\ Quiet /\ Lines
Again == Doing("again") /\ Tested /\ Quiet /\ Lines
Address ==
    /\ Doing("address") /\ Return(IF chip.link = "leased" THEN "true" ELSE "false")
    /\ Quiet /\ Lines

Initialised ==
    /\ Doing("initialised") /\ _initialised' = TRUE /\ Onward
    /\ Lines /\ UNCHANGED <<bits, chip, events, hist>>

Clear ==
    /\ Doing("clear") /\ bits' = {} /\ Onward
    /\ hist' = [hist EXCEPT !.cleared = TRUE]
    /\ Lines /\ UNCHANGED <<_initialised, chip, events>>

(* startSmartConfig leaves the network it knows to be connected to.         *)
Leave ==
    /\ Doing("leave") /\ Lines
    /\ \/ "IsConnected" \notin bits /\ Onward /\ Quiet
       \/ "IsConnected" \in bits /\ Execute("disconnect")
          /\ UNCHANGED <<stationMemory, hist, programCounter>>
       \/ "IsConnected" \in bits /\ chip.on /\ Return("false") /\ Quiet

(* Events that have not been delivered are lost with the power.             *)
wlan_stop ==
    /\ Doing("wlan_stop") /\ Onward
    /\ chip' = [Off EXCEPT !.auto = chip.auto, !.profile = chip.profile]
    /\ events' = <<>> /\ hist' = [hist EXCEPT !.restarted = TRUE]
    /\ Lines /\ UNCHANGED stationMemory

(* It waits for a pulse on the pin that a radio which is on does not give.  *)
wlan_start ==
    /\ Doing("wlan_start") /\ ~chip.on /\ Onward
    /\ chip' = [chip EXCEPT !.on = TRUE, !.want = chip.auto /\ chip.profile]
    /\ hist' = [hist EXCEPT !.joined = FALSE]
    /\ Lines /\ UNCHANGED <<stationMemory, events>>

(* connect(); if it fails, closesocket(), whose result is ignored.          *)
ConnectSucceeds ==
    /\ Doing("connect") /\ chip.on /\ chip.link = "leased" /\ Return("true")
    /\ Quiet /\ Lines

ConnectFails ==
    /\ Doing("connect") /\ chip.on /\ Return("false")
    /\ IF chip.socks > chip.lost
       THEN chip' \in {[chip EXCEPT !.socks = @ - 1], [chip EXCEPT !.lost = @ + 1]}
       ELSE UNCHANGED chip
    /\ Lines /\ UNCHANGED <<stationMemory, events, hist>>

Finished == job # "" /\ line > Len(Script[job]) /\ Return("true") /\ Quiet /\ Lines

Method ==
    \/ NeedLine \/ CommandSucceeds \/ CommandFails \/ Awaited \/ TimesOut \/ Once \/ Pins
    \/ Again \/ Address \/ Initialised \/ Clear \/ Leave \/ wlan_stop \/ wlan_start
    \/ ConnectSucceeds \/ ConnectFails \/ Finished

-----------------------------------------------------------------------------
(* The sketch: doWiFi and the functions it calls, or any other program.     *)

Invoke(m) == job = "" /\ job' = m /\ line' = 1 /\ result' = "none"
Beside == UNCHANGED <<stationMemory, chip, events, drops, hist>>
Enter(s) == sketch' = s /\ UNCHANGED <<k, calls>>

PowerUp ==
    /\ sketch = "off" /\ \E s \in {"begin", "free"} : Enter(s)
    /\ Beside /\ UNCHANGED programCounter

MethodOf ==
    [begin |-> "begin", join |-> "connectToAP", address |-> "getIPAddress",
     lookup |-> "getHostByName", tcp |-> "connectTCP"]

CallMethod ==
    /\ sketch \in DOMAIN MethodOf /\ result = "none" /\ Invoke(MethodOf[sketch])
    /\ Beside /\ UNCHANGED sketchVars

(* What doWiFi does with the result; blink and delays are left out.         *)
AfterLookup_forever ==
    IF result = "true" THEN sketch' = "tcp" /\ UNCHANGED k ELSE UNCHANGED <<sketch, k>>

AfterLookup ==
    /\ k' = k + 1
    /\ sketch' = IF result # "true" /\ k <= LastTry THEN "lookup"
                 ELSE IF k' < LastTry THEN "tcp" ELSE "halted"

Use ==
    /\ job = "" /\ result # "none" /\ result' = "none" /\ sketch \in DOMAIN MethodOf
    /\ LET ok == result = "true"
       IN  CASE sketch = "begin" -> Enter(IF ok THEN "join" ELSE "halted")
             [] sketch = "join" -> Enter(IF ok THEN "dhcp" ELSE "halted")
             [] sketch = "address" -> Enter(IF ok THEN "lookup" ELSE "address")
             [] sketch = "lookup" -> AfterLookup /\ UNCHANGED calls
             [] sketch = "tcp" -> Enter(IF ok THEN "up" ELSE "tcp")
    /\ Beside /\ UNCHANGED <<job, line>>

checkDHCP ==
    /\ sketch = "dhcp" /\ "HasDHCP" \in bits /\ Enter("address")
    /\ Beside /\ UNCHANGED programCounter

(* getIp of an address in digits asks nobody.                               *)
Dotted ==
    /\ sketch = "lookup" /\ k = 0 /\ job = "" /\ result = "none" /\ Enter("tcp")
    /\ Beside /\ UNCHANGED programCounter

AnyProgram ==
    /\ sketch = "free" /\ calls < MaxCalls /\ \E m \in DOMAIN Script : Invoke(m)
    /\ calls' = calls + 1 /\ UNCHANGED <<sketch, k>> /\ Beside

Sketch == PowerUp \/ CallMethod \/ Use \/ checkDHCP \/ Dotted \/ AnyProgram

StationNext == Network \/ CC3000_UsynchCallback \/ Method \/ Sketch
StationSpec == StationInit /\ [][StationNext]_stationVars

-----------------------------------------------------------------------------
(* Properties.                                                              *)

StationTypeOK ==
    /\ _initialised \in BOOLEAN /\ bits \subseteq Bits
    /\ chip \in [on : BOOLEAN, link : {"none", "joined", "unleased", "leased"},
                 want : BOOLEAN, auto : BOOLEAN, profile : BOOLEAN, smart : BOOLEAN,
                 socks : 0 .. MaxSockets, lost : 0 .. MaxSockets]
    /\ ~chip.on => chip.link = "none" /\ chip.socks = 0
    /\ Len(events) <= MaxEvents
    /\ job = "" \/ (job \in DOMAIN Script /\ line \in 1 .. Len(Script[job]) + 1)
    /\ result \in {"none", "true", "false"}
    /\ sketch \in DOMAIN MethodOf \cup {"off", "free", "dhcp", "up", "halted"}
    /\ k \in 0 .. LastTry + 2 /\ calls \in 0 .. MaxCalls /\ drops \in 0 .. MaxDrops

(* Every event has been delivered, no method has restarted the radio, which *)
(* leaves the bits as they are, or cleared them, which startSmartConfig     *)
(* does first of all.                                                       *)
Settled == events = <<>> /\ ~hist.cleared /\ ~hist.restarted

(* Then IsConnected says whether the station is joined, and HasDHCP whether *)
(* DHCP has ended since it joined, with a lease or without.                 *)
BitsFollowLink ==
    Settled => /\ "IsConnected" \in bits <=> chip.link # "none"
               /\ "HasDHCP" \in bits <=> chip.link \in {"unleased", "leased"}

(* What the comment on checkDHCP says: "True if DHCP process is complete    *)
(* (IP address assigned)".  The bit does not say that.                      *)
DhcpMeansAddress == Settled /\ "HasDHCP" \in bits => chip.link = "leased"

(* HasDHCP without IsConnected comes only of cc3000Bitset.clear().          *)
DhcpNeedsLink ==
    "HasDHCP" \in bits /\ "IsConnected" \notin bits => hist.cleared

(* connectToAP returns true only if the station has joined since the radio *)
(* started, or if the bit was left over from before a restart.              *)
ConnectedMeansJoined ==
    [][job = "connectToAP" /\ job' = "" /\ result' = "true"
       => hist.joined \/ hist.restarted]_stationVars

(* However often connectTCP fails, doWiFi has no more than one socket open, *)
(* but for those whose closing was refused.                                 *)
SocketsClosed == sketch # "free" => chip.socks <= chip.lost + 1

(* doWiFi ends, connected or halted, if the access point and the host are   *)
(* within reach, the station is never dropped (after that it may wait for   *)
(* the DHCP event for ever) and the radio does not refuse to close all of   *)
(* its sockets (after that connectTCP opens none).                          *)
BootEnds ==
    [](drops = 0 /\ chip.lost < MaxSockets) /\ <>(sketch = "begin")
       => <>(sketch \in {"up", "halted"})

(* The comment at line 827, "Wait until CC3000 is disconnected": the loop   *)
(* that does so tests a bit that has just been cleared.                     *)
DisconnectedBeforeReset ==
    [][job = "startSmartConfig" /\ Doing("wlan_stop") /\ line < 8 /\ line' # line
       => chip.link = "none"]_stationVars

(* "IP address resolution failed, Halt!" (CPX_cpp.ino): it also halts when  *)
(* the last attempts succeed.                                               *)
HaltMeansUnresolved ==
    [][sketch = "lookup" /\ sketch' = "halted" => result # "true"]_stationVars

(* What the callback, the methods and the retries of doWiFi keep of the     *)
(* station's bits and sockets.                                              *)
StationSound == StationTypeOK /\ BitsFollowLink /\ DhcpNeedsLink /\ SocketsClosed

=============================================================================
