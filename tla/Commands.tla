------------------------------- MODULE Commands -------------------------------
(***************************************************************************)
(* The functions of the CC3000 host driver as packets: what each of them   *)
(* writes into wlan_tx_buffer, what it tells the radio it has written, the *)
(* event it waits for and the variable the event is decoded into.  A       *)
(* packet's argument bytes are fields, each at its place: numbers, data,   *)
(* the length of some data, or the distance from itself to some data.      *)
(* Who calls what when is not the subject: a step is any one call.         *)
(***************************************************************************)
EXTENDS Integers

CONSTANTS
    TxBufferSize,   \* CC3000_TX_BUFFER_SIZE, with the byte of the magic number
    SsidLengths, KeyLengths, WepKeyLengths, NameLengths,
    DataLengths     \* bounds: the lengths tried

ASSUME CommandAssumption ==
    /\ TxBufferSize \in Nat
    /\ SsidLengths \subseteq 0 .. 32 /\ KeyLengths \subseteq 0 .. 32
    /\ WepKeyLengths \subseteq 0 .. 32
    /\ NameLengths \cup DataLengths \subseteq Nat

VARIABLES packet,    \* the packet last built
          phoneKey,  \* the length of the key a phone has stored for it, or NoKey
          firstChar, \* the first byte of that key
          overrun    \* the byte of the magic number is gone: SpiWrite stops

commandVars == <<packet, phoneKey, firstChar, overrun>>
NoKey == -1

-----------------------------------------------------------------------------
(* Fields, and the pointer args that moves behind each as it is written.    *)

Field(k, x, w, v) == [kind |-> k, of |-> x, w |-> w, v |-> v]
Nums(n) == Field("num", "none", 4 * n, 0)
Num == Field("num", "none", 4, 0)
Short == Field("num", "none", 2, 0)
Byte8 == Field("num", "none", 1, 0)
LenOf(x, v) == Field("len", x, 4, v)
PtrTo(x, v) == Field("ptr", x, 4, v)
Data(x, n) == Field("data", x, n, 0)

Args == [at |-> 0, fields |-> {}]
Placed(f, at) == [kind |-> f.kind, of |-> f.of, w |-> f.w, v |-> f.v, at |-> at]
ToStream(args, f) ==
    [at |-> args.at + f.w, fields |-> args.fields \cup {Placed(f, args.at)}]
args ++ f == ToStream(args, f)

SPI_HEADER_SIZE == 5

(* A packet: its argument bytes, what its header tells of their number, and *)
(* the length handed to SpiWrite.                                           *)
Packet(name, op, hdr, args, told, len, ev, res) ==
    [name |-> name, opcode |-> op, header |-> hdr, fields |-> args.fields,
     written |-> args.at, told |-> told, length |-> len, awaits |-> ev, result |-> res]

(* hci_command_send: the length is a byte.                                  *)
hci_command_send(name, op, args, n, ev, res) ==
    Packet(name, op, 4, args, n % 256, (n % 256) + 4, ev, res)

(* hci_data_send: the opcode is a byte, the arguments, the data and the     *)
(* address behind them are one length of two bytes.                         *)
hci_data_send(name, op, args, nargs, ndata, ntail, ev, res) ==
    Packet(name, op % 256, 5, args, (nargs + ndata + ntail) % 65536,
           5 + nargs + ndata + ntail, ev, res)

hci_data_command_send(name, op, args, nargs, ndata, ev, res) ==
    Packet(name, op % 256, 5, args, (nargs + ndata) % 65536,
           nargs + ndata + 5, ev, res)

(* SpiWrite pads to an odd length behind its header.                        *)
OnTheWire(p) == SPI_HEADER_SIZE + p.length + (IF p.length % 2 = 0 THEN 1 ELSE 0)
InBuffer(p) == SPI_HEADER_SIZE + p.header + p.written

-----------------------------------------------------------------------------
(* The codes of hci.h.  An event that answers a command has its code, but   *)
(* for those of the data commands.                                          *)

HCI == [connect |-> 1, disconnect |-> 2, setscan |-> 3, policy |-> 4, addprofile |-> 5,
        delprofile |-> 6, getscan |-> 7, mask |-> 8, status |-> 9, configstart |-> 10,
        configstop |-> 11, prefix |-> 12, configurepatch |-> 13,
        socket |-> 4097, bind |-> 4098, evsend |-> 4099, recv |-> 4100, accept |-> 4101,
        listen |-> 4102, bsdconnect |-> 4103, select |-> 4104, setsockopt |-> 4105,
        getsockopt |-> 4106, close |-> 4107, recvfrom |-> 4109, evsendto |-> 4111,
        hostname |-> 4112, mdns |-> 4113, send |-> 129, sendto |-> 131,
        nvcreate |-> 515, nvread |-> 513, nvwrite |-> 144, evnvwrite |-> 514,
        nvpatch |-> 516, version |-> 519, buffers |-> 16395, start |-> 16384,
        dhcp |-> 8193, pingsend |-> 8194, pingreport |-> 8195, pingstop |-> 8196,
        ipconfig |-> 8197, arpflush |-> 8198, debuglevel |-> 8200, timers |-> 8201]

(* hci_event_handler: the bytes it stores at pRetParams for an answer.      *)
StatusByteEvents == {HCI.configurepatch, HCI.dhcp, HCI.pingsend, HCI.pingstop, HCI.arpflush,
    HCI.debuglevel, HCI.timers, HCI.nvread, HCI.nvcreate, HCI.nvpatch, HCI.pingreport,
    HCI.mdns}
StatusWordEvents == {HCI.setsockopt, HCI.connect, HCI.status, HCI.addprofile, HCI.delprofile,
    HCI.policy, HCI.setscan, HCI.configstart, HCI.configstop, HCI.prefix, HCI.mask,
    HCI.disconnect, HCI.socket, HCI.bind, HCI.listen, HCI.close, HCI.bsdconnect,
    HCI.evnvwrite}

Stored ==
    (StatusByteEvents \X {1}) \cup (StatusWordEvents \X {4})
    \cup {<<HCI.buffers, 0>>, <<HCI.start, 0>>, <<HCI.version, 1 + 4>>,
          <<HCI.hostname, 4 + 4>>, <<HCI.accept, 4 + 4 + 16>>,
          <<HCI.recv, 4 + 4 + 4>>, <<HCI.recvfrom, 4 + 4 + 4>>,
          <<HCI.evsend, 4 + 4>>, <<HCI.evsendto, 4 + 4>>, <<HCI.select, 4 + 4 + 4 + 4>>,
          <<HCI.getsockopt, 4 + 1>>, <<HCI.getscan, 4 + 4 + 2 + 2 + 38>>,
          <<HCI.ipconfig, 5 * 4 + 6 + 32>>}

-----------------------------------------------------------------------------
(* wlan.cpp.                                                                *)

SimpleLink_Init_Start ==
    hci_command_send("start", HCI.start, Args ++ Byte8, 1, HCI.start, 0)
ReadBufferSize == hci_command_send("buffers", HCI.buffers, Args, 0, HCI.buffers, 0)

wlan_connect_nossid(ssid, key) ==
    hci_command_send("connect", HCI.connect,
        Args ++ PtrTo("ssid", 28) ++ LenOf("ssid", ssid) ++ Num ++ PtrTo("key", 16)
          ++ LenOf("key", key) ++ Short ++ Data("bssid", 6) ++ Data("ssid", ssid)
          ++ Data("key", key),
        29 + ssid + key - 1, HCI.connect, 4)
wlan_connect(ssid, key) ==
    hci_command_send("connect", HCI.connect,
        Args ++ PtrTo("ssid", 28) ++ LenOf("ssid", ssid) ++ Num ++ PtrTo("key", 16 + ssid)
          ++ LenOf("key", key) ++ Short ++ Data("bssid", 6) ++ Data("ssid", ssid)
          ++ Data("key", key),
        29 + ssid + key - 1, HCI.connect, 4)

wlan_disconnect == hci_command_send("disconnect", HCI.disconnect, Args, 0, HCI.disconnect, 4)

wlan_ioctl_set_connection_policy ==
    hci_command_send("policy", HCI.policy, Args ++ Nums(3), 12, HCI.policy, 4)

(* One layout for each kind of security; WEP has four keys.                 *)
wlan_add_profile(sec, ssid, key) ==
    LET open == Args ++ Num ++ PtrTo("ssid", 20) ++ LenOf("ssid", ssid) ++ Short
                  ++ Data("bssid", 6) ++ Num ++ Data("ssid", ssid)
        wep == Args ++ Num ++ PtrTo("ssid", 32) ++ LenOf("ssid", ssid) ++ Short
                 ++ Data("bssid", 6) ++ Num ++ PtrTo("key", 12 + ssid)
                 ++ LenOf("key", key) ++ Num ++ Data("ssid", ssid) ++ Data("key", key)
                 ++ Data("key2", key) ++ Data("key3", key) ++ Data("key4", key)
        wpa == Args ++ Num ++ PtrTo("ssid", 40) ++ LenOf("ssid", ssid) ++ Short
                 ++ Data("bssid", 6) ++ Num ++ Num ++ Num ++ Num ++ PtrTo("key", 8 + ssid)
                 ++ LenOf("key", key) ++ Data("ssid", ssid) ++ Data("key", key)
        send(fields, n) ==
            hci_command_send("addprofile", HCI.addprofile, fields, n, HCI.addprofile, 4)
    IN CASE sec = 0 -> send(open, 24 + ssid)
         [] sec = 1 -> send(wep, 36 + ssid + key * 4)
         [] OTHER   -> send(wpa, 44 + ssid + key)

wlan_ioctl_del_profile ==
    hci_command_send("delprofile", HCI.delprofile, Args ++ Num, 4, HCI.delprofile, 4)

wlan_ioctl_get_scan_results ==
    hci_command_send("getscan", HCI.getscan, Args ++ Num, 4, HCI.getscan, 50)

wlan_ioctl_set_scan_params ==
    hci_command_send("setscan", HCI.setscan,
        Args ++ Nums(9) ++ Data("intervals", 4 * 16), 100, HCI.setscan, 4)

wlan_set_event_mask == hci_command_send("mask", HCI.mask, Args ++ Num, 4, HCI.mask, 4)

wlan_ioctl_statusget == hci_command_send("status", HCI.status, Args, 0, HCI.status, 4)

wlan_smart_config_start ==
    hci_command_send("configstart", HCI.configstart, Args ++ Num, 4, HCI.configstart, 4)

wlan_smart_config_stop ==
    hci_command_send("configstop", HCI.configstop, Args, 0, HCI.configstop, 4)

wlan_smart_config_set_prefix ==
    hci_command_send("prefix", HCI.prefix, Args ++ Data("prefix", 3), 3, HCI.prefix, 4)

(* The key the phone has put into the profile: shorter than 31 bytes with   *)
(* its length before it and zeros behind, 31 with its length, 32 alone.     *)
(* The last byte of a key is not 0; the first may be anything.              *)
PhoneProfile(k, c) == [first |-> IF k = 32 THEN c ELSE k, last |-> k >= 31]
FirstChars == {31, 65}
KeyLengthOf(prof) ==
    IF prof.last THEN (IF prof.first = 31 THEN 31 ELSE 32) ELSE prof.first
wlan_smart_config_process(sec, ssid, key, c) ==
    wlan_add_profile(IF sec = 3 THEN 2 ELSE sec, ssid, KeyLengthOf(PhoneProfile(key, c)))

-----------------------------------------------------------------------------
(* socket.cpp.  Strings are limited by the functions themselves where they  *)
(* are; a result of -1 without a packet is the empty choice.                *)

socket == hci_command_send("socket", HCI.socket, Args ++ Nums(3), 12, HCI.socket, 4)
closesocket == hci_command_send("close", HCI.close, Args ++ Num, 4, HCI.close, 4)
accept == hci_command_send("accept", HCI.accept, Args ++ Num, 4, HCI.accept, 24)
listen == hci_command_send("listen", HCI.listen, Args ++ Nums(2), 8, HCI.listen, 4)

bind_(name, op) ==
    hci_command_send(name, op,
        Args ++ Num ++ PtrTo("addr", 8) ++ LenOf("addr", 8) ++ Data("addr", 8), 20, op, 4)
bind == bind_("bind", HCI.bind)
connect == bind_("bsdconnect", HCI.bsdconnect)

HOSTNAME_MAX_LENGTH == 230
gethostbyname(strlen) ==
    LET n == strlen % 256 IN     \* usNameLen is a uint8_t
    IF n > HOSTNAME_MAX_LENGTH THEN {}
    ELSE {hci_command_send("hostname", HCI.hostname,
              Args ++ PtrTo("name", 8) ++ LenOf("name", n) ++ Data("name", n), 9 + n - 1,
              HCI.hostname, 8)}

select(blocking) ==
    LET sets == Args ++ Num ++ PtrTo("read", 20) ++ PtrTo("write", 20)
                  ++ PtrTo("except", 20) ++ PtrTo("time", 20) ++ Num
                  ++ Data("read", 4) ++ Data("write", 4) ++ Data("except", 4)
    IN hci_command_send("select", HCI.select,
           IF blocking THEN sets ELSE sets ++ Data("time", 8), 44, HCI.select, 16)

setsockopt(optlen) ==
    hci_command_send("setsockopt", HCI.setsockopt,
        Args ++ Nums(3) ++ PtrTo("opt", 8) ++ LenOf("opt", optlen) ++ Data("opt", optlen),
        20 + optlen, HCI.setsockopt, 4)

getsockopt ==
    hci_command_send("getsockopt", HCI.getsockopt, Args ++ Nums(3), 12, HCI.getsockopt, 5)

simple_link_recv(op) == hci_command_send("recv", op, Args ++ Nums(3), 12, op, 12)

(* The address of sendto lies behind the data.                              *)
simple_link_send(op, n) ==
    IF op = HCI.send
    THEN hci_data_send("send", op,
             Args ++ Num ++ PtrTo("data", 12) ++ LenOf("data", n) ++ Num ++ Data("data", n),
             16, n, 0, HCI.evsend, 12)
    ELSE hci_data_send("send", op,
             Args ++ Num ++ PtrTo("data", 20) ++ LenOf("data", n) ++ Num
               ++ PtrTo("addr", n + 8) ++ LenOf("addr", 8) ++ Data("data", n)
               ++ Data("addr", 8),
             24, n, 8, HCI.evsendto, 12)

MDNS_DEVICE_SERVICE_MAX_LENGTH == 32
mdnsAdvertiser(n) ==
    IF n > MDNS_DEVICE_SERVICE_MAX_LENGTH THEN {}
    ELSE {hci_command_send("mdns", HCI.mdns,
              Args ++ Num ++ PtrTo("name", 8) ++ LenOf("name", n) ++ Data("name", n),
              12 + n, HCI.mdns, 1)}

-----------------------------------------------------------------------------
(* netapp.cpp and nvmem.cpp.                                                *)

netapp_dhcp ==
    hci_command_send("dhcp", HCI.dhcp,
        Args ++ Data("ip", 4) ++ Data("subnet", 4) ++ Data("gateway", 4) ++ Num
          ++ Data("dns", 4),
        20, HCI.dhcp, 1)
netapp_timeout_values ==
    hci_command_send("timers", HCI.timers, Args ++ Nums(4), 20, HCI.timers, 1)
netapp_ping_send ==
    hci_command_send("pingsend", HCI.pingsend, Args ++ Nums(4), 16, HCI.pingsend, 1)
netapp_ping_report == hci_command_send("pingreport", HCI.pingreport, Args, 0, HCI.pingreport, 1)
netapp_ping_stop == hci_command_send("pingstop", HCI.pingstop, Args, 0, HCI.pingstop, 1)
netapp_ipconfig == hci_command_send("ipconfig", HCI.ipconfig, Args, 0, HCI.ipconfig, 58)
netapp_arp_flush == hci_command_send("arpflush", HCI.arpflush, Args, 0, HCI.arpflush, 1)
netapp_set_debug_level ==
    hci_command_send("debuglevel", HCI.debuglevel, Args ++ Num, 4, HCI.debuglevel, 1)

nvmem_read == hci_command_send("nvread", HCI.nvread, Args ++ Nums(3), 12, HCI.nvread, 1)
nvmem_write(n) ==
    hci_data_command_send("nvwrite", HCI.nvwrite,
        Args ++ Num ++ PtrTo("data", 12) ++ LenOf("data", n) ++ Num ++ Data("data", n),
        16, n, HCI.evnvwrite, 4)
nvmem_read_sp_version == hci_command_send("version", HCI.version, Args, 0, HCI.version, 5)
nvmem_create_entry ==
    hci_command_send("nvcreate", HCI.nvcreate, Args ++ Nums(2), 8, HCI.nvcreate, 1)

-----------------------------------------------------------------------------
Fixed == {SimpleLink_Init_Start, ReadBufferSize, wlan_disconnect,
    wlan_ioctl_set_connection_policy, wlan_ioctl_del_profile, wlan_ioctl_get_scan_results,
    wlan_ioctl_set_scan_params, wlan_set_event_mask, wlan_ioctl_statusget,
    wlan_smart_config_start, wlan_smart_config_stop, wlan_smart_config_set_prefix,
    socket, closesocket, accept, listen, bind, connect, select(TRUE), select(FALSE),
    setsockopt(4), getsockopt, simple_link_recv(HCI.recv), simple_link_recv(HCI.recvfrom),
    netapp_dhcp, netapp_timeout_values, netapp_ping_send, netapp_ping_report,
    netapp_ping_stop, netapp_ipconfig, netapp_arp_flush, netapp_set_debug_level,
    nvmem_read, nvmem_read_sp_version, nvmem_create_entry}

Sends(p) ==
    /\ ~overrun
    /\ packet' = p
    /\ overrun' = (InBuffer(p) >= TxBufferSize)
Build(p) == Sends(p) /\ phoneKey' = NoKey /\ UNCHANGED firstChar
BuildProfile(sec, s, k) ==
    \E c \in FirstChars :
        Sends(wlan_smart_config_process(sec, s, k, c)) /\ phoneKey' = k /\ firstChar' = c

CallFixed == \E p \in Fixed : Build(p)
CallConnect == \E s \in SsidLengths, k \in KeyLengths : Build(wlan_connect(s, k))
CallProfile == \E s \in SsidLengths :
    \/ \E k \in WepKeyLengths : BuildProfile(1, s, k)
    \/ \E k \in KeyLengths, sec \in {0, 2, 3} : BuildProfile(sec, s, k)
CallHostname == \E n \in NameLengths : \E p \in gethostbyname(n) \cup mdnsAdvertiser(n) : Build(p)
CallSend == \E n \in DataLengths :
    \E p \in {simple_link_send(HCI.send, n), simple_link_send(HCI.sendto, n), nvmem_write(n)} :
        Build(p)

CommandInit == packet = ReadBufferSize /\ phoneKey = NoKey /\ firstChar = 65 /\ overrun = FALSE
CommandNext == CallFixed \/ CallConnect \/ CallProfile \/ CallHostname \/ CallSend
CommandSpec == CommandInit /\ [][CommandNext]_commandVars

-----------------------------------------------------------------------------
(* A pointer of a packet leads to the data it is for, and a length is that  *)
(* of the data, for every length of the data before it.                     *)
PointersHit ==
    \A f \in packet.fields :
        /\ f.kind = "ptr" => \A g \in packet.fields :
             g.kind = "data" /\ g.of = f.of => f.at + f.v = g.at
        /\ f.kind = "len" => \E g \in packet.fields :
             g.kind = "data" /\ g.of = f.of /\ g.w = f.v

(* The radio is told of the bytes that were written, no more and no fewer,  *)
(* but for four stale bytes of the timers and the timeout of a select that  *)
(* has none.                                                                *)
ToldIsWritten ==
    /\ packet.length = packet.header + packet.told
    /\ packet.told - packet.written =
         IF packet.name = "timers" THEN 4
         ELSE IF packet.name = "select"
                 /\ ~\E f \in packet.fields : f.kind = "data" /\ f.of = "time"
              THEN 8 ELSE 0

(* The event a function waits for is one the decoder knows, and what the    *)
(* decoder stores fits the variable the function has given it.              *)
AnswerDecoded ==
    /\ \E s \in Stored : s[1] = packet.awaits
    /\ \A s \in Stored : s[1] = packet.awaits => s[2] <= packet.result

(* The length of the key is found again, although two bytes have to tell    *)
(* the three ways apart in which the phone stores it: but for a key of 32   *)
(* that begins with the byte 31.                                            *)
KeyLengthIs(n) == \A f \in packet.fields : f.kind = "len" /\ f.of = "key" => f.v = n
Ambiguous == phoneKey = 32 /\ firstChar = 31
KeyRecovered == phoneKey # NoKey /\ ~Ambiguous => KeyLengthIs(phoneKey)

(* "the KEY is 32 bytes long. In this case, the first byte does not         *)
(* represent KEY length" (wlan.cpp:1168), whatever it is.                   *)
KeyAlwaysRecovered == phoneKey # NoKey => KeyLengthIs(phoneKey)

(* What the size of the buffer is derived from, "HCI header + SPI header +  *)
(* max args size": every command fits it.                                   *)
CommandsFit == ~overrun /\ OnTheWire(packet) < TxBufferSize

(* What holds of every command the library builds and of its answer.        *)
CommandsSound == PointersHit /\ ToldIsWritten /\ AnswerDecoded /\ CommandsFit /\ KeyRecovered

=============================================================================
