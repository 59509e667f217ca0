-------------------------------- MODULE Clock --------------------------------
(***************************************************************************)
(* The network clock of the CC3000 library (utility/sntp.cpp): time stamps *)
(* in fixed point, the clock of the board, and UpdateNTPTime, which asks   *)
(* server after server for the time and moves the clock by what            *)
(* SNTP_GetTime computes from the four stamps of an exchange.              *)
(*                                                                         *)
(* The seconds of a stamp are an unsigned number and the fraction of a     *)
(* second is a signed one, which wraps as the compiler lets it.            *)
(***************************************************************************)
EXTENDS Integers, Sequences, FiniteSets

CONSTANTS
    Seconds,                \* the seconds a stamp can hold, 2^32 in the source
    Ticks,                  \* ticks of the board's clock in a second, 1024
    UnitsPerTick,           \* 2^22 of the 2^32 units of a second
    Starts,                 \* the servers' time, in units, when the board starts
    MaxTicks,               \* bound: ticks that pass
    MaxUpdates,             \* bound: calls of UpdateNTPTime
    MaxInFlight             \* bound: requests and answers on their way

ASSUME ClockAssumption ==
    /\ {Seconds, Ticks, UnitsPerTick} \subseteq Nat \ {0}
    /\ Seconds % 2 = 0 /\ Ticks % 2 = 0 /\ UnitsPerTick > 1
    /\ Starts \subseteq Nat
    /\ {MaxTicks, MaxUpdates, MaxInFlight} \subseteq Nat

VARIABLES
    tick,           \* millis(), in ticks
    start,          \* the servers' time at tick 0
    made,           \* which constructor made the sntp object
    resolved,       \* the names DNS knows
    alive,          \* the servers that answer
    ref,            \* m_NTPReferenceTime
    isSet,          \* m_timeIsSet
    at,             \* where UpdateNTPTime is
    pool,           \* which list it uses
    updates,        \* calls of UpdateNTPTime so far
    setBy,          \* history: what set the reference last
    requests,       \* on their way to a server: the stamps in them
    replies         \* on their way back

world == <<start, made, resolved, alive>>
clockVars == <<tick, world, ref, isSet, at, pool, updates, setBy, requests, replies>>

-----------------------------------------------------------------------------
(* Time stamps.                                                             *)

Units == Ticks * UnitsPerTick
Sec(n) == n % Seconds
Frac(n) == ((n + Units \div 2) % Units) - Units \div 2
Stamp(s, f) == [seconds |-> Sec(s), fraction |-> Frac(f)]
Half(n) == n \div 2
Bit(b) == IF b THEN 1 ELSE 0

(* The low bit of the seconds becomes the top bit of the fraction, which    *)
(* the shift of a signed number has filled with its sign.                   *)
NTPdiv2(t) ==
    [seconds |-> Half(t.seconds),
     fraction |-> IF t.seconds % 2 = 1 /\ t.fraction >= 0 THEN Half(t.fraction) - Units \div 2
                  ELSE Half(t.fraction)]

(* Carry and borrow are the sign of the sum and difference of the halves.   *)
AddNTPtime(t1, t2) ==
    Stamp(t2.seconds + t1.seconds + Bit(Half(t2.fraction) + Half(t1.fraction) < 0),
          t2.fraction + t1.fraction)

DiffNTPtime_swapped(t1, t2) ==
    Stamp(t1.seconds - t2.seconds - Bit(Half(t1.fraction) - Half(t2.fraction) < 0),
          t1.fraction - t2.fraction)

DiffNTPtime(t1, t2) ==
    Stamp(t2.seconds - t1.seconds - Bit(Half(t2.fraction) - Half(t1.fraction) < 0),
          t2.fraction - t1.fraction)

(* millis() is read twice; when a second ends between the two, the fraction *)
(* is 1024 of 1024 parts of the old second, which is 0.                     *)
GetSystemClockAsNTPTime ==
    {Stamp(tick \div Ticks, (tick % Ticks) * UnitsPerTick)}
    \cup {Stamp(tick \div Ticks, 0) : x \in {y \in {tick} : y % Ticks = Ticks - 1}}

NTPGetTime == {AddNTPtime(now, ref) : now \in GetSystemClockAsNTPTime}

(* What a server's clock shows, and how far a stamp is from it.             *)
ServerTime == LET n == start + tick * UnitsPerTick IN Stamp(n \div Units, n)
InUnits(t) == t.seconds * Units + (t.fraction % Units)
Range64 == Seconds * Units
Centred(n) == ((n + Range64 \div 2) % Range64) - Range64 \div 2
Apart(t1, t2) == Centred(InUnits(t1) - InUnits(t2))

-----------------------------------------------------------------------------
(* The lists of an object in static storage.  The constructor with two      *)
(* names and two offsets makes a second object where it means to initialise *)
(* this one, so it leaves the pools and the reference at zero; the shorter  *)
(* ones do all their work on a second object.  The array of the names has   *)
(* room for two and no NULL behind them: the list goes on with the texts of *)
(* the names, their bytes taken for pointers, up to the zeros of a text.    *)

User == CASE made = "default" -> <<>> [] made = "short" -> <<>>
          [] made = "name" -> <<"u1">> [] made = "names" -> <<"u1", "u2", "bytes">>
Local == IF made = "default" THEN <<"p1", "p2">> ELSE <<>>
Global == IF made = "default" THEN <<"g1">> ELSE <<>>
List(p) == CASE p = "user" -> User [] p = "local" -> Local [] p = "global" -> Global

(* GetNTPServerList: the first name of the list that resolves.              *)
Resolvable(p) == {i \in 1 .. Len(List(p)) : List(p)[i] \in resolved}
FirstServer(p) == List(p)[CHOOSE i \in Resolvable(p) : \A j \in Resolvable(p) : i <= j]

(* The list after one that gave no time; after the last one the outer loop  *)
(* begins again.                                                            *)

NextPool(p) ==
    IF p = "user" /\ Local # <<>> THEN "local"
    ELSE IF p # "global" /\ Global # <<>> THEN "global"
    ELSE "user"

ClockInit ==
    /\ tick = 0 /\ start \in Starts
    /\ made \in {"default", "name", "names", "short"}
    /\ resolved \in {{"u1", "p1", "p2", "g1"}, {"u2", "p2", "g1"}, {"bytes"}}
    /\ alive \in {resolved, resolved \cap {"g1"}, resolved \cap {"p2"}}
    /\ ref = Stamp(IF made = "default" THEN Seconds \div 2 ELSE 0, 0)
    /\ isSet = FALSE /\ at = "idle" /\ pool = "user"
    /\ updates = 0 /\ setBy = "boot" /\ requests = {} /\ replies = {}

Tick ==
    /\ tick < MaxTicks /\ tick' = tick + 1
    /\ UNCHANGED <<world, ref, isSet, at, pool, updates, setBy, requests, replies>>

(* The sketch sets the clock by hand.                                       *)
NTPSetTime ==
    /\ at = "idle"
    /\ \E now \in GetSystemClockAsNTPTime : ref' = DiffNTPtime(now, ServerTime)
    /\ isSet' = TRUE /\ setBy' = "hand"
    /\ UNCHANGED <<tick, world, at, pool, updates, requests, replies>>

(* A socket is opened and bound, at one random port after another, and the  *)
(* time counts as not set.                                                  *)
UpdateNTPTime ==
    /\ at = "idle" /\ updates < MaxUpdates
    /\ at' = "list" /\ pool' = "user" /\ isSet' = FALSE /\ updates' = updates + 1
    /\ UNCHANGED <<tick, world, ref, setBy, requests, replies>>

(* The list has no server that resolves.                                    *)
GetNTPServerList ==
    /\ at = "list" /\ Resolvable(pool) = {}
    /\ pool' = NextPool(pool)
    /\ UNCHANGED <<tick, world, ref, isSet, at, updates, setBy, requests, replies>>

(* The request is sent; a server that is not alive never sees it.           *)
SendRequest ==
    /\ at = "list" /\ Resolvable(pool) # {}
    /\ \E origin \in NTPGetTime :
          requests' = IF /\ FirstServer(pool) \in alive
                         /\ Cardinality(requests \cup replies) < MaxInFlight
                      THEN requests \cup {[origin |-> origin]} ELSE requests
    /\ at' = "await"
    /\ UNCHANGED <<tick, world, ref, isSet, pool, updates, setBy, replies>>

(* External: a server answers.                                              *)
Answer ==
    \E r \in requests :
        /\ requests' = requests \ {r}
        /\ replies' = replies \cup {[origin |-> r.origin, receive |-> ServerTime, transmit |-> ServerTime]}
        /\ UNCHANGED <<tick, world, ref, isSet, at, pool, updates, setBy>>

(* recvfrom gives up: the request is still on its way, or its answer.       *)
NoAnswer ==
    /\ at = "await"
    /\ at' = "list" /\ pool' = NextPool(pool)
    /\ UNCHANGED <<tick, world, ref, isSet, updates, setBy, requests, replies>>

(* The correction: ((receive - origin) + (transmit - destination)) / 2, in  *)
(* halves.  The answer is any that arrives: nothing is compared with the    *)
(* request.  The socket is closed.                                          *)
Correction(m, destination) ==
    AddNTPtime(NTPdiv2(DiffNTPtime(m.origin, m.receive)),
               NTPdiv2(DiffNTPtime(destination, m.transmit)))
SNTP_GetTime_replace(m, destination) == Correction(m, destination)

SNTP_GetTime(m, destination) == AddNTPtime(Correction(m, destination), ref)
Reply ==
    /\ at = "await"
    /\ \E m \in replies, destination \in NTPGetTime : ref' = SNTP_GetTime(m, destination)
    /\ isSet' = TRUE /\ setBy' = "server" /\ at' = "idle"
    /\ requests' = {} /\ replies' = {}
    /\ UNCHANGED <<tick, world, pool, updates>>

ClockNext ==
    \/ Tick \/ NTPSetTime \/ UpdateNTPTime \/ GetNTPServerList \/ SendRequest
    \/ Answer \/ NoAnswer \/ Reply

ClockSpec == ClockInit /\ [][ClockNext]_clockVars

-----------------------------------------------------------------------------
(* Properties.                                                              *)

Abs(n) == IF n < 0 THEN -n ELSE n
Errors == {Abs(Apart(t, ServerTime)) : t \in NTPGetTime}

(* A clock set by hand is read within two seconds of the true time, at any  *)
(* later moment: carry and borrow are wrong for fractions of a half second  *)
(* and above, and millis() is read twice, but not more than that.           *)
HandSetHolds == setBy = "hand" => \A e \in Errors : e <= 2 * Units

(* An exchange moves the clock to within half the delay of the answer and   *)
(* five seconds (NTPdiv2 and sums with a wrong carry each, and readings of  *)
(* the board's clock that are a second late), if both differences have the  *)
(* same sign.                                                               *)
Negative(t) == t.seconds >= Seconds \div 2
SameSide(m, destination) ==
    Negative(DiffNTPtime(m.origin, m.receive)) = Negative(DiffNTPtime(destination, m.transmit))
Close(m, destination) ==
    \A e \in Errors' : e <= Half(Abs(Apart(destination, m.origin))) + 5 * Units
UpdateSetsClock ==
    [][\A m \in replies, d \in NTPGetTime :
          Reply /\ ref' = SNTP_GetTime(m, d) /\ SameSide(m, d) => Close(m, d)]_clockVars

(* The same whatever the signs: "performs a signed divide" (sntp.cpp:100).  *)
UpdateSetsClockAlways ==
    [][\A m \in replies, d \in NTPGetTime :
          Reply /\ ref' = SNTP_GetTime(m, d) => Close(m, d)]_clockVars

(* UpdateNTPTime comes back when the first server of some list is alive.    *)
Heard == \E p \in {"user", "local", "global"} : Resolvable(p) # {} /\ FirstServer(p) \in alive
UpdateEnds == (at # "idle" /\ Heard) ~> (at = "idle")

(* "stay here until we either get a time, or run out of servers"            *)
(* (sntp.cpp:555).                                                          *)
RunsOutOfServers == (at # "idle") ~> (at = "idle")

(* However the clock was set, by hand or by an update, it was set well.      *)
ClockSound == []HandSetHolds /\ UpdateSetsClock

=============================================================================
