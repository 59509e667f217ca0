------------------------------- MODULE MCStation -------------------------------
(* Model-checking instance of Station, with the fairness of the board, the   *)
(* radio and the network.                                                    *)
EXTENDS Station

(* The network and the radio answer, though no line ever has to drop and a   *)
(* lease may fail at first, the sketch and the methods it calls go on, and   *)
(* the commands that the code repeats until they succeed succeed one day.    *)
StationFairness ==
    /\ WF_stationVars(Associate) /\ SF_stationVars(Lease) /\ WF_stationVars(SmartConfigDone)
    /\ WF_stationVars(CC3000_UsynchCallback)
    /\ WF_stationVars(Method) /\ WF_stationVars(Sketch)
    /\ \A c \in {"policy(0,0,0)", "connect", "socket"} :
          SF_stationVars(CommandSucceeds /\ Current.arg = c)
    /\ SF_stationVars(ConnectSucceeds)

StationFairSpec == StationSpec /\ StationFairness
================================================================================
