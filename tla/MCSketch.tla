------------------------------- MODULE MCSketch --------------------------------
(* Model-checking instance of the parts the sketch is made of: the jump      *)
(* table, the framing of blocks, the configuration in the EEPROM, the list   *)
(* of keywords, the JSON parser and the symbol table.  Interpreter joins the *)
(* first with the rest of the command loop; here each runs freely and alone, *)
(* and the initial state chooses which.                                      *)
(*                                                                           *)
(* The host sets -2, which is 254 in a byte and itself in an int; "value" is *)
(* the name of a symbol and of a field, "a" that of a symbol alone.          *)
EXTENDS JumpTable, Framing, ConfigProm, LinkedList, JsonTokens, SymbolTable

MCLongs == {-2}
MCImageLists == {<<-2>>, <<-2, 255>>}

VARIABLE which      \* the part this behaviour is about

sketchVars == <<tableVars, framingVars, configVars, listVars, jsonVars, symbolVars, which>>

SketchInit ==
    /\ which \in {"jumps", "framing", "config", "list", "json", "symbols"}
    /\ TableInit /\ FramingInit /\ ConfigInit /\ ListInit /\ JsonInit /\ SymbolInit
    /\ which # "framing" => commInterface = "WIFI"

SketchNext ==
    /\ UNCHANGED which
    /\ IF which = "jumps" THEN TableNext ELSE UNCHANGED tableVars
    /\ IF which = "framing" THEN FramingNext ELSE UNCHANGED framingVars
    /\ IF which = "config" THEN ConfigNext ELSE UNCHANGED configVars
    /\ IF which = "list" THEN ListNext ELSE UNCHANGED listVars
    /\ IF which = "json" THEN JsonNext ELSE UNCHANGED jsonVars
    /\ IF which = "symbols" THEN SymbolNext ELSE UNCHANGED symbolVars

(* The board runs on, the host reads what arrives, and the radio reports the *)
(* end of a connection (TCP_CLOSE_WAIT), which connected() sees in the end.  *)
FramingFairness ==
    /\ WF_framingVars(which = "framing" /\ Board)
    /\ WF_framingVars(which = "framing" /\ Disconnected)
    /\ WF_framingVars(which = "framing" /\ HostReads)

SketchSpec == SketchInit /\ [][SketchNext]_sketchVars /\ FramingFairness
================================================================================
