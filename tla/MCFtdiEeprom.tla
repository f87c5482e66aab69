---------------------------- MODULE MCFtdiEeprom ----------------------------
(***************************************************************************)
(* FtdiEeprom with two chips whose EEPROMs differ.                         *)
(***************************************************************************)
EXTENDS FtdiEeprom

TwoSizes ==
    [t \in Families |-> [d \in Devices |->
        CASE t = H2232 -> IF d = "d1" THEN 46 ELSE 66
          [] t = BM -> IF d = "d1" THEN 0 ELSE 56
          [] OTHER -> 46]]
\* Lines for an AM, where the EEPROM is simple; the tables for all.
CallsByType ==
    [t \in Families |->
        CASE t = AM -> 4 [] t = H2232 -> 7 [] t = X230 -> 6 [] t \in {BM, R} -> 5 [] OTHER -> 1]
SomeStrings == {[name |-> "own", chars |-> 10]}
SomeValues == {<<"chip", 102>>, <<"max_power", 256>>}
SomeLineCalls ==
    [name : {"set_line_property2"}, bits : {8}, parity : {4}, sbit : {2}, break : {1}]
    \cup [name : {"setflowctrl"}, flowctrl : {256}]
    \cup [name : {"setflowctrl_xonxoff"}, xon : {17}, xoff : {147}]
    \cup [name : {"setdtr", "setrts"}, state : {1}] \cup [name : {"setdtr_rts"}, dtr : {0}, rts : {1}]
    \cup [name : {"set_event_char", "set_error_char"}, ch : {255}, enable : {1}]
    \cup [name : {"set_latency_timer"}, latency : {1}]
=============================================================================
