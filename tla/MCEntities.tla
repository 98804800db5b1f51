------------------------------ MODULE MCEntities ------------------------------
(* Three products of the catalog as it ships, the product it does not      *)
(* describe, and the definitions, fault groups and gate they use.          *)
EXTENDS Entities

Setting(reg, options) == [reg |-> reg, options |-> options, packed |-> FALSE]
State(id, bit, parent, control, name) ==
  [id |-> id, bit |-> bit, parent |-> parent, control |-> control, name |-> name]

DCInput   == Setting(15, <<0, 1>>)
USBStand  == Setting(59, <<0, 3, 5, 10, 30>>)
ACStand   == Setting(60, <<0, 8, 16, 24>>)
DCStand   == Setting(61, <<0, 8, 16, 24>>)
Unused    == Setting(68, <<5, 10, 30, 480>>)
Screen    == Setting(62, <<3, 5, 10, 30>>)
ACPower   == Setting(13, <<1000, 1500, 2000, 2500, 3000>>)

USB   == State("usb", 25, None, 24, <<"usb", "output">>)
QC    == <<State("qc1", 3, "usb", None, <<"qc3.0">>), State("qc2", 4, "usb", None, <<"qc3.0">>)>>
PD20  == <<State("pd1", 7, "usb", None, <<"pd", "20w">>), State("pd2", 8, "usb", None, <<"pd", "20w">>),
           State("pd3", 9, "usb", None, <<"pd", "20w">>)>>
AC    == State("ac", 27, None, 26, <<"ac", "output">>)
ACone == State("ac1", 18, "ac", None, <<"ac">>)
AC30A == State("ac2", 18, "ac", None, <<"ac", "30a">>)
AC240 == State("ac3", 18, "ac", None, <<"ac240v">>)
DC    == State("dc", 26, None, 25, <<"dc", "output">>)
Ports == <<State("car", 14, "dc", None, <<"car", "charging">>), State("xt", 13, "dc", None, <<"xt60">>),
           State("dc1", 15, "dc", None, <<"dc">>)>>
LED   == State("led", 28, None, 27, <<"led", "light">>)
Modes == <<State("on", 1, "led", None, <<"always", "on">>), State("sos", 2, "led", None, <<"sos", "mode">>),
           State("fl", 3, "led", None, <<"flash", "mode">>)>>

MCProducts == {"POWER-0504", "POWER-004E", "POWER-058A", "unknown"}
MCSettingsOf == [p \in MCProducts |->
  CASE p = "POWER-0504" -> <<DCInput, USBStand, ACStand, DCStand, Unused, Screen>>
    [] p = "POWER-004E" -> <<ACPower, ACStand, Screen>>
    [] p = "POWER-058A" -> <<ACStand, Unused, Screen, ACPower>>
    [] p = "unknown"    -> <<>>]
MCStatesOf == [p \in MCProducts |->
  CASE p = "POWER-0504" -> <<USB>> \o QC \o <<AC, ACone, DC, Ports[1], LED>> \o Modes
    [] p = "POWER-004E" -> <<USB>> \o QC \o PD20 \o <<DC>> \o Ports \o <<AC, ACone, AC30A, LED>> \o Modes
    [] p = "POWER-058A" -> <<AC, AC240>>
    [] p = "unknown"    -> <<>>]
MCNumerals == <<"1", "2", "3", "4", "5", "6", "7", "8", "9", "10", "11", "12", "13", "14", "15",
                "16", "17", "18", "19", "20">>
MCGates == {[product |-> "POWER-0504", version |-> 17]}

Panel == [registers |-> <<50, 51>>, named |-> {0, 1, 2, 3, 4, 7, 16, 17, 18, 20, 21}]
AFE   == [registers |-> <<47>>, named |-> {1, 2, 3, 4, 5, 8, 9, 10, 11}]
User  == [registers |-> <<48>>, named |-> 0 .. 5]
MCFaultGroups == {Panel, AFE, User}

\* Each bit by itself, and ports with their outputs.
MCLitSets == {{}, {0, 31}, {25, 3, 8}, {26, 14, 15}, {27, 18}, {28, 1}, {28, 2, 27}, {11}, {12}}
\* Bit 19 of the panel's group has no message; 0 and 16 are the same bit of its two registers.
MCFaultSets == {{}, {<<Panel, 0>>}, {<<Panel, 16>>}, {<<Panel, 19>>}, {<<AFE, 1>>}, {<<User, 5>>}}

Span(start, values) == [start |-> start, values |-> values]
MCSpans == {Span(26, <<>>), Span(26, <<1, 3>>), Span(27, <<3, 1>>), Span(61, <<480, 600, 90, 1>>),
            Span(61, <<480, 90>>), Span(68, <<600>>), Span(17, <<20>>)}
\* Off and on the limits, and a tie.
MCThresholds == {0, 995, 1000, 1004, 1005, 5000, 5001, 10000, 10001}
MCCurrents == {5, 10, 15, 200, 1000, 1500}
MCDelays == {29, 31, 90, 86429, 86431}
\* 1.7, 2.9, and 1.7 with a high byte.
MCPanelVersions == {17, 29, 273}
===============================================================================
