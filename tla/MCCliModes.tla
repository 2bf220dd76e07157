----------------------------- MODULE MCCliModes -----------------------------
(* Model-checking instances of CliModes.                                    *)
EXTENDS CliModes, TLC

MCAbbreviations ==
  "conf" :> {"configure"} @@ "t" :> {"terminal", "test"} @@ "int" :> {"interface"} @@
  "sh" :> {"show", "shutdown"} @@ "sw" :> {"switchport"} @@ "re" :> {"reload"}

MCPortsOf == "gi1" :> {1} @@ "gi2-3" :> {2, 3} @@ "gi9" :> {9}

MCNumberOf == "10" :> 10 @@ "20" :> 20 @@ "4095" :> 4095

MCLines ==
  {<<"conf", "t">>, <<"int", "gi1">>, <<"interface", "range", "gi2-3">>, <<"int", "gi9">>,
   <<"vlan", "10">>, <<"vlan", "20">>, <<"vlan", "4095">>, <<"name", "lab">>,
   <<"sw", "access">>, <<"no", "shutdown">>, <<"no", "vlan", "10">>, <<"no", "led">>,
   <<"hostname", "lab">>, <<"led">>, <<"qos", "mode">>, <<"qos", "pri">>,
   <<"exit">>, <<"end">>, <<"quit">>, <<"sh", "int", "br">>, <<"clear", "counters">>,
   <<"re">>, <<"write">>, <<"do", "show">>, <<"do", "conf">>, <<"do", "do", "end">>,
   <<"do", "int", "gi1">>, <<"do", "no", "led">>, <<"do", "exit">>, <<"do", "clear">>,
   <<"do">>, <<"no">>, <<"help">>}

\* The words of these lines meet the condition of ScriptHitsTarget.
ASSUME WordsApart == NamesApart
=============================================================================
