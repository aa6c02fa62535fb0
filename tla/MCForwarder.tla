---------------------------- MODULE MCForwarder ----------------------------
(* Constants of the run of Forwarder.  The files are every sequence of up  *)
(* to two of the lines, which have the forms the loop tells apart, and,    *)
(* for every URL, a file that turns the relay on with it.                  *)
EXTENDS Forwarder

Strings  == STRING
Numerals == "1" :> 1 @@ "0" :> 0 @@ "5555" :> 5555 @@ "65535" :> 65535 @@ "70000" :> 70000
Lowers   == "Target_Port" :> "target_port" @@ "USE_RELAY" :> "use_relay" @@ "TRUE" :> "true"

Lines == {
  <<>>, <<"#", "log_level", "=", "0">>, <<"[", "relay", "]">>, <<"log_level">>,
  <<"target_port", " ", "=", " ", "65535">>, <<"Target_Port", "=", "70000", " ", ";", "0">>,
  <<"target_port", "=">>, <<" ", "log_level", "=", "0">>, <<"log_level", "=", "debug">>,
  <<"target_ip", "=", "host", " ">>, <<"USE_RELAY", " ", "=", "TRUE">>,
  <<"use_relay", "=", "0">>, <<"relay_verify_tls", "=", "yes">>,
  <<"use_relative_deltas", "=", "1">>, <<"relay_key", "=", "a", "=", "b">>, <<"port", "=", "1">>}

Urls ==
  [use_tls : BOOLEAN, host : {<<"host">>, <<":", ":", "1">>, <<"fe80", ":", ":", "1">>},
   port : {"", "65535"}, path : {<<>>, <<"/", "room", ":", "1", "/">>}]

\* Texts that no description yields.
Odd == {
  <<>>, <<"http://", "host">>, <<"host", ":", "1">>, <<"ws://">>, <<"ws://", ":", "1">>,
  <<"ws://", "[", ":", ":", "1">>, <<"wss://", "[", "]", ":", "1">>,
  <<"ws://", "host", ":">>, <<"wss://", "host", ":", "https">>, <<"ws://", ":", "https">>,
  <<"wss://", "[", ":", ":", "1", "]", ":", "/">>, <<"ws://", "host", ":", "70000">>,
  <<"ws://", "host", ":", " ", "1">>, <<"ws://", "host", ":", " ", "https">>}

Files ==
  {<<>>} \union {<<a>> : a \in Lines} \union {<<a, b>> : a \in Lines, b \in Lines}
  \union {<<<<"use_relay", "=", "1">>, <<"relay_url", " ", "=", " ">> \o u>> :
            u \in Odd \union {UrlText(d) : d \in Urls}}
=============================================================================
