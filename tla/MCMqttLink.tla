----------------------------- MODULE MCMqttLink ------------------------------
(***************************************************************************)
(* Instance of MqttLink with the filters of MQTTService.Connect: those for *)
(* status, event and telemetry messages bring in one topic each, that for  *)
(* the responses is none the broker knows; two calls and an asynchronous   *)
(* one.                                                                    *)
(***************************************************************************)
EXTENDS MqttLink

FilterOrder == <<"t/+/status", "t/+/event", "t/+/telemetry", "t/+response/+">>
Coverage == {<<"t/+/status", "t/d/status">>, <<"t/+/event", "t/d/event">>,
             <<"t/+/telemetry", "t/d/telemetry">>}
=============================================================================
