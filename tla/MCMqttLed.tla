------------------------------ MODULE MCMqttLed -------------------------------
(* Small instances of the MQTT LED controller.                             *)
EXTENDS MqttLed
===============================================================================
