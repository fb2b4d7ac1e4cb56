---------------------------- MODULE MCDeviceList ----------------------------
(* DeviceList on a small instance.                                         *)
EXTENDS DeviceList
=============================================================================
