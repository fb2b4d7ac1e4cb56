--------------------------- MODULE MCDeviceControl ---------------------------
(* DeviceControl on small instances.                                       *)
EXTENDS DeviceControl, TLC

(* The networks of docs/HUAWEI.md, two names for each.                     *)
HomeBands == <<<<"SSID-1", "SSID1">>, <<"SSID-5", "SSID5">>>>

Symmetric == Permutations(Mac) \union Permutations(Callers) \union Permutations(Workers)
=============================================================================
