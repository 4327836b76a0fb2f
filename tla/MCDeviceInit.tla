---------------------------- MODULE MCDeviceInit ----------------------------
(* DeviceInit for TLC: the instances are in DeviceInit_*.cfg. *)
EXTENDS DeviceInit

=============================================================================
