--------------------------- MODULE MCDeviceRuntime ---------------------------
(* Small instances of DeviceRuntime. *)
EXTENDS DeviceRuntime
=============================================================================
