--------------------------- MODULE MCDeviceRegistry ---------------------------
(* DeviceRegistry as it is: its constants are small sets of model values.     *)
EXTENDS DeviceRegistry
=============================================================================
