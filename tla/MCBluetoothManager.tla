------------------------- MODULE MCBluetoothManager -------------------------
(* Constants of the Bluetooth manager for TLC. *)
EXTENDS BluetoothManager
CONSTANT c1
=============================================================================
