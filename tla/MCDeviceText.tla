---------------------------- MODULE MCDeviceText ----------------------------
(* The instance of DeviceText for TLC. *)
EXTENDS DeviceText

\* IPC_PRIVATE, keys as wide as the line allows, one and two characters wider,
\* the widest, and a negative one that is a multiple of 512, with which
\* hash_function gives tag 0.
ShortAndLongKeys == {-1, 7, 999, 1000, 12345, 1234567890, -1073741824}
\* %d prints a user id above INT_MAX as a negative number.
SomeEuids        == {0, 1000, -2}
=============================================================================
