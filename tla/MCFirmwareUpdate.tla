-------------------------- MODULE MCFirmwareUpdate --------------------------
(* TLC instances of FirmwareUpdate: a sector of 4 units and a partition of  *)
(* 2 sectors, so that an upload buffer is half a sector as in the code.     *)
EXTENDS FirmwareUpdate

Firmware(lengths) == [len : lengths, firmware : {TRUE}]
NotFirmware(lengths)   == [len : lengths, firmware : {FALSE}]

(* Firmwares up to the size of a partition and one unit too long, and a     *)
(* file of more than a sector that is not a firmware.                      *)
GoodFiles == Firmware({1, 4, 5, 8, 9}) \cup NotFirmware({5})

(* A short file that is not a firmware is only looked at by end().          *)
ShortFiles == Firmware({5}) \cup NotFirmware({1})

(* Both, and an empty file.                                                 *)
AllFiles == Firmware({0, 4, 5, 8, 9}) \cup NotFirmware({1, 5})

=============================================================================
