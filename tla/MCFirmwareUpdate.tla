--------------------------- MODULE MCFirmwareUpdate ----------------------------
(* The firmware update with two images of the compatibility table, one for *)
(* each bootloader, and one the table does not know.                       *)
EXTENDS FirmwareUpdate, TLC

MCVersions == {0, 103, 104, 105}
MCRequirements == 103 :> BL2100 @@ 104 :> BL2101

=============================================================================
