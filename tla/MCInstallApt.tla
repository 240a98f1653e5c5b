---------------------------- MODULE MCInstallApt ----------------------------
(* A disk of 12 sectors whose free area starts at sector 2 and ends at a   *)
(* partition: images that fit exactly, fit, do not fit; disks with and     *)
(* without an earlier installation, without a partition table, and with    *)
(* unused entries in it. A count of sectors wraps at 12: the image of 9    *)
(* sectors needs none then and the one of 14 needs 5, so that both pass    *)
(* the check and run into the partitions and the end of the disk.          *)
EXTENDS InstallApt

Disk(mbrSector, old) ==
  [s \in 0..11 |-> IF s = 0 THEN mbrSector
                   ELSE IF old /\ s = 3 THEN [osRecord |-> 7]
                   ELSE IF old /\ s = 4 THEN OsLogo
                   ELSE [old |-> s]]

Partitions ==
  {Partition(1, 10, 2), Partition(1, 8, 2), Partition(0, 1, 4),
   Partition(1, 3, 0)}

Fresh == {Disk(MbrSector(TRUE, Partitions, 0), FALSE)}

Installed == {Disk(MbrSector(TRUE, Partitions, 6), TRUE)}

Invalid == {Disk(MbrSector(FALSE, {}, 0), FALSE),
            Disk(MbrSector(TRUE, {Partition(1, 2, 4)}, 0), FALSE),
            Disk(MbrSector(TRUE, {}, 0), FALSE)}

All == Fresh \union Installed \union Invalid
=============================================================================
