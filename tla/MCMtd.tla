-------------------------------- MODULE MCMtd ---------------------------------
(***************************************************************************)
(* Small flash devices and images for TLC.                                 *)
(***************************************************************************)
EXTENDS Mtd

AllOptions == [no_erase : BOOLEAN, part_offset : {0, 1}, jffs2 : BOOLEAN,
               erase : BOOLEAN, recover : BOOLEAN]

\* A NAND partition, the configuration in the middle of the image.
OnePartition ==
  [sizes |-> <<7>>, image |-> 5, eof |-> 2, conf |-> 2, nand |-> TRUE,
   seama |-> TRUE, bad |-> 2, worn |-> 1]

\* Two partitions, without and with bad blocks.
TwoPartitions(nand) ==
  [sizes |-> <<2, 4>>, image |-> 5, eof |-> 4, conf |-> 2, nand |-> nand,
   seama |-> FALSE, bad |-> 1, worn |-> 1]

MCJobs == {OnePartition, TwoPartitions(FALSE), TwoPartitions(TRUE)}
=============================================================================
