---------------------------- MODULE MCDevMailbox ----------------------------
(***************************************************************************)
(* Values for the constants of DevMailbox.  Unit 0 of the staging area     *)
(* shares the sector of the header (1 unit of header, 2 units a sector), a  *)
(* packet carries 2 units, and the len field counts modulo 4.              *)
(***************************************************************************)
EXTENDS DevMailboxInv

\* tiny fits one sector, small needs two sector reads, junk is no ELF file,
\* big is above the payload limit, and empty is a file without a byte, which
\* ELF_COMMIT refuses as well
MCSizeOf == [i \in Image |->
    CASE i = "tiny"  -> 1
      [] i = "small" -> 2
      [] i = "junk"  -> 1
      [] i = "big"   -> 3
      [] i = "empty" -> 0]

MCLoadable == Image \ {"junk", "empty"}
=============================================================================
