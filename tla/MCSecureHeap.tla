---------------------------- MODULE MCSecureHeap ----------------------------
(***************************************************************************)
(* An arena of eight units, so that blocks split and coalesce over three   *)
(* sizes.  One request for each size of block: of no bytes at all, of a    *)
(* whole block, of a part of one, of the whole arena and of more than it.  *)
(***************************************************************************)
EXTENDS SecureHeap

MCSizes == {0, 2, 3, ARENA, ARENA + 1}

=============================================================================
