---------------------------- MODULE MCListPaging ----------------------------
(***************************************************************************)
(* ListPaging with a list of up to five rows, pages of one to three and    *)
(* int32 replaced by -4 .. 3: a walk may pass the largest offset there is.   *)
(***************************************************************************)
EXTENDS ListPaging

MCLimits  == {-1, 0, 1, 2, 3}
MCOffsets == {-4, -1, 0, 1, 3}
=============================================================================
