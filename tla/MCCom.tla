------------------------------- MODULE MCCom -------------------------------
(***************************************************************************)
(* Instance of Com for TLC: an image whose packages get longer and one     *)
(* whose packages get shorter.                                             *)
(***************************************************************************)
EXTENDS Com

MCImages == {<<1, 2>>, <<2, 1>>}
MCPartition == {1}
MCIndex == {1, 3}

=============================================================================
