----------------------------- MODULE MCArchive ------------------------------
(* The archive with one daily and one monthly slice; the kline of the month  *)
(* has an odd price.                                                         *)
EXTENDS Archive

MCOdd == {<<2, 0>>}
=============================================================================
