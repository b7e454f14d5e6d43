----------------------------- MODULE MCOtaData -----------------------------
(* OtaData with blocks of 4 bytes (two words), sectors of 8 and a bank of  *)
(* 16: images end inside a word, at a word, at a block and at a sector, or *)
(* fill the bank; one is smaller than a block, and one does not fit.       *)
EXTENDS OtaData

MCTotals == {3, 4, 7, 8, 10, 11, 13, 15, 16, 17}
=============================================================================
