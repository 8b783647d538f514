---------------------------- MODULE MCInterning ----------------------------
(* Words of three base-4 digits: below and above both limits, 0, masks (digits *)
(* 0, 1 and 3 only), jump destinations, and one that is a destination but for  *)
(* the digit above the limit.                                                  *)
EXTENDS Interning

MCWords == {0, 2, 3, 5, 6, 9, 18, 25, 26}

MCJumpdests == {2, 9}
=============================================================================
