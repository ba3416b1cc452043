--------------------------- MODULE MCReviewAttempts ---------------------------
(***************************************************************************)
(* One request in several attempts of one run.  The spellings of           *)
(* MCRefusalReview are read as they are meant: the hypothesis under which  *)
(* RefusalReviewProofs proves what a sealed review says.                   *)
(***************************************************************************)
EXTENDS MCRefusalReview

ASSUME SpelledAssumption == ReadAsMeant(Spelled)

=============================================================================
