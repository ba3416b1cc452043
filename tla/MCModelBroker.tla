--------------------------- MODULE MCModelBroker ---------------------------
(* Three calls over two response paths, one of them malformed. *)
EXTENDS ModelBroker

CONSTANTS a, b, bad

MCMalformed == {bad}
=============================================================================
