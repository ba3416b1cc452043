------------------------- MODULE MCWrittenIdentifier -------------------------
(***************************************************************************)
(* Some numbers, numerals and names that are easily taken for one another. *)
(***************************************************************************)
EXTENDS WrittenIdentifier

MCNumberWord ==
  ("ZERO" :> 0) @@ ("ONE" :> 1) @@ ("TWO" :> 2)

MCTensWord == ("TWENTY" :> 20)

MCRoman == ("C" :> 100) @@ ("II" :> 2) @@ ("XXII" :> 22)

MCDigits ==
  ("0" :> "0") @@ ("1" :> "1") @@ ("2" :> "2") @@ ("02" :> "2")
    @@ ("20" :> "20") @@ ("020" :> "20") @@ ("22" :> "22") @@ ("100" :> "100")

NoWord == [w \in {} |-> w]

NorthAndLotus == (<<"NORTH", "NO">> :> "RTH") @@ (<<"LOTUS", "LOT">> :> "US")

=============================================================================
