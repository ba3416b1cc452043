------------------------------ MODULE Evaluation ------------------------------
(***************************************************************************)
(* What an official evaluation promises of each campaign of a corpus: its  *)
(* cohort is consumed, its execution sealed, its truth unveiled and its    *)
(* evidence returned, in this order, each at most once.  A campaign may    *)
(* stop anywhere for good.                                                 *)
(***************************************************************************)
CONSTANT Units  \* campaigns of corpora

VARIABLES consumed, sealed, unveiled, returned

vars == <<consumed, sealed, unveiled, returned>>

Init == consumed = {} /\ sealed = {} /\ unveiled = {} /\ returned = {}

Consume(u) ==
  /\ u \notin consumed
  /\ consumed' = consumed \cup {u}
  /\ UNCHANGED <<sealed, unveiled, returned>>

Seal(u) ==
  /\ u \in consumed \ sealed
  /\ sealed' = sealed \cup {u}
  /\ UNCHANGED <<consumed, unveiled, returned>>

Unveil(u) ==
  /\ u \in sealed \ unveiled
  /\ unveiled' = unveiled \cup {u}
  /\ UNCHANGED <<consumed, sealed, returned>>

Return(u) ==
  /\ u \in unveiled \ returned
  /\ returned' = returned \cup {u}
  /\ UNCHANGED <<consumed, sealed, unveiled>>

Next == \E u \in Units : Consume(u) \/ Seal(u) \/ Unveil(u) \/ Return(u)

Spec == Init /\ [][Next]_vars

=============================================================================
