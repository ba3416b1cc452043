------------------------- MODULE MCGenesisMigration -------------------------
(***************************************************************************)
(* Migration and append over a private registry of two events with two     *)
(* anchors; the private repository may also hold a shorter registry or one *)
(* that has grown since the last anchor.                                   *)
(***************************************************************************)
EXTENDS GenesisMigration

CONSTANTS c1, c2, c3, k1

Chain(c) == [f \in IdentityFields |-> CASE c = c1 -> "v1" [] c = c2 -> "v2" [] OTHER -> "v3"]

AssignTo(c) ==
  [eventType |-> "assign", caseId |-> c, corpusId |-> k1,
   payload |-> [split |-> "tuning", custodyMode |-> "operator-attested",
                identity |-> Chain(c), instrument |-> c, family |-> c]]

Import ==
  [eventType |-> "legacy-quarantine", caseId |-> None, corpusId |-> None,
   payload |->
     [records |-> {[caseId |-> None,
                    identity |-> [f \in IdentityFields \cup TruthFields |->
                                    IF f = "source" THEN "v0" ELSE None]]}]]

Private == <<Stamp(<<>>, Import, 0), Stamp(<<>>, AssignTo(c1), 0)>>

MCGenesis == Private

MCAnchors ==
  <<[root |-> SubSeq(Private, 1, 1), kind |-> "legacy-quarantine"],
    [root |-> Private, kind |-> "assign"]>>

MCPrivateRegistries ==
  {SubSeq(Private, 1, 1), Private, Append(Private, Stamp(Private, AssignTo(c3), 0))}

MCRequests == {AssignTo(c2)}

=============================================================================
