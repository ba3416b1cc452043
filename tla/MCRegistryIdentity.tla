------------------------- MODULE MCRegistryIdentity -------------------------
(***************************************************************************)
(* Identity exclusion and the document caps: three cases that may share a  *)
(* title chain, an instrument, a family or a description, over two corpora *)
(* and two splits, interleaved with late quarantine imports, with and      *)
(* without case ids.                                                       *)
(***************************************************************************)
EXTENDS MCRegistry

MCImports == {<< Imported(TouchedSource) >>}

Chained(c, shared) ==
  IF shared THEN [OwnIdentity(c) EXCEPT !["titleChain"] = "v0"] ELSE OwnIdentity(c)

Cohorts == {<<k1, "tuning">>, <<k1, "fail-safe">>, <<k2, "tuning">>}

(* Shared and separate documents; <<"h", "h">> would only rename these. *)
Documents == (Groups \X Groups) \ {<<"h", "h">>}

MCRequests ==
  {AssignAs(c, k[1], k[2], Chained(c, b), d[1], d[2]) :
     c \in Cases, k \in Cohorts, b \in BOOLEAN, d \in Documents}
  \cup {TruthAs(c, k, a, 0, 0, "v0", d) : c \in Cases, k \in Corpora,
          a \in 2 .. 4, d \in {"v0", "v1"}}
  \cup {QuarantineAs(rs) : rs \in
          {{LegacyAs(None, [source |-> "v1"])},
           {LegacyAs(c1, [titleChain |-> "v0", description |-> "v0"])},
           {LegacyAs(None, [source |-> "v2"]),
            LegacyAs(c2, [source |-> "v2"])}}}

=============================================================================
