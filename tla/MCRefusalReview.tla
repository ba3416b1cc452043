--------------------------- MODULE MCRefusalReview ---------------------------
(***************************************************************************)
(* Two refusal cases, reviewed in one request or in one each, by reviewers *)
(* that spell the same property differently.                               *)
(***************************************************************************)
EXTENDS RefusalReview

CONSTANTS c1, c2, k1

Digest(kind, c) == [kind |-> kind, of |-> <<<<c>>>>]

Own(c) == IF c = c1 THEN "1" ELSE "2"

Group == "g"

Ask0(type, case, corpus, payload) ==
  [eventType |-> type, caseId |-> case, corpusId |-> corpus, issuedAt |-> 0,
   payload |-> payload]

AssignTo(c) ==
  Ask0("assign", c, k1,
       [split |-> "fail-safe", custodyMode |-> "exclusive-custodian",
        identity |-> [f \in IdentityFields |-> Digest(f, Own(c))],
        instrument |-> Group, family |-> Group])

Quarantine ==
  Ask0("legacy-quarantine", None, None,
       [records |-> {[caseId |-> None,
                      identity |-> [f \in IdentityFields \cup TruthFields |->
                                      IF f = "source" THEN Digest("source", "0")
                                                      ELSE None]]}])

MCGenesis == <<Quarantine, AssignTo(c1), AssignTo(c2)>>

MCValues ==
  {Digest(f, n) : f \in IdentityFields \cup {"refusal"}, n \in {"0", "1", "2"}}
    \cup UNION {Agreement[l][m].aliases : l \in Readings, m \in Readings}

CandidateOf(c) ==
  [case |-> c, corpus |-> k1, assignment |-> IF c = c1 THEN 2 ELSE 3,
   source |-> Digest("source", Own(c)), selector |-> Digest("selector", Own(c)),
   refusal |-> Digest("refusal", Own(c))]

RequestOf(id, cases) ==
  [id |-> id, cases |-> [k \in DOMAIN cases |-> CandidateOf(cases[k])],
   bundle |-> [id |-> id, files |-> {cases[k] : k \in DOMAIN cases}]]

Together == RequestOf("q", <<c1, c2>>)

(* Requests with a mistake: a case twice, an undeclared file, a bundle of  *)
(* another request.                                                        *)
Mistakes ==
  {RequestOf("q", <<c1, c1>>), [Together EXCEPT !.bundle.files = {c1}],
   [Together EXCEPT !.bundle.id = "other"]}

AnyTogether == {Together} \cup Mistakes
EachCase    == {RequestOf("q", <<c1>>), RequestOf("q2", <<c2>>)}

(***************************************************************************)
(* Readings: what is not said is not written.                              *)
(***************************************************************************)
Silent == [text |-> [f \in IdentityKinds |-> <<>>], says |-> [f \in IdentityKinds |-> None]]

Saying(reading, f, text, value) ==
  [text |-> [reading.text EXCEPT ![f] = text], says |-> [reading.says EXCEPT ![f] = value]]

InUtah(text)      == Saying(Silent, "county", text, "Utah")
InSunset(r, text) == Saying(r, "subdivision", text, "Sunset 2")

(* One lot in three spellings, once with the parcel's number. *)
LotPlain  == Saying(InSunset(InUtah(<<"UTAH", "COUNTY">>), <<"SUNSET", "SUBD", "2">>),
                    "lot", <<"7">>, "7")
LotRoman  == Saying(InSunset(InUtah(<<"COUNTY", "OF", "UTAH">>),
                             <<"SUNSET", "SUBDIVISION", "NO", "2">>),
                    "lot", <<"LOT", "VII">>, "7")
LotParcel == Saying(LotRoman, "parcel", <<"APN", "001", "02">>, "1-2")
ParcelOnly == Saying(InUtah(<<"UTAH", "CO">>), "parcel", <<"PARCEL", "ID", "1", "2">>, "1-2")
OtherLot  == Saying(InSunset(InUtah(<<"UTAH">>), <<"SUNSET", "2">>), "lot", <<"8">>, "8")
NoPlace   == InUtah(<<"UTAH">>)

Spelled   == {LotPlain, LotRoman, LotParcel, ParcelOnly, OtherLot, NoPlace}
Few       == {LotPlain, LotRoman, OtherLot}

MCDigits == ("1" :> "1") @@ ("001" :> "1") @@ ("2" :> "2") @@ ("02" :> "2")
              @@ ("7" :> "7") @@ ("8" :> "8")
MCRoman == ("VII" :> 7)

(* The second service may answer with the first one's model. *)
MCReturned == <<{"gpt"}, {"gpt", "llama"}>>

NoWord  == [w \in {} |-> w]

=============================================================================
