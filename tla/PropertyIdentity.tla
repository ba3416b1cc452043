--------------------------- MODULE PropertyIdentity ---------------------------
(***************************************************************************)
(* How two written descriptions of a property are compared                 *)
(* (scripts/protected-refusal-review-core.mjs): identifiers are brought    *)
(* into a canonical form, two reviewers' identities are reconciled field   *)
(* by field, and what they agree on yields the aliases under which the     *)
(* property is protected.                                                  *)
(*                                                                         *)
(* A written identifier is the sequence of its words in capitals, with     *)
(* punctuation and accents already dropped; <<>> is null.  A digest of a   *)
(* commitment is the commitment.                                           *)
(***************************************************************************)
EXTENDS Integers, Sequences, FiniteSets, TLC

S == INSTANCE SequencesExt

CONSTANTS
  NumberWord,  \* words below twenty -> their number
  TensWord,    \* TWENTY, THIRTY, ... -> their number
  Roman,       \* canonical Roman numerals -> their number
  RomanDigits, \* those of a single letter
  Digits,      \* words of digits -> the same without leading zeros
  AfterLabel   \* <<word, label>> -> the word after a label it begins with

IdentityKinds == {"county", "subdivision", "lot", "block", "parcel", "tract"}
Stronger      == IdentityKinds \ {"county"}

Label ==
  [lot    |-> {<<"LOT">>, <<"LT">>},
   block  |-> {<<"BLOCK">>, <<"BLK">>},
   tract  |-> {<<"TRACT">>},
   parcel |-> {<<"PARCEL">>, <<"PARCEL", "ID">>, <<"APN">>, <<"TAX", "ID">>}]

CountyLabel      == {"COUNTY", "CO"}
SubdivisionLabel == {"SUBDIVISION", "SUBDIV", "SUBD", "SUB"}
NumberLabel      == {"NUMBER", "NO"}
Contexts         == {"PLAT", "PHASE", "UNIT"}

(* The words of a text at a set of places, in their order. *)
WordsAt(text, places) ==
  LET order == S!SetToSortSeq(places, <) IN [k \in DOMAIN order |-> text[order[k]]]

From(text, k) == SubSeq(text, k, Len(text))

-----------------------------------------------------------------------------
(* Labels.                                                                 *)

(* No pattern of a label asks for the end of the word: LOTS is a LOT and S. *)
BeginsWith(word, label) == word = label \/ <<word, label>> \in DOMAIN AfterLabel

(* A text without the label of n words that it begins with. *)
Without(text, label) ==
  LET n == Len(label) IN
  (IF text[n] = label[n] THEN <<>> ELSE <<AfterLabel[<<text[n], label[n]>>]>>)
    \o From(text, n + 1)

(* The longest of some labels that the text begins with. *)
LabelOf(labels, text) ==
  LET found == {l \in labels : /\ Len(l) <= Len(text)
                               /\ S!IsPrefix(S!Front(l), text)
                               /\ BeginsWith(text[Len(l)], S!Last(l))}
  IN IF found = {} THEN <<>> ELSE CHOOSE l \in found : \A k \in found : Len(k) <= Len(l)

(* The text after one of some labels, when it begins with one. *)
After(labels, text) ==
  LET label == LabelOf(labels, text) IN IF label = <<>> THEN text ELSE Without(text, label)

(* A label goes with the NUMBER or NO that follows it. *)
Unlabelled(field, text) ==
  IF LabelOf(Label[field], text) = <<>> THEN text
  ELSE After({<<n>> : n \in NumberLabel}, After(Label[field], text))

UnlabelledCounty(text) ==
  LET name == IF Len(text) > 2 /\ SubSeq(text, 1, 2) = <<"COUNTY", "OF">>
              THEN From(text, 3) ELSE text
  IN IF Len(name) > 1 /\ name[Len(name)] \in CountyLabel
     THEN SubSeq(name, 1, Len(name) - 1) ELSE name

(* SUBDIVISION goes before PLAT, PHASE and UNIT, before a number that ends *)
(* the name (with its NO), and at the end.                                 *)
UnlabelledSubdivision(text) ==
  LET Number(k) == k = Len(text) /\ text[k] \in DOMAIN Digits
      Dropped(k) ==
        text[k] \in SubdivisionLabel /\
          \/ k = Len(text)
          \/ text[k + 1] \in Contexts
          \/ Number(k + 1)
          \/ k + 2 = Len(text) /\ text[k + 1] \in NumberLabel /\ Number(k + 2)
      DroppedNo(k) == k > 1 /\ text[k] \in NumberLabel /\ Dropped(k - 1) /\ Number(k + 1)
  IN WordsAt(text, {k \in DOMAIN text : ~ Dropped(k) /\ ~ DroppedNo(k)})

-----------------------------------------------------------------------------
(* Numerals.                                                               *)

(* The places of a unit that a word for tens takes along. *)
Joined(text) ==
  {k \in 2 .. Len(text) :
     /\ text[k - 1] \in DOMAIN TensWord
     /\ text[k] \in DOMAIN NumberWord /\ NumberWord[text[k]] \in 1 .. 9}

(* The word at place k when it is read as a numeral. *)
\* Faulty variant: the unit after a word for tens is lost.
NumeralOfTens(text, k, romans) ==
  LET w == text[k] IN
  IF w \in DOMAIN TensWord THEN ToString(TensWord[w])
  ELSE IF w \in DOMAIN NumberWord THEN ToString(NumberWord[w])
  ELSE IF w \in romans THEN ToString(Roman[w])
  ELSE w

Numeral(text, k, romans) ==
  LET w == text[k] IN
  IF w \in DOMAIN TensWord
  THEN ToString(TensWord[w] + IF k + 1 \in Joined(text) THEN NumberWord[text[k + 1]] ELSE 0)
  ELSE IF w \in DOMAIN NumberWord THEN ToString(NumberWord[w])
  ELSE IF w \in romans THEN ToString(Roman[w])
  ELSE w

Trimmed(w) == IF w \in DOMAIN Digits THEN Digits[w] ELSE w

EachTrimmed(text) == [k \in DOMAIN text |-> Trimmed(text[k])]

(* Lots and blocks of one word may be numbered in Roman letters, but not   *)
(* in a single letter.                                                     *)
\* Faulty variant: Roman numerals are letters.
NoRomans(field, text) == {}

RomansOf(field, text) ==
  IF field \in {"lot", "block"} /\ Len(text) = 1 THEN DOMAIN Roman \ RomanDigits ELSE {}

TypedPieces(field, text) ==
  LET read == EachTrimmed([k \in DOMAIN text |-> Numeral(text, k, RomansOf(field, text))])
  IN WordsAt(read, DOMAIN text \ Joined(text))

(* In a subdivision's name only what follows PLAT, PHASE or UNIT is a      *)
(* numeral.                                                                *)
SubdivisionPieces(text) ==
  LET Counted(k) == k \in 2 .. Len(text) /\ text[k - 1] \in Contexts
      read == EachTrimmed([k \in DOMAIN text |->
                             IF Counted(k) THEN Numeral(text, k, DOMAIN Roman) ELSE text[k]])
  IN WordsAt(read, {k \in DOMAIN text : ~ (k \in Joined(text) /\ Counted(k - 1))})

(* canonicalizePropertyIdentifier *)
\* Faulty variant: numerals are read before labels are dropped.
CanonicalReadFirst(field, text) ==
  CASE field = "county"      -> EachTrimmed(UnlabelledCounty(text))
    [] field = "subdivision" -> UnlabelledSubdivision(SubdivisionPieces(text))
    [] OTHER                 -> Unlabelled(field, TypedPieces(field, text))

Canonical(field, text) ==
  CASE field = "county"      -> EachTrimmed(UnlabelledCounty(text))
    [] field = "subdivision" -> SubdivisionPieces(UnlabelledSubdivision(text))
    [] OTHER                 -> TypedPieces(field, Unlabelled(field, text))

-----------------------------------------------------------------------------
(* Aliases.                                                                *)
AliasKinds ==
  {"county-parcel", "county-subdivision-lot", "county-subdivision-block-lot",
   "county-subdivision-tract"}

AliasFields ==
  [kind \in AliasKinds |->
     CASE kind = "county-parcel"                -> <<"county", "parcel">>
       [] kind = "county-subdivision-lot"       -> <<"county", "subdivision", "lot">>
       [] kind = "county-subdivision-block-lot" -> <<"county", "subdivision", "block", "lot">>
       [] kind = "county-subdivision-tract"     -> <<"county", "subdivision", "tract">>]

(* buildPropertyAliases: one alias per kind whose fields are all known.    *)
(* The identity is brought into canonical form once more.                  *)
Aliases(identity) ==
  LET Read(field) == Canonical(field, identity[field])
      Of(kind) == [n \in DOMAIN AliasFields[kind] |-> Read(AliasFields[kind][n])]
  IN {[kind |-> kind, of |-> Of(kind)] :
        kind \in {kind \in DOMAIN AliasFields : \A n \in DOMAIN Of(kind) : Of(kind)[n] # <<>>}}

(* What both reviewers report, in canonical form. *)
\* Faulty variant: what one reviewer reports is enough.
AgreedIdentityOfEither(left, right) ==
  [f \in IdentityKinds |->
     LET l == Canonical(f, left[f]) IN IF l # <<>> THEN l ELSE Canonical(f, right[f])]

AgreedIdentity(left, right) ==
  [f \in IdentityKinds |->
     LET l == Canonical(f, left[f]) IN IF l = Canonical(f, right[f]) THEN l ELSE <<>>]

(* Both report a stable identifier, and not the same. *)
Conflicting(left, right) ==
  \E f \in Stronger :
    LET l == Canonical(f, left[f])  r == Canonical(f, right[f]) IN
    l # <<>> /\ r # <<>> /\ l # r

(* reconcilePropertyIdentity goes through. *)
Reconcilable(left, right) ==
  ~ Conflicting(left, right) /\ Aliases(AgreedIdentity(left, right)) # {}

(* Aliases of two cases are told apart by propertyAliasOverlap. *)
Overlapping(a, b) == a \cap b # {}

=============================================================================
