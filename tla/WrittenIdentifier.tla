-------------------------- MODULE WrittenIdentifier --------------------------
(***************************************************************************)
(* A reviewer writes down one identifier of a property as a deed may spell *)
(* it, word by word, while the specification keeps what is meant.  It is   *)
(* the reference against which PropertyIdentity's canonical form is        *)
(* checked.                                                                *)
(*                                                                         *)
(* What is meant is a sequence of components, names and numbers in plain   *)
(* digits.  Writings that are ambiguous to any reader are left out: a word *)
(* for a unit that is a component of its own after a word for tens, and a  *)
(* name of several letters, alone in a lot or block, that is a numeral.    *)
(***************************************************************************)
EXTENDS PropertyIdentity

CONSTANTS
  Fields,    \* the fields that are written
  Numbers,   \* numbers that occur in identifiers
  Names,     \* other words of identifiers
  MaxWords   \* bound: words after the label

VARIABLES
  field,   \* the field that is written
  label,   \* the label in front
  words,   \* what is written after it
  meant,   \* the components that are meant
  closed   \* nothing can follow

vars == <<field, label, words, meant, closed>>

Text == label \o words
Typed == {"lot", "block", "parcel", "tract"}

Labels(f) ==
  {<<>>} \cup
  CASE f \in Typed     -> {l \o n : l \in Label[f], n \in {<<>>, <<"NO">>, <<"NUMBER">>}}
    [] f = "county"    -> {<<"COUNTY", "OF">>}
    [] OTHER           -> {}

Init ==
  /\ field \in Fields /\ label \in Labels(field)
  /\ words = <<>> /\ meant = <<>> /\ closed = FALSE

-----------------------------------------------------------------------------
LastIn(set) == words # <<>> /\ words[Len(words)] \in set

Unit == {w \in DOMAIN NumberWord : NumberWord[w] \in 1 .. 9}

Figures(n) == {<<d>> : d \in {d \in DOMAIN Digits : Digits[d] = ToString(n)}}

Worded(n) ==
  {<<w>> : w \in {w \in DOMAIN NumberWord : NumberWord[w] = n}}
    \cup {<<t>> : t \in {t \in DOMAIN TensWord : TensWord[t] = n}}
    \cup {tu \in (DOMAIN TensWord) \X Unit : TensWord[tu[1]] + NumberWord[tu[2]] = n}

Write(new, component, end) ==
  /\ ~ closed /\ Len(words) + Len(new) <= MaxWords
  /\ words' = words \o new
  /\ meant' = meant \o component
  /\ closed' = end
  /\ UNCHANGED <<field, label>>

(* A number in figures, with or without leading zeros. *)
WriteFigures ==
  \E n \in Numbers : \E new \in Figures(n) :
    field # "county" /\ Write(new, <<ToString(n)>>, FALSE)

(* A number in words: anywhere in a typed identifier, but in the name of a *)
(* subdivision only as the number of a plat, phase or unit.                *)
WriteInWords ==
  \E n \in Numbers : \E new \in Worded(n) :
    /\ \/ field \in Typed
       \/ field = "subdivision" /\ LastIn(Contexts)
    /\ ~ (LastIn(DOMAIN TensWord) /\ new[1] \in Unit)
    /\ Write(new, <<ToString(n)>>, FALSE)

(* A Roman numeral of a lot or block, or of a plat, phase or unit. *)
WriteRoman ==
  \E w \in DOMAIN Roman :
    /\ \/ field \in {"lot", "block"} /\ words = <<>> /\ w \notin RomanDigits
       \/ field = "subdivision" /\ LastIn(Contexts)
    /\ Write(<<w>>, <<ToString(Roman[w])>>, field # "subdivision")

(* A name, where no reader takes it for a number. *)
WriteName ==
  \E w \in Names :
    /\ (field \in Typed \/ LastIn(Contexts)) =>
         w \notin DOMAIN NumberWord \cup DOMAIN TensWord
    /\ LastIn(Contexts) => w \notin DOMAIN Roman
    /\ ~ (LastIn(DOMAIN TensWord) /\ w \in Unit)
    /\ Write(<<w>>, <<w>>, FALSE)

(* PLAT, PHASE or UNIT, perhaps after the word SUBDIVISION. *)
WriteContext ==
  \E c \in Contexts : \E before \in {<<>>} \cup {<<l>> : l \in SubdivisionLabel} :
    /\ field = "subdivision" /\ words # <<>>
    /\ Write(before \o <<c>>, <<c>>, FALSE)

(* ... SUBDIVISION NO 2 *)
NumberSubdivision ==
  \E l \in SubdivisionLabel, no \in {<<>>, <<"NO">>, <<"NUMBER">>}, n \in Numbers :
    \E number \in Figures(n) :
      /\ field = "subdivision" /\ words # <<>>
      /\ Write(<<l>> \o no \o number, <<ToString(n)>>, TRUE)

(* ... SUBDIVISION, or ... COUNTY *)
EndName ==
  /\ words # <<>>
  /\ \/ /\ field = "subdivision"
        /\ \E l \in SubdivisionLabel : Write(<<l>>, <<>>, TRUE)
     \/ /\ field = "county"
        /\ \E l \in CountyLabel : Write(<<l>>, <<>>, TRUE)

Next ==
  \/ WriteFigures \/ WriteInWords \/ WriteRoman \/ WriteName
  \/ WriteContext \/ NumberSubdivision \/ EndName

Spec == Init /\ [][Next]_vars

-----------------------------------------------------------------------------
(* However an identifier is spelled - labels and their abbreviations,      *)
(* leading zeros, number words, Roman numerals - its canonical form is     *)
(* what is meant, component by component: variants of one identifier       *)
(* become equal and different identifiers stay apart (1-2 is not 12, One   *)
(* Two is not Twelve, Silver One Lake is not Silver 1 Lake;                *)
(* canonicalizePropertyIdentifier).                                        *)
ReadsAsMeant ==
  words # <<>> => Canonical(field, Text) = meant

(* The canonical form is final: the identity both reviewers agree on is    *)
(* brought into canonical form a second time when its aliases are built,   *)
(* and that changes nothing (buildPropertyAliases(agreedIdentity)).        *)
ReadsTheSameAgain ==
  LET once == Canonical(field, Text) IN Canonical(field, once) = once

(* A label in front does not change which identifier is meant ("property   *)
(* canonicalization handles common labels without collapsing segmented     *)
(* identifiers", protected-refusal-reviewer.test.mjs:27).                  *)
LabelsImmaterial ==
  words # <<>> => Canonical(field, Text) = Canonical(field, words)

=============================================================================
