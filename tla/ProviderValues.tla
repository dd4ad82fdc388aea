--------------------------- MODULE ProviderValues ---------------------------
(***************************************************************************)
(* How the provider adapters read single values of a payload nobody        *)
(* guarantees the shape of: identifiers, numbers for a decimal column and  *)
(* texts for a bounded column.                                             *)
(*                                                                         *)
(* A raw identifier is a form and what it denotes: a JSON number, a string *)
(* of decimal digits, a string of other digits, or anything else.  A raw   *)
(* number is counted in units of the column divided by Fine, which is how  *)
(* a figure with more places than the column looks.                        *)
(***************************************************************************)
EXTENDS Integers, SequencesExt

CONSTANTS
  MinId, MaxId,  \* range of the identifier columns
  Fine,          \* units of a raw number in one unit of the column
  NoId,          \* no identifier
  Unusable       \* no value

ASSUME ValuesAssumption ==
  /\ MinId \in Int /\ MaxId \in Nat
  /\ Fine \in Nat \ {0}
  /\ NoId \notin Int /\ Unusable \notin Int

Denotes(raw) ==
  \/ raw.form = "number" /\ MinId <= raw.of /\ raw.of <= MaxId
  \/ raw.form = "digits" /\ raw.of <= MaxId

Identifier(raw) == IF Denotes(raw) THEN raw.of ELSE NoId

(* str.isdigit is true of a superscript digit, which int then refuses with *)
(* a ValueError nobody catches.                                            *)
Raises(raw) == raw.form = "numeral"

(* Decimal.quantize rounds half to even.                                   *)
Quantize(v) ==
  LET below == v \div Fine
      rest == 2 * (v % Fine)
  IN IF rest > Fine \/ (rest = Fine /\ below % 2 = 1) THEN below + 1 ELSE below

(* Mutant: the range is checked after rounding, with no floor.             *)
BoundedAfterRounding(v, ceiling) ==
  IF v \in Int /\ Quantize(v) <= ceiling THEN Quantize(v) ELSE Unusable

(* A boolean, an object, NaN and a text that is no number are not in Int.  *)
BoundedDecimal(v, ceiling) ==
  IF v \in Int /\ 0 <= v /\ v <= ceiling * Fine THEN Quantize(v) ELSE Unusable

-----------------------------------------------------------------------------
(* The dict the adapters and the repositories collect what they read in.   *)

(* Nothing at all, of a mapping.                                           *)
Empty == [x \in {} |-> x]

(* A dict after the keys of another were assigned to it.                   *)
Updated(dict, more) ==
  [k \in DOMAIN dict \cup DOMAIN more |-> IF k \in DOMAIN more THEN more[k] ELSE dict[k]]

(* A dict after one key was assigned.                                      *)
Assigned(dict, key, value) == Updated(dict, [k \in {key} |-> value])

(* A new dict after a sequence of updates, in order.                       *)
Collected(updates) == FoldLeft(Updated, Empty, updates)

=============================================================================
