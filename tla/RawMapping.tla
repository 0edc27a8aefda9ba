----------------------------- MODULE RawMapping -----------------------------
(***************************************************************************)
(* services/marketplace-connector/src/base/raw_mapping.py: how one field   *)
(* of a raw marketplace item is read.  A raw item is a function from the   *)
(* paths that hold something other than null to the JSON value there.      *)
(*                                                                         *)
(* A JSON value is a record                                                *)
(*   is    "bool", "int", "float", "text", "list" or "object"; "absent"    *)
(*         is what a path resolves to when it holds nothing                *)
(*   as    its form.  A number: "plain", "notfinite" or "huge" (beyond     *)
(*         Decimal's 28 digits, an int beyond a float as well).  A text    *)
(*         that is no number: "words", "indented" (words with spaces       *)
(*         around), "blank".  A text that is one: "plain", "padded" with   *)
(*         spaces, "grouped" by commas, with a "rupee" sign, "notfinite",  *)
(*         "huge", or in "super"script digits                              *)
(*   n     a number in thousandths, a flag as 0 or 1, the length of words  *)
(*   what  the content of a text, the digits of an id, a list's entries    *)
(* Reading one gives a value, ParseFailedError, or another exception.      *)
(*                                                                         *)
(* Definitions named Bug... are mutated forms of the definition that       *)
(* follows them.                                                           *)
(***************************************************************************)
EXTENDS Integers, Sequences, FiniteSetsExt

CONSTANT Null  \* Python's None

ASSUME NullAssumption == Null \notin Int \cup BOOLEAN

Json(is, as, n, what) == [is |-> is, as |-> as, n |-> n, what |-> what]

Absent == Json("absent", "plain", 0, "")

Value(v) == [end |-> "value", val |-> v]
ParseFailed == [end |-> "parse_failed", val |-> Null]
Crash == [end |-> "crash", val |-> Null]

Select(raw, path) == IF path \in DOMAIN raw THEN raw[path] ELSE Absent

Stripped(v) ==
  [v EXCEPT !.as = CASE v.as = "indented" -> "words"
                     [] v.as = "padded" -> "plain"
                     [] OTHER -> v.as]

\* first_text, and text for a single path: the first text that is not blank.
FirstText(raw, paths) ==
  LET usable == {i \in DOMAIN paths : LET v == Select(raw, paths[i])
                                      IN  v.is = "text" /\ v.as # "blank"}
  IN  IF usable = {} THEN Null ELSE Stripped(Select(raw, paths[Min(usable)]))

\* The text as recorded: nothing is stripped, a blank one is a text.
RequiredText(raw, path) ==
  LET v == Select(raw, path) IN IF v.is = "text" THEN Value(v) ELSE ParseFailed

\* A text, or the digits of an integer.
Identifier(raw, paths) ==
  LET tried == {i \in DOMAIN paths : LET v == Select(raw, paths[i])
                                     IN  v.is # "absent" /\ v.as # "blank"}
      v == Select(raw, paths[Min(tried)])
  IN  IF tried = {} \/ v.is \notin {"text", "int"}
      THEN ParseFailed
      ELSE Value([Stripped(v) EXCEPT !.is = "text"])

\* ROUND_HALF_UP: a half goes away from zero.  Thousandths of a rupee to
\* paise.
HalfUp(m) == IF m >= 0 THEN (m + 5) \div 10 ELSE -((5 - m) \div 10)

\* The quoted forms that are numbers once commas, spaces and the sign are
\* taken off.
SharedReads == {"plain", "padded", "grouped", "rupee"}

\* The quantize of a huge number raises InvalidOperation outside the try.
Paise(v, reads) ==
  CASE v.is \notin {"int", "float", "text"} -> ParseFailed
    [] v.is \in {"int", "float", "text"} /\ v.as = "huge" -> Crash
    [] v.is \in {"int", "float"} /\ v.as = "plain" -> Value(HalfUp(v.n))
    [] v.is = "text" /\ v.as \in reads -> Value(HalfUp(v.n))
    [] OTHER -> ParseFailed

\* What that comes to: to half a paisa.
IsPaiseOf(paise, amount) == 10 * paise - amount \in -5 .. 5

\* The places of paths at which raw holds something.
Present(raw, paths) == {i \in DOMAIN paths : Select(raw, paths[i]).is # "absent"}

FirstPaise(raw, paths, reads) ==
  LET present == Present(raw, paths)
  IN  IF present = {} THEN Value(Null)
      ELSE Paise(Select(raw, paths[Min(present)]), reads)

RequiredPaise(raw, paths, reads) ==
  LET p == FirstPaise(raw, paths, reads)
  IN  IF p = Value(Null) THEN ParseFailed ELSE p

\* float() of an int too large for one raises OverflowError.
OptionalNumber(raw, path) ==
  LET v == Select(raw, path)
  IN  CASE v.is = "absent" -> Value(Null)
        [] v.is = "int" /\ v.as = "huge" -> Crash
        [] v.is = "float" \/ (v.is = "int" /\ v.as # "huge") -> Value(v)
        [] OTHER -> ParseFailed

OptionalInt(raw, path) ==
  LET v == Select(raw, path)
  IN  CASE v.is = "absent" -> Value(Null)
        [] v.is = "int" -> Value(v)
        [] OTHER -> ParseFailed

\* INR when the item names no currency, and the only one there is.
Currency(raw, path) ==
  LET code == FirstText(raw, <<path>>)
  IN  IF code = Null \/ code.what \in {"INR", "inr"} THEN Value("INR") ELSE ParseFailed

\* A real boolean or nothing: the string "false" is no flag.
Flag(raw, path) ==
  LET v == Select(raw, path) IN IF v.is = "bool" THEN v.n = 1 ELSE Null
============================================================================
