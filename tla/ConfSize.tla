------------------------------ MODULE ConfSize ------------------------------
(***************************************************************************)
(* Size-valued settings: conf_get_int64 of                                 *)
(* src/common/util/config_helper.cpp and the way CommsConfig::Parse        *)
(* (src/config.cpp) calls it, ignoring its result.  Pure operators; the    *)
(* module Config runs them on values replace_env_var has expanded.         *)
(*                                                                         *)
(* A configured value is a short string over a small alphabet (a sequence  *)
(* of one-character strings).  std::string positions are size_t: they are  *)
(* computed modulo SizeMod, and npos is SizeMod - 1, so that size() - 1 of  *)
(* an empty string wraps to npos exactly as it does with 64 bits.  A byte  *)
(* count is kept as a pair [n, sh], meaning n * 2^sh, which keeps values   *)
(* apart without computing products TLC's integers cannot hold.            *)
(***************************************************************************)
EXTENDS Naturals, Sequences, SequencesExt

CONSTANTS
  MaxLen,   \* bound: length of a value converted
  SizeMod,  \* 2^w for the width w of size_t (any w with 2^w > MaxLen + 2 behaves alike)
  Absent,   \* the key is not in the configuration
  Default   \* the setting's default, as [n, sh]

ASSUME MaxLen \in Nat /\ SizeMod \in Nat /\ SizeMod > MaxLen + 2

Digits == {"0", "1", "2", "3", "4", "5", "6", "7", "8", "9"}
DigitChars == <<"0", "1", "2", "3", "4", "5", "6", "7", "8", "9">>
DigitVal == [d \in Digits |-> CHOOSE k \in 0..9 : DigitChars[k + 1] = d]
Lower == [c \in {"k", "m", "g", "b"} |-> CASE c = "k" -> "K" [] c = "m" -> "M"
                                         [] c = "g" -> "G" [] c = "b" -> "B"]

Npos == SizeMod - 1
\* unsigned subtraction of size_t
USub(a, b) == (a - b) % SizeMod

\* string_toupper
ToUpper(s) == [i \in DOMAIN s |-> IF s[i] \in DOMAIN Lower THEN Lower[s[i]] ELSE s[i]]

\* std::string::find(t): the first position of t in s, or npos
Find(s, t) ==
  LET at == {i \in 0..(Len(s) - Len(t)) : SubSeq(s, i + 1, i + Len(t)) = t} IN
  IF at = {} THEN Npos ELSE Min(at)

\* the decimal value of a string of digits
RECURSIVE DecVal(_)
DecVal(s) == IF s = <<>> THEN 0 ELSE 10 * DecVal(Front(s)) + DigitVal[Last(s)]

IsDigits(s) == s # <<>> /\ \A i \in DOMAIN s : s[i] \in Digits

\* string_toint64 (string_helper, not under src/): the whole string is a number
StringToInt64(s) == IsDigits(s)

\* atoll: the number its longest prefix of digits spells, 0 if there is none
Atoll(s) ==
  LET k == Max({j \in 0..Len(s) : IsDigits(SubSeq(s, 1, j)) \/ j = 0}) IN DecVal(SubSeq(s, 1, k))

\* size_str.find(t) == size_str.size() - Len(t)
SuffixTest(u, t) == Find(u, t) = USub(Len(u), Len(t))

\* Fault: the "KB" test compares with size() - 1 as the "K" test does.
ConfGetInt64KBShort(s, value) ==
  LET u == ToUpper(s)
      n == Atoll(u)
  IN IF StringToInt64(s) THEN [ok |-> TRUE, value |-> [n |-> DecVal(s), sh |-> 0]]
     ELSE IF SuffixTest(u, <<"M">>) \/ SuffixTest(u, <<"M", "B">>) THEN [ok |-> TRUE, value |-> [n |-> n, sh |-> 20]]
     ELSE IF SuffixTest(u, <<"G">>) \/ SuffixTest(u, <<"G", "B">>) THEN [ok |-> TRUE, value |-> [n |-> n, sh |-> 30]]
     ELSE IF SuffixTest(u, <<"K">>) \/ Find(u, <<"K", "B">>) = USub(Len(u), 1) THEN [ok |-> TRUE, value |-> [n |-> n, sh |-> 10]]
     ELSE [ok |-> FALSE, value |-> [n |-> n, sh |-> 0]]

\* conf_get_int64 on a present value: the result and the value it leaves in
\* its out-parameter (atoll's result is stored before the suffix is checked).
ConfGetInt64(s, value) ==
  LET u == ToUpper(s)
      n == Atoll(u)
  IN IF StringToInt64(s) THEN [ok |-> TRUE, value |-> [n |-> DecVal(s), sh |-> 0]]
     ELSE IF SuffixTest(u, <<"M">>) \/ SuffixTest(u, <<"M", "B">>) THEN [ok |-> TRUE, value |-> [n |-> n, sh |-> 20]]
     ELSE IF SuffixTest(u, <<"G">>) \/ SuffixTest(u, <<"G", "B">>) THEN [ok |-> TRUE, value |-> [n |-> n, sh |-> 30]]
     ELSE IF SuffixTest(u, <<"K">>) \/ SuffixTest(u, <<"K", "B">>) THEN [ok |-> TRUE, value |-> [n |-> n, sh |-> 10]]
     ELSE [ok |-> FALSE, value |-> [n |-> n, sh |-> 0]]

\* CommsConfig::Parse: conf_get_int64(props, name, field) with the result
\* ignored; an absent key leaves the field alone.
SettingAfterParse(field, cv) == IF cv = Absent THEN field ELSE ConfGetInt64(cv, field).value

-----------------------------------------------------------------------------
(* Reference: what a size setting means.  Digits, optionally followed by   *)
(* K, KB, M, MB, G or GB in any case, scaled by 2^10, 2^20 or 2^30;        *)
(* anything else is not a size and the setting keeps its default.         *)

UnitShift == [s \in {<<>>, <<"K">>, <<"K", "B">>, <<"M">>, <<"M", "B">>, <<"G">>, <<"G", "B">>} |->
               IF s = <<>> THEN 0 ELSE CASE s[1] = "K" -> 10 [] s[1] = "M" -> 20 [] s[1] = "G" -> 30]

IsSize(s) ==
  \E k \in 1..Len(s) : IsDigits(SubSeq(s, 1, k)) /\ SubSeq(ToUpper(s), k + 1, Len(s)) \in DOMAIN UnitShift

SizeOf(s) ==
  LET k == CHOOSE k \in 1..Len(s) : IsDigits(SubSeq(s, 1, k)) /\ ~ (k < Len(s) /\ s[k + 1] \in Digits)
  IN [n |-> DecVal(SubSeq(s, 1, k)), sh |-> UnitShift[SubSeq(ToUpper(s), k + 1, Len(s))]]

IntendedSetting(field, cv) ==
  IF cv # Absent /\ IsSize(cv) THEN SizeOf(cv) ELSE field

=============================================================================
