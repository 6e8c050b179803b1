----------------------------- MODULE PathNumber -----------------------------
(***************************************************************************)
(* The number in a path: appauth_parse_first_number in src/appauth.cpp,    *)
(* with which a site's authorisation hook finds the group a page belongs   *)
(* to.  The code's digits are the ten decimal ones.                        *)
(***************************************************************************)
EXTENDS Integers, Sequences, FiniteSets, FiniteSetsExt, SequencesExt

CONSTANTS Digits,     \* the digits, from zero upwards
          IntMax,     \* INT_MAX
          LongMax     \* LONG_MAX

ASSUME DigitsAssumption ==
    /\ Digits \in Seq(STRING) /\ Len(Digits) > 1
    /\ \A i, j \in DOMAIN Digits : Digits[i] = Digits[j] => i = j
    /\ "/" \notin ToSet(Digits)
ASSUME WidthsAssumption == IntMax \in Nat /\ LongMax \in Nat /\ IntMax <= LongMax

-----------------------------------------------------------------------------
Base == Len(Digits)

DigitValue(c) == (CHOOSE i \in DOMAIN Digits : Digits[i] = c) - 1

(* What a sequence of digits says.                                         *)
Numeral(s) ==
    LET value[i \in 0..Len(s)] ==
            IF i = 0 THEN 0 ELSE Base * value[i - 1] + DigitValue(s[i])
    IN  value[Len(s)]

AllDigits(s) == s # <<>> /\ ToSet(s) \subseteq ToSet(Digits)

(* strtol on digits: saturates, and sets errno then.                       *)
strtol(s) == IF Numeral(s) > LongMax THEN [value |-> LongMax, errno |-> "ERANGE"]
                                     ELSE [value |-> Numeral(s), errno |-> "0"]

Slashes(str) == {i \in DOMAIN str : str[i] = "/"}

(* The places right after the count-th slash: one at the most.             *)
ComponentStarts(count, str) ==
    {i + 1 : i \in {j \in Slashes(str) : Cardinality(Slashes(SubSeq(str, 1, j))) = count}}

(* The text from there to the next slash or the end.                       *)
ComponentAt(from, str) ==
    LET ends == {i - 1 : i \in {j \in Slashes(str) : j >= from}} \cup {Len(str)}
    IN  SubSeq(str, from, Min(ends))

(* Into 32 bits, whatever the number.                                      *)
parse_first_number_narrows(delimiter_count, str) ==
    LET width == 2 * (IntMax + 1)
        low(n) == IF n % width > IntMax THEN (n % width) - width ELSE n % width
        found == {ComponentAt(i, str) : i \in ComponentStarts(delimiter_count, str)}
    IN  IF /\ str # <<>> /\ str[1] = "/"
           /\ \E s \in found : AllDigits(s)
        THEN low(strtol(CHOOSE s \in found : TRUE).value)
        ELSE 0

parse_first_number_ignores_errno(delimiter_count, str) ==
    LET found == {ComponentAt(i, str) : i \in ComponentStarts(delimiter_count, str)}
    IN  IF /\ str # <<>> /\ str[1] = "/"
           /\ \E s \in found : AllDigits(s) /\ strtol(s).value <= IntMax
        THEN strtol(CHOOSE s \in found : TRUE).value
        ELSE 0

(* 0 stands for every failure.  The component must be digits to its end,   *)
(* and its number must fit in a long and in an int.                        *)
appauth_parse_first_number(delimiter_count, str) ==
    LET found == {ComponentAt(i, str) : i \in ComponentStarts(delimiter_count, str)}
    IN  IF /\ str # <<>> /\ str[1] = "/"
           /\ \E s \in found : AllDigits(s) /\ strtol(s).errno = "0" /\ strtol(s).value <= IntMax
        THEN strtol(CHOOSE s \in found : TRUE).value
        ELSE 0
=============================================================================
