------------------------------- MODULE Paths -------------------------------
(***************************************************************************)
(* The path of a request, cut up into its segments: parse_path,            *)
(* append_percent_decoded, ParsedPath::get_idx and consume_read in         *)
(* src/HTTPUtils.hpp and src/HTTPUtils.cpp, beside                         *)
(* appauth_parse_first_number, which finds its way in the same path        *)
(* without them.                                                           *)
(*                                                                         *)
(* A character is a string of length one.  The code's escapes are two      *)
(* hexadecimal digits after "%"; here they are two digits of whatever base *)
(* HexDigits has.  An operation that can fail returns a set with its       *)
(* result, empty when it failed.                                           *)
(***************************************************************************)
EXTENDS PathNumber

CONSTANTS Raws,        \* the paths that requests come with
          HexDigits,   \* the digits of escapes, from zero upwards
          CharOf       \* the characters, in the order of their codes

HexBase == Len(HexDigits)

ASSUME HexDigitsAssumption == HexDigits \in Seq(STRING) /\ {"/", "%"} \cap ToSet(HexDigits) = {}
ASSUME CharOfAssumption == CharOf \in Seq(STRING) /\ Len(CharOf) = HexBase * HexBase
ASSUME RawsAssumption == Raws \subseteq Seq(STRING)
ASSUME SignAssumption == "-" \notin ToSet(Digits)

VARIABLE raw    \* the path of the request at hand

-----------------------------------------------------------------------------
(* -1 when it is no hexadecimal digit, as in the code.                     *)
hex_val(c) == IF c \in ToSet(HexDigits)
              THEN (CHOOSE i \in DOMAIN HexDigits : HexDigits[i] = c) - 1
              ELSE -1

Escaped(hi, lo) == CharOf[HexBase * hex_val(hi) + hex_val(lo) + 1]

decoded_skips_one(src) ==
    LET from[i \in 1..(Len(src) + 2)] ==
          IF i > Len(src) THEN {<<>>}
          ELSE IF src[i] # "%" THEN {<<src[i]>> \o text : text \in from[i + 1]}
          ELSE IF i + 2 <= Len(src) /\ hex_val(src[i + 1]) >= 0 /\ hex_val(src[i + 2]) >= 0
          THEN {<<Escaped(src[i + 1], src[i + 2])>> \o text : text \in from[i + 2]}
          ELSE {}
    IN  from[1]

append_percent_decoded(src) ==
    LET from[i \in 1..(Len(src) + 1)] ==
          IF i > Len(src) THEN {<<>>}
          ELSE IF src[i] # "%" THEN {<<src[i]>> \o text : text \in from[i + 1]}
          ELSE IF i + 2 <= Len(src) /\ hex_val(src[i + 1]) >= 0 /\ hex_val(src[i + 2]) >= 0
          THEN {<<Escaped(src[i + 1], src[i + 2])>> \o text : text \in from[i + 3]}
          ELSE {}
    IN  from[1]

(* The non-empty segments.                                                 *)
SegmentsOf(str) ==
    LET from[start \in 1..(Len(str) + 1)] ==
          LET seg  == ComponentAt(start, str)
              next == start + Len(seg) + 1
              rest == IF next > Len(str) + 1 THEN <<>> ELSE from[next]
          IN  IF seg = <<>> THEN rest ELSE <<seg>> \o rest
    IN  from[1]

Push(out, text) ==
    [storage |-> out.storage \o text,
     ranges  |-> Append(out.ranges, [offset |-> Len(out.storage), length |-> Len(text)])]

parse_path(str) ==
    LET trimmed  == IF Last(str) = "/" THEN Front(str) ELSE str
        segments == SegmentsOf(trimmed)
        after[i \in 0..Len(segments)] ==
            IF i = 0 THEN {[storage |-> <<>>, ranges |-> <<>>]}
            ELSE {Push(out, text) : out \in after[i - 1], text \in append_percent_decoded(segments[i])}
    IN  IF str = <<>> THEN {} ELSE after[Len(segments)]

(* Segments are counted from 0.                                            *)
get_idx(parsed, idx) ==
    LET range == parsed.ranges[idx + 1]
    IN  SubSeq(parsed.storage, range.offset + 1, range.offset + range.length)

Unsigned(text) == IF text # <<>> /\ text[1] = "-" THEN Tail(text) ELSE text

(* std::from_chars over the whole of a segment, for an int, whose smallest *)
(* value is one further from zero than its greatest.                       *)
from_chars(text) ==
    LET digits == Unsigned(text)
        value  == IF digits = text THEN Numeral(digits) ELSE -Numeral(digits)
    IN  IF AllDigits(digits) /\ value \in (-IntMax - 1)..IntMax THEN {value} ELSE {}

(* consume_read of an int at idx: the number and the next index.           *)
consume_read_unchecked_rest(parsed, idx) ==
    LET text == get_idx(parsed, idx)
        n    == CHOOSE n \in 0..Len(text) :
                   /\ ToSet(SubSeq(text, 1, n)) \subseteq ToSet(Digits)
                   /\ n = Len(text) \/ text[n + 1] \notin ToSet(Digits)
    IN  IF idx >= Len(parsed.ranges) THEN {}
        ELSE {[out |-> value, idx |-> idx + 1] : value \in from_chars(SubSeq(text, 1, n))}

consume_read(parsed, idx) ==
    IF idx >= Len(parsed.ranges) THEN {}
    ELSE {[out |-> value, idx |-> idx + 1] : value \in from_chars(get_idx(parsed, idx))}

-----------------------------------------------------------------------------
PathInit == raw \in Raws

(* No escape is cut off, by a slash or by the end.                         *)
Escapes(str) == {i \in DOMAIN str : str[i] = "%"}

WellFormedEscapes(str) ==
    \A i \in Escapes(str) : /\ i + 2 <= Len(str)
                            /\ {str[i + 1], str[i + 2]} \subseteq ToSet(HexDigits)

(* The stretches between slashes that are not empty, as pairs of a first   *)
(* and a last place.                                                       *)
Stretches(str) ==
    {s \in (1..Len(str)) \X (1..Len(str)) :
        /\ s[1] <= s[2]
        /\ \A i \in s[1]..s[2] : str[i] # "/"
        /\ s[1] = 1 \/ str[s[1] - 1] = "/"
        /\ s[2] = Len(str) \/ str[s[2] + 1] = "/"}

(* The place that the k-th character of a stretch's text comes from: the   *)
(* hexadecimal digits of escapes are not counted.                          *)
Origins(str, s) == (s[1]..s[2]) \ UNION {{i + 1, i + 2} : i \in Escapes(str)}

Origin(str, s, k) ==
    CHOOSE i \in Origins(str, s) : Cardinality({j \in Origins(str, s) : j <= i}) = k

TextOf(str, s) ==
    [k \in 1..Cardinality(Origins(str, s)) |->
        LET i == Origin(str, s, k)
        IN  IF str[i] = "%" THEN Escaped(str[i + 1], str[i + 2]) ELSE str[i]]

(* A path is refused exactly if it is empty or has a broken escape, and    *)
(* otherwise its segments are the decoded texts between its slashes, each  *)
(* at its index, wherever escapes and empty segments lie; a slash that was *)
(* escaped does not split.  The storage never outgrows what was reserved   *)
(* for it: "Decoding can only shrink".                                     *)
SegmentsExact ==
    /\ parse_path(raw) = {} <=> raw = <<>> \/ ~WellFormedEscapes(raw)
    /\ \A parsed \in parse_path(raw) :
          /\ Len(parsed.storage) <= Len(raw)
          /\ Len(parsed.ranges) = Cardinality(Stretches(raw))
          /\ \A s \in Stretches(raw) :
                LET before == {r \in Stretches(raw) : r[2] < s[1]}
                IN  get_idx(parsed, Cardinality(before)) = TextOf(raw, s)

(* The group that the authorisation hook checks is the number that a       *)
(* handler reads from the parsed path at the same place, for every path    *)
(* without escapes and empty segments: two parsers of one path agree.      *)
GroupCheckedIsGroupRead ==
    \A parsed \in parse_path(raw), n \in 1..Len(raw) :
        LET checked == appauth_parse_first_number(n, raw)
            read    == {r.out : r \in consume_read(parsed, n - 1)}
        IN  /\ raw[1] = "/" /\ Escapes(raw) = {}
            /\ \A i \in 2..Len(raw) : ~(raw[i - 1] = "/" /\ raw[i] = "/")
            => \A v \in 1..IntMax : (checked = v) = (read = {v})
=============================================================================
