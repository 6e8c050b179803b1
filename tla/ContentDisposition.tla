------------------------- MODULE ContentDisposition -------------------------
(***************************************************************************)
(* An attribute of a Content-Disposition header: find_attribute_value in   *)
(* src/contentdisposition.c and qsp_append_to_dynstring in                 *)
(* src/quotedstringparser.c, with which the form decoder finds the name    *)
(* and the filename of a part.                                             *)
(*                                                                         *)
(* A header is the text that a browser makes of a list of attributes.      *)
(* A pointer into it is an index; the end of the string is the index after *)
(* the last character.                                                     *)
(***************************************************************************)
EXTENDS Naturals, Sequences, SequencesExt

CONSTANTS AttributeLists,   \* the attributes that browsers send: sequences of
                            \* [name, value, quoted]
          Asked             \* the attribute's name that is looked for

(* The characters that the code looks for are literal here; the names and  *)
(* the values that are not quoted have none of them.                       *)
Quote == "\""
Backslash == "\\"
Marks == {Quote, Backslash, ";", "=", " "}

ASSUME MarksAssumption == Marks \subseteq STRING
ASSUME AttributesAssumption ==
    /\ Asked \in Seq(STRING) \ {<<>>}
    /\ AttributeLists \subseteq
          Seq([name : Seq(STRING), value : Seq(STRING), quoted : BOOLEAN]) \ {<<>>}
    /\ \A list \in AttributeLists : \A i \in DOMAIN list :
          /\ ToSet(list[i].name) \cap Marks = {}
          /\ ~list[i].quoted => ToSet(list[i].value) \cap Marks = {}

VARIABLE attributes   \* the attributes of the header at hand

-----------------------------------------------------------------------------
(* A backslash in quotes takes the next character with it.                 *)
Protected(value) ==
    LET from[i \in 1..(Len(value) + 1)] ==
          IF i > Len(value) THEN <<>>
          ELSE (IF value[i] \in {Quote, Backslash} THEN <<Backslash, value[i]>> ELSE <<value[i]>>)
               \o from[i + 1]
    IN  from[1]

(* What a browser makes of an attribute and of a list (external).          *)
Written(a) ==
    a.name \o (IF a.quoted THEN <<"=", Quote>> \o Protected(a.value) \o <<Quote>>
               ELSE IF a.value = <<>> THEN <<>> ELSE <<"=">> \o a.value)

Header(list) ==
    LET from[i \in DOMAIN list] ==
          Written(list[i]) \o (IF i = Len(list) THEN <<>> ELSE <<";", " ">> \o from[i + 1])
    IN  from[1]

-----------------------------------------------------------------------------
Put(c, rest) == [text |-> <<c>> \o rest.text, at |-> rest.at]

(* From an index up to a delimiter outside quotes, or the end: the text    *)
(* without quotes, and the index after it.  A quote never is text: after a *)
(* backslash it is dropped, and the quoted stretch goes on.                *)
qsp_append_without_escapes(hdr, start, delim) ==
    LET from[i \in 1..(Len(hdr) + 1)] == [state \in {"outside", "quoted"} |->
          IF i > Len(hdr) THEN [text |-> <<>>, at |-> i]
          ELSE IF hdr[i] = Quote
          THEN from[i + 1][IF state = "quoted" THEN "outside" ELSE "quoted"]
          ELSE IF state = "outside" /\ hdr[i] \in delim THEN [text |-> <<>>, at |-> i]
          ELSE Put(hdr[i], from[i + 1][state])]
    IN  from[start]["outside"]

qsp_append_to_dynstring(hdr, start, delim) ==
    LET from[i \in 1..(Len(hdr) + 1)] == [state \in {"outside", "quoted", "escape"} |->
          IF i > Len(hdr) THEN [text |-> <<>>, at |-> i]
          ELSE IF hdr[i] = Quote
          THEN from[i + 1][IF state = "quoted" THEN "outside" ELSE "quoted"]
          ELSE IF state = "quoted" /\ hdr[i] = Backslash THEN from[i + 1]["escape"]
          ELSE IF state = "outside" /\ hdr[i] \in delim THEN [text |-> <<>>, at |-> i]
          ELSE Put(hdr[i], from[i + 1][IF state = "escape" THEN "quoted" ELSE state])]
    IN  from[start]["outside"]

NextIs(hdr, i, c) == i <= Len(hdr) /\ hdr[i] = c

(* Where the white space ends.                                             *)
AfterSpace(hdr, i) == CHOOSE j \in i..(Len(hdr) + 1) :
                         ~NextIs(hdr, j, " ") /\ \A l \in i..(j - 1) : hdr[l] = " "

(* strncmp over the length of the name in the header: it matches whatever  *)
(* it is the beginning of.                                                 *)
Matches(name, attrib) == IsPrefix(name, attrib)

(* One turn for each attribute.  A set with the value, empty for NULL.     *)
find_attribute_value(hdr, attrib) ==
    LET from[pos \in 1..(Len(hdr) + 1)] ==
          LET name  == qsp_append_to_dynstring(hdr, AfterSpace(hdr, pos), {";", "="})
              value == IF NextIs(hdr, name.at, "=")
                       THEN qsp_append_to_dynstring(hdr, name.at + 1, {";"})
                       ELSE [text |-> <<>>, at |-> name.at]
          IN  IF Matches(name.text, attrib) THEN {value.text}
              ELSE IF value.at > Len(hdr) THEN {}
              ELSE from[value.at + 1]
    IN  from[1]

-----------------------------------------------------------------------------
DispositionInit == attributes \in AttributeLists

Unquoted(value) ==
    LET from[i \in 1..(Len(value) + 1)] ==
          IF i > Len(value) THEN <<>>
          ELSE IF value[i] = Quote THEN from[i + 1] ELSE <<value[i]>> \o from[i + 1]
    IN  from[1]

(* The value of the first attribute that is asked for is found, whatever   *)
(* delimiters, backslashes and quotes the values before it and its own     *)
(* hold, and none is found if there is none; all that is lost is quotes.   *)
(* It holds for headers none of whose names is a beginning of the one that *)
(* is asked for: such a name, and the empty name after a ";" at the end,   *)
(* is taken for it.                                                        *)
AttributeFound ==
    LET named == {i \in DOMAIN attributes : attributes[i].name = Asked}
    IN  (\A i \in DOMAIN attributes \ named : ~IsPrefix(attributes[i].name, Asked))
        => find_attribute_value(Header(attributes), Asked)
              = {Unquoted(attributes[i].value) :
                    i \in {j \in named : \A k \in named : j <= k}}
=============================================================================
