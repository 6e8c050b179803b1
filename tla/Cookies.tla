------------------------------- MODULE Cookies -------------------------------
(***************************************************************************)
(* The Cookie header, cut up in place and put together again:              *)
(* HTTPUtils_parse_cookies and HTTPUtils_restore_cookies in                *)
(* src/HTTPUtils.cpp.                                                      *)
(*                                                                         *)
(* The header is a C string, a sequence of characters that ends with Nul.  *)
(* parse_cookies overwrites separators with Nul and returns an array of    *)
(* pointers into the header; a pointer is an index of the buffer, and the  *)
(* terminating entry of the array is the end of the sequence "cookies".    *)
(* One step is one turn of a loop.                                         *)
(***************************************************************************)
EXTENDS Naturals, Sequences, FiniteSets

CONSTANTS Headers,           \* the headers that browsers send
          Letters, Space,    \* the characters they are made of, and
          Eq, Semi,          \* the separators "=" and ";"
          Nul

Chars == Letters \cup {Space, Eq, Semi}

ASSUME HeadersAssumption == Headers \subseteq Seq(Chars)
ASSUME CharsAssumption ==
    /\ Nul \notin Chars
    /\ Eq # Semi /\ Eq # Space /\ Semi # Space
    /\ {Space, Eq, Semi} \cap Letters = {}

VARIABLES header,   \* the header as it arrived
          buf,      \* the buffer that holds it
          cookies,  \* the entries of the array, without the terminator
          p,        \* where the parser is in the buffer
          at,       \* the entry that restore_cookies looks at
          pc        \* "split", "parsed" or "restored"

vars == <<header, buf, cookies, p, at, pc>>

-----------------------------------------------------------------------------
Positions == 1..(Len(header) + 1)

(* strchr(from, c) finds i.                                                *)
Finds(from, c, i) == /\ i \in Positions /\ from <= i /\ buf[i] = c
                     /\ \A j \in from..(i - 1) : buf[j] \notin {c, Nul}

FindsNone(from, c) == ~ \E i \in Positions : Finds(from, c, i)

(* from + strlen(from) is i.                                               *)
EndsAt(from, i) == Finds(from, Nul, i)

(* White space before a name is skipped.                                   *)
SkipsTo(from, i) == /\ i \in Positions /\ from <= i /\ buf[i] # Space
                    /\ \A j \in from..(i - 1) : buf[j] = Space

(* The entries the array has room for, besides the terminator.             *)
SegmentCount == 1 + Cardinality({i \in 1..Len(header) : header[i] = Semi})

-----------------------------------------------------------------------------
Init == /\ header \in Headers
        /\ buf = Append(header, Nul)
        /\ cookies = <<>>
        /\ p = 1 /\ at = 1
        /\ pc = "split"

(* One turn of the second pass of parse_cookies: a name up to the next     *)
(* "=", be there a ";" before it or not, and a value up to the next ";" or *)
(* the end.                                                                *)
MoreToSplit == pc = "split" /\ buf[p] # Nul /\ Len(cookies) < SegmentCount

split_past_the_end ==
    /\ MoreToSplit
    /\ \E name \in Positions, eq \in Positions, end \in Positions :
          /\ SkipsTo(p, name) /\ Finds(name, Eq, eq)
          /\ cookies' = Append(cookies, [name |-> name, value |-> eq + 1])
          /\ \/ /\ Finds(eq + 1, Semi, end)
                /\ buf' = [buf EXCEPT ![eq] = Nul, ![end] = Nul]
             \/ /\ FindsNone(eq + 1, Semi) /\ EndsAt(eq + 1, end)
                /\ buf' = [buf EXCEPT ![eq] = Nul]
          /\ p' = end + 1
    /\ UNCHANGED <<header, at, pc>>

split_keeps_space ==
    /\ MoreToSplit
    /\ \E eq \in Positions, end \in Positions :
          /\ Finds(p, Eq, eq)
          /\ cookies' = Append(cookies, [name |-> p, value |-> eq + 1])
          /\ \/ /\ Finds(eq + 1, Semi, end)
                /\ buf' = [buf EXCEPT ![eq] = Nul, ![end] = Nul]
                /\ p' = end + 1
             \/ /\ FindsNone(eq + 1, Semi) /\ EndsAt(eq + 1, end)
                /\ buf' = [buf EXCEPT ![eq] = Nul]
                /\ p' = end
    /\ UNCHANGED <<header, at, pc>>

split_cookie ==
    /\ MoreToSplit
    /\ \E name \in Positions, eq \in Positions, end \in Positions :
          /\ SkipsTo(p, name) /\ Finds(name, Eq, eq)
          /\ cookies' = Append(cookies, [name |-> name, value |-> eq + 1])
          /\ \/ /\ Finds(eq + 1, Semi, end)
                /\ buf' = [buf EXCEPT ![eq] = Nul, ![end] = Nul]
                /\ p' = end + 1
             \/ /\ FindsNone(eq + 1, Semi) /\ EndsAt(eq + 1, end)
                /\ buf' = [buf EXCEPT ![eq] = Nul]
                /\ p' = end
    /\ UNCHANGED <<header, at, pc>>

(* The end of the header, or no "=" in what is left of it.                 *)
parse_ends == /\ pc = "split"
              /\ \/ ~MoreToSplit
                 \/ \E name \in Positions : SkipsTo(p, name) /\ FindsNone(name, Eq)
              /\ pc' = "parsed"
              /\ UNCHANGED <<header, buf, cookies, p, at>>

(* One turn of restore_cookies.                                            *)
restore_over_value ==
    /\ pc = "parsed" /\ at <= Len(cookies)
    /\ \E end \in Positions :
          /\ EndsAt(cookies[at].value, end)
          /\ buf' = IF at < Len(cookies)
                    THEN [buf EXCEPT ![cookies[at].value] = Eq, ![end] = Semi]
                    ELSE [buf EXCEPT ![cookies[at].value] = Eq]
    /\ at' = at + 1
    /\ UNCHANGED <<header, cookies, p, pc>>

restore_no_semicolon ==
    /\ pc = "parsed" /\ at <= Len(cookies)
    /\ buf' = [buf EXCEPT ![cookies[at].value - 1] = Eq]
    /\ at' = at + 1
    /\ UNCHANGED <<header, cookies, p, pc>>

restore_cookie ==
    /\ pc = "parsed" /\ at <= Len(cookies)
    /\ \E end \in Positions :
          /\ EndsAt(cookies[at].value, end)
          /\ buf' = IF at < Len(cookies)
                    THEN [buf EXCEPT ![cookies[at].value - 1] = Eq, ![end] = Semi]
                    ELSE [buf EXCEPT ![cookies[at].value - 1] = Eq]
    /\ at' = at + 1
    /\ UNCHANGED <<header, cookies, p, pc>>

restore_ends == /\ pc = "parsed" /\ at > Len(cookies)
                /\ pc' = "restored"
                /\ UNCHANGED <<header, buf, cookies, p, at>>

(* The C string that begins at an index of the buffer.                     *)
CString(from) == SubSeq(buf, from, (CHOOSE i \in Positions : EndsAt(from, i)) - 1)

(* HTTPUtils_get_cookie: a set with the value, empty for NULL.  Its idx    *)
(* counts down without moving on, so every idx finds the first one.        *)
HTTPUtils_get_cookie(name) ==
    LET named == {i \in DOMAIN cookies : CString(cookies[i].name) = name}
    IN  {CString(cookies[i].value) : i \in {j \in named : \A k \in named : j <= k}}

Next == split_cookie \/ parse_ends \/ restore_cookie \/ restore_ends

Spec == Init /\ [][Next]_vars

-----------------------------------------------------------------------------
(* Type invariant: the parser stays inside the buffer and the array, and   *)
(* the buffer stays a C string of the header's length.                     *)
TypeOK == /\ header \in Seq(Chars)
          /\ buf \in [1..(Len(header) + 1) -> Chars \cup {Nul}]
          /\ buf[Len(header) + 1] = Nul
          /\ cookies \in Seq([name : 1..Len(header), value : 2..(Len(header) + 1)])
          /\ p \in 1..(Len(header) + 1)
          /\ at \in 1..(Len(cookies) + 1)
          /\ pc \in {"split", "parsed", "restored"}

(* Neither the parser nor the restorer touches a character of a name or a  *)
(* value: a byte of the buffer is as it arrived, or is a separator of the  *)
(* header that is cut out at the moment, whatever the header looks like.   *)
OnlySeparatorsChange ==
    \A i \in 1..Len(header) :
        buf[i] = header[i] \/ (buf[i] = Nul /\ header[i] \in {Eq, Semi})

(* The segments of a header between its ";", as pairs of a first and a     *)
(* last position.                                                          *)
Segments(h) == {seg \in (1..(Len(h) + 1)) \X (0..Len(h)) :
                  /\ seg[1] <= seg[2] + 1
                  /\ seg[1] = 1 \/ h[seg[1] - 1] = Semi
                  /\ seg[2] = Len(h) \/ h[seg[2] + 1] = Semi
                  /\ \A k \in seg[1]..seg[2] : h[k] # Semi}

Blank(h, seg) == \A k \in seg[1]..seg[2] : h[k] = Space

Named(h, seg) == \E k \in seg[1]..seg[2] : h[k] = Eq

(* A list of name=value pairs, with or without a ";" after the last one.   *)
WellFormed(h) ==
    \A seg \in Segments(h) : Named(h, seg) \/ (Blank(h, seg) /\ seg[2] = Len(h))

(* The pair that a segment stands for.                                     *)
Pair(h, seg) ==
    LET from == CHOOSE k \in seg[1]..seg[2] :
                   h[k] # Space /\ \A l \in seg[1]..(k - 1) : h[l] = Space
        eq   == CHOOSE k \in seg[1]..seg[2] :
                   h[k] = Eq /\ \A l \in seg[1]..(k - 1) : h[l] # Eq
    IN  <<SubSeq(h, from, eq - 1), SubSeq(h, eq + 1, seg[2])>>

(* A list of name=value pairs is parsed into these pairs, one entry each   *)
(* and in their order; what is looked up under a name is then the value of *)
(* the first pair of that name, and nothing if there is none.  The         *)
(* endpoints take the token of the cookie "auth" from here.                *)
ParsesWellFormed ==
    pc = "parsed" /\ at = 1 /\ WellFormed(header) =>
        LET named == {seg \in Segments(header) : Named(header, seg)}
            names == {Pair(header, seg)[1] : seg \in named} \cup {<<c>> : c \in Letters}
        IN  /\ {<<CString(cookies[i].name), CString(cookies[i].value)>> : i \in DOMAIN cookies}
                  = {Pair(header, seg) : seg \in named}
            /\ Len(cookies) = Cardinality(named)
            /\ \A i, j \in DOMAIN cookies : i < j => cookies[i].name < cookies[j].name
            /\ \A name \in names :
                  LET same == {seg \in named : Pair(header, seg)[1] = name}
                  IN  HTTPUtils_get_cookie(name)
                         = {Pair(header, seg)[2] : seg \in {s \in same : \A t \in same : s[1] <= t[1]}}

(* restore_cookies undoes parse_cookies: a list of name=value pairs is put *)
(* together again as it arrived, but for a ";" after the last pair.        *)
RestoreUndoesParse ==
    pc = "restored" /\ WellFormed(header) =>
        \A i \in 1..Len(header) :
            \/ buf[i] = header[i]
            \/ header[i] = Semi /\ \A k \in (i + 1)..Len(header) : header[k] = Space
=============================================================================
