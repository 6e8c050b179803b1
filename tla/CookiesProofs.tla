---------------------------- MODULE CookiesProofs ----------------------------
(***************************************************************************)
(* For every header: the parser and the restorer stay inside the buffer    *)
(* and the array, and change nothing but separators.  For every list of    *)
(* name=value pairs: the entries are the pairs (Entries), and restoring    *)
(* puts the header together again (Tracking).                              *)
(***************************************************************************)
EXTENDS Cookies, SequenceTheorems, FiniteSetTheorems, WellFoundedInduction, TLAPS

(* The value of entry i was ended by the ";" at s, which lies before the   *)
(* parser and before the next entry's value.                               *)
EndedBy(i, s) ==
    /\ EndsAt(cookies[i].value, s)
    /\ s <= Len(header) /\ header[s] = Semi
    /\ s < p
    /\ i < Len(cookies) => s < cookies[i + 1].value

(* The value runs to the end of the header.                                *)
EndsHeader(i) == i = Len(cookies) /\ (pc = "split" => buf[p] = Nul)

(* Every value follows a "=" of the header, and the values come in order.  *)
Ordered ==
    /\ \A i \in 1..Len(cookies) : /\ header[cookies[i].value - 1] = Eq
                                  /\ cookies[i].value <= p
    /\ \A i, j \in 1..Len(cookies) : i < j => cookies[i].value < cookies[j].value

(* The entries that are not restored yet still have their ends.            *)
StillEnded ==
    /\ \A i \in 1..Len(cookies) :
          at <= i => EndsHeader(i) \/ \E s \in Positions : EndedBy(i, s)
    /\ pc = "split" => at = 1

IInv == TypeOK /\ OnlySeparatorsChange /\ Ordered /\ StillEnded

LEMMA SeparatorsDiffer ==
    /\ Eq # Nul /\ Semi # Nul /\ Space # Nul /\ Eq # Semi
    /\ Eq \in Chars /\ Semi \in Chars
  BY CharsAssumption DEF Chars

LEMMA Terminated ==
    ASSUME NEW S, NEW h \in Seq(S), NEW nul \in S
    PROVE  /\ Append(h, nul) \in [1..(Len(h) + 1) -> S]
           /\ \A i \in 1..Len(h) : Append(h, nul)[i] = h[i]
           /\ Append(h, nul)[Len(h) + 1] = nul
<1>1. /\ Append(h, nul) \in Seq(S) /\ Len(Append(h, nul)) = Len(h) + 1
      /\ \A i \in 1..Len(h) : Append(h, nul)[i] = h[i]
      /\ Append(h, nul)[Len(h) + 1] = nul
  BY AppendProperties
<1>2. Append(h, nul) \in [1..Len(Append(h, nul)) -> S]
  BY <1>1, LenProperties, Zenon
<1>. QED
  BY <1>1, <1>2, Zenon

LEMMA IInvInit == Init => IInv
<1> SUFFICES ASSUME Init PROVE IInv
  OBVIOUS
<1>1. header \in Seq(Chars) /\ Len(header) \in Nat
  BY HeadersAssumption DEF Init
<1>2. header \in Seq(Chars \cup {Nul}) /\ Nul \in Chars \cup {Nul}
  BY <1>1
<1>3. /\ Append(header, Nul) \in [1..(Len(header) + 1) -> Chars \cup {Nul}]
      /\ \A i \in 1..Len(header) : Append(header, Nul)[i] = header[i]
      /\ Append(header, Nul)[Len(header) + 1] = Nul
  <2> DEFINE S == Chars \cup {Nul}
  <2>1. header \in Seq(S) /\ Nul \in S
    BY <1>2
  <2> HIDE DEF S
  <2>2. /\ Append(header, Nul) \in [1..(Len(header) + 1) -> S]
        /\ \A i \in 1..Len(header) : Append(header, Nul)[i] = header[i]
        /\ Append(header, Nul)[Len(header) + 1] = Nul
    BY <2>1, Terminated
  <2>. QED
    BY <2>2 DEF S
<1>4. /\ header \in Seq(Chars)
      /\ buf = Append(header, Nul) /\ buf \in [1..(Len(header) + 1) -> Chars \cup {Nul}]
      /\ cookies = <<>> /\ p = 1 /\ at = 1 /\ pc = "split"
  BY <1>1, <1>3 DEF Init
<1>5. TypeOK
  <2>1. p \in 1..(Len(header) + 1) /\ at \in 1..(Len(cookies) + 1)
    BY <1>1, <1>4
  <2>2. cookies \in Seq([name : 1..Len(header), value : 2..(Len(header) + 1)])
    BY <1>4
  <2>3. buf[Len(header) + 1] = Nul
    BY <1>3, <1>4
  <2>. QED
    BY <1>4, <2>1, <2>2, <2>3 DEF TypeOK
<1>6. OnlySeparatorsChange
  BY <1>3, <1>4 DEF OnlySeparatorsChange
<1>7. Ordered /\ StillEnded
  BY <1>4 DEF Ordered, StillEnded
<1>. QED
  BY <1>5, <1>6, <1>7 DEF IInv

(* What one turn of the parser does to the buffer: it cuts the buffer at a *)
(* "=" and, where there is one, at the ";" that ends the value.            *)
Cut(name, eq, end) ==
    /\ MoreToSplit
    /\ SkipsTo(p, name) /\ Finds(name, Eq, eq)
    /\ cookies' = Append(cookies, [name |-> name, value |-> eq + 1])
    /\ \/ /\ Finds(eq + 1, Semi, end)
          /\ buf' = [buf EXCEPT ![eq] = Nul, ![end] = Nul]
          /\ p' = end + 1
       \/ /\ FindsNone(eq + 1, Semi) /\ EndsAt(eq + 1, end)
          /\ buf' = [buf EXCEPT ![eq] = Nul]
          /\ p' = end
    /\ UNCHANGED <<header, at, pc>>

LEMMA CutFacts ==
    ASSUME IInv, NEW name \in Positions, NEW eq \in Positions, NEW end \in Positions,
           Cut(name, eq, end)
    PROVE  /\ Len(header) \in Nat /\ Len(cookies) \in Nat /\ p \in 1..(Len(header) + 1)
           /\ buf[Len(header) + 1] = Nul /\ buf[p] # Nul
           /\ at = 1 /\ pc = "split"
           /\ header' = header /\ at' = at /\ pc' = pc
           /\ name \in 1..Len(header) /\ eq \in 1..Len(header)
           /\ p <= name /\ name <= eq /\ header[eq] = Eq
           /\ cookies' \in Seq([name : 1..Len(header), value : 2..(Len(header) + 1)])
           /\ Len(cookies') = Len(cookies) + 1
           /\ \A i \in 1..Len(cookies) : cookies'[i].value = cookies[i].value
           /\ cookies'[Len(cookies) + 1].value = eq + 1
           /\ \A i \in 1..Len(cookies) : cookies[i].value \in 2..(Len(header) + 1)
           /\ buf' \in [1..(Len(header) + 1) -> Chars \cup {Nul}]
           /\ buf'[Len(header) + 1] = Nul
           /\ buf'[eq] = Nul /\ buf'[end] = Nul
           /\ \A j \in 1..(Len(header) + 1) : j # eq /\ j # end => buf'[j] = buf[j]
           /\ end \in 1..(Len(header) + 1) /\ eq < end
           /\ \A j \in (eq + 1)..(end - 1) : buf[j] # Nul
           /\ \/ end <= Len(header) /\ header[end] = Semi /\ p' = end + 1
              \/ p' = end /\ buf[end] = Nul
           /\ p' \in 1..(Len(header) + 1) /\ eq < p' /\ p < p'
<1> DEFINE n == Len(cookies)
           len == Len(header)
           val(i) == cookies[i].value
           newval(i) == cookies'[i].value
<1>1. /\ len \in Nat /\ n \in Nat /\ p \in 1..(len + 1)
      /\ buf[len + 1] = Nul /\ buf[p] # Nul
      /\ at = 1 /\ pc = "split"
  <2>1. header \in Seq(Chars)
    BY HeadersAssumption DEF IInv, TypeOK
  <2>2. /\ p \in 1..(len + 1) /\ buf[len + 1] = Nul
        /\ cookies \in Seq([name : 1..len, value : 2..(len + 1)])
    BY DEF IInv, TypeOK
  <2>3. pc = "split" /\ buf[p] # Nul
    BY DEF Cut, MoreToSplit
  <2>4. at = 1
    BY <2>3 DEF IInv, StillEnded
  <2>5. len \in Nat /\ n \in Nat
    BY <2>1, <2>2, LenProperties
  <2>. QED
    BY <2>2, <2>3, <2>4, <2>5
<1>2. header' = header /\ at' = at /\ pc' = pc
  BY DEF Cut
<1>3. name \in 1..len /\ eq \in 1..len /\ p <= name /\ name <= eq /\ header[eq] = Eq
  <2>1. p <= name /\ name <= eq /\ buf[eq] = Eq
    BY DEF Cut, SkipsTo, Finds
  <2>2. eq # len + 1
    BY <2>1, <1>1, SeparatorsDiffer
  <2>3. eq \in 1..len /\ name \in 1..len
    BY <2>1, <2>2, <1>1 DEF Positions
  <2>4. header[eq] = Eq
    BY <2>1, <2>3, SeparatorsDiffer DEF IInv, OnlySeparatorsChange
  <2>. QED
    BY <2>1, <2>3, <2>4
<1>4. /\ cookies' \in Seq([name : 1..len, value : 2..(len + 1)])
      /\ Len(cookies') = n + 1
      /\ \A i \in 1..n : newval(i) = val(i)
      /\ newval(n + 1) = eq + 1
      /\ \A i \in 1..n : val(i) \in 2..(len + 1)
  <2>1. [name |-> name, value |-> eq + 1] \in [name : 1..len, value : 2..(len + 1)]
    BY <1>1, <1>3
  <2>2. cookies' = Append(cookies, [name |-> name, value |-> eq + 1])
    BY DEF Cut
  <2>3. cookies \in Seq([name : 1..len, value : 2..(len + 1)])
    BY DEF IInv, TypeOK
  <2>4. \A i \in 1..n : cookies[i] \in [name : 1..len, value : 2..(len + 1)]
    BY <2>3, ElementOfSeq
  <2>5. /\ cookies' \in Seq([name : 1..len, value : 2..(len + 1)])
        /\ Len(cookies') = n + 1
        /\ \A i \in 1..n : cookies'[i] = cookies[i]
        /\ cookies'[n + 1] = [name |-> name, value |-> eq + 1]
    BY <2>1, <2>2, <2>3, AppendProperties
  <2>6. \A i \in 1..n : val(i) \in 2..(len + 1)
    BY <2>4
  <2>7. \A i \in 1..n : newval(i) = val(i)
    BY <2>5
  <2>8. newval(n + 1) = eq + 1
    BY <2>5
  <2>. QED
    BY <2>5, <2>6, <2>7, <2>8
<1>5. \A i \in 1..n : header[val(i) - 1] = Eq /\ val(i) <= p
  BY DEF IInv, Ordered
<1>6. \A i, j \in 1..n : i < j => val(i) < val(j)
  BY DEF IInv, Ordered
<1>7. buf \in [1..(len + 1) -> Chars \cup {Nul}]
  BY DEF IInv, TypeOK
<1>8. \A i \in 1..len : buf[i] = header[i] \/ (buf[i] = Nul /\ header[i] \in {Eq, Semi})
  BY DEF IInv, OnlySeparatorsChange
<1>9. Positions = 1..(len + 1)
  BY DEF Positions
<1> HIDE DEF n, len, val, newval
<1>10. /\ buf' \in [1..(len + 1) -> Chars \cup {Nul}]
       /\ buf'[len + 1] = Nul
       /\ buf'[eq] = Nul /\ buf'[end] = Nul
       /\ \A j \in 1..(len + 1) : j # eq /\ j # end => buf'[j] = buf[j]
       /\ end \in 1..(len + 1) /\ eq < end
       /\ \A j \in (eq + 1)..(end - 1) : buf[j] # Nul
       /\ \/ end <= len /\ header[end] = Semi /\ p' = end + 1
          \/ p' = end /\ buf[end] = Nul
  <2>1. CASE /\ Finds(eq + 1, Semi, end)
             /\ buf' = [buf EXCEPT ![eq] = Nul, ![end] = Nul]
             /\ p' = end + 1
    <3>1. eq < end /\ buf[end] = Semi /\ \A j \in (eq + 1)..(end - 1) : buf[j] # Nul
      BY <1>1, <1>3, <1>9, <2>1 DEF Finds
    <3>2. end # len + 1
      BY <3>1, <1>1, SeparatorsDiffer
    <3>3. end \in 1..len
      BY <3>2, <1>1, <1>9
    <3>4. header[end] = Semi
      BY <3>1, <3>3, <1>8, SeparatorsDiffer
    <3>5. buf' \in [1..(len + 1) -> Chars \cup {Nul}]
      BY <1>7, <2>1
    <3>6. /\ buf'[eq] = Nul /\ buf'[end] = Nul
          /\ \A j \in 1..(len + 1) : j # eq /\ j # end => buf'[j] = buf[j]
      BY <1>1, <1>3, <1>7, <2>1, <3>3
    <3>7. buf'[len + 1] = Nul
      BY <1>1, <1>3, <3>3, <3>6
    <3>. QED
      BY <1>1, <2>1, <3>1, <3>3, <3>4, <3>5, <3>6, <3>7
  <2>2. CASE /\ EndsAt(eq + 1, end)
             /\ buf' = [buf EXCEPT ![eq] = Nul]
             /\ p' = end
    <3>1. eq < end /\ buf[end] = Nul /\ \A j \in (eq + 1)..(end - 1) : buf[j] # Nul
      BY <1>1, <1>3, <1>9, <2>2 DEF EndsAt, Finds
    <3>. QED
      BY <1>1, <1>3, <1>7, <1>9, <2>2, <3>1
  <2>. QED
    BY <2>1, <2>2 DEF Cut
<1>11. p' \in 1..(len + 1) /\ eq < p' /\ p < p'
  BY <1>1, <1>3, <1>10
<1>. QED
  BY <1>1, <1>2, <1>3, <1>4, <1>10, <1>11 DEF n, len, val, newval

LEMMA SplitStep ==
    ASSUME IInv, NEW name \in Positions, NEW eq \in Positions, NEW end \in Positions,
           Cut(name, eq, end)
    PROVE  IInv'
<1> DEFINE n == Len(cookies)
           len == Len(header)
           val(i) == cookies[i].value
           newval(i) == cookies'[i].value
<1>1. /\ len \in Nat /\ n \in Nat /\ p \in 1..(len + 1)
      /\ buf[len + 1] = Nul /\ buf[p] # Nul
      /\ at = 1 /\ pc = "split"
  BY CutFacts
<1>2. header' = header /\ at' = at /\ pc' = pc
  BY CutFacts
<1>3. name \in 1..len /\ eq \in 1..len /\ p <= name /\ name <= eq /\ header[eq] = Eq
  BY CutFacts
<1>4. /\ cookies' \in Seq([name : 1..len, value : 2..(len + 1)])
      /\ Len(cookies') = n + 1
      /\ \A i \in 1..n : newval(i) = val(i)
      /\ newval(n + 1) = eq + 1
      /\ \A i \in 1..n : val(i) \in 2..(len + 1)
  BY CutFacts
<1>5. \A i \in 1..n : header[val(i) - 1] = Eq /\ val(i) <= p
  BY DEF IInv, Ordered
<1>6. \A i, j \in 1..n : i < j => val(i) < val(j)
  BY DEF IInv, Ordered
<1>7. buf \in [1..(len + 1) -> Chars \cup {Nul}]
  BY DEF IInv, TypeOK
<1>8. \A i \in 1..len : buf[i] = header[i] \/ (buf[i] = Nul /\ header[i] \in {Eq, Semi})
  BY DEF IInv, OnlySeparatorsChange
<1>9. Positions = 1..(len + 1)
  BY DEF Positions
<1>10. /\ buf' \in [1..(len + 1) -> Chars \cup {Nul}]
       /\ buf'[len + 1] = Nul
       /\ buf'[eq] = Nul /\ buf'[end] = Nul
       /\ \A j \in 1..(len + 1) : j # eq /\ j # end => buf'[j] = buf[j]
       /\ end \in 1..(len + 1) /\ eq < end
       /\ \A j \in (eq + 1)..(end - 1) : buf[j] # Nul
       /\ \/ end <= len /\ header[end] = Semi /\ p' = end + 1
          \/ p' = end /\ buf[end] = Nul
  BY CutFacts, SMTT(60)
<1>11. p' \in 1..(len + 1) /\ eq < p' /\ p < p'
  BY CutFacts
<1> HIDE DEF n, len, val, newval
<1>12. TypeOK'
  <2>1. header \in Seq(Chars)
    BY DEF IInv, TypeOK
  <2>2. at' \in 1..(Len(cookies') + 1)
    BY <1>1, <1>2, <1>4
  <2>. QED
    BY <1>1, <1>2, <1>4, <1>10, <1>11, <2>1, <2>2 DEF TypeOK, len
<1>13. OnlySeparatorsChange'
  <2>1. \A i \in 1..len : buf'[i] = header[i] \/ (buf'[i] = Nul /\ header[i] \in {Eq, Semi})
    <3> SUFFICES ASSUME NEW i \in 1..len
                 PROVE  buf'[i] = header[i] \/ (buf'[i] = Nul /\ header[i] \in {Eq, Semi})
      OBVIOUS
    <3>1. CASE i = eq
      BY <1>3, <1>10, <3>1
    <3>2. CASE i = end
      BY <1>8, <1>10, <3>2
    <3>3. CASE i # eq /\ i # end
      BY <1>1, <1>8, <1>10, <3>3
    <3>. QED
      BY <3>1, <3>2, <3>3
  <2>. QED
    BY <1>2, <2>1 DEF OnlySeparatorsChange, len
<1>14. Ordered'
  <2>1. \A i \in 1..(n + 1) : header[newval(i) - 1] = Eq /\ newval(i) <= p'
    <3> SUFFICES ASSUME NEW i \in 1..(n + 1)
                 PROVE  header[newval(i) - 1] = Eq /\ newval(i) <= p'
      OBVIOUS
    <3>1. CASE i = n + 1
      <4>1. newval(i) = eq + 1 /\ newval(i) - 1 = eq
        BY <1>3, <1>4, <3>1
      <4>. QED
        BY <1>3, <1>11, <4>1
    <3>2. CASE i \in 1..n
      <4>1. /\ newval(i) = val(i) /\ header[val(i) - 1] = Eq
            /\ val(i) <= p /\ val(i) \in 2..(len + 1)
        BY <1>4, <1>5, <3>2
      <4>2. newval(i) <= p'
        BY <1>1, <1>11, <4>1
      <4>. QED
        BY <4>1, <4>2
    <3>. QED
      BY <1>1, <3>1, <3>2
  <2>2. \A i, j \in 1..(n + 1) : i < j => newval(i) < newval(j)
    <3> SUFFICES ASSUME NEW i \in 1..(n + 1), NEW j \in 1..(n + 1), i < j
                 PROVE  newval(i) < newval(j)
      OBVIOUS
    <3>1. i \in 1..n /\ newval(i) = val(i) /\ val(i) <= p /\ val(i) \in 2..(len + 1)
      BY <1>1, <1>4, <1>5
    <3>2. CASE j = n + 1
      BY <1>1, <1>3, <1>4, <3>1, <3>2
    <3>3. CASE j \in 1..n
      BY <1>4, <1>6, <3>1, <3>3
    <3>. QED
      BY <1>1, <3>2, <3>3
  <2>. QED
    BY <1>2, <1>4, <2>1, <2>2 DEF Ordered, newval
<1>15. \A i \in 1..(n + 1) : EndsHeader(i)' \/ \E s \in Positions : EndedBy(i, s)'
  <2> SUFFICES ASSUME NEW i \in 1..(n + 1)
               PROVE  EndsHeader(i)' \/ \E s \in Positions : EndedBy(i, s)'
    OBVIOUS
  <2>1. CASE i = n + 1
    <3>1. CASE p' = end
      BY <1>4, <1>10, <2>1, <3>1 DEF EndsHeader
    <3>2. CASE end <= len /\ header[end] = Semi /\ p' = end + 1
      <4>1. \A j \in (eq + 1)..(end - 1) : buf'[j] # Nul
        BY <1>1, <1>3, <1>10
      <4>2. newval(i) = eq + 1 /\ eq + 1 <= end
        BY <1>3, <1>4, <1>10, <2>1
      <4>4. EndsAt(val(i), end)'
        BY <1>2, <1>10, <4>1, <4>2 DEF EndsAt, Finds, Positions, len, val, newval
      <4>3. ~(i < n + 1) /\ end < p'
        BY <1>1, <1>10, <2>1, <3>2
      <4>5. EndedBy(i, end)'
        BY <1>2, <1>4, <3>2, <4>3, <4>4 DEF EndedBy, len, val
      <4>. QED
        BY <4>5
    <3>. QED
      BY <1>10, <3>1, <3>2
  <2>2. CASE i \in 1..n
    <3>1. PICK s \in Positions : EndedBy(i, s)
      <4>1. ~EndsHeader(i)
        BY <1>1 DEF EndsHeader
      <4>. QED
        BY <1>1, <2>2, <4>1 DEF IInv, StillEnded, n
    <3>2. /\ s <= len /\ s < p /\ header[s] = Semi
          /\ val(i) <= s /\ buf[s] = Nul
          /\ \A j \in val(i)..(s - 1) : buf[j] # Nul
          /\ i < n => s < val(i + 1)
      BY <3>1 DEF EndedBy, EndsAt, Finds, n, len, val
    <3>3. s \in 1..len /\ \A j \in 1..s : buf'[j] = buf[j]
      BY <1>1, <1>3, <1>9, <1>10, <3>2
    <3>4. val(i) \in 1..s /\ newval(i) = val(i)
      BY <1>1, <1>4, <2>2, <3>2, <3>3
    <3>5. EndsAt(val(i), s)'
      <4>1. \A j \in val(i)..(s - 1) : buf'[j] # Nul
        BY <3>2, <3>3, <3>4
      <4>2. buf'[s] = Nul
        BY <3>2, <3>3
      <4>. QED
        BY <1>2, <3>2, <3>4, <4>1, <4>2 DEF EndsAt, Finds, Positions, val, newval
    <3>6. i < n + 1 => s < newval(i + 1)
      <4>1. CASE i < n
        <5>1. i + 1 \in 1..n
          BY <1>1, <2>2, <4>1
        <5>. QED
          BY <1>4, <3>2, <4>1, <5>1
      <4>2. CASE i = n
        BY <1>1, <1>3, <1>4, <3>2, <3>3, <4>2
      <4>. QED
        BY <1>1, <2>2, <4>1, <4>2
    <3>7. s < p'
      BY <1>1, <1>11, <3>2, <3>3
    <3>. QED
      BY <1>2, <1>4, <3>2, <3>5, <3>6, <3>7 DEF EndedBy, len, val, newval
  <2>. QED
    BY <1>1, <2>1, <2>2
<1>16. StillEnded'
  BY <1>1, <1>2, <1>4, <1>15 DEF StillEnded, Positions
<1>. QED
  BY <1>12, <1>13, <1>14, <1>16 DEF IInv

(* What one turn of the restorer does.                                     *)
Mend(end) ==
    /\ pc = "parsed" /\ at <= Len(cookies)
    /\ EndsAt(cookies[at].value, end)
    /\ buf' = IF at < Len(cookies)
              THEN [buf EXCEPT ![cookies[at].value - 1] = Eq, ![end] = Semi]
              ELSE [buf EXCEPT ![cookies[at].value - 1] = Eq]
    /\ at' = at + 1
    /\ UNCHANGED <<header, cookies, p, pc>>

LEMMA MendFacts ==
    ASSUME IInv, NEW end \in Positions, Mend(end)
    PROVE  /\ Len(header) \in Nat /\ Len(cookies) \in Nat /\ p \in 1..(Len(header) + 1)
           /\ buf[Len(header) + 1] = Nul
           /\ at \in 1..Len(cookies) /\ pc = "parsed" /\ at' = at + 1
           /\ header' = header /\ cookies' = cookies /\ p' = p /\ pc' = pc
           /\ \A i \in 1..Len(cookies) : cookies[i].value \in 2..(Len(header) + 1)
           /\ \A i \in 1..Len(cookies) : header[cookies[i].value - 1] = Eq
           /\ \A i, j \in 1..Len(cookies) : i < j => cookies[i].value < cookies[j].value
           /\ cookies[at].value <= end /\ buf[end] = Nul
           /\ \A j \in cookies[at].value..(end - 1) : buf[j] # Nul
           /\ at < Len(cookies) =>
                 end <= Len(header) /\ header[end] = Semi /\ end < cookies[at + 1].value
           /\ cookies[at].value - 1 \in 1..Len(header) /\ header[cookies[at].value - 1] = Eq
           /\ cookies[at].value \in 2..(Len(header) + 1) /\ end \in 1..(Len(header) + 1)
           /\ buf' \in [1..(Len(header) + 1) -> Chars \cup {Nul}]
           /\ buf'[cookies[at].value - 1] = Eq
           /\ at < Len(cookies) => buf'[end] = Semi
           /\ \A j \in 1..(Len(header) + 1) :
                 j # cookies[at].value - 1 /\ (at < Len(cookies) => j # end) => buf'[j] = buf[j]
<1> DEFINE n == Len(cookies)
           len == Len(header)
           val(i) == cookies[i].value
<1>1. /\ len \in Nat /\ n \in Nat /\ p \in 1..(len + 1)
      /\ buf[len + 1] = Nul
      /\ at \in 1..n /\ pc = "parsed" /\ at' = at + 1
  <2>1. header \in Seq(Chars)
    BY HeadersAssumption DEF IInv, TypeOK
  <2>2. /\ p \in 1..(len + 1) /\ buf[len + 1] = Nul /\ at \in 1..(n + 1)
        /\ cookies \in Seq([name : 1..len, value : 2..(len + 1)])
    BY DEF IInv, TypeOK
  <2>3. pc = "parsed" /\ at <= n /\ at' = at + 1
    BY DEF Mend
  <2>4. len \in Nat
    BY <2>1, LenProperties
  <2>5. n \in Nat
    BY <2>2, LenProperties
  <2> HIDE DEF len, n
  <2>6. at \in 1..n
    BY <2>2, <2>3, <2>5
  <2>. QED
    BY <2>2, <2>3, <2>4, <2>5, <2>6
<1>2. header' = header /\ cookies' = cookies /\ p' = p /\ pc' = pc
  BY DEF Mend
<1>3. cookies \in Seq([name : 1..len, value : 2..(len + 1)])
  BY DEF IInv, TypeOK
<1>4. \A i \in 1..n : val(i) \in 2..(len + 1)
  <2>1. \A i \in 1..n : cookies[i] \in [name : 1..len, value : 2..(len + 1)]
    BY <1>3, ElementOfSeq
  <2>. QED
    BY <2>1
<1>5. \A i \in 1..n : header[val(i) - 1] = Eq
  BY DEF IInv, Ordered
<1>6. \A i, j \in 1..n : i < j => val(i) < val(j)
  BY DEF IInv, Ordered
<1>7. buf \in [1..(len + 1) -> Chars \cup {Nul}]
  BY DEF IInv, TypeOK
<1>8. \A i \in 1..len : buf[i] = header[i] \/ (buf[i] = Nul /\ header[i] \in {Eq, Semi})
  BY DEF IInv, OnlySeparatorsChange
<1>9. Positions = 1..(len + 1)
  BY DEF Positions
<1>10. val(at) <= end /\ buf[end] = Nul /\ \A j \in val(at)..(end - 1) : buf[j] # Nul
  BY DEF Mend, EndsAt, Finds
<1>11. /\ \A i \in 1..n : at <= i =>
              \/ EndsHeader(i)
              \/ \E s \in 1..(len + 1) :
                    /\ s <= len /\ header[s] = Semi /\ s < p
                    /\ val(i) <= s /\ buf[s] = Nul
                    /\ \A j \in val(i)..(s - 1) : buf[j] # Nul
                    /\ i < n => s < val(i + 1)
  BY DEF IInv, StillEnded, EndedBy, EndsAt, Finds, Positions
<1>12. \A i \in 1..n : i < n => ~EndsHeader(i)
  BY DEF EndsHeader
<1> HIDE DEF n, len, val
(* The end of a value that another entry follows is its ";".               *)
<1>13. at < n => end <= len /\ header[end] = Semi /\ end < val(at + 1)
  <2> SUFFICES ASSUME at < n
               PROVE  end <= len /\ header[end] = Semi /\ end < val(at + 1)
    OBVIOUS
  <2>1. PICK s \in 1..(len + 1) :
           /\ s <= len /\ header[s] = Semi
           /\ val(at) <= s /\ buf[s] = Nul
           /\ \A j \in val(at)..(s - 1) : buf[j] # Nul
           /\ s < val(at + 1)
    BY <1>1, <1>11, <1>12
  <2>2. s = end
    <3>1. val(at) \in 2..(len + 1)
      BY <1>1, <1>4
    <3>2. ~(s < end)
      BY <1>9, <1>10, <2>1, <3>1
    <3>3. ~(end < s)
      BY <1>9, <1>10, <2>1, <3>1
    <3>. QED
      BY <1>1, <1>9, <2>1, <3>2, <3>3
  <2>. QED
    BY <2>1, <2>2
<1>14. /\ val(at) - 1 \in 1..len /\ header[val(at) - 1] = Eq
       /\ val(at) \in 2..(len + 1) /\ end \in 1..(len + 1)
  BY <1>1, <1>4, <1>5, <1>9
<1>15. /\ buf' \in [1..(len + 1) -> Chars \cup {Nul}]
       /\ buf'[val(at) - 1] = Eq
       /\ at < n => buf'[end] = Semi
       /\ \A j \in 1..(len + 1) :
             j # val(at) - 1 /\ (at < n => j # end) => buf'[j] = buf[j]
  <2>1. CASE at < n
    <3>1. buf' = [buf EXCEPT ![val(at) - 1] = Eq, ![end] = Semi]
      BY <2>1 DEF Mend, n, val
    <3>2. end # val(at) - 1
      BY <1>10, <1>14
    <3>. QED
      BY <1>1, <1>7, <1>14, <2>1, <3>1, <3>2, SeparatorsDiffer
  <2>2. CASE ~(at < n)
    <3>1. buf' = [buf EXCEPT ![val(at) - 1] = Eq]
      BY <2>2 DEF Mend, n, val
    <3>. QED
      BY <1>1, <1>7, <1>14, <2>2, <3>1, SeparatorsDiffer
  <2>. QED
    BY <2>1, <2>2
<1>. QED
  BY <1>1, <1>2, <1>4, <1>5, <1>6, <1>10, <1>13, <1>14, <1>15 DEF n, len, val

LEMMA RestoreStep ==
    ASSUME IInv, NEW end \in Positions, Mend(end)
    PROVE  IInv'
<1> DEFINE n == Len(cookies)
           len == Len(header)
           val(i) == cookies[i].value
<1>1. /\ len \in Nat /\ n \in Nat /\ p \in 1..(len + 1)
      /\ buf[len + 1] = Nul
      /\ at \in 1..n /\ pc = "parsed" /\ at' = at + 1
  BY MendFacts
<1>2. header' = header /\ cookies' = cookies /\ p' = p /\ pc' = pc
  BY MendFacts
<1>3. cookies \in Seq([name : 1..len, value : 2..(len + 1)])
  BY DEF IInv, TypeOK
<1>4. \A i \in 1..n : val(i) \in 2..(len + 1)
  BY MendFacts
<1>5. \A i \in 1..n : header[val(i) - 1] = Eq
  BY MendFacts
<1>6. \A i, j \in 1..n : i < j => val(i) < val(j)
  BY MendFacts
<1>7. buf \in [1..(len + 1) -> Chars \cup {Nul}]
  BY DEF IInv, TypeOK
<1>8. \A i \in 1..len : buf[i] = header[i] \/ (buf[i] = Nul /\ header[i] \in {Eq, Semi})
  BY DEF IInv, OnlySeparatorsChange
<1>9. Positions = 1..(len + 1)
  BY DEF Positions
<1>10. val(at) <= end /\ buf[end] = Nul /\ \A j \in val(at)..(end - 1) : buf[j] # Nul
  BY MendFacts
<1>13. at < n => end <= len /\ header[end] = Semi /\ end < val(at + 1)
  BY MendFacts
<1>14. /\ val(at) - 1 \in 1..len /\ header[val(at) - 1] = Eq
       /\ val(at) \in 2..(len + 1) /\ end \in 1..(len + 1)
  BY MendFacts
<1>15. /\ buf' \in [1..(len + 1) -> Chars \cup {Nul}]
       /\ buf'[val(at) - 1] = Eq
       /\ at < n => buf'[end] = Semi
       /\ \A j \in 1..(len + 1) :
             j # val(at) - 1 /\ (at < n => j # end) => buf'[j] = buf[j]
  BY MendFacts
<1>11. /\ \A i \in 1..n : at <= i =>
              \/ EndsHeader(i)
              \/ \E s \in 1..(len + 1) :
                    /\ s <= len /\ header[s] = Semi /\ s < p
                    /\ val(i) <= s /\ buf[s] = Nul
                    /\ \A j \in val(i)..(s - 1) : buf[j] # Nul
                    /\ i < n => s < val(i + 1)
  BY DEF IInv, StillEnded, EndedBy, EndsAt, Finds, Positions
<1> HIDE DEF n, len, val
<1>16. TypeOK'
  <2>1. header \in Seq(Chars)
    BY DEF IInv, TypeOK
  <2>2. at' \in 1..(n + 1)
    BY <1>1
  <2>3. buf'[len + 1] = Nul
    BY <1>1, <1>13, <1>14, <1>15
  <2>. QED
    BY <1>1, <1>2, <1>3, <1>15, <2>1, <2>2, <2>3 DEF TypeOK, len, n
<1>17. OnlySeparatorsChange'
  <2>1. \A i \in 1..len : buf'[i] = header[i] \/ (buf'[i] = Nul /\ header[i] \in {Eq, Semi})
    <3> SUFFICES ASSUME NEW i \in 1..len
                 PROVE  buf'[i] = header[i] \/ (buf'[i] = Nul /\ header[i] \in {Eq, Semi})
      OBVIOUS
    <3>1. CASE i = val(at) - 1
      BY <1>14, <1>15, <3>1
    <3>2. CASE at < n /\ i = end
      BY <1>13, <1>15, <3>2
    <3>3. CASE i # val(at) - 1 /\ (at < n => i # end)
      BY <1>1, <1>8, <1>15, <3>3
    <3>. QED
      BY <3>1, <3>2, <3>3
  <2>. QED
    BY <1>2, <2>1 DEF OnlySeparatorsChange, len
<1>18. Ordered'
  BY <1>2 DEF IInv, Ordered
<1>19. \A i \in 1..n : at + 1 <= i => EndsHeader(i)' \/ \E s \in Positions : EndedBy(i, s)'
  <2> SUFFICES ASSUME NEW i \in 1..n, at + 1 <= i, ~EndsHeader(i)'
               PROVE  \E s \in Positions : EndedBy(i, s)'
    OBVIOUS
  <2>1. ~EndsHeader(i)
    BY <1>1, <1>2 DEF EndsHeader
  <2>2. PICK s \in 1..(len + 1) :
           /\ s <= len /\ header[s] = Semi /\ s < p
           /\ val(i) <= s /\ buf[s] = Nul
           /\ \A j \in val(i)..(s - 1) : buf[j] # Nul
           /\ i < n => s < val(i + 1)
    BY <1>1, <1>11, <2>1
  <2>3. at < n /\ at + 1 \in 1..n /\ val(at) < val(i) /\ val(at + 1) <= val(i)
    <3>1. at < n /\ at + 1 \in 1..n
      BY <1>1
    <3>2. at < i /\ (at + 1 = i \/ at + 1 < i)
      BY <1>1
    <3>. QED
      BY <1>1, <1>4, <1>6, <3>1, <3>2
  <2>4. \A j \in val(i)..s : buf'[j] = buf[j]
    <3>1. val(i) \in 2..(len + 1) /\ val(at + 1) \in 2..(len + 1)
      BY <1>4, <2>3
    <3>. QED
      BY <1>1, <1>13, <1>14, <1>15, <2>2, <2>3, <3>1
  <2>5. val(i) \in 2..s
    BY <1>4, <2>2
  <2>6. EndsAt(val(i), s)'
    <3>1. \A j \in val(i)..(s - 1) : buf'[j] # Nul
      BY <2>2, <2>4, <2>5
    <3>2. buf'[s] = Nul
      BY <2>2, <2>4, <2>5
    <3>. QED
      BY <1>2, <2>2, <3>1, <3>2 DEF EndsAt, Finds, Positions, len, val
  <2>7. EndedBy(i, s)'
    BY <1>2, <2>2, <2>6 DEF EndedBy, len, val, n
  <2>. QED
    BY <1>9, <2>2, <2>7
<1>20. StillEnded'
  BY <1>1, <1>2, <1>19 DEF StillEnded, Positions, n
<1>. QED
  BY <1>16, <1>17, <1>18, <1>20 DEF IInv

(* A step that leaves the buffer and the array alone and never goes back   *)
(* to splitting.                                                           *)
LEMMA PhaseStep ==
    ASSUME IInv, UNCHANGED <<header, buf, cookies, p, at>>,
           pc' = pc \/ pc' \in {"parsed", "restored"}
    PROVE  IInv'
<1>1. TypeOK'
  BY DEF IInv, TypeOK
<1>2. OnlySeparatorsChange' /\ Ordered'
  BY DEF IInv, OnlySeparatorsChange, Ordered
<1>3. pc' = "split" => pc = "split"
  OBVIOUS
<1>4. \A i : EndsHeader(i) => EndsHeader(i)'
  BY <1>3 DEF EndsHeader
<1>5. \A i, s : EndedBy(i, s) => EndedBy(i, s)'
  BY DEF EndedBy, EndsAt, Finds, Positions
<1>6. StillEnded'
  <2>1. \A i \in 1..Len(cookies) :
           at <= i => EndsHeader(i)' \/ \E s \in Positions : EndedBy(i, s)'
    BY <1>4, <1>5 DEF IInv, StillEnded
  <2>. QED
    BY <1>3, <2>1 DEF IInv, StillEnded, Positions
<1>. QED
  BY <1>1, <1>2, <1>6 DEF IInv

LEMMA IInvStep == IInv /\ [Next]_vars => IInv'
<1> SUFFICES ASSUME IInv, [Next]_vars PROVE IInv'
  OBVIOUS
<1>1. CASE split_cookie
  <2>1. PICK name \in Positions, eq \in Positions, end \in Positions : Cut(name, eq, end)
    BY <1>1 DEF split_cookie, Cut
  <2>. QED
    BY <2>1, SplitStep
<1>2. CASE parse_ends
  BY <1>2, PhaseStep DEF parse_ends
<1>3. CASE restore_cookie
  <2>1. PICK end \in Positions : Mend(end)
    BY <1>3 DEF restore_cookie, Mend
  <2>. QED
    BY <2>1, RestoreStep
<1>4. CASE restore_ends
  BY <1>4, PhaseStep DEF restore_ends
<1>5. CASE UNCHANGED vars
  BY <1>5, PhaseStep DEF vars
<1>. QED
  BY <1>1, <1>2, <1>3, <1>4, <1>5 DEF Next

THEOREM CookiesInvariant == Spec => []IInv
<1>1. Init => IInv
  BY IInvInit
<1>2. IInv /\ [Next]_vars => IInv'
  BY IInvStep
<1>. QED
  BY <1>1, <1>2, PTL DEF Spec

(* For every header a browser may send, however malformed, the parser      *)
(* stays inside the header and ends inside the array it has counted        *)
(* entries for.                                                            *)
THEOREM InsideTheHeader == Spec => []TypeOK
<1>1. IInv => TypeOK
  BY DEF IInv
<1>. QED
  BY <1>1, CookiesInvariant, PTL

(* For every header, no character of a name or of a value is ever          *)
(* overwritten: what differs from the header as it arrived is a separator  *)
(* that is cut out, before, during and after the restoring.                *)
THEOREM SeparatorsOnly == Spec => []OnlySeparatorsChange
<1>1. IInv => OnlySeparatorsChange
  BY DEF IInv
<1>. QED
  BY <1>1, CookiesInvariant, PTL

-----------------------------------------------------------------------------
LEMMA LeastNatural ==
    ASSUME NEW T \in SUBSET Nat, T # {}
    PROVE  \E m \in T : \A k \in T : m <= k
<1> DEFINE R == OpToRel(<, Nat)
<1>1. \A x, y \in Nat : x < y => <<x, y>> \in R
  BY DEF OpToRel
<1>2. IsWellFoundedOn(R, Nat)
  BY NatLessThanWellFounded
<1> HIDE DEF R
<1>3. PICK m \in T : \A k \in T : ~(<<k, m>> \in R)
  BY <1>2, WFMin
<1>4. \A k \in T : k \in Nat /\ m \in Nat /\ ~(k < m)
  BY <1>1, <1>3
<1>5. \A k \in T : m <= k
  BY <1>4
<1>. QED  BY <1>5

(* A byte that entry j cuts out and that restoring the entry puts back.    *)
CutBy(j, i) == i = cookies[j].value - 1 \/ (j < Len(cookies) /\ EndedBy(j, i))

(* What differs from the header is cut out by an entry that is not         *)
(* restored yet, or is the ";" after the last pair.                        *)
Tracked ==
    \A i \in 1..Len(header) :
        buf[i] # header[i] => \/ \E j \in at..Len(cookies) : CutBy(j, i)
                              \/ i + 1 = p /\ header[i] = Semi

SemisBefore(k) == {i \in 1..(k - 1) : header[i] = Semi}

(* While the parser runs, nothing has changed from p on, p is where a      *)
(* segment begins, the entry before it ended there, and there is room for  *)
(* an entry more.                                                          *)
Ahead ==
    pc = "split" =>
        /\ \A i \in p..Len(header) : buf[i] = header[i]
        /\ p = 1 \/ p = Len(header) + 1 \/ header[p - 1] = Semi
        /\ Len(cookies) = 0 => p = 1
        /\ p <= Len(header) /\ Len(cookies) # 0 => EndedBy(Len(cookies), p - 1)
        /\ p <= Len(header) => Len(cookies) <= Cardinality(SemisBefore(p))

(* The restorer goes through all entries, and the parser through all       *)
(* pairs.                                                                  *)
Finished ==
    /\ pc = "restored" => at > Len(cookies)
    /\ pc # "split" /\ WellFormed(header) => \A k \in p..Len(header) : header[k] = Space

Tracking == Tracked /\ Ahead /\ Finished

LEMMA TrackingInit == Init => Tracking
<1> SUFFICES ASSUME Init PROVE Tracking
  OBVIOUS
<1>1. header \in Seq(Chars) /\ Len(header) \in Nat
  BY HeadersAssumption DEF Init
<1>2. \A i \in 1..Len(header) : buf[i] = header[i]
  <2>1. header \in Seq(Chars \cup {Nul}) /\ Nul \in Chars \cup {Nul}
    BY <1>1
  <2> DEFINE S == Chars \cup {Nul}
  <2> HIDE DEF S
  <2>2. header \in Seq(S) /\ Nul \in S
    BY <2>1 DEF S
  <2>3. \A i \in 1..Len(header) : Append(header, Nul)[i] = header[i]
    BY <2>2, Terminated
  <2>. QED  BY <2>3 DEF Init
<1>3. p = 1 /\ pc = "split" /\ Len(cookies) = 0
  BY DEF Init
<1>4. Tracked
  BY <1>2 DEF Tracked
<1>5. Cardinality(SemisBefore(p)) \in Nat
  <2>1. SemisBefore(p) = {}
    BY <1>3 DEF SemisBefore
  <2>. QED  BY <2>1, FS_EmptySet
<1>6. Ahead
  BY <1>1, <1>2, <1>3, <1>5 DEF Ahead
<1>. QED  BY <1>3, <1>4, <1>6 DEF Tracking, Finished

(* A turn of the parser leaves the ends of the entries before it alone.    *)
LEMMA CutKeepsEnds ==
    ASSUME IInv, NEW name \in Positions, NEW eq \in Positions, NEW end \in Positions,
           Cut(name, eq, end), NEW i \in 1..Len(cookies), NEW s, EndedBy(i, s)
    PROVE  EndedBy(i, s)'
<1> DEFINE n == Len(cookies)
           len == Len(header)
           val(j) == cookies[j].value
           newval(j) == cookies'[j].value
<1>1. /\ len \in Nat /\ n \in Nat /\ p \in 1..(len + 1)
      /\ header' = header /\ Len(cookies') = n + 1
      /\ eq \in 1..len /\ p <= eq /\ eq < end /\ p < p' /\ p' \in 1..(len + 1)
      /\ end \in 1..(len + 1)
  BY CutFacts
<1>2. \A j \in 1..n : newval(j) = val(j) /\ val(j) \in 2..(len + 1)
  BY CutFacts
<1>3. newval(n + 1) = eq + 1
  BY CutFacts
<1>4. \A j \in 1..(len + 1) : j # eq /\ j # end => buf'[j] = buf[j]
  BY CutFacts
<1>5. /\ s \in 1..(len + 1) /\ s <= len /\ s < p /\ header[s] = Semi
      /\ val(i) <= s /\ buf[s] = Nul
      /\ \A j \in val(i)..(s - 1) : buf[j] # Nul
      /\ i < n => s < val(i + 1)
  BY DEF EndedBy, EndsAt, Finds, Positions
<1> HIDE DEF n, len, val, newval
<1>6. i \in 1..n
  BY DEF n
<1>7. \A j \in 1..s : buf'[j] = buf[j]
  BY <1>1, <1>4, <1>5
<1>8. val(i) \in 1..s /\ newval(i) = val(i)
  BY <1>1, <1>2, <1>5, <1>6
<1>9. EndsAt(val(i), s)'
  <2>1. \A j \in val(i)..(s - 1) : buf'[j] # Nul
    BY <1>5, <1>7, <1>8
  <2>2. buf'[s] = Nul
    BY <1>5, <1>7
  <2>. QED
    BY <1>1, <1>5, <1>8, <2>1, <2>2 DEF EndsAt, Finds, Positions, val, newval, len
<1>10. i < n + 1 => s < newval(i + 1)
  <2>1. CASE i < n
    <3>1. i + 1 \in 1..n
      BY <1>1, <1>6, <2>1
    <3>. QED  BY <1>2, <1>5, <2>1, <3>1
  <2>2. CASE i = n
    BY <1>1, <1>3, <1>5, <2>2
  <2>. QED  BY <1>1, <1>6, <2>1, <2>2
<1>11. s < p'
  BY <1>1, <1>5
<1>. QED
  BY <1>1, <1>5, <1>8, <1>9, <1>10, <1>11 DEF EndedBy, len, val, newval, n

LEMMA SplitTracks ==
    ASSUME IInv, Tracking, NEW name \in Positions, NEW eq \in Positions, NEW end \in Positions,
           Cut(name, eq, end)
    PROVE  Tracking'
<1>0. PICK n, len : n = Len(cookies) /\ len = Len(header)
  OBVIOUS
<1>1. /\ len \in Nat /\ n \in Nat /\ p \in 1..(len + 1)
      /\ buf[len + 1] = Nul /\ buf[p] # Nul
      /\ at = 1 /\ pc = "split" /\ header' = header /\ at' = at /\ pc' = pc
      /\ eq \in 1..len /\ p <= eq
      /\ Len(cookies') = n + 1 /\ cookies'[n + 1].value = eq + 1
      /\ buf'[end] = Nul /\ end \in 1..(len + 1) /\ eq < end
      /\ p' \in 1..(len + 1) /\ eq < p' /\ p < p'
  BY <1>0, CutFacts
<1>2. \A i \in 1..n : cookies'[i].value = cookies[i].value
  BY <1>0, CutFacts
<1>3. \A j \in 1..(len + 1) : j # eq /\ j # end => buf'[j] = buf[j]
  BY <1>0, CutFacts
<1>4. \A j \in (eq + 1)..(end - 1) : buf[j] # Nul
  BY <1>0, CutFacts
<1>5. \/ end <= len /\ header[end] = Semi /\ p' = end + 1
      \/ p' = end /\ buf[end] = Nul
  BY <1>0, CutFacts
<1>6. p <= len
  BY <1>1
<1>7. /\ \A i \in p..len : buf[i] = header[i]
      /\ n = 0 => p = 1
      /\ n # 0 => EndedBy(n, p - 1)
      /\ n <= Cardinality(SemisBefore(p))
  BY <1>0, <1>1, <1>6 DEF Tracking, Ahead
<1>8. \A i \in 1..len : header[i] # Nul
  <2>1. \A i \in 1..len : header[i] \in Chars
    BY <1>0, ElementOfSeq DEF IInv, TypeOK
  <2>. QED  BY <2>1, CharsAssumption
<1>9. \/ end <= len /\ header[end] = Semi /\ p' = end + 1
      \/ p' = end /\ end = len + 1
  <2>1. CASE p' = end /\ buf[end] = Nul
    BY <1>1, <1>7, <1>8, <2>1
  <2>. QED  BY <1>5, <2>1
<1>10. Tracked'
  <2> SUFFICES ASSUME NEW i \in 1..len, buf'[i] # header[i]
               PROVE  \/ \E j \in 1..(n + 1) : CutBy(j, i)'
                      \/ i + 1 = p' /\ header[i] = Semi
    BY <1>0, <1>1 DEF Tracked
  <2>1. CASE i = eq
    <3>1. CutBy(n + 1, i)'
      BY <1>0, <1>1, <2>1 DEF CutBy
    <3>2. n + 1 \in 1..(n + 1)
      BY <1>1
    <3>. QED  BY <3>1, <3>2
  <2>2. CASE i = end
    BY <1>1, <1>9, <2>2
  <2>3. CASE i # eq /\ i # end
    <3>1. buf[i] # header[i]
      BY <1>1, <1>3, <2>3
    <3>2. CASE \E j \in at..Len(cookies) : CutBy(j, i)
      <4>1. PICK j \in 1..n : CutBy(j, i)
        BY <1>0, <1>1, <3>2
      <4>2. CASE i = cookies[j].value - 1
        BY <1>1, <1>2, <4>2 DEF CutBy
      <4>3. CASE EndedBy(j, i)
        <5>1. EndedBy(j, i)'
          BY <1>0, <4>3, CutKeepsEnds
        <5>2. j < n + 1
          BY <1>1
        <5>. QED  BY <1>1, <5>1, <5>2 DEF CutBy
      <4>. QED  BY <4>1, <4>2, <4>3 DEF CutBy
    <3>3. CASE i + 1 = p /\ header[i] = Semi
      <4>1. n # 0 /\ n \in 1..n /\ p - 1 = i
        BY <1>1, <1>7, <3>3
      <4>2. EndedBy(n, i)
        BY <1>7, <4>1
      <4>3. EndedBy(n, i)'
        BY <1>0, <4>1, <4>2, CutKeepsEnds
      <4>4. n < n + 1 /\ n \in 1..(n + 1)
        BY <1>1, <4>1
      <4>. QED  BY <1>1, <4>3, <4>4 DEF CutBy
    <3>. QED  BY <1>0, <1>1, <3>1, <3>2, <3>3 DEF Tracking, Tracked
  <2>. QED  BY <2>1, <2>2, <2>3
<1>11. \A i \in p'..len : buf'[i] = header[i]
  BY <1>1, <1>3, <1>7, <1>9
<1>12. p' <= len => EndedBy(n + 1, p - 1)'
  <2> SUFFICES ASSUME p' <= len PROVE EndedBy(n + 1, p - 1)'
    OBVIOUS
  <2>1. end <= len /\ header[end] = Semi /\ p' = end + 1 /\ p' - 1 = end
    BY <1>1, <1>9
  <2>2. \A j \in (eq + 1)..(end - 1) : buf'[j] # Nul
    BY <1>1, <1>3, <1>4
  <2>3. EndsAt(cookies[n + 1].value, end)'
    BY <1>0, <1>1, <2>2 DEF EndsAt, Finds, Positions
  <2>4. EndedBy(n + 1, end)'
    BY <1>0, <1>1, <2>1, <2>3 DEF EndedBy
  <2>. QED  BY <2>1, <2>4
<1>13. p' <= len => n + 1 <= Cardinality(SemisBefore(p)')
  <2> SUFFICES ASSUME p' <= len PROVE n + 1 <= Cardinality(SemisBefore(p)')
    OBVIOUS
  <2>1. end <= len /\ header[end] = Semi /\ p' = end + 1
    BY <1>1, <1>9
  <2> DEFINE B == SemisBefore(p)
             A == SemisBefore(p)'
  <2>2. /\ IsFiniteSet(1..(p - 1)) /\ B \subseteq 1..(p - 1)
        /\ IsFiniteSet(1..(p' - 1)) /\ A \subseteq 1..(p' - 1)
    <3>1. p - 1 \in Int /\ p' - 1 \in Int
      BY <1>1
    <3>. QED  BY <3>1, FS_Interval DEF SemisBefore
  <2>3. B \cup {end} \subseteq A /\ end \notin B
    BY <1>0, <1>1, <2>1 DEF SemisBefore
  <2> HIDE DEF A, B
  <2>4. IsFiniteSet(B) /\ IsFiniteSet(A)
    BY <2>2, FS_Subset
  <2>5. Cardinality(B \cup {end}) = Cardinality(B) + 1
    BY <2>3, <2>4, FS_AddElement
  <2>6. Cardinality(B \cup {end}) <= Cardinality(A)
    BY <2>3, <2>4, FS_Subset
  <2>7. Cardinality(B) \in Nat /\ Cardinality(A) \in Nat
    BY <2>4, FS_CardinalityType
  <2>8. n <= Cardinality(B)
    BY <1>7 DEF B
  <2>9. n + 1 <= Cardinality(A)
    BY <1>1, <2>5, <2>6, <2>7, <2>8
  <2>. QED  BY <2>9 DEF A
<1>14. p' = 1 \/ p' = len + 1 \/ header[p' - 1] = Semi
  <2>1. (end + 1) - 1 = end
    BY <1>1
  <2>. QED  BY <1>9, <2>1
<1>15. Ahead'
  <2>1. Len(cookies') # 0 /\ Len(cookies)' = n + 1 /\ Len(header)' = len
    BY <1>0, <1>1
  <2>2. p' <= Len(header)' => EndedBy(Len(cookies), p - 1)'
    BY <1>12, <2>1
  <2>3. p' <= Len(header)' => Len(cookies)' <= Cardinality(SemisBefore(p)')
    BY <1>13, <2>1
  <2>4. \A i \in p'..Len(header)' : buf'[i] = header'[i]
    BY <1>1, <1>11, <2>1
  <2>. QED  BY <1>1, <1>14, <2>1, <2>2, <2>3, <2>4 DEF Ahead
<1>16. Finished'
  BY <1>1 DEF Finished
<1>. QED  BY <1>10, <1>15, <1>16 DEF Tracking

(* A turn of the restorer leaves the ends of the entries after it alone.   *)
LEMMA MendKeepsEnds ==
    ASSUME IInv, NEW end \in Positions, Mend(end),
           NEW i \in 1..Len(cookies), at < i, NEW s, EndedBy(i, s)
    PROVE  EndedBy(i, s)'
<1>0. PICK n, len : n = Len(cookies) /\ len = Len(header)
  OBVIOUS
<1> DEFINE val(j) == cookies[j].value
<1>1. /\ len \in Nat /\ n \in Nat /\ p \in 1..(len + 1)
      /\ at \in 1..n /\ header' = header /\ cookies' = cookies /\ p' = p
      /\ val(at) \in 2..(len + 1) /\ end \in 1..(len + 1)
  BY <1>0, MendFacts
<1>2. \A j \in 1..n : val(j) \in 2..(len + 1)
  BY <1>0, MendFacts
<1>3. \A j, k \in 1..n : j < k => val(j) < val(k)
  BY <1>0, MendFacts
<1>4. at < n => end < val(at + 1)
  BY <1>0, MendFacts
<1>5. \A j \in 1..(len + 1) : j # val(at) - 1 /\ (at < n => j # end) => buf'[j] = buf[j]
  BY <1>0, MendFacts
<1>6. /\ s \in 1..(len + 1) /\ s <= len /\ s < p /\ header[s] = Semi
      /\ val(i) <= s /\ buf[s] = Nul
      /\ \A j \in val(i)..(s - 1) : buf[j] # Nul
      /\ i < n => s < val(i + 1)
  BY <1>0 DEF EndedBy, EndsAt, Finds, Positions
<1> HIDE DEF val
<1>7. i \in 1..n /\ at < n /\ at + 1 \in 1..n /\ (at + 1 = i \/ at + 1 < i)
  BY <1>0, <1>1
<1>8. val(at) < val(i) /\ val(at + 1) <= val(i) /\ val(i) \in 2..s /\ val(at + 1) \in 2..(len + 1)
  BY <1>1, <1>2, <1>3, <1>6, <1>7
<1>9. \A j \in val(i)..s : buf'[j] = buf[j]
  BY <1>1, <1>4, <1>5, <1>6, <1>7, <1>8
<1>10. EndsAt(val(i), s)'
  <2>1. \A j \in val(i)..(s - 1) : buf'[j] # Nul
    BY <1>6, <1>8, <1>9
  <2>2. buf'[s] = Nul
    BY <1>6, <1>8, <1>9
  <2>. QED
    BY <1>0, <1>1, <1>6, <2>1, <2>2 DEF EndsAt, Finds, Positions, val
<1>. QED
  BY <1>0, <1>1, <1>6, <1>10 DEF EndedBy, val

LEMMA RestoreTracks ==
    ASSUME IInv, Tracking, NEW end \in Positions, Mend(end)
    PROVE  Tracking'
<1>0. PICK n, len : n = Len(cookies) /\ len = Len(header)
  OBVIOUS
<1>1. /\ len \in Nat /\ n \in Nat /\ p \in 1..(len + 1)
      /\ at \in 1..n /\ pc = "parsed" /\ at' = at + 1
      /\ header' = header /\ cookies' = cookies /\ p' = p /\ pc' = pc
      /\ cookies[at].value <= end /\ buf[end] = Nul
      /\ cookies[at].value \in 2..(len + 1) /\ end \in 1..(len + 1)
      /\ header[cookies[at].value - 1] = Eq
      /\ buf'[cookies[at].value - 1] = Eq
  BY <1>0, MendFacts
<1>2. \A j \in cookies[at].value..(end - 1) : buf[j] # Nul
  BY <1>0, MendFacts
<1>3. at < n => end <= len /\ header[end] = Semi /\ buf'[end] = Semi
  BY <1>0, MendFacts
<1>4. \A j \in 1..(len + 1) :
         j # cookies[at].value - 1 /\ (at < n => j # end) => buf'[j] = buf[j]
  BY <1>0, MendFacts
<1>5. Tracked'
  <2> SUFFICES ASSUME NEW i \in 1..len, buf'[i] # header[i]
               PROVE  \/ \E j \in (at + 1)..n : CutBy(j, i)'
                      \/ i + 1 = p /\ header[i] = Semi
    BY <1>0, <1>1 DEF Tracked
  <2>1. i # cookies[at].value - 1 /\ (at < n => i # end)
    BY <1>1, <1>3
  <2>2. buf[i] # header[i]
    BY <1>1, <1>4, <2>1
  <2>3. CASE \E j \in at..n : CutBy(j, i)
    <3>1. PICK j \in at..n : CutBy(j, i)
      BY <2>3
    <3>2. j # at
      <4> SUFFICES ASSUME j = at PROVE FALSE
        OBVIOUS
      <4>1. at < n /\ EndedBy(at, i)
        BY <1>0, <2>1, <3>1 DEF CutBy
      <4>2. /\ cookies[at].value <= i /\ buf[i] = Nul
            /\ \A k \in cookies[at].value..(i - 1) : buf[k] # Nul
        BY <4>1 DEF EndedBy, EndsAt, Finds
      <4>3. i # end
        BY <2>1, <4>1
      <4>4. ~(i < end)
        BY <1>1, <1>2, <4>2
      <4>5. ~(end < i)
        BY <1>1, <4>2
      <4>. QED  BY <1>1, <4>3, <4>4, <4>5
    <3>3. j \in (at + 1)..n /\ j \in 1..n /\ at < j
      BY <1>1, <3>1, <3>2
    <3>4. CASE i = cookies[j].value - 1
      BY <1>1, <3>3, <3>4 DEF CutBy
    <3>5. CASE j < n /\ EndedBy(j, i)
      <4>1. EndedBy(j, i)'
        BY <1>0, <3>3, <3>5, MendKeepsEnds
      <4>2. CutBy(j, i)'
        BY <1>0, <1>1, <3>5, <4>1 DEF CutBy
      <4>. QED  BY <3>3, <4>2
    <3>. QED  BY <1>0, <3>1, <3>4, <3>5 DEF CutBy
  <2>. QED  BY <1>0, <2>2, <2>3 DEF Tracking, Tracked
<1>6. Ahead'
  BY <1>1 DEF Ahead
<1>7. Finished'
  BY <1>1 DEF Tracking, Finished
<1>. QED  BY <1>5, <1>6, <1>7 DEF Tracking

(* Every place after a ";" begins a segment.                               *)
LEMMA SegmentFrom ==
    ASSUME NEW h \in Seq(Chars), NEW k \in 1..(Len(h) + 1), k = 1 \/ h[k - 1] = Semi
    PROVE  \E e \in 0..Len(h) : <<k, e>> \in Segments(h)
<1>0. PICK len : len = Len(h) /\ len \in Nat
  BY LenProperties
<1> DEFINE Stops(m) == m >= k /\ (m = len + 1 \/ (m \in 1..len /\ h[m] = Semi))
<1>1. len + 1 \in Nat /\ Stops(len + 1)
  BY <1>0
<1> HIDE DEF Stops
<1>2. PICK m \in Nat : Stops(m) /\ \A l \in 0..(m - 1) : ~Stops(l)
  <2> DEFINE T == {l \in Nat : Stops(l)}
  <2>1. PICK m \in T : \A l \in T : m <= l
    BY <1>1, LeastNatural
  <2>2. \A l \in 0..(m - 1) : ~Stops(l)
    BY <2>1
  <2>. QED  BY <2>1, <2>2
<1>3. k \in 1..(len + 1)
  BY <1>0
<1>4. \A l \in k..(m - 1) : h[l] # Semi
  <2> SUFFICES ASSUME NEW l \in k..(m - 1) PROVE h[l] # Semi
    OBVIOUS
  <2>1. m \in k..(len + 1)
    BY <1>0, <1>2, <1>3 DEF Stops
  <2>2. l \in 0..(m - 1) /\ l \in 1..len /\ l >= k
    BY <1>0, <1>3, <2>1
  <2>3. ~Stops(l)
    BY <1>2, <2>2
  <2>. QED  BY <2>2, <2>3 DEF Stops
<1>5. m - 1 \in 0..len /\ k <= (m - 1) + 1 /\ (m - 1 = len \/ h[(m - 1) + 1] = Semi)
  BY <1>0, <1>2, <1>3 DEF Stops
<1>6. <<k, m - 1>> \in Segments(h)
  BY <1>0, <1>4, <1>5 DEF Segments
<1>. QED  BY <1>0, <1>5, <1>6

LEMMA ParseEndTracks ==
    ASSUME IInv, Tracking, parse_ends
    PROVE  Tracking'
<1>0. PICK len : len = Len(header) /\ len \in Nat /\ header \in Seq(Chars)
  BY LenProperties DEF IInv, TypeOK
<1>1. pc = "split" /\ pc' = "parsed" /\ UNCHANGED <<header, buf, cookies, p, at>>
  BY DEF parse_ends
<1>2. p \in 1..(len + 1) /\ buf[len + 1] = Nul /\ at = 1
  BY <1>0, <1>1 DEF IInv, TypeOK, StillEnded
<1>3. /\ \A i \in p..len : buf[i] = header[i]
      /\ p = 1 \/ p = len + 1 \/ header[p - 1] = Semi
      /\ p <= len => Len(cookies) <= Cardinality(SemisBefore(p))
  BY <1>0, <1>1 DEF Tracking, Ahead
<1>4. Tracked'
  BY <1>1 DEF Tracking, Tracked, CutBy, EndedBy, EndsAt, Finds, Positions
<1>5. ASSUME WellFormed(header) PROVE \A k \in p..len : header[k] = Space
  <2>1. CASE p <= len
    <3>1. MoreToSplit
      <4>1. \A i \in 1..len : header[i] # Nul
        BY <1>0, ElementOfSeq, CharsAssumption
      <4>2. buf[p] # Nul
        BY <1>2, <1>3, <2>1, <4>1
      <4> DEFINE A == SemisBefore(p)
                 B == {i \in 1..len : header[i] = Semi}
      <4>3. IsFiniteSet(B) /\ A \subseteq B
        <5>1. IsFiniteSet(1..len) /\ B \subseteq 1..len
          BY <1>0, FS_Interval
        <5>2. IsFiniteSet(B)
          BY <5>1, FS_Subset
        <5>. QED  BY <1>0, <1>2, <2>1, <5>2 DEF SemisBefore
      <4> HIDE DEF A, B
      <4>4. /\ Cardinality(A) \in Nat /\ Cardinality(B) \in Nat
            /\ Cardinality(A) <= Cardinality(B)
        BY <4>3, FS_Subset, FS_CardinalityType
      <4>5. Len(cookies) \in Nat
        BY LenProperties DEF IInv, TypeOK
      <4>6. Len(cookies) <= Cardinality(A)
        BY <1>3, <2>1 DEF A
      <4>7. Len(cookies) < 1 + Cardinality(B)
        BY <4>4, <4>5, <4>6
      <4>. QED  BY <1>0, <1>1, <4>2, <4>7 DEF MoreToSplit, SegmentCount, B
    <3>2. PICK name \in Positions : SkipsTo(p, name) /\ FindsNone(name, Eq)
      BY <3>1 DEF parse_ends
    <3>3. PICK e \in 0..len : <<p, e>> \in Segments(header)
      <4>1. p = 1 \/ header[p - 1] = Semi
        BY <1>0, <1>2, <1>3, <2>1
      <4>2. p \in 1..(Len(header) + 1)
        BY <1>0, <1>2
      <4>3. \E e \in 0..Len(header) : <<p, e>> \in Segments(header)
        BY <1>0, <4>1, <4>2, SegmentFrom
      <4>. QED  BY <1>0, <4>3
    <3>4. ~Named(header, <<p, e>>)
      <4> SUFFICES ASSUME NEW k \in p..e, header[k] = Eq PROVE FALSE
        BY DEF Named
      <4>1. k \in p..len /\ k \in 1..(len + 1)
        BY <1>0, <1>2, <3>3
      <4>2. name \in 1..(len + 1) /\ p <= name /\ \A j \in p..(name - 1) : buf[j] = Space
        BY <1>0, <3>2 DEF SkipsTo, Positions
      <4>3. buf[k] = Eq
        BY <1>3, <4>1
      <4>4. name <= k
        BY <4>1, <4>2, <4>3, CharsAssumption
      <4> DEFINE Hit(m) == m \in name..len /\ buf[m] = Eq
      <4>5. Hit(k) /\ k \in Nat
        BY <4>1, <4>2, <4>3, <4>4
      <4> HIDE DEF Hit
      <4>6. PICK m \in Nat : Hit(m) /\ \A l \in 0..(m - 1) : ~Hit(l)
        <5> DEFINE T == {l \in Nat : Hit(l)}
        <5>1. PICK m \in T : \A l \in T : m <= l
          BY <4>5, LeastNatural
        <5>2. \A l \in 0..(m - 1) : ~Hit(l)
          BY <5>1
        <5>. QED  BY <5>1, <5>2
      <4>7. m \in name..len /\ m \in Positions /\ buf[m] = Eq
        BY <1>0, <4>2, <4>6 DEF Hit, Positions
      <4>8. \A j \in name..(m - 1) : buf[j] \notin {Eq, Nul}
        <5> SUFFICES ASSUME NEW j \in name..(m - 1) PROVE buf[j] \notin {Eq, Nul}
          OBVIOUS
        <5>1. j \in 0..(m - 1) /\ j \in name..len /\ j \in p..len /\ j \in 1..len
          BY <1>0, <1>2, <4>2, <4>7
        <5>2. buf[j] # Eq
          BY <4>6, <5>1 DEF Hit
        <5>3. header[j] \in Chars
          BY <1>0, <5>1, ElementOfSeq
        <5>. QED  BY <1>3, <5>1, <5>2, <5>3, CharsAssumption
      <4>9. Finds(name, Eq, m)
        BY <4>7, <4>8 DEF Finds
      <4>. QED  BY <3>2, <4>7, <4>9 DEF FindsNone
    <3>5. Blank(header, <<p, e>>) /\ e = len
      BY <1>0, <1>5, <3>3, <3>4 DEF WellFormed
    <3>. QED  BY <3>5 DEF Blank
  <2>. QED  BY <1>0, <1>2, <2>1
<1>6. Finished'
  BY <1>0, <1>1, <1>5 DEF Finished
<1>. QED  BY <1>1, <1>4, <1>6 DEF Tracking, Ahead

LEMMA TrackingStep == IInv /\ Tracking /\ [Next]_vars => Tracking'
<1> SUFFICES ASSUME IInv, Tracking, [Next]_vars PROVE Tracking'
  OBVIOUS
<1>1. CASE split_cookie
  <2>1. PICK name \in Positions, eq \in Positions, end \in Positions : Cut(name, eq, end)
    BY <1>1 DEF split_cookie, Cut
  <2>. QED  BY <2>1, SplitTracks
<1>2. CASE parse_ends
  BY <1>2, ParseEndTracks
<1>3. CASE restore_cookie
  <2>1. PICK end \in Positions : Mend(end)
    BY <1>3 DEF restore_cookie, Mend
  <2>. QED  BY <2>1, RestoreTracks
<1>4. ASSUME UNCHANGED <<header, buf, cookies, p, at>>, pc' = pc \/ restore_ends
      PROVE  Tracking'
  <2>1. Tracked'
    BY <1>4 DEF Tracking, Tracked, CutBy, EndedBy, EndsAt, Finds, Positions
  <2>2. Ahead'
    <3>1. CASE pc' = pc
      BY <1>4, <3>1 DEF Tracking, Ahead, SemisBefore, EndedBy, EndsAt, Finds, Positions
    <3>2. CASE restore_ends
      BY <3>2 DEF restore_ends, Ahead
    <3>. QED  BY <1>4, <3>1, <3>2
  <2>3. Finished'
    BY <1>4 DEF Tracking, Finished, restore_ends
  <2>. QED  BY <2>1, <2>2, <2>3 DEF Tracking
<1>5. CASE restore_ends
  BY <1>4, <1>5 DEF restore_ends
<1>6. CASE UNCHANGED vars
  BY <1>4, <1>6 DEF vars
<1>. QED
  BY <1>1, <1>2, <1>3, <1>5, <1>6 DEF Next

(* For every header that is a list of name=value pairs, restoring undoes   *)
(* parsing: every byte is back, but for a ";" after the last pair.         *)
THEOREM RestoredAsItCame == Spec => []RestoreUndoesParse
<1>1. Init => Tracking
  BY TrackingInit
<1>2. IInv /\ Tracking /\ [Next]_vars => Tracking'
  BY TrackingStep
<1>3. IInv /\ Tracking => RestoreUndoesParse
  <2> SUFFICES ASSUME IInv, Tracking, pc = "restored", WellFormed(header),
                      NEW i \in 1..Len(header), buf[i] # header[i]
               PROVE  header[i] = Semi /\ \A k \in (i + 1)..Len(header) : header[k] = Space
    BY DEF RestoreUndoesParse
  <2>1. at > Len(cookies) /\ \A k \in p..Len(header) : header[k] = Space
    BY DEF Tracking, Finished
  <2>2. Len(cookies) \in Nat /\ at \in 1..(Len(cookies) + 1)
    BY LenProperties DEF IInv, TypeOK
  <2>3. at..Len(cookies) = {}
    BY <2>1, <2>2
  <2>4. i + 1 = p /\ header[i] = Semi
    BY <2>3 DEF Tracking, Tracked
  <2>. QED  BY <2>1, <2>4
<1>. QED
  BY <1>1, <1>2, <1>3, CookiesInvariant, PTL DEF Spec

-----------------------------------------------------------------------------
(* A character that is found somewhere is found somewhere first.           *)
LEMMA FoundFirst ==
    ASSUME Len(header) \in Nat, NEW from \in 1..(Len(header) + 1), NEW c,
           NEW k \in from..(Len(header) + 1), buf[k] = c,
           \A j \in from..(k - 1) : buf[j] # Nul
    PROVE  \E i \in Positions : Finds(from, c, i)
<1> DEFINE T == {l \in from..k : buf[l] = c}
<1>1. T \in SUBSET Nat /\ k \in T
  OBVIOUS
<1>2. PICK i \in T : \A l \in T : i <= l
  BY <1>1, LeastNatural
<1>3. i \in Positions /\ from <= i /\ buf[i] = c /\ i <= k
  BY <1>2 DEF Positions
<1>4. \A j \in from..(i - 1) : buf[j] \notin {c, Nul}
  <2> SUFFICES ASSUME NEW j \in from..(i - 1) PROVE buf[j] \notin {c, Nul}
    OBVIOUS
  <2>1. j \in from..k /\ j \in from..(k - 1) /\ ~(i <= j)
    BY <1>2, <1>3
  <2>. QED  BY <1>2, <2>1
<1>. QED  BY <1>3, <1>4 DEF Finds

(* Two segments are the same or do not meet.                               *)
LEMMA SegmentsApart ==
    ASSUME NEW h \in Seq(Chars), NEW s \in Segments(h), NEW t \in Segments(h)
    PROVE  /\ s[1] < t[1] => s[2] + 2 <= t[1]
           /\ s[1] = t[1] => s = t
<1>0. PICK len : len = Len(h) /\ len \in Nat
  BY LenProperties
<1>1. ASSUME NEW g \in Segments(h)
      PROVE  /\ g[1] \in 1..(len + 1) /\ g[2] \in 0..len /\ g = <<g[1], g[2]>>
             /\ g[1] <= g[2] + 1
             /\ g[1] = 1 \/ h[g[1] - 1] = Semi
             /\ g[2] = len \/ h[g[2] + 1] = Semi
             /\ \A k \in g[1]..g[2] : h[k] # Semi
  BY <1>0, <1>1 DEF Segments
<1>2. ASSUME s[1] < t[1] PROVE s[2] + 2 <= t[1]
  <2>1. h[t[1] - 1] = Semi /\ s[1] <= t[1] - 1
    BY <1>1, <1>2
  <2>2. ~(t[1] - 1 \in s[1]..s[2])
    BY <1>1, <2>1
  <2>. QED  BY <1>1, <2>1, <2>2
<1>3. ASSUME NEW g \in Segments(h), NEW f \in Segments(h), g[1] = f[1], g[2] < f[2]
      PROVE  FALSE
  <2>1. h[g[2] + 1] = Semi
    BY <1>1, <1>3
  <2>2. g[2] + 1 \in f[1]..f[2]
    BY <1>1, <1>3
  <2>. QED  BY <1>1, <2>1, <2>2
<1>4. ASSUME s[1] = t[1] PROVE s = t
  <2>1. ~(s[2] < t[2]) /\ ~(t[2] < s[2])
    BY <1>3, <1>4
  <2>2. s[2] = t[2]
    BY <1>1, <2>1
  <2>. QED  BY <1>1, <1>4, <2>2
<1>. QED  BY <1>2, <1>4

(* In a list of pairs, a turn of the parser takes one segment: its name    *)
(* begins after white space, its "=" is the first, and its end is cut.     *)
LEMMA CutTakesSegment ==
    ASSUME IInv, Tracking, WellFormed(header),
           NEW name \in Positions, NEW eq \in Positions, NEW end \in Positions,
           Cut(name, eq, end)
    PROVE  \E e \in 0..Len(header) :
              /\ <<p, e>> \in Segments(header) /\ eq <= e /\ end = e + 1
              /\ \A l \in p..(eq - 1) : header[l] # Eq
              /\ header[name] # Space
              /\ \A l \in p..(name - 1) : header[l] = Space
<1>0. PICK n, len : n = Len(cookies) /\ len = Len(header) /\ header \in Seq(Chars)
  BY DEF IInv, TypeOK
<1>1. /\ len \in Nat /\ p \in 1..(len + 1) /\ buf[p] # Nul /\ pc = "split"
      /\ buf[len + 1] = Nul
      /\ name \in 1..len /\ eq \in 1..len /\ p <= name /\ name <= eq /\ header[eq] = Eq
      /\ end \in 1..(len + 1) /\ eq < end
  BY <1>0, CutFacts
<1>2. \A j \in (eq + 1)..(end - 1) : buf[j] # Nul
  BY CutFacts
<1>3. \A i \in p..len : buf[i] = header[i]
  BY <1>0, <1>1 DEF Tracking, Ahead
<1>4. p <= len /\ (p = 1 \/ header[p - 1] = Semi)
  <2>1. p <= len
    BY <1>1
  <2>. QED  BY <1>0, <1>1, <2>1 DEF Tracking, Ahead
<1>5. \A i \in 1..len : header[i] # Nul
  BY <1>0, ElementOfSeq, CharsAssumption
<1>6. PICK e \in 0..len : <<p, e>> \in Segments(header)
  <2>1. p \in 1..(Len(header) + 1)
    BY <1>0, <1>1
  <2>2. \E e \in 0..Len(header) : <<p, e>> \in Segments(header)
    BY <1>0, <1>4, <2>1, SegmentFrom
  <2>. QED  BY <1>0, <2>2
<1>7. /\ p <= e + 1 /\ (e = len \/ header[e + 1] = Semi)
      /\ \A k \in p..e : header[k] # Semi
  BY <1>0, <1>6 DEF Segments
<1>8. /\ header[name] # Space
      /\ \A l \in p..(name - 1) : header[l] = Space
      /\ \A l \in name..(eq - 1) : header[l] # Eq
  <2>1. buf[name] # Space /\ \A j \in p..(name - 1) : buf[j] = Space
    BY DEF Cut, SkipsTo
  <2>2. \A j \in name..(eq - 1) : buf[j] # Eq
    BY DEF Cut, Finds
  <2>. QED  BY <1>1, <1>3, <2>1, <2>2
<1>9. \A l \in p..(eq - 1) : header[l] # Eq
  <2> SUFFICES ASSUME NEW l \in p..(eq - 1) PROVE header[l] # Eq
    OBVIOUS
  <2>1. l \in p..(name - 1) \/ l \in name..(eq - 1)
    BY <1>1
  <2>. QED  BY <1>8, <2>1, CharsAssumption
<1>10. eq <= e
  <2>1. Named(header, <<p, e>>)
    <3>1. CASE Blank(header, <<p, e>>) /\ e = len
      <4>1. eq \in p..e
        BY <1>1, <3>1
      <4>. QED  BY <1>1, <4>1 DEF Named
    <3>. QED  BY <1>0, <1>6, <3>1 DEF WellFormed
  <2>2. PICK k \in p..e : header[k] = Eq
    BY <2>1 DEF Named
  <2>3. ~(k \in p..(eq - 1))
    BY <1>9, <2>2
  <2>. QED  BY <1>1, <2>2, <2>3
<1>11. end = e + 1
  <2>1. CASE Finds(eq + 1, Semi, end)
    <3>1. buf[end] = Semi /\ \A j \in (eq + 1)..(end - 1) : buf[j] # Semi
      BY <2>1 DEF Finds
    <3>2. end <= len
      BY <1>1, <3>1, SeparatorsDiffer
    <3>3. header[end] = Semi /\ ~(end \in p..e)
      BY <1>1, <1>3, <1>7, <3>1, <3>2
    <3>4. e < len /\ header[e + 1] = Semi
      BY <1>1, <1>7, <3>2, <3>3
    <3>5. ~(e + 1 \in (eq + 1)..(end - 1))
      <4>1. e + 1 \in p..len
        BY <1>1, <1>7, <3>4
      <4>. QED  BY <1>3, <3>1, <3>4, <4>1
    <3>. QED  BY <1>1, <1>10, <3>3, <3>5
  <2>2. CASE FindsNone(eq + 1, Semi) /\ EndsAt(eq + 1, end)
    <3>1. buf[end] = Nul
      BY <2>2 DEF EndsAt, Finds
    <3>2. end = len + 1
      BY <1>1, <1>3, <1>5, <3>1
    <3>3. e = len
      <4> SUFFICES ASSUME e # len PROVE FALSE
        OBVIOUS
      <4>1. e + 1 \in p..len /\ header[e + 1] = Semi /\ e + 1 \in (eq + 1)..(len + 1)
        BY <1>1, <1>7, <1>10
      <4>2. buf[e + 1] = Semi
        BY <1>3, <4>1
      <4>3. \A j \in (eq + 1)..((e + 1) - 1) : buf[j] # Nul
        BY <1>1, <1>2, <3>2
      <4>4. eq + 1 \in 1..(len + 1)
        BY <1>1
      <4>5. \E i \in Positions : Finds(eq + 1, Semi, i)
        BY <1>0, <1>1, <4>1, <4>2, <4>3, <4>4, FoundFirst
      <4>. QED  BY <2>2, <4>5 DEF FindsNone
    <3>. QED  BY <3>2, <3>3
  <2>. QED  BY <2>1, <2>2 DEF Cut
<1>. QED  BY <1>0, <1>6, <1>8, <1>9, <1>10, <1>11

(* Entry i stands for a segment.                                           *)
EntryOf(i, seg) ==
    LET name == cookies[i].name
        eq   == cookies[i].value - 1
    IN  /\ seg[1] <= name /\ name <= eq /\ eq <= seg[2]
        /\ header[eq] = Eq /\ \A l \in seg[1]..(eq - 1) : header[l] # Eq
        /\ header[name] # Space /\ \A l \in seg[1]..(name - 1) : header[l] = Space
        /\ buf[eq] = Nul /\ buf[seg[2] + 1] = Nul
        /\ \A k \in seg[1]..seg[2] : k # eq => buf[k] = header[k]

(* Of a list of pairs, the entries are the segments before p.              *)
Entries ==
    WellFormed(header) /\ at = 1 =>
        /\ \A i \in 1..Len(cookies) : \E seg \in Segments(header) : seg[1] < p /\ EntryOf(i, seg)
        /\ \A seg \in Segments(header) :
              Named(header, seg) /\ seg[1] < p => \E i \in 1..Len(cookies) : EntryOf(i, seg)

LEMMA SplitEnters ==
    ASSUME IInv, Tracking, Entries,
           NEW name \in Positions, NEW eq \in Positions, NEW end \in Positions,
           Cut(name, eq, end)
    PROVE  Entries'
<1>0. PICK n, len, q : /\ n = Len(cookies) /\ len = Len(header) /\ q = p
                       /\ header \in Seq(Chars)
  BY DEF IInv, TypeOK
<1>1. /\ len \in Nat /\ n \in Nat /\ p \in 1..(len + 1) /\ buf[p] # Nul /\ pc = "split"
      /\ at = 1 /\ header' = header /\ at' = at /\ buf[len + 1] = Nul
      /\ name \in 1..len /\ eq \in 1..len /\ p <= name /\ name <= eq /\ header[eq] = Eq
      /\ Len(cookies') = n + 1
      /\ buf'[eq] = Nul /\ buf'[end] = Nul
      /\ end \in 1..(len + 1) /\ eq < end /\ p' \in 1..(len + 1) /\ p < p'
  BY <1>0, CutFacts
<1>2. \A j \in 1..(len + 1) : j # eq /\ j # end => buf'[j] = buf[j]
  BY <1>0, CutFacts
<1>3. p' = end + 1 \/ p' = end
  BY DEF Cut
<1>4. /\ \A i \in 1..n : cookies'[i] = cookies[i]
      /\ cookies'[n + 1].name = name /\ cookies'[n + 1].value = eq + 1
  <2>1. [name |-> name, value |-> eq + 1] \in [name : 1..len, value : 2..(len + 1)]
    BY <1>1
  <2>2. cookies' = Append(cookies, [name |-> name, value |-> eq + 1])
    BY DEF Cut
  <2>3. cookies \in Seq([name : 1..len, value : 2..(len + 1)])
    BY <1>0 DEF IInv, TypeOK
  <2>4. /\ \A i \in 1..n : cookies'[i] = cookies[i]
        /\ cookies'[n + 1] = [name |-> name, value |-> eq + 1]
    BY <1>0, <2>1, <2>2, <2>3, AppendProperties
  <2>. QED  BY <2>4
<1>5. \A i \in p..len : buf[i] = header[i]
  BY <1>0, <1>1 DEF Tracking, Ahead
<1>6. p = 1 \/ header[p - 1] = Semi
  <2>1. p <= len
    BY <1>1
  <2>. QED  BY <1>0, <1>1, <2>1 DEF Tracking, Ahead
<1> SUFFICES ASSUME WellFormed(header)
             PROVE  /\ \A i \in 1..(n + 1) :
                          \E seg \in Segments(header) : seg[1] < p' /\ EntryOf(i, seg)'
                    /\ \A seg \in Segments(header) :
                          Named(header, seg) /\ seg[1] < p' =>
                              \E i \in 1..(n + 1) : EntryOf(i, seg)'
  BY <1>0, <1>1 DEF Entries
<1>7. PICK e \in 0..len : /\ <<q, e>> \in Segments(header) /\ eq <= e /\ end = e + 1
                          /\ \A l \in q..(eq - 1) : header[l] # Eq
                          /\ header[name] # Space
                          /\ \A l \in q..(name - 1) : header[l] = Space
  BY <1>0, CutTakesSegment
<1>8. /\ \A k \in q..e : header[k] # Semi
      /\ q <= e + 1
  BY <1>0, <1>7 DEF Segments
<1>9. EntryOf(n + 1, <<q, e>>)'
  <2>1. \A k \in q..e : k # eq => buf'[k] = header[k]
    BY <1>0, <1>1, <1>2, <1>5, <1>7
  <2>2. (eq + 1) - 1 = eq
    BY <1>1
  <2> DEFINE good(b, c) ==
        /\ q <= c.name /\ c.name <= c.value - 1 /\ c.value - 1 <= e
        /\ header[c.value - 1] = Eq /\ \A l \in q..(c.value - 1 - 1) : header[l] # Eq
        /\ header[c.name] # Space /\ \A l \in q..(c.name - 1) : header[l] = Space
        /\ b[c.value - 1] = Nul /\ b[e + 1] = Nul
        /\ \A k \in q..e : k # c.value - 1 => b[k] = header[k]
  <2>3. good(buf', cookies'[n + 1])
    BY <1>0, <1>1, <1>4, <1>7, <2>1, <2>2
  <2>. QED  BY <1>0, <1>1, <2>3 DEF EntryOf
<1>10. ASSUME NEW i \in 1..n, NEW seg \in Segments(header), seg[1] < p, EntryOf(i, seg)
       PROVE  EntryOf(i, seg)'
  <2>1. seg[1] \in 1..(len + 1) /\ seg[2] \in 0..len /\ \A k \in seg[1]..seg[2] : header[k] # Semi
    BY <1>0 DEF Segments
  <2>2. header[p - 1] = Semi /\ p - 1 \notin seg[1]..seg[2]
    <3>1. p # 1
      BY <1>10, <2>1
    <3>. QED  BY <1>6, <2>1, <3>1
  <2>3. seg[2] + 1 < p
    BY <1>1, <1>10, <2>1, <2>2
  <2>4. \A k \in seg[1]..(seg[2] + 1) : buf'[k] = buf[k]
    BY <1>1, <1>2, <2>1, <2>3
  <2>5. cookies'[i] = cookies[i] /\ cookies[i].value - 1 \in seg[1]..seg[2]
    <3>1. cookies[i].name \in 1..len /\ cookies[i].value \in 2..(len + 1)
      <4>1. cookies \in Seq([name : 1..len, value : 2..(len + 1)]) /\ i \in 1..Len(cookies)
        BY <1>0 DEF IInv, TypeOK
      <4>2. cookies[i] \in [name : 1..len, value : 2..(len + 1)]
        BY <4>1, ElementOfSeq
      <4>. QED  BY <4>2
    <3>. QED  BY <1>4, <1>10, <2>1, <3>1 DEF EntryOf
  <2>6. seg[2] + 1 \in seg[1]..(seg[2] + 1) /\ cookies[i].value - 1 \in seg[1]..(seg[2] + 1)
    BY <2>1, <2>5
  <2>7. \A k \in seg[1]..seg[2] : buf'[k] = buf[k]
    BY <2>1, <2>4
  <2>. QED  BY <1>0, <1>1, <1>10, <2>4, <2>5, <2>6, <2>7 DEF EntryOf
<1>11. ASSUME NEW i \in 1..(n + 1)
       PROVE  \E seg \in Segments(header) : seg[1] < p' /\ EntryOf(i, seg)'
  <2>1. CASE i = n + 1
    BY <1>0, <1>1, <1>7, <1>9, <2>1
  <2>2. CASE i \in 1..n
    <3>1. PICK seg \in Segments(header) : seg[1] < p /\ EntryOf(i, seg)
      BY <1>0, <1>1, <2>2 DEF Entries
    <3>2. seg[1] \in 1..(len + 1)
      BY <1>0 DEF Segments
    <3>3. seg[1] < p'
      BY <1>0, <1>1, <3>1, <3>2
    <3>. QED  BY <1>0, <1>10, <2>2, <3>1, <3>3
  <2>. QED  BY <1>0, <1>1, <2>1, <2>2
<1>12. ASSUME NEW seg \in Segments(header), Named(header, seg), seg[1] < p'
       PROVE  \E i \in 1..(n + 1) : EntryOf(i, seg)'
  <2>1. seg[1] \in 1..(len + 1) /\ (seg[1] = 1 \/ header[seg[1] - 1] = Semi)
    BY <1>0 DEF Segments
  <2>2. CASE seg[1] < p
    <3>1. PICK i \in 1..n : EntryOf(i, seg)
      BY <1>0, <1>1, <1>12, <2>2 DEF Entries
    <3>2. i \in 1..(n + 1)
      BY <1>1
    <3>. QED  BY <1>0, <1>10, <2>2, <3>1, <3>2
  <2>3. CASE seg[1] = q
    <3>1. seg = <<q, e>>
      BY <1>0, <1>7, <2>3, SegmentsApart
    <3>2. n + 1 \in 1..(n + 1)
      BY <1>1
    <3>. QED  BY <1>0, <1>9, <3>1, <3>2
  <2>4. CASE q < seg[1]
    <3>1. header[seg[1] - 1] = Semi /\ seg[1] - 1 \in q..e
      BY <1>0, <1>1, <1>3, <1>7, <1>12, <2>1, <2>4
    <3>. QED  BY <1>0, <1>8, <3>1
  <2>. QED  BY <1>0, <1>1, <2>1, <2>2, <2>3, <2>4
<1>. QED  BY <1>11, <1>12

LEMMA EntriesStep == IInv /\ Tracking /\ Entries /\ [Next]_vars => Entries'
<1> SUFFICES ASSUME IInv, Tracking, Entries, [Next]_vars PROVE Entries'
  OBVIOUS
<1>1. CASE split_cookie
  <2>1. PICK name \in Positions, eq \in Positions, end \in Positions : Cut(name, eq, end)
    BY <1>1 DEF split_cookie, Cut
  <2>. QED  BY <2>1, SplitEnters
<1>2. CASE restore_cookie
  <2>1. at' # 1
    <3>1. at \in 1..(Len(cookies) + 1) /\ Len(cookies) \in Nat
      BY LenProperties DEF IInv, TypeOK
    <3>. QED  BY <1>2, <3>1 DEF restore_cookie
  <2>. QED  BY <2>1 DEF Entries
<1>3. ASSUME UNCHANGED <<header, buf, cookies, p, at>> PROVE Entries'
  BY <1>3 DEF Entries, EntryOf
<1>4. CASE parse_ends \/ restore_ends \/ UNCHANGED vars
  BY <1>3, <1>4 DEF parse_ends, restore_ends, vars
<1>. QED
  BY <1>1, <1>2, <1>4 DEF Next

(* The C string that begins at a place and ends before the next Nul.       *)
LEMMA StringFrom ==
    ASSUME IInv, NEW from \in 1..(Len(header) + 1), NEW stop \in from..(Len(header) + 1),
           buf[stop] = Nul, \A j \in from..(stop - 1) : buf[j] = header[j]
    PROVE  CString(from) = SubSeq(header, from, stop - 1)
<1>0. PICK len : len = Len(header) /\ len \in Nat /\ header \in Seq(Chars)
  BY LenProperties DEF IInv, TypeOK
<1>1. \A j \in 1..len : header[j] \in Chars /\ header[j] # Nul
  BY <1>0, ElementOfSeq, CharsAssumption
<1>2. EndsAt(from, stop)
  BY <1>0, <1>1 DEF EndsAt, Finds, Positions
<1>3. ASSUME NEW i \in Positions, EndsAt(from, i) PROVE i = stop
  <2>1. from <= i /\ buf[i] = Nul /\ \A j \in from..(i - 1) : buf[j] # Nul
    BY <1>3 DEF EndsAt, Finds
  <2>2. i \in 1..(len + 1)
    BY <1>0 DEF Positions
  <2>3. ~(i < stop)
    <3> SUFFICES ASSUME i < stop PROVE FALSE
      OBVIOUS
    <3>1. i \in from..(stop - 1) /\ i \in 1..len
      BY <1>0, <2>1, <2>2
    <3>. QED  BY <1>1, <2>1, <3>1
  <2>4. ~(stop < i)
    BY <1>0, <2>1, <2>2
  <2>. QED  BY <1>0, <2>2, <2>3, <2>4
<1>4. (CHOOSE i \in Positions : EndsAt(from, i)) = stop
  <2>1. stop \in Positions
    BY <1>0 DEF Positions
  <2>. QED  BY <1>2, <1>3, <2>1
<1>5. SubSeq(buf, from, stop - 1) = SubSeq(header, from, stop - 1)
  <2> DEFINE t == stop - 1
             one == SubSeq(buf, from, t)
             two == SubSeq(header, from, t)
  <2>1. from \in Int /\ t \in Int
    BY <1>0
  <2>2. \A i \in from..t : buf[i] = header[i] /\ header[i] \in Chars /\ buf[i] \in Chars
    BY <1>0, <1>1
  <2> HIDE DEF t
  <2>3. /\ one \in Seq(Chars) /\ Len(one) = (IF from <= t THEN t - from + 1 ELSE 0)
        /\ \A i \in 1..(t - from + 1) : one[i] = buf[from + i - 1]
    BY <2>1, <2>2, SubSeqProperties
  <2>4. /\ two \in Seq(Chars) /\ Len(two) = (IF from <= t THEN t - from + 1 ELSE 0)
        /\ \A i \in 1..(t - from + 1) : two[i] = header[from + i - 1]
    BY <2>1, <2>2, SubSeqProperties
  <2> HIDE DEF one, two
  <2>5. ASSUME NEW i \in 1..Len(one) PROVE one[i] = two[i]
    <3>1. i \in 1..(t - from + 1) /\ from + i - 1 \in from..t
      BY <2>1, <2>3
    <3>. QED  BY <2>2, <2>3, <2>4, <3>1
  <2>6. one = two
    BY <2>3, <2>4, <2>5, SeqEqual
  <2>. QED  BY <2>6 DEF one, two, t
<1>. QED  BY <1>4, <1>5 DEF CString

EntryRange(i, seg) ==
    /\ cookies[i].name \in 1..Len(header) /\ cookies[i].value \in 2..(Len(header) + 1)
    /\ seg[1] \in 1..(Len(header) + 1) /\ seg[2] \in 0..Len(header)

LEMMA EntriesRange ==
    ASSUME IInv, NEW i \in 1..Len(cookies), NEW seg \in Segments(header)
    PROVE  EntryRange(i, seg)
<1>1. /\ cookies \in Seq([name : 1..Len(header), value : 2..(Len(header) + 1)])
      /\ header \in Seq(Chars)
  BY DEF IInv, TypeOK
<1>2. cookies[i] \in [name : 1..Len(header), value : 2..(Len(header) + 1)]
  BY <1>1, ElementOfSeq
<1>. QED  BY <1>2 DEF EntryRange, Segments

(* The strings of an entry are the pair of its segment.                    *)
LEMMA EntryStrings ==
    ASSUME IInv, NEW i \in 1..Len(cookies), NEW seg \in Segments(header), EntryOf(i, seg)
    PROVE  /\ Pair(header, seg) = <<CString(cookies[i].name), CString(cookies[i].value)>>
           /\ Named(header, seg)
<1>0. PICK len, name, eq, from, to :
         /\ len = Len(header) /\ name = cookies[i].name /\ eq = cookies[i].value - 1
         /\ from = seg[1] /\ to = seg[2]
  OBVIOUS
<1>1. /\ len \in Nat /\ name \in 1..len /\ eq \in 1..len /\ cookies[i].value = eq + 1
      /\ from \in 1..(len + 1) /\ to \in 0..len
  <2>1. header \in Seq(Chars)
    BY DEF IInv, TypeOK
  <2>2. len \in Nat
    BY <1>0, <2>1, LenProperties
  <2>. QED  BY <1>0, <2>2, EntriesRange DEF EntryRange
<1>2. /\ from <= name /\ name <= eq /\ eq <= to
      /\ header[eq] = Eq /\ header[name] # Space
      /\ buf[eq] = Nul /\ buf[to + 1] = Nul
  BY <1>0 DEF EntryOf
<1>3. /\ \A l \in from..(eq - 1) : header[l] # Eq
      /\ \A l \in from..(name - 1) : header[l] = Space
      /\ \A k \in from..to : k # eq => buf[k] = header[k]
  BY <1>0 DEF EntryOf
<1>4. CString(name) = SubSeq(header, name, eq - 1)
  <2>1. name \in 1..(Len(header) + 1) /\ eq \in name..(Len(header) + 1)
    BY <1>0, <1>1, <1>2
  <2>2. \A j \in name..(eq - 1) : buf[j] = header[j]
    BY <1>1, <1>2, <1>3
  <2>. QED  BY <1>2, <2>1, <2>2, StringFrom
<1>5. CString(eq + 1) = SubSeq(header, eq + 1, to)
  <2>1. eq + 1 \in 1..(Len(header) + 1) /\ to + 1 \in (eq + 1)..(Len(header) + 1)
    <3>1. eq + 1 \in 1..(len + 1) /\ to + 1 \in (eq + 1)..(len + 1)
      BY <1>1, <1>2
    <3>. QED  BY <1>0, <3>1
  <2>2. \A j \in (eq + 1)..((to + 1) - 1) : buf[j] = header[j]
    BY <1>1, <1>2, <1>3
  <2>3. CString(eq + 1) = SubSeq(header, eq + 1, (to + 1) - 1)
    BY <1>2, <2>1, <2>2, StringFrom
  <2>4. (to + 1) - 1 = to
    BY <1>1
  <2>. QED  BY <2>3, <2>4
<1>6. (CHOOSE k \in from..to : header[k] # Space /\ \A l \in from..(k - 1) : header[l] = Space)
         = name
  <2>1. name \in from..to
    BY <1>1, <1>2
  <2>2. ASSUME NEW k \in from..to, header[k] # Space,
               \A l \in from..(k - 1) : header[l] = Space
        PROVE  k = name
    <3>1. ~(k < name)
      BY <1>1, <1>3, <2>2
    <3>2. ~(name < k)
      BY <1>1, <1>2, <2>2
    <3>. QED  BY <1>1, <3>1, <3>2
  <2>. QED  BY <1>2, <1>3, <2>1, <2>2
<1>7. (CHOOSE k \in from..to : header[k] = Eq /\ \A l \in from..(k - 1) : header[l] # Eq)
         = eq
  <2>1. eq \in from..to
    BY <1>1, <1>2
  <2>2. ASSUME NEW k \in from..to, header[k] = Eq,
               \A l \in from..(k - 1) : header[l] # Eq
        PROVE  k = eq
    <3>1. ~(k < eq)
      BY <1>1, <1>3, <2>2
    <3>2. ~(eq < k)
      BY <1>1, <1>2, <2>2
    <3>. QED  BY <1>1, <3>1, <3>2
  <2>. QED  BY <1>2, <1>3, <2>1, <2>2
<1>8. Named(header, seg)
  <2>1. eq \in seg[1]..seg[2]
    BY <1>0, <1>1, <1>2
  <2>. QED  BY <1>2, <2>1 DEF Named
<1>9. Pair(header, seg) = <<SubSeq(header, name, eq - 1), SubSeq(header, eq + 1, to)>>
  BY <1>0, <1>6, <1>7 DEF Pair
<1>. QED  BY <1>0, <1>1, <1>4, <1>5, <1>8, <1>9

(* The entries come in the order of their segments.                        *)
LEMMA EntriesOrdered ==
    ASSUME IInv, NEW i \in 1..Len(cookies), NEW j \in 1..Len(cookies),
           NEW s \in Segments(header), NEW t \in Segments(header),
           EntryOf(i, s), EntryOf(j, t)
    PROVE  /\ i < j <=> s[1] < t[1]
           /\ i = j <=> s = t
           /\ i < j => cookies[i].name < cookies[j].name
<1>0. PICK a, b : a = cookies[i].value - 1 /\ b = cookies[j].value - 1
  OBVIOUS
<1>1. /\ header \in Seq(Chars) /\ Len(header) \in Nat
      /\ Len(cookies) \in Nat
  BY LenProperties DEF IInv, TypeOK
<1>2. /\ cookies[i].name \in Nat /\ a \in Nat /\ s[1] \in Nat /\ s[2] \in Nat
      /\ s[1] <= cookies[i].name /\ cookies[i].name <= a /\ a <= s[2]
      /\ header[a] = Eq /\ \A l \in s[1]..(a - 1) : header[l] # Eq
  <2>1. EntryRange(i, s)
    BY EntriesRange
  <2>2. cookies[i].name \in Nat /\ a \in Nat /\ s[1] \in Nat /\ s[2] \in Nat
    BY <1>0, <1>1, <2>1 DEF EntryRange
  <2>. QED  BY <1>0, <2>2 DEF EntryOf
<1>3. /\ cookies[j].name \in Nat /\ b \in Nat /\ t[1] \in Nat /\ t[2] \in Nat
      /\ t[1] <= cookies[j].name /\ cookies[j].name <= b /\ b <= t[2]
      /\ header[b] = Eq /\ \A l \in t[1]..(b - 1) : header[l] # Eq
  <2>1. EntryRange(j, t)
    BY EntriesRange
  <2>2. cookies[j].name \in Nat /\ b \in Nat /\ t[1] \in Nat /\ t[2] \in Nat
    BY <1>0, <1>1, <2>1 DEF EntryRange
  <2>. QED  BY <1>0, <2>2 DEF EntryOf
<1>4. /\ s[1] < t[1] => s[2] + 2 <= t[1]
      /\ t[1] < s[1] => t[2] + 2 <= s[1]
      /\ s[1] = t[1] => s = t
  BY <1>1, SegmentsApart
<1>5. (i < j => a < b) /\ (j < i => b < a)
  <2>1. /\ i < j => cookies[i].value < cookies[j].value
        /\ j < i => cookies[j].value < cookies[i].value
    BY DEF IInv, Ordered
  <2>2. cookies[i].value = a + 1 /\ cookies[j].value = b + 1
    <3>1. EntryRange(i, s) /\ EntryRange(j, t)
      BY EntriesRange
    <3>2. cookies[i].value \in Nat /\ cookies[j].value \in Nat
      BY <1>1, <3>1 DEF EntryRange
    <3>. QED  BY <1>0, <3>2
  <2>. QED  BY <1>2, <1>3, <2>1, <2>2
<1>6. s = t => a = b
  <2> SUFFICES ASSUME s = t PROVE a = b
    OBVIOUS
  <2>1. ~(a < b) /\ ~(b < a)
    BY <1>2, <1>3
  <2>. QED  BY <1>2, <1>3, <2>1
<1>7. (s[1] < t[1] => a < b) /\ (t[1] < s[1] => b < a)
  <2>1. ASSUME s[1] < t[1] PROVE a < b
    <3>1. s[2] + 2 <= t[1]
      BY <1>4, <2>1
    <3>2. /\ a \in Nat /\ b \in Nat /\ s[2] \in Nat /\ t[1] \in Nat /\ a <= s[2]
          /\ cookies[j].name \in Nat /\ t[1] <= cookies[j].name /\ cookies[j].name <= b
      BY <1>2, <1>3
    <3>. QED  BY <3>1, <3>2
  <2>2. ASSUME t[1] < s[1] PROVE b < a
    <3>1. t[2] + 2 <= s[1]
      BY <1>4, <2>2
    <3>2. /\ a \in Nat /\ b \in Nat /\ t[2] \in Nat /\ s[1] \in Nat /\ b <= t[2]
          /\ cookies[i].name \in Nat /\ s[1] <= cookies[i].name /\ cookies[i].name <= a
      BY <1>2, <1>3
    <3>. QED  BY <3>1, <3>2
  <2>. QED  BY <2>1, <2>2
<1>8. i = j => s[1] = t[1]
  BY <1>0, <1>2, <1>3, <1>7
<1>9. i \in Nat /\ j \in Nat
  BY <1>1
<1>10. i < j => s[1] < t[1]
  BY <1>2, <1>3, <1>4, <1>5, <1>6, <1>7
<1>11. j < i => t[1] < s[1]
  BY <1>2, <1>3, <1>4, <1>5, <1>6, <1>7
<1>12. i < j => cookies[i].name < cookies[j].name
  <2> SUFFICES ASSUME i < j PROVE cookies[i].name < cookies[j].name
    OBVIOUS
  <2>1. s[2] + 2 <= t[1]
    BY <1>4, <1>10
  <2>2. PICK x \in Nat, y \in Nat : x = cookies[i].name /\ y = cookies[j].name
    BY <1>2, <1>3
  <2>3. /\ a \in Nat /\ s[2] \in Nat /\ t[1] \in Nat
        /\ x <= a /\ a <= s[2] /\ t[1] <= y
    BY <1>2, <1>3, <2>2
  <2>4. x < y
    BY <2>1, <2>3
  <2>. QED  BY <2>2, <2>4
<1>13. s = t => i = j
  BY <1>2, <1>3, <1>5, <1>6, <1>9
<1>14. s[1] < t[1] => i < j
  BY <1>2, <1>3, <1>8, <1>9, <1>11
<1>. QED  BY <1>4, <1>8, <1>10, <1>12, <1>13, <1>14

LEMMA EntriesInit == Init => Entries
<1> SUFFICES ASSUME Init PROVE Entries
  OBVIOUS
<1>1. 1..Len(cookies) = {} /\ p = 1
  BY DEF Init
<1>2. Len(header) \in Nat
  BY HeadersAssumption, LenProperties DEF Init
<1>3. \A seg \in Segments(header) : ~(seg[1] < p)
  BY <1>1, <1>2 DEF Segments
<1>. QED  BY <1>1, <1>3 DEF Entries

(* Two sets that match one to one have the same number of elements.        *)
LEMMA MatchedCount ==
    ASSUME NEW n \in Nat, NEW S, NEW M,
           \A i \in 1..n : \E s \in S : <<i, s>> \in M,
           \A s \in S : \E i \in 1..n : <<i, s>> \in M,
           \A i, j \in 1..n, s, t \in S :
              <<i, s>> \in M /\ <<j, t>> \in M => (i = j <=> s = t)
    PROVE  Cardinality(S) = n
<1> DEFINE f == [i \in 1..n |-> CHOOSE s \in S : <<i, s>> \in M]
<1>1. \A i \in 1..n : f[i] \in S /\ <<i, f[i]>> \in M
  OBVIOUS
<1>2. f \in [1..n -> S]
  BY <1>1
<1> HIDE DEF f
<1>3. \A i, j \in 1..n : f[i] = f[j] => i = j
  BY <1>1
<1>4. \A s \in S : \E i \in 1..n : f[i] = s
  BY <1>1
<1>5. f \in Bijection(1..n, S)
  BY <1>2, <1>3, <1>4 DEF Bijection, Injection, Surjection, IsInjective
<1>6. ExistsBijection(1..n, S)
  BY <1>5 DEF ExistsBijection
<1>7. IsFiniteSet(1..n) /\ Cardinality(1..n) = n
  BY FS_Interval
<1>. QED  BY <1>6, <1>7, FS_Bijection

(* What the parser has left of a list of pairs when it ends.               *)
LEMMA AllEntered ==
    ASSUME IInv, Tracking, Entries, pc = "parsed", at = 1, WellFormed(header)
    PROVE  /\ \A i \in 1..Len(cookies) :
                 \E seg \in Segments(header) : Named(header, seg) /\ EntryOf(i, seg)
           /\ \A seg \in Segments(header) :
                 Named(header, seg) => \E i \in 1..Len(cookies) : EntryOf(i, seg)
<1>1. ASSUME NEW i \in 1..Len(cookies)
      PROVE  \E seg \in Segments(header) : Named(header, seg) /\ EntryOf(i, seg)
  <2>1. PICK seg \in Segments(header) : EntryOf(i, seg)
    BY DEF Entries
  <2>. QED  BY <2>1, EntryStrings
<1>2. ASSUME NEW seg \in Segments(header), Named(header, seg)
      PROVE  \E i \in 1..Len(cookies) : EntryOf(i, seg)
  <2>1. PICK k \in seg[1]..seg[2] : header[k] = Eq
    BY <1>2 DEF Named
  <2>2. /\ Len(header) \in Nat /\ p \in 1..(Len(header) + 1)
        /\ seg[1] \in 1..(Len(header) + 1) /\ seg[2] \in 0..Len(header)
    BY LenProperties DEF IInv, TypeOK, Segments
  <2>3. ~(k \in p..Len(header))
    BY <2>1, CharsAssumption DEF Tracking, Finished
  <2>4. seg[1] < p
    BY <2>2, <2>3
  <2>. QED  BY <1>2, <2>4 DEF Entries
<1>. QED  BY <1>1, <1>2

(* The parser is right about every list of pairs.                          *)
LEMMA PairsAreParsed ==
    ASSUME IInv, Tracking, Entries, pc = "parsed", at = 1, WellFormed(header)
    PROVE  ParsesWellFormed
<1> DEFINE n == Len(cookies)
           named == {seg \in Segments(header) : Named(header, seg)}
           M == {m \in (1..n) \X named : EntryOf(m[1], m[2])}
           nameof(i) == CString(cookies[i].name)
           valueof(i) == CString(cookies[i].value)
           pair(seg) == Pair(header, seg)
<1>1. n \in Nat /\ DOMAIN cookies = 1..n
  BY LenProperties DEF IInv, TypeOK
<1>2. \A i \in 1..n : \E seg \in named : <<i, seg>> \in M
  BY AllEntered
<1>3. \A seg \in named : \E i \in 1..n : <<i, seg>> \in M
  BY AllEntered
<1>4. ASSUME NEW i \in 1..n, NEW j \in 1..n, NEW s \in named, NEW t \in named,
             <<i, s>> \in M, <<j, t>> \in M
      PROVE  /\ i < j <=> s[1] < t[1]
             /\ i = j <=> s = t
             /\ i < j => cookies[i].name < cookies[j].name
  BY <1>4, EntriesOrdered
<1>5. ASSUME NEW i \in 1..n, NEW s \in named, <<i, s>> \in M
      PROVE  pair(s) = <<nameof(i), valueof(i)>>
  BY <1>5, EntryStrings
<1>6. \A s \in named : s[1] \in Int
  BY DEF Segments
<1>7. \A i, j \in 1..n : i < j => cookies[i].name < cookies[j].name
  BY <1>2, <1>4
<1> HIDE DEF n, named, M, nameof, valueof, pair
<1>8. Cardinality(named) = n
  <2>1. \A i, j \in 1..n, s, t \in named :
           <<i, s>> \in M /\ <<j, t>> \in M => (i = j <=> s = t)
    BY <1>4
  <2>. QED  BY <1>1, <1>2, <1>3, <2>1, MatchedCount
<1>9. {<<nameof(i), valueof(i)>> : i \in 1..n} = {pair(seg) : seg \in named}
  BY <1>2, <1>3, <1>5
<1>10. ASSUME NEW name
       PROVE  LET those == {i \in 1..n : nameof(i) = name}
                  same == {seg \in named : pair(seg)[1] = name}
              IN  {valueof(i) : i \in {j \in those : \A k \in those : j <= k}}
                     = {pair(seg)[2] : seg \in {s \in same : \A t \in same : s[1] <= t[1]}}
  <2> DEFINE those == {i \in 1..n : nameof(i) = name}
             same == {seg \in named : pair(seg)[1] = name}
  <2>1. ASSUME NEW i \in 1..n, NEW s \in named, <<i, s>> \in M
        PROVE  /\ i \in those <=> s \in same
               /\ valueof(i) = pair(s)[2]
    BY <1>5, <2>1
  <2> HIDE DEF those, same
  <2>2. those \subseteq 1..n /\ same \subseteq named
    BY DEF those, same
  <2>3. ASSUME NEW i \in those, \A k \in those : i <= k
        PROVE  \E s \in same : (\A t \in same : s[1] <= t[1]) /\ valueof(i) = pair(s)[2]
    <3>1. PICK s \in named : <<i, s>> \in M
      BY <1>2, <2>2
    <3>2. s \in same /\ valueof(i) = pair(s)[2]
      BY <2>1, <2>2, <3>1
    <3>3. ASSUME NEW t \in same PROVE s[1] <= t[1]
      <4>1. PICK j \in 1..n : <<j, t>> \in M
        BY <1>3, <2>2
      <4>2. j \in those /\ i <= j
        BY <2>1, <2>2, <2>3, <4>1
      <4>3. (j < i <=> t[1] < s[1])
        BY <1>4, <2>2, <3>1, <4>1
      <4>4. s[1] \in Int /\ t[1] \in Int /\ i \in Int /\ j \in Int
        BY <1>6, <2>2
      <4>. QED  BY <4>2, <4>3, <4>4
    <3>. QED  BY <3>2, <3>3
  <2>4. ASSUME NEW s \in same, \A t \in same : s[1] <= t[1]
        PROVE  \E i \in those : (\A k \in those : i <= k) /\ valueof(i) = pair(s)[2]
    <3>1. PICK i \in 1..n : <<i, s>> \in M
      BY <1>3, <2>2
    <3>2. i \in those /\ valueof(i) = pair(s)[2]
      BY <2>1, <2>2, <3>1
    <3>3. ASSUME NEW k \in those PROVE i <= k
      <4>1. PICK t \in named : <<k, t>> \in M
        BY <1>2, <2>2
      <4>2. t \in same /\ s[1] <= t[1]
        BY <2>1, <2>2, <2>4, <4>1
      <4>3. (k < i <=> t[1] < s[1])
        BY <1>4, <2>2, <3>1, <4>1
      <4>4. s[1] \in Int /\ t[1] \in Int /\ i \in Int /\ k \in Int
        BY <1>6, <2>2
      <4>. QED  BY <4>2, <4>3, <4>4
    <3>. QED  BY <3>2, <3>3
  <2>5. {valueof(i) : i \in {j \in those : \A k \in those : j <= k}}
           = {pair(seg)[2] : seg \in {s \in same : \A t \in same : s[1] <= t[1]}}
    BY <2>3, <2>4
  <2>. QED  BY <2>5 DEF those, same
<1>. QED
  BY <1>1, <1>7, <1>8, <1>9, <1>10
     DEF ParsesWellFormed, HTTPUtils_get_cookie, n, named, nameof, valueof, pair

(* Every list of name=value pairs a browser sends is parsed into its       *)
(* pairs, and what is looked up under a name is the first of that name.    *)
THEOREM ParsedIntoPairs == Spec => []ParsesWellFormed
<1>1. Init => Tracking /\ Entries
  BY TrackingInit, EntriesInit
<1>2. IInv /\ Tracking /\ Entries /\ [Next]_vars => Tracking' /\ Entries'
  BY TrackingStep, EntriesStep
<1>3. IInv /\ Tracking /\ Entries => ParsesWellFormed
  BY PairsAreParsed DEF ParsesWellFormed
<1>. QED
  BY <1>1, <1>2, <1>3, CookiesInvariant, PTL DEF Spec
=============================================================================
