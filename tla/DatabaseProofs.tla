---------------------------- MODULE DatabaseProofs ----------------------------
(***************************************************************************)
(* Who may see a page.  The database through starts, failures and restarts *)
(* of any number of processes: rows are kept unless the table was dropped  *)
(* twice, a server that serves has the table unless an initialisation is   *)
(* under way or was cut short, and for any paths the users admitted to a   *)
(* page are those entered for the group that its path says.  For any path, *)
(* parsing it finds its segments, decoded, each at its index, or refuses   *)
(* it for a broken escape; and without escapes and empty segments, a       *)
(* handler that parses it reads the group that was checked.                *)
(***************************************************************************)
EXTENDS Database, Paths, FiniteSetTheorems, SequenceTheorems, WellFoundedInduction, TLAPS

(* Before the table is dropped for the first time, a process that goes on  *)
(* to initialise is one that found no file, when there was no table; and   *)
(* one that is past the drop counts.                                       *)
DropsCounted ==
    /\ drops = 0 => \A s \in Servers :
                        pc[s] \in {"open", "drop users"} /\ initialise[s] => ~table
    /\ \A s \in Servers : pc[s] = "drop users" => initialise[s]
    /\ \A s \in Servers : pc[s] \in {"create users", "groups", "site"} => drops >= 1
    /\ drops = 0 /\ ~table => members = {}

(* A file without a table belongs to a process that initialises it, or did *)
(* until it ended; and if the table is missing while a process is past its *)
(* creation, another one has dropped it and is about to create it.         *)
TableOnItsWay ==
    /\ ~table /\ file => interrupted \/ \E t \in Servers : pc[t] \in Initialising
    /\ ~table => \/ interrupted
                 \/ \E t \in Servers : pc[t] = "create users"
                 \/ \A s \in Servers : pc[s] \notin {"groups", "site"}
    /\ \A s \in Servers : pc[s] = "serving" => file
    /\ \A s \in Servers : pc[s] = "open" /\ ~initialise[s] => file

DatabaseInv == DatabaseTypeOK /\ MembersKept /\ DropsCounted /\ TableOnItsWay

(* No more than the two rows that the query asks about.                    *)
LEMMA CountIsSmall ==
    ASSUME NEW user, NEW group
    PROVE  application_check_authorisation(user, group) \in 0..2
<1> DEFINE both == {group, Everywhere}
           found == {g \in both : <<user, g>> \in users}
<1>1. IsFiniteSet({group}) /\ Cardinality({group}) = 1
  BY FS_Singleton
<1>2. both = {group} \cup {Everywhere}
  OBVIOUS
<1>3. IsFiniteSet(both) /\ Cardinality(both) \in 1..2
  BY <1>1, <1>2, FS_AddElement
<1>4. found \subseteq both
  OBVIOUS
<1>5. Cardinality(found) \in Nat /\ Cardinality(found) <= Cardinality(both)
  BY <1>3, <1>4, FS_Subset, FS_CardinalityType
<1> HIDE DEF found, both
<1>6. Cardinality(found) \in 0..2
  BY <1>3, <1>5
<1>. QED  BY <1>6 DEF application_check_authorisation, found, both

LEMMA DatabaseTypeStep ==
    DatabaseTypeOK /\ [DatabaseNext]_databaseVars => DatabaseTypeOK'
<1> SUFFICES ASSUME DatabaseTypeOK, [DatabaseNext]_databaseVars PROVE DatabaseTypeOK'
  OBVIOUS
<1> USE DEF DatabaseTypeOK, Initialising, Statement
<1>1. CASE UNCHANGED databaseVars
  BY <1>1 DEF databaseVars
<1>2. ASSUME NEW s \in Servers, database_init_looks(s) PROVE DatabaseTypeOK'
  BY <1>2 DEF database_init_looks
<1>3. ASSUME NEW s \in Servers, database_init_opens(s) PROVE DatabaseTypeOK'
  BY <1>3 DEF database_init_opens
<1>4. ASSUME NEW s \in Servers, drop_users(s) PROVE DatabaseTypeOK'
  <2>1. drops' \in 0..2
    <3>1. drops \in 0..2 /\ drops' = IF drops = 2 THEN 2 ELSE drops + 1
      BY <1>4 DEF drop_users
    <3>. QED  BY ONLY <3>1
  <2>2. table' = FALSE /\ users' = {} /\ file' = TRUE
    BY <1>4 DEF drop_users
  <2>3. pc' \in [Servers -> Initialising \cup {"down", "open", "serving"}]
    BY <1>4 DEF drop_users
  <2>. QED  BY <1>4, <2>1, <2>2, <2>3 DEF drop_users
<1>5. ASSUME NEW s \in Servers, create_users(s) PROVE DatabaseTypeOK'
  BY <1>5 DEF create_users
<1>6. ASSUME NEW s \in Servers, drop_and_create_groups(s) PROVE DatabaseTypeOK'
  BY <1>6 DEF drop_and_create_groups
<1>7. ASSUME NEW s \in Servers, initdb_statements(s) PROVE DatabaseTypeOK'
  BY <1>7, SiteMembersAssumption DEF initdb_statements
<1>8. ASSUME NEW s \in Servers, ServerEnds(s) PROVE DatabaseTypeOK'
  BY <1>8 DEF ServerEnds
<1>9. ASSUME NEW s \in Servers, NEW user \in Users, NEW path \in Paths, CheckPage(s, user, path)
      PROVE  DatabaseTypeOK'
  <2>1. application_check_authorisation(user, GroupOf[path]) \in 0..2
    BY CountIsSmall
  <2>. QED  BY <1>9, <2>1 DEF CheckPage
<1>10. ASSUME NEW user \in Users, NEW group \in Groups, AddMember(user, group)
       PROVE  DatabaseTypeOK'
  <2>1. <<user, group>> \in Users \X Groups
    OBVIOUS
  <2>2. users' \subseteq Users \X Groups /\ members' \subseteq Users \X Groups
    BY <1>10, <2>1, Zenon DEF AddMember
  <2>3. table' /\ file'
    BY <1>10 DEF AddMember
  <2>4. UNCHANGED <<pc, initialise, drops, interrupted>> /\ verdict' = NoVerdict
    BY <1>10 DEF AddMember
  <2>5. file' \in BOOLEAN /\ table' \in BOOLEAN /\ interrupted' \in BOOLEAN
    BY <1>10, Zenon DEF AddMember
  <2>. QED  BY <2>2, <2>3, <2>4, <2>5, Zenon
<1>. QED  BY <1>1, <1>2, <1>3, <1>4, <1>5, <1>6, <1>7, <1>8, <1>9, <1>10 DEF DatabaseNext

LEMMA MembersStep == DatabaseInv /\ [DatabaseNext]_databaseVars => MembersKept' /\ DropsCounted'
<1> SUFFICES ASSUME DatabaseInv, [DatabaseNext]_databaseVars
             PROVE  MembersKept' /\ DropsCounted'
  OBVIOUS
<1> USE DEF DatabaseInv, DatabaseTypeOK, MembersKept, DropsCounted, Statement
<1>1. CASE UNCHANGED databaseVars
  BY <1>1 DEF databaseVars
<1>2. ASSUME NEW s \in Servers, database_init_looks(s) PROVE MembersKept' /\ DropsCounted'
  BY <1>2 DEF database_init_looks
<1>3. ASSUME NEW s \in Servers, database_init_opens(s) PROVE MembersKept' /\ DropsCounted'
  BY <1>3 DEF database_init_opens
<1>4. ASSUME NEW s \in Servers, drop_users(s) PROVE MembersKept' /\ DropsCounted'
  <2>1. drops = 0 => members = {}
    BY <1>4 DEF drop_users
  <2>2. drops \in 0..2 /\ drops' = IF drops = 2 THEN 2 ELSE drops + 1
    BY <1>4 DEF drop_users
  <2>3. drops' >= 1 /\ (drops' <= 1 => drops = 0)
    BY ONLY <2>2
  <2>4. drops = 0 => users' = members'
    BY <1>4, <2>1 DEF drop_users
  <2>5. MembersKept'
    BY <2>3, <2>4
  <2>6. \A t \in Servers : pc'[t] = "drop users" => initialise'[t]
    BY <1>4 DEF drop_users
  <2>7. drops' # 0
    BY ONLY <2>2
  <2>. QED  BY <2>3, <2>5, <2>6, <2>7, Zenon
<1>5. ASSUME NEW s \in Servers, create_users(s) PROVE MembersKept' /\ DropsCounted'
  <2>1. drops' >= 1 /\ drops' # 0
    <3>1. drops >= 1 /\ drops \in 0..2 /\ drops' = drops
      BY <1>5, Zenon DEF create_users
    <3>. QED  BY ONLY <3>1
  <2>2. \A t \in Servers : /\ pc'[t] = "drop users" => initialise'[t]
                           /\ pc'[t] \in {"create users", "groups", "site"} => drops' >= 1
    BY <1>5, <2>1 DEF create_users
  <2>3. MembersKept'
    BY <1>5 DEF create_users
  <2>. QED  BY <2>1, <2>2, <2>3
<1>6. ASSUME NEW s \in Servers, drop_and_create_groups(s) PROVE MembersKept' /\ DropsCounted'
  BY <1>6 DEF drop_and_create_groups
<1>7. ASSUME NEW s \in Servers, initdb_statements(s) PROVE MembersKept' /\ DropsCounted'
  BY <1>7 DEF initdb_statements
<1>8. ASSUME NEW s \in Servers, ServerEnds(s) PROVE MembersKept' /\ DropsCounted'
  BY <1>8 DEF ServerEnds
<1>9. ASSUME NEW s \in Servers, NEW user \in Users, NEW path \in Paths, CheckPage(s, user, path)
      PROVE  MembersKept' /\ DropsCounted'
  BY <1>9 DEF CheckPage
<1>10. ASSUME NEW user \in Users, NEW group \in Groups, AddMember(user, group)
       PROVE  MembersKept' /\ DropsCounted'
  BY <1>10 DEF AddMember
<1>. QED  BY <1>1, <1>2, <1>3, <1>4, <1>5, <1>6, <1>7, <1>8, <1>9, <1>10 DEF DatabaseNext

LEMMA TableStep == DatabaseInv /\ [DatabaseNext]_databaseVars => TableOnItsWay'
<1> SUFFICES ASSUME DatabaseInv, [DatabaseNext]_databaseVars PROVE TableOnItsWay'
  OBVIOUS
<1> USE DEF DatabaseInv, DatabaseTypeOK, TableOnItsWay, Initialising, Statement
<1>1. CASE UNCHANGED databaseVars
  BY <1>1 DEF databaseVars
<1>2. ASSUME NEW s \in Servers, database_init_looks(s) PROVE TableOnItsWay'
  BY <1>2 DEF database_init_looks
<1>3. ASSUME NEW s \in Servers, database_init_opens(s) PROVE TableOnItsWay'
  BY <1>3 DEF database_init_opens
<1>4. ASSUME NEW s \in Servers, drop_users(s) PROVE TableOnItsWay'
  BY <1>4 DEF drop_users
<1>5. ASSUME NEW s \in Servers, create_users(s) PROVE TableOnItsWay'
  BY <1>5 DEF create_users
<1>6. ASSUME NEW s \in Servers, drop_and_create_groups(s) PROVE TableOnItsWay'
  BY <1>6 DEF drop_and_create_groups
<1>7. ASSUME NEW s \in Servers, initdb_statements(s) PROVE TableOnItsWay'
  BY <1>7 DEF initdb_statements
<1>8. ASSUME NEW s \in Servers, ServerEnds(s) PROVE TableOnItsWay'
  BY <1>8 DEF ServerEnds
<1>9. ASSUME NEW s \in Servers, NEW user \in Users, NEW path \in Paths, CheckPage(s, user, path)
      PROVE  TableOnItsWay'
  BY <1>9 DEF CheckPage
<1>10. ASSUME NEW user \in Users, NEW group \in Groups, AddMember(user, group)
       PROVE  TableOnItsWay'
  BY <1>10 DEF AddMember
<1>. QED  BY <1>1, <1>2, <1>3, <1>4, <1>5, <1>6, <1>7, <1>8, <1>9, <1>10 DEF DatabaseNext

LEMMA DatabaseInvHolds == DatabaseSpec => []DatabaseInv
<1>1. DatabaseInit => DatabaseInv
  <2> SUFFICES ASSUME DatabaseInit PROVE DatabaseInv
    OBVIOUS
  <2>1. table = file /\ file \in BOOLEAN
    BY DEF DatabaseInit
  <2>2. (table => file) /\ ~(~table /\ file)
    BY <2>1
  <2>3. \A s \in Servers : pc[s] = "down"
    BY DEF DatabaseInit
  <2>4. drops = 0 /\ members = {} /\ users = {}
    BY DEF DatabaseInit
  <2>5. DatabaseTypeOK
    <3>1. file \in BOOLEAN /\ table \in BOOLEAN /\ (table => file)
      BY <2>1, <2>2
    <3>2. interrupted \in BOOLEAN
      BY DEF DatabaseInit
    <3>3. drops \in 0..2
      BY <2>4
    <3>4. pc \in [Servers -> Initialising \cup {"down", "open", "serving"}]
      BY DEF DatabaseInit
    <3>5. initialise \in [Servers -> BOOLEAN] /\ verdict = NoVerdict
      BY DEF DatabaseInit
    <3>. QED  BY <2>4, <3>1, <3>2, <3>3, <3>4, <3>5, Zenon DEF DatabaseTypeOK
  <2>6. MembersKept /\ DropsCounted
    BY <2>3, <2>4 DEF MembersKept, DropsCounted
  <2>7. TableOnItsWay
    BY <2>2, <2>3 DEF TableOnItsWay
  <2>. QED  BY <2>5, <2>6, <2>7 DEF DatabaseInv
<1>2. DatabaseInv /\ [DatabaseNext]_databaseVars => DatabaseInv'
  BY DatabaseTypeStep, MembersStep, TableStep DEF DatabaseInv
<1>. QED  BY <1>1, <1>2, PTL DEF DatabaseSpec

(* Every reachable state is well typed: the table needs the file, and no   *)
(* answer of application_check_authorisation is more than two.             *)
THEOREM DatabaseTypeCorrect == DatabaseSpec => []DatabaseTypeOK
<1>1. DatabaseInv => DatabaseTypeOK
  BY DEF DatabaseInv
<1>. QED  BY <1>1, DatabaseInvHolds, PTL

(* No member is lost, however many processes start, fail and start again,  *)
(* unless application_database_init dropped the table twice.               *)
THEOREM KeepsMembers == DatabaseSpec => []MembersKept
<1>1. DatabaseInv => MembersKept
  BY DEF DatabaseInv
<1>. QED  BY <1>1, DatabaseInvHolds, PTL

(* A process that serves has the table, unless an initialisation is under  *)
(* way or was interrupted.                                                 *)
THEOREM ServesWithTable == DatabaseSpec => []TablesWhenServing
<1>1. DatabaseInv => TablesWhenServing
  BY DEF DatabaseInv, TableOnItsWay, TablesWhenServing
<1>. QED  BY <1>1, DatabaseInvHolds, PTL

-----------------------------------------------------------------------------
(* The least of a set of naturals, and induction over a set of them.       *)
LEMMA LeastNatural ==
    ASSUME NEW T \in SUBSET Nat, T # {}
    PROVE  \E m \in T : \A k \in T : m <= k
<1> DEFINE R == OpToRel(<, Nat)
<1>1. \A x, y \in Nat : x < y => <<x, y>> \in R
  BY DEF OpToRel
<1>2. IsWellFoundedOn(R, Nat)
  BY NatLessThanWellFounded
<1> HIDE DEF R
<1>3. PICK m \in T : \A k \in T : ~(<<k, m>> \in R)
  BY <1>2, WFMin
<1>4. \A k \in T : k \in Nat /\ m \in Nat /\ ~(k < m)
  BY <1>1, <1>3
<1>5. \A k \in T : m <= k
  BY <1>4
<1>. QED  BY <1>5

LEMMA SetInduction ==
    ASSUME NEW S, 0 \in S, \A n \in Nat : n \in S => n + 1 \in S
    PROVE  Nat \subseteq S
<1> SUFFICES ASSUME Nat \ S # {} PROVE FALSE
  OBVIOUS
<1>1. PICK m \in Nat \ S : \A k \in Nat \ S : m <= k
  BY LeastNatural
<1>2. m # 0 /\ m - 1 \in Nat /\ ~(m <= m - 1)
  BY <1>1
<1>3. m - 1 \in S
  BY <1>1, <1>2
<1>4. (m - 1) + 1 \in S
  BY <1>2, <1>3
<1>. QED  BY <1>1, <1>4

-----------------------------------------------------------------------------
(* What Numeral computes: the value of the digits up to each place.        *)
Valued(s, n, value) ==
    value = [i \in 0..n |-> IF i = 0 THEN 0 ELSE Base * value[i - 1] + DigitValue(s[i])]

LEMMA ValueExists ==
    ASSUME NEW s, NEW len \in Nat
    PROVE  \E value : Valued(s, len, value)
<1> DEFINE S == {n \in Nat : \E value : Valued(s, n, value)}
<1>1. 0 \in S
  <2> DEFINE value == [i \in 0..0 |-> IF i = 0 THEN 0 ELSE 1]
  <2>1. value = [i \in 0..0 |-> IF i = 0 THEN 0 ELSE Base * value[i - 1] + DigitValue(s[i])]
    <3>1. \A i \in 0..0 : i = 0
      OBVIOUS
    <3>. QED  BY <3>1
  <2>2. Valued(s, 0, value)
    BY <2>1 DEF Valued
  <2>. QED  BY <2>2
<1>2. ASSUME NEW n \in Nat, n \in S PROVE n + 1 \in S
  <2>1. PICK f : Valued(s, n, f)
    BY <1>2
  <2> DEFINE last == Base * f[n] + DigitValue(s[n + 1])
             g == [i \in 0..(n + 1) |-> IF i = n + 1 THEN last ELSE f[i]]
             h == [i \in 0..(n + 1) |->
                      IF i = 0 THEN 0 ELSE Base * g[i - 1] + DigitValue(s[i])]
  <2>2. ASSUME NEW i \in 0..(n + 1) PROVE g[i] = h[i]
    <3>1. CASE i = n + 1
      <4>1. g[i] = last /\ i # 0 /\ i - 1 = n /\ n \in 0..(n + 1) /\ n # n + 1
        BY <3>1
      <4>2. g[i - 1] = f[n]
        BY <4>1
      <4>. QED  BY <3>1, <4>1, <4>2
    <3>2. CASE i = 0
      <4>1. 0 \in 0..n /\ 0 # n + 1
        OBVIOUS
      <4>2. f[0] = 0
        BY <2>1, <4>1 DEF Valued
      <4>. QED  BY <3>2, <4>1, <4>2
    <3>3. CASE i \in 1..n
      <4>1. /\ i \in 0..n /\ i # 0 /\ i # n + 1
            /\ i - 1 \in 0..(n + 1) /\ i - 1 # n + 1
        BY <3>3
      <4>2. f[i] = Base * f[i - 1] + DigitValue(s[i])
        BY <2>1, <4>1 DEF Valued
      <4>3. g[i] = f[i] /\ g[i - 1] = f[i - 1]
        BY <4>1
      <4>. QED  BY <4>1, <4>2, <4>3
    <3>. QED  BY <3>1, <3>2, <3>3
  <2>3. g = h
    BY <2>2
  <2>4. Valued(s, n + 1, g)
    BY <2>3 DEF Valued
  <2>. QED  BY <2>4
<1> HIDE DEF S
<1>3. Nat \subseteq S
  BY <1>1, <1>2, SetInduction
<1>. QED  BY <1>3 DEF S

(* What digits say is a natural number.                                    *)
LEMMA NumeralIsNat ==
    ASSUME NEW s \in Seq(STRING), AllDigits(s)
    PROVE  Numeral(s) \in Nat
<1>0. PICK len : len = Len(s) /\ len \in Nat
  BY LenProperties
<1> DEFINE value == CHOOSE value : Valued(s, len, value)
<1>1. Valued(s, len, value)
  BY <1>0, ValueExists
<1>2. Numeral(s) = value[len]
  BY <1>0 DEF Numeral, Valued
<1> HIDE DEF value
<1>3. Base \in Nat
  BY DigitsAssumption, LenProperties DEF Base
<1>4. ASSUME NEW i \in 1..len PROVE DigitValue(s[i]) \in Nat
  <2>1. i \in DOMAIN s
    BY <1>0
  <2>2. s[i] \in ToSet(Digits)
    BY <2>1 DEF AllDigits, ToSet
  <2>3. PICK k \in DOMAIN Digits : Digits[k] = s[i]
    BY <2>2 DEF ToSet
  <2>4. DOMAIN Digits = 1..Len(Digits) /\ Len(Digits) \in Nat
    BY DigitsAssumption, LenProperties
  <2>. QED  BY <2>3, <2>4 DEF DigitValue
<1> DEFINE S == {n \in Nat : n <= len => value[n] \in Nat}
<1>5. 0 \in S
  BY <1>0, <1>1 DEF Valued
<1>6. ASSUME NEW n \in Nat, n \in S PROVE n + 1 \in S
  <2> SUFFICES ASSUME n + 1 <= len PROVE value[n + 1] \in Nat
    OBVIOUS
  <2>1. /\ n + 1 \in 0..len /\ n + 1 \in 1..len /\ n + 1 # 0 /\ (n + 1) - 1 = n
        /\ n <= len
    BY <1>0
  <2>2. value[n + 1] = Base * value[n] + DigitValue(s[n + 1])
    BY <1>1, <2>1 DEF Valued
  <2>3. value[n] \in Nat /\ DigitValue(s[n + 1]) \in Nat
    BY <1>4, <1>6, <2>1
  <2>. QED  BY <1>3, <2>2, <2>3
<1> HIDE DEF S
<1>7. len \in S
  BY <1>0, <1>5, <1>6, SetInduction
<1>8. value[len] \in Nat
  BY <1>0, <1>7 DEF S
<1>. QED  BY <1>2, <1>8

(* No two places of a path come right after its count-th slash.            *)
LEMMA SlashesGrow ==
    ASSUME NEW str \in Seq(STRING), NEW i \in Slashes(str), NEW j \in Slashes(str), i < j
    PROVE  Cardinality(Slashes(SubSeq(str, 1, i))) # Cardinality(Slashes(SubSeq(str, 1, j)))
<1>0. PICK len : len = Len(str) /\ len \in Nat
  BY LenProperties
<1>1. i \in 1..len /\ j \in 1..len /\ str[j] = "/"
  BY <1>0 DEF Slashes
<1> DEFINE before(k) == {l \in 1..k : str[l] = "/"}
<1>2. ASSUME NEW k \in 1..len PROVE Slashes(SubSeq(str, 1, k)) = before(k)
  <2> DEFINE sub == SubSeq(str, 1, k)
  <2>1. \A l \in 1..k : str[l] \in STRING
    BY <1>0, ElementOfSeq
  <2>2. sub \in Seq(STRING) /\ Len(sub) = k /\ \A l \in 1..k : sub[l] = str[l]
    <3>1. 1 \in Int /\ k \in Int /\ 1 <= k /\ k - 1 + 1 = k /\ \A l \in 1..k : 1 + l - 1 = l
      BY <1>0
    <3>2. /\ sub \in Seq(STRING) /\ Len(sub) = (IF 1 <= k THEN k - 1 + 1 ELSE 0)
          /\ \A l \in 1..(k - 1 + 1) : sub[l] = str[1 + l - 1]
      BY <2>1, <3>1, SubSeqProperties
    <3>. QED  BY <3>1, <3>2
  <2> HIDE DEF sub
  <2>3. DOMAIN sub = 1..k
    BY <2>2, LenProperties
  <2>4. Slashes(sub) = before(k)
    BY <2>2, <2>3 DEF Slashes
  <2>. QED  BY <2>4 DEF sub
<1>3. before(i) \subseteq before(j) /\ j \in before(j) /\ j \notin before(i)
  BY <1>1
<1>4. IsFiniteSet(before(j))
  <2>1. IsFiniteSet(1..j)
    BY <1>1, FS_Interval
  <2>2. before(j) \subseteq 1..j
    OBVIOUS
  <2>. QED  BY <2>1, <2>2, FS_Subset
<1> HIDE DEF before
<1>5. Cardinality(before(i)) # Cardinality(before(j))
  BY <1>3, <1>4, FS_Subset
<1>. QED  BY <1>1, <1>2, <1>5

LEMMA OneComponent ==
    ASSUME NEW str \in Seq(STRING), NEW count,
           NEW i \in ComponentStarts(count, str), NEW j \in ComponentStarts(count, str)
    PROVE  i = j
<1>1. PICK a \in Slashes(str) :
         i = a + 1 /\ Cardinality(Slashes(SubSeq(str, 1, a))) = count
  BY DEF ComponentStarts
<1>2. PICK b \in Slashes(str) :
         j = b + 1 /\ Cardinality(Slashes(SubSeq(str, 1, b))) = count
  BY DEF ComponentStarts
<1>3. ~(a < b) /\ ~(b < a)
  BY <1>1, <1>2, SlashesGrow
<1>4. a \in Nat /\ b \in Nat
  BY LenProperties DEF Slashes
<1>. QED  BY <1>1, <1>2, <1>3, <1>4

LEMMA ComponentIsText ==
    ASSUME NEW str \in Seq(STRING), NEW count, NEW from \in ComponentStarts(count, str)
    PROVE  ComponentAt(from, str) \in Seq(STRING)
<1>0. PICK len : len = Len(str) /\ len \in Nat /\ DOMAIN str = 1..len
  BY LenProperties
<1>1. from \in 2..(len + 1)
  <2>1. PICK i \in Slashes(str) : from = i + 1
    BY DEF ComponentStarts
  <2>2. i \in 1..len
    BY <1>0, <2>1 DEF Slashes
  <2>. QED  BY <1>0, <2>1, <2>2
<1> DEFINE ends == {i - 1 : i \in {j \in Slashes(str) : j >= from}} \cup {Len(str)}
<1>2. ends \subseteq 0..len /\ len \in ends
  BY <1>0, <1>1 DEF Slashes
<1> HIDE DEF ends
<1>3. ends \in SUBSET Nat /\ ends # {}
  BY <1>0, <1>2
<1>4. \E m \in ends : \A k \in ends : m <= k
  BY <1>3, LeastNatural
<1>5. Min(ends) \in ends
  BY <1>4 DEF Min
<1>6. Min(ends) \in Int /\ \A k \in from..Min(ends) : str[k] \in STRING
  <2>1. Min(ends) \in 0..len
    BY <1>2, <1>5
  <2>2. \A k \in from..Min(ends) : k \in 1..len
    BY <1>0, <1>1, <2>1
  <2>. QED  BY <1>0, <2>1, <2>2, ElementOfSeq
<1>7. SubSeq(str, from, Min(ends)) \in Seq(STRING)
  BY <1>1, <1>6, SubSeqProperties
<1>. QED  BY <1>7 DEF ComponentAt, ends

(* The group of a path is the one it says, if it says one that fits.       *)
LEMMA GroupIsSaid ==
    ASSUME NEW path \in Paths
    PROVE  /\ GroupOf[path] \in Nat
           /\ GroupOf[path] # 0 => Says[path] \cap 1..IntMax = {GroupOf[path]}
           /\ GroupOf[path] = 0 => Says[path] \cap 1..IntMax = {}
<1> DEFINE found == {ComponentAt(i, path) : i \in ComponentStarts(Component, path)}
           good(s) == AllDigits(s) /\ strtol(s).errno = "0" /\ strtol(s).value <= IntMax
<1>1. path \in Seq(STRING)
  BY PathsAssumption
<1>2. GroupOf[path] = IF path # <<>> /\ path[1] = "/" /\ \E s \in found : good(s)
                      THEN strtol(CHOOSE s \in found : TRUE).value ELSE 0
  BY DEF GroupOf, appauth_parse_first_number
<1>3. Says[path] = {Numeral(s) : s \in {t \in found : path[1] = "/" /\ AllDigits(t)}}
  BY DEF Says
<1>4. found # {} => path # <<>>
  <2> SUFFICES ASSUME path = <<>> PROVE found = {}
    OBVIOUS
  <2>1. Slashes(path) = {}
    BY DEF Slashes
  <2>2. ComponentStarts(Component, path) = {}
    BY <2>1, Zenon DEF ComponentStarts
  <2>. QED  BY <2>2
<1>5. \A s \in found : AllDigits(s) => Numeral(s) \in Nat
  BY <1>1, ComponentIsText, NumeralIsNat
<1>6. \A s, t \in found : s = t
  BY <1>1, OneComponent
<1>7. ASSUME NEW s \in found, AllDigits(s)
      PROVE  /\ good(s) <=> Numeral(s) <= IntMax
             /\ good(s) => strtol(s).value = Numeral(s)
  <2>1. Numeral(s) \in Nat /\ IntMax \in Nat /\ LongMax \in Nat /\ IntMax <= LongMax
    BY <1>5, <1>7, WidthsAssumption
  <2>2. CASE Numeral(s) > LongMax
    <3>1. strtol(s).errno = "ERANGE"
      BY <2>2 DEF strtol
    <3>. QED  BY <2>1, <2>2, <3>1
  <2>3. CASE ~(Numeral(s) > LongMax)
    <3>1. strtol(s).errno = "0" /\ strtol(s).value = Numeral(s)
      BY <2>3 DEF strtol
    <3>. QED  BY <1>7, <2>1, <3>1
  <2>. QED  BY <2>2, <2>3
<1>8. \A s \in found : good(s) => AllDigits(s)
  OBVIOUS
<1> HIDE DEF found, good
<1>9. CASE path # <<>> /\ path[1] = "/" /\ \E s \in found : good(s)
  <2>1. PICK s \in found : good(s)
    BY <1>9
  <2>2. AllDigits(s) /\ Numeral(s) \in Nat /\ Numeral(s) <= IntMax
    BY <1>5, <1>7, <1>8, <2>1
  <2>3. (CHOOSE t \in found : TRUE) = s
    BY <1>6, <2>1
  <2>4. GroupOf[path] = Numeral(s)
    BY <1>2, <1>7, <1>9, <2>1, <2>2, <2>3
  <2>5. Says[path] = {Numeral(s)}
    BY <1>3, <1>6, <1>9, <2>1, <2>2
  <2>6. IntMax \in Nat
    BY WidthsAssumption
  <2>. QED  BY <2>2, <2>4, <2>5, <2>6
<1>10. CASE ~(path # <<>> /\ path[1] = "/" /\ \E s \in found : good(s))
  <2>1. GroupOf[path] = 0
    BY <1>2, <1>10
  <2>2. ASSUME NEW n \in Says[path] \cap 1..IntMax PROVE FALSE
    <3>1. PICK s \in found : path[1] = "/" /\ AllDigits(s) /\ n = Numeral(s)
      BY <1>3
    <3>2. n <= IntMax
      BY WidthsAssumption
    <3>3. good(s) /\ path # <<>>
      BY <1>4, <1>7, <3>1, <3>2
    <3>. QED  BY <1>10, <3>1, <3>3
  <2>. QED  BY <2>1, <2>2
<1>. QED  BY <1>9, <1>10

(* The query counts a row exactly if there is one.                         *)
LEMMA CountsMembers ==
    ASSUME NEW user, NEW group \in Nat
    PROVE  application_check_authorisation(user, group) > 0
              <=> group # 0 /\ (<<user, group>> \in users \/ <<user, Everywhere>> \in users)
<1>1. CASE group = 0
  BY <1>1 DEF application_check_authorisation
<1>2. CASE group # 0
  <2> DEFINE both == {group, Everywhere}
             rows == {g \in both : <<user, g>> \in users}
  <2>1. IsFiniteSet(both)
    <3>1. IsFiniteSet({group}) /\ both = {group} \cup {Everywhere}
      BY FS_Singleton
    <3>. QED  BY <3>1, FS_AddElement
  <2>2. IsFiniteSet(rows)
    BY <2>1, FS_Subset
  <2>3. Cardinality(rows) \in Nat /\ (Cardinality(rows) = 0 <=> rows = {})
    BY <2>2, FS_EmptySet, FS_CardinalityType
  <2>4. rows # {} <=> <<user, group>> \in users \/ <<user, Everywhere>> \in users
    OBVIOUS
  <2>5. ~(group <= 0)
    BY <1>2
  <2> HIDE DEF both, rows
  <2>6. Cardinality(rows) > 0 <=> <<user, group>> \in users \/ <<user, Everywhere>> \in users
    BY <2>3, <2>4
  <2>. QED  BY <1>2, <2>5, <2>6 DEF application_check_authorisation, both, rows
<1>. QED  BY <1>1, <1>2

LEMMA VerdictsStep ==
    DatabaseInv /\ VerdictsFollowMembers /\ [DatabaseNext]_databaseVars => VerdictsFollowMembers'
<1> SUFFICES ASSUME DatabaseInv, VerdictsFollowMembers, [DatabaseNext]_databaseVars
             PROVE  VerdictsFollowMembers'
  OBVIOUS
<1>0. drops \in 0..2
  BY DEF DatabaseInv, DatabaseTypeOK
<1>1. ASSUME UNCHANGED <<verdict, members>>, drops' <= 1 => drops <= 1
      PROVE  VerdictsFollowMembers'
  BY <1>1 DEF VerdictsFollowMembers
<1>2. ASSUME NEW s \in Servers, drop_users(s) PROVE VerdictsFollowMembers'
  <2>1. drops' <= 1 => drops <= 1
    <3>1. drops' = IF drops = 2 THEN 2 ELSE drops + 1
      BY <1>2 DEF drop_users
    <3>. QED  BY <1>0, <3>1
  <2>. QED  BY <1>1, <1>2, <2>1 DEF drop_users
<1>3. ASSUME NEW s \in Servers, NEW user \in Users, NEW path \in Paths, CheckPage(s, user, path)
      PROVE  VerdictsFollowMembers'
  <2> DEFINE group == GroupOf[path]
             count == application_check_authorisation(user, group)
  <2>1. UNCHANGED <<users, members, drops>> /\ verdict' = [user |-> user, path |-> path, count |-> count]
    BY <1>3 DEF CheckPage
  <2>2. verdict'.user = user /\ verdict'.path = path /\ verdict'.count = count
    BY <2>1
  <2>3. count > 0 <=> group # 0 /\ (<<user, group>> \in users \/ <<user, Everywhere>> \in users)
    BY GroupIsSaid, CountsMembers
  <2>4. /\ group # 0 => Says[path] \cap 1..IntMax = {group}
        /\ group = 0 => Says[path] \cap 1..IntMax = {}
    BY GroupIsSaid
  <2> HIDE DEF group, count
  <2>5. drops <= 1 =>
          (count > 0 <=> \E g \in Says[path] \cap 1..IntMax :
                             <<user, g>> \in members \/ <<user, Everywhere>> \in members)
    <3> SUFFICES ASSUME drops <= 1
                 PROVE  count > 0 <=> \E g \in Says[path] \cap 1..IntMax :
                             <<user, g>> \in members \/ <<user, Everywhere>> \in members
      OBVIOUS
    <3>1. users = members
      BY DEF DatabaseInv, MembersKept
    <3>2. (\E g \in Says[path] \cap 1..IntMax :
              <<user, g>> \in members \/ <<user, Everywhere>> \in members)
            <=> group # 0 /\ (<<user, group>> \in users \/ <<user, Everywhere>> \in users)
      <4>1. CASE group = 0
        BY <2>4, <4>1
      <4>2. CASE group # 0
        BY <2>4, <3>1, <4>2
      <4>. QED  BY <4>1, <4>2
    <3>. QED  BY <2>3, <3>2
  <2>. QED  BY <2>1, <2>2, <2>5 DEF VerdictsFollowMembers
<1>4. ASSUME NEW s \in Servers, initdb_statements(s) PROVE VerdictsFollowMembers'
  BY <1>4 DEF initdb_statements, VerdictsFollowMembers
<1>5. ASSUME NEW user \in Users, NEW group \in Groups, AddMember(user, group)
      PROVE  VerdictsFollowMembers'
  BY <1>5 DEF AddMember, VerdictsFollowMembers
<1>6. ASSUME NEW s \in Servers,
             \/ database_init_looks(s) \/ database_init_opens(s)
             \/ create_users(s) \/ drop_and_create_groups(s) \/ ServerEnds(s)
      PROVE  VerdictsFollowMembers'
  <2>1. UNCHANGED <<verdict, members, drops>>
    BY <1>6 DEF database_init_looks, database_init_opens, create_users,
                drop_and_create_groups, ServerEnds
  <2>. QED  BY <1>1, <2>1
<1>7. CASE UNCHANGED databaseVars
  BY <1>1, <1>7 DEF databaseVars
<1>. QED  BY <1>2, <1>3, <1>4, <1>5, <1>6, <1>7 DEF DatabaseNext

(* For any paths and numbers, a user is admitted to a page exactly if the  *)
(* operator entered the user for the group that the path says or for the   *)
(* one that sees everything: appauth_parse_first_number mistakes no number *)
(* for another, and application_check_authorisation counts the right rows. *)
THEOREM AdmitsMembers == DatabaseSpec => []VerdictsFollowMembers
<1>1. DatabaseInit => VerdictsFollowMembers
  BY DEF DatabaseInit, VerdictsFollowMembers
<1>. QED  BY <1>1, VerdictsStep, DatabaseInvHolds, PTL DEF DatabaseSpec

-----------------------------------------------------------------------------
LEMMA FcnIsSeq ==
    ASSUME NEW S, NEW n \in Nat, NEW f \in [1..n -> S]
    PROVE  f \in Seq(S) /\ Len(f) = n
<1>1. f \in Seq(S)
  BY SeqDef
<1>2. DOMAIN f = 1..n /\ DOMAIN f = 1..Len(f) /\ Len(f) \in Nat
  BY <1>1, LenProperties
<1>. QED  BY <1>2

LEMMA Joined ==
    ASSUME NEW S, NEW a, NEW b, NEW n, NEW m,
           a \in Seq(S), b \in Seq(S), Len(a) = n, Len(b) = m
    PROVE  /\ a \o b \in Seq(S) /\ Len(a \o b) = n + m /\ n \in Nat /\ m \in Nat
           /\ \A i \in 1..n : (a \o b)[i] = a[i]
           /\ \A i \in 1..m : (a \o b)[n + i] = b[i]
<1>1. n \in Nat /\ m \in Nat
  BY LenProperties
<1>2. /\ a \o b \in Seq(S) /\ Len(a \o b) = n + m
      /\ \A i \in 1..(n + m) : (a \o b)[i] = IF i <= n THEN a[i] ELSE b[i - n]
  BY ConcatProperties
<1>3. ASSUME NEW i \in 1..n PROVE (a \o b)[i] = a[i]
  BY <1>1, <1>2
<1>4. ASSUME NEW i \in 1..m PROVE (a \o b)[n + i] = b[i]
  <2>1. n + i \in 1..(n + m) /\ ~(n + i <= n) /\ (n + i) - n = i
    BY <1>1
  <2>. QED  BY <1>2, <2>1
<1>. QED  BY <1>1, <1>2, <1>3, <1>4

LEMMA Descending ==
    ASSUME NEW n \in Nat, NEW S,
           \A k \in 1..(n + 1) : (\A j \in (k + 1)..(n + 1) : j \in S) => k \in S
    PROVE  \A k \in 1..(n + 1) : k \in S
<1> SUFFICES ASSUME NEW bad \in 1..(n + 1), bad \notin S PROVE FALSE
  OBVIOUS
<1> DEFINE T == {d \in 0..n : n + 1 - d \notin S}
<1>1. T \in SUBSET Nat /\ n + 1 - bad \in T
  <2>1. n + 1 - bad \in 0..n /\ n + 1 - (n + 1 - bad) = bad
    OBVIOUS
  <2>. QED  BY <2>1
<1>2. PICK m \in T : \A k \in T : m <= k
  BY <1>1, LeastNatural
<1>3. ASSUME NEW j \in (n + 1 - m + 1)..(n + 1) PROVE j \in S
  <2>1. m \in 0..n
    BY <1>2
  <2>2. n + 1 - j \in 0..n /\ ~(m <= n + 1 - j) /\ n + 1 - (n + 1 - j) = j
    BY <2>1
  <2>3. n + 1 - j \notin T
    BY <1>2, <2>2
  <2>. QED  BY <2>2, <2>3
<1>4. n + 1 - m \in 1..(n + 1) /\ n + 1 - m \notin S
  BY <1>2
<1>. QED  BY <1>3, <1>4

LEMMA Part ==
    ASSUME NEW x \in Seq(STRING), NEW a \in 1..(Len(x) + 1), NEW b \in 0..Len(x), a <= b + 1
    PROVE  /\ SubSeq(x, a, b) \in Seq(STRING) /\ Len(SubSeq(x, a, b)) = b - a + 1
           /\ \A i \in 1..(b - a + 1) : SubSeq(x, a, b)[i] = x[a + i - 1]
<1>0. PICK len : len = Len(x) /\ len \in Nat
  BY LenProperties
<1>1. a \in Int /\ b \in Int
  BY <1>0
<1>2. \A i \in a..b : x[i] \in STRING
  <2>1. \A i \in a..b : i \in 1..len
    BY <1>0
  <2>. QED  BY <1>0, <2>1, ElementOfSeq
<1> DEFINE part == SubSeq(x, a, b)
<1>3. /\ part \in Seq(STRING) /\ Len(part) = (IF a <= b THEN b - a + 1 ELSE 0)
      /\ \A i \in 1..(b - a + 1) : part[i] = x[a + i - 1]
  BY <1>1, <1>2, SubSeqProperties
<1> HIDE DEF part
<1>4. Len(part) = b - a + 1
  BY <1>1, <1>3
<1>. QED  BY <1>3, <1>4 DEF part

LEMMA SamePart ==
    ASSUME NEW x \in Seq(STRING), NEW a \in 1..(Len(x) + 1), NEW b \in 0..Len(x), a <= b + 1,
           NEW y \in Seq(STRING), Len(y) = b - a + 1,
           \A i \in 1..Len(y) : x[a + i - 1] = y[i]
    PROVE  SubSeq(x, a, b) = y
<1> DEFINE part == SubSeq(x, a, b)
<1>1. /\ part \in Seq(STRING) /\ Len(part) = b - a + 1
      /\ \A i \in 1..(b - a + 1) : part[i] = x[a + i - 1]
  BY Part
<1> HIDE DEF part
<1>2. \A i \in 1..Len(part) : part[i] = y[i]
  BY <1>1
<1>3. part = y
  BY <1>1, <1>2, SeqEqual
<1>. QED  BY <1>3 DEF part

(* A function on 1..(n + 1) whose value at a place follows from the values *)
(* at later places exists.                                                 *)
LooksAhead(n, V, H) ==
    \A k \in 1..(n + 1) : \A f, g \in [1..(n + 1) -> V] :
        (\A j \in (k + 1)..(n + 1) : f[j] = g[j]) => H[k][f] = H[k][g]

Meets(H, f, from, n) == \A k \in from..(n + 1) : f[k] = H[k][f]

LEMMA Recursion ==
    ASSUME NEW n \in Nat, NEW V, V # {},
           NEW H \in [1..(n + 1) -> [[1..(n + 1) -> V] -> V]], LooksAhead(n, V, H)
    PROVE  \E f \in [1..(n + 1) -> V] : Meets(H, f, 1, n)
<1> DEFINE F == [1..(n + 1) -> V]
           S == {d \in Nat : d <= n + 1 => \E f \in F : Meets(H, f, n + 2 - d, n)}
<1>1. 0 \in S
  <2>1. PICK v \in V : TRUE
    OBVIOUS
  <2>2. [k \in 1..(n + 1) |-> v] \in F
    OBVIOUS
  <2>3. (n + 2 - 0)..(n + 1) = {}
    OBVIOUS
  <2>4. \A f \in F : Meets(H, f, n + 2 - 0, n)
    BY <2>3 DEF Meets
  <2>. QED  BY <2>2, <2>4
<1>2. ASSUME NEW d \in Nat, d \in S PROVE d + 1 \in S
  <2> SUFFICES ASSUME d + 1 <= n + 1 PROVE \E f \in F : Meets(H, f, n + 2 - (d + 1), n)
    OBVIOUS
  <2>1. PICK m : m = n + 2 - (d + 1) /\ m + 1 = n + 2 - d /\ m \in 1..(n + 1)
    OBVIOUS
  <2>2. PICK f \in F : Meets(H, f, m + 1, n)
    BY <1>2, <2>1
  <2> DEFINE g == [f EXCEPT ![m] = H[m][f]]
  <2>3. H[m][f] \in V
    BY <2>1
  <2>4. g \in F /\ g[m] = H[m][f] /\ \A j \in 1..(n + 1) : j # m => g[j] = f[j]
    BY <2>1, <2>3
  <2> HIDE DEF g
  <2>5. ASSUME NEW k \in m..(n + 1) PROVE g[k] = H[k][g]
    <3>1. k \in 1..(n + 1) /\ \A j \in (k + 1)..(n + 1) : g[j] = f[j]
      BY <2>1, <2>4
    <3>2. H[k][g] = H[k][f]
      BY <2>4, <3>1 DEF LooksAhead
    <3>3. CASE k = m
      BY <2>4, <3>2, <3>3
    <3>4. CASE k # m
      <4>1. k \in (m + 1)..(n + 1)
        BY <2>1, <3>4
      <4>2. f[k] = H[k][f] /\ g[k] = f[k]
        BY <2>2, <2>4, <3>1, <3>4, <4>1 DEF Meets
      <4>. QED  BY <3>2, <4>2
    <3>. QED  BY <3>3, <3>4
  <2>6. Meets(H, g, m, n)
    BY <2>5 DEF Meets
  <2>. QED  BY <2>1, <2>4, <2>6
<1> HIDE DEF S
<1>3. n + 1 \in S
  BY <1>1, <1>2, SetInduction
<1>4. n + 2 - (n + 1) = 1
  OBVIOUS
<1>. QED  BY <1>3, <1>4 DEF S

(* A component ends before the next slash, or at the end.                  *)
IsSlash(str, i) == str[i] = "/"

EndsAt(str, i, e) ==
    /\ e \in (i - 1)..Len(str)
    /\ e = Len(str) \/ IsSlash(str, e + 1)
    /\ \A l \in i..e : ~IsSlash(str, l)

LEMMA ComponentIs ==
    ASSUME NEW str \in Seq(STRING), NEW i \in 1..(Len(str) + 1)
    PROVE  \E e : EndsAt(str, i, e) /\ ComponentAt(i, str) = SubSeq(str, i, e)
<1>0. PICK len : len = Len(str) /\ len \in Nat /\ DOMAIN str = 1..len
  BY LenProperties
<1> DEFINE ends == {l - 1 : l \in {j \in Slashes(str) : j >= i}} \cup {Len(str)}
<1>1. \A e : e \in ends <=> e = len \/ (e + 1 \in i..len /\ e \in Nat /\ IsSlash(str, e + 1))
  <2>1. \A j : j \in Slashes(str) <=> j \in 1..len /\ IsSlash(str, j)
    BY <1>0 DEF Slashes, IsSlash
  <2>2. i \in 1..(len + 1)
    BY <1>0
  <2>3. ASSUME NEW e \in ends PROVE e = len \/ (e + 1 \in i..len /\ e \in Nat /\ IsSlash(str, e + 1))
    <3>1. CASE e = Len(str)
      BY <1>0, <3>1
    <3>2. ASSUME NEW l \in Slashes(str), l >= i, e = l - 1
          PROVE  e + 1 \in i..len /\ e \in Nat /\ IsSlash(str, e + 1)
      <4>1. l \in 1..len /\ IsSlash(str, l)
        BY <2>1
      <4>2. e + 1 = l /\ e \in Nat /\ l \in i..len
        BY <1>0, <2>2, <3>2, <4>1
      <4>. QED  BY <4>1, <4>2
    <3>. QED  BY <3>1, <3>2
  <2>4. ASSUME NEW e, e + 1 \in i..len /\ e \in Nat /\ IsSlash(str, e + 1) PROVE e \in ends
    <3>1. e + 1 \in 1..len /\ e + 1 >= i /\ (e + 1) - 1 = e
      BY <1>0, <2>2, <2>4
    <3>2. e + 1 \in Slashes(str)
      BY <2>1, <2>4, <3>1
    <3>. QED  BY <3>1, <3>2
  <2>5. len \in ends
    BY <1>0
  <2>. QED  BY <2>3, <2>4, <2>5
<1>2. ComponentAt(i, str) = SubSeq(str, i, Min(ends))
  BY DEF ComponentAt
<1> HIDE DEF ends
<1>3. PICK e \in ends : \A k \in ends : e <= k
  <2>1. ends \in SUBSET Nat /\ ends # {}
    BY <1>0, <1>1
  <2>. QED  BY <2>1, LeastNatural
<1>4. Min(ends) \in ends /\ \A k \in ends : Min(ends) <= k
  BY <1>3 DEF Min
<1> DEFINE f == Min(ends)
<1>5. f \in ends /\ \A k \in ends : f <= k
  BY <1>4
<1>6. ComponentAt(i, str) = SubSeq(str, i, f)
  BY <1>2
<1> HIDE DEF f
<1>7. f \in (i - 1)..len /\ (f = len \/ IsSlash(str, f + 1))
  BY <1>0, <1>1, <1>5
<1>8. ASSUME NEW l \in i..f, IsSlash(str, l) PROVE FALSE
  <2>1. l \in i..len /\ l - 1 \in Nat /\ (l - 1) + 1 = l
    BY <1>0, <1>7
  <2>2. l - 1 \in ends
    BY <1>1, <1>8, <2>1
  <2>3. f <= l - 1
    BY <1>5, <2>2
  <2>. QED  BY <1>0, <1>7, <2>3
<1>. QED  BY <1>0, <1>6, <1>7, <1>8 DEF EndsAt

LEMMA OneEnd ==
    ASSUME NEW str \in Seq(STRING), NEW i \in 1..(Len(str) + 1),
           NEW e, EndsAt(str, i, e), NEW f, EndsAt(str, i, f)
    PROVE  e = f
<1>0. PICK len : len = Len(str) /\ len \in Nat
  BY LenProperties
<1>1. ASSUME NEW a, NEW b, EndsAt(str, i, a), EndsAt(str, i, b), a < b PROVE FALSE
  <2>1. /\ a \in (i - 1)..len /\ b \in (i - 1)..len
        /\ a = len \/ IsSlash(str, a + 1)
        /\ \A l \in i..b : ~IsSlash(str, l)
    BY <1>0, <1>1 DEF EndsAt
  <2>2. a # len /\ a + 1 \in i..b
    BY <1>0, <1>1, <2>1
  <2>. QED  BY <2>1, <2>2
<1>2. e \in Int /\ f \in Int
  BY <1>0 DEF EndsAt
<1>3. ~(e < f) /\ ~(f < e)
  BY <1>1
<1>. QED  BY <1>2, <1>3

-----------------------------------------------------------------------------
(* The path without the slash at its end.                                  *)
Trimmed(str) == IF Last(str) = "/" THEN Front(str) ELSE str

Trims(str, t, n) ==
    /\ t \in Seq(STRING) /\ n = Len(t) /\ n \in Nat /\ n <= Len(str)
    /\ \A i \in 1..n : t[i] = str[i]
    /\ n = Len(str) => ~IsSlash(str, n)
    /\ n # Len(str) => n + 1 = Len(str) /\ IsSlash(str, n + 1)

LEMMA TrimmedIs ==
    ASSUME NEW str \in Seq(STRING), str # <<>>
    PROVE  \E n : Trims(str, Trimmed(str), n)
<1>0. PICK len : len = Len(str) /\ len \in Nat /\ len # 0
  <2>1. Len(str) \in Nat
    BY LenProperties
  <2>2. Len(str) # 0
    BY EmptySeq
  <2>. QED  BY <2>1, <2>2
<1>1. Last(str) = str[len]
  BY <1>0 DEF Last
<1>2. CASE IsSlash(str, len)
  <2>1. PICK n : n = len - 1 /\ n \in Nat /\ n + 1 = len /\ n <= len
    BY <1>0
  <2>2. Trimmed(str) = SubSeq(str, 1, n)
    BY <1>0, <1>1, <1>2, <2>1 DEF Trimmed, Front, IsSlash
  <2>3. 1 \in 1..(Len(str) + 1) /\ n \in 0..Len(str) /\ 1 <= n + 1 /\ n - 1 + 1 = n
    BY <1>0, <2>1
  <2>4. /\ SubSeq(str, 1, n) \in Seq(STRING) /\ Len(SubSeq(str, 1, n)) = n
        /\ \A i \in 1..n : SubSeq(str, 1, n)[i] = str[1 + i - 1]
    BY <2>3, Part
  <2>5. \A i \in 1..n : 1 + i - 1 = i
    OBVIOUS
  <2>6. n # len
    BY <1>0, <2>1
  <2>7. Trims(str, SubSeq(str, 1, n), n)
    BY <1>0, <1>2, <2>1, <2>4, <2>5, <2>6 DEF Trims
  <2>. QED  BY <2>2, <2>7
<1>3. CASE ~IsSlash(str, len)
  <2>1. Trimmed(str) = str
    BY <1>1, <1>3 DEF Trimmed, IsSlash
  <2>2. len <= len
    BY <1>0
  <2>3. Trims(str, str, len)
    BY <1>0, <1>3, <2>2 DEF Trims
  <2>. QED  BY <2>1, <2>3
<1>. QED  BY <1>2, <1>3

LEMMA TrimmedComponent ==
    ASSUME NEW str \in Seq(STRING), NEW t, NEW n, Trims(str, t, n), NEW i \in 1..(n + 1),
           i <= Len(str) + 1
    PROVE  ComponentAt(i, t) = ComponentAt(i, str)
<1>0. PICK len : len = Len(str) /\ len \in Nat
  BY LenProperties
<1>1. /\ t \in Seq(STRING) /\ n = Len(t) /\ n \in Nat /\ n <= len
      /\ \A l \in 1..n : t[l] = str[l]
      /\ n # len => n + 1 = len /\ IsSlash(str, n + 1)
  BY <1>0 DEF Trims
<1>2. PICK e : EndsAt(t, i, e) /\ ComponentAt(i, t) = SubSeq(t, i, e)
  BY <1>1, ComponentIs
<1>3. i \in 1..(Len(str) + 1)
  BY <1>0
<1>4. PICK f : EndsAt(str, i, f) /\ ComponentAt(i, str) = SubSeq(str, i, f)
  BY <1>3, ComponentIs
<1>5. /\ e \in (i - 1)..n /\ (e = n \/ IsSlash(t, e + 1)) /\ \A l \in i..e : ~IsSlash(t, l)
  BY <1>1, <1>2 DEF EndsAt
<1>6. \A l \in 1..n : IsSlash(t, l) <=> IsSlash(str, l)
  BY <1>1 DEF IsSlash
<1>7. EndsAt(str, i, e)
  <2>1. e \in (i - 1)..len
    BY <1>0, <1>1, <1>5
  <2>2. \A l \in i..e : ~IsSlash(str, l)
    <3>1. \A l \in i..e : l \in 1..n
      BY <1>1, <1>5
    <3>. QED  BY <1>5, <1>6, <3>1
  <2>3. e = len \/ IsSlash(str, e + 1)
    <3>1. CASE e = n
      BY <1>1, <3>1
    <3>2. CASE e # n
      <4>1. e + 1 \in 1..n
        BY <1>1, <1>5, <3>2
      <4>. QED  BY <1>5, <1>6, <3>2, <4>1
    <3>. QED  BY <3>1, <3>2
  <2>. QED  BY <1>0, <2>1, <2>2, <2>3 DEF EndsAt
<1>8. e = f
  BY <1>3, <1>4, <1>7, OneEnd
<1>9. SubSeq(t, i, e) = SubSeq(str, i, e)
  <2>1. i \in 1..(Len(t) + 1) /\ e \in 0..Len(t) /\ i <= e + 1
    BY <1>1, <1>5
  <2>2. i \in 1..(Len(str) + 1) /\ e \in 0..Len(str) /\ i <= e + 1
    BY <1>0, <1>1, <1>3, <2>1
  <2>a. PICK y, k : y = SubSeq(str, i, e) /\ k = e - i + 1
    OBVIOUS
  <2>3. /\ y = SubSeq(str, i, e) /\ y \in Seq(STRING) /\ Len(y) = e - i + 1
        /\ k = e - i + 1 /\ \A j \in 1..k : y[j] = str[i + j - 1]
    BY <2>2, <2>a, Part
  <2>4. \A j \in 1..k : i + j - 1 \in 1..n
    BY <1>1, <1>5, <2>3
  <2>5. \A j \in 1..Len(y) : t[i + j - 1] = y[j]
    BY <1>1, <2>3, <2>4
  <2>6. SubSeq(t, i, e) = y
    BY <1>1, <2>1, <2>3, <2>5, SamePart
  <2>. QED  BY <2>3, <2>6
<1>. QED  BY <1>2, <1>4, <1>8, <1>9

(* The segments from a place on, as SegmentsOf finds them.                 *)
SegmentsAt(str, start, from) ==
    LET seg  == ComponentAt(start, str)
        next == start + Len(seg) + 1
        rest == IF next > Len(str) + 1 THEN <<>> ELSE from[next]
    IN  IF seg = <<>> THEN rest ELSE <<seg>> \o rest

Segments(str, f) ==
    \A start \in 1..(Len(str) + 1) :
        f[start] = SegmentsAt(str, start, f) /\ f[start] \in Seq(Seq(STRING))

LEMMA ComponentText ==
    ASSUME NEW str \in Seq(STRING), NEW i \in 1..(Len(str) + 1)
    PROVE  ComponentAt(i, str) \in Seq(STRING) /\ Len(ComponentAt(i, str)) \in Nat
<1>0. PICK len : len = Len(str) /\ len \in Nat
  BY LenProperties
<1>1. PICK e : EndsAt(str, i, e) /\ ComponentAt(i, str) = SubSeq(str, i, e)
  BY ComponentIs
<1>2. e \in 0..Len(str) /\ i <= e + 1
  BY <1>0, <1>1 DEF EndsAt
<1>3. SubSeq(str, i, e) \in Seq(STRING)
  BY <1>2, Part
<1>. QED  BY <1>1, <1>3, LenProperties

LEMMA ListBoth ==
    ASSUME NEW S, NEW c \in S, NEW y \in Seq(S)
    PROVE  /\ <<c>> \o y \in Seq(S) /\ Len(<<c>> \o y) = Len(y) + 1
           /\ (<<c>> \o y)[1] = c /\ \A j \in 1..Len(y) : (<<c>> \o y)[j + 1] = y[j]
<1>1. PICK x : x = <<c>> /\ x \in Seq(S) /\ Len(x) = 1 /\ x[1] = c
  <2>1. <<c>> \in Seq(S)
    OBVIOUS
  <2>2. Len(<<c>>) = 1 /\ <<c>>[1] = c
    OBVIOUS
  <2>. QED  BY <2>1, <2>2
<1>2. PICK n, m : n = Len(x) /\ n = 1 /\ m = Len(y) /\ m \in Nat
  BY <1>1, LenProperties
<1>3. /\ x \o y \in Seq(S) /\ Len(x \o y) = n + m
      /\ \A i \in 1..n : (x \o y)[i] = x[i]
      /\ \A i \in 1..m : (x \o y)[n + i] = y[i]
  BY <1>1, <1>2, Joined
<1>4. 1 \in 1..n /\ n + m = m + 1 /\ \A j \in 1..m : n + j = j + 1
  BY <1>2
<1>. QED  BY <1>1, <1>2, <1>3, <1>4

LEMMA SegmentsIs ==
    ASSUME NEW str \in Seq(STRING)
    PROVE  \E f : SegmentsOf(str) = f[1] /\ Segments(str, f)
<1>0. PICK n : n = Len(str) /\ n \in Nat
  BY LenProperties
<1> DEFINE V == Seq(Seq(STRING))
           F == [1..(n + 1) -> V]
           H == [s \in 1..(n + 1) |-> [f \in F |-> SegmentsAt(str, s, f)]]
<1>1. ASSUME NEW s \in 1..(n + 1), NEW f, \A j \in (s + 1)..(n + 1) : f[j] \in V
      PROVE  SegmentsAt(str, s, f) \in V
  <2>1. PICK seg, k : seg = ComponentAt(s, str) /\ seg \in Seq(STRING) /\ k = Len(seg) /\ k \in Nat
    BY <1>0, ComponentText
  <2> DEFINE rest == IF s + k + 1 > n + 1 THEN <<>> ELSE f[s + k + 1]
  <2>2. rest \in V
    <3>1. CASE s + k + 1 > n + 1
      <4>1. <<>> \in V
        BY EmptySeq
      <4>. QED  BY <3>1, <4>1
    <3>2. CASE ~(s + k + 1 > n + 1)
      <4>1. s + k + 1 \in (s + 1)..(n + 1)
        BY <1>0, <2>1, <3>2
      <4>2. f[s + k + 1] \in V
        BY <1>1, <4>1
      <4>. QED  BY <3>2, <4>2
    <3>. QED  BY <3>1, <3>2
  <2>3. SegmentsAt(str, s, f) = IF seg = <<>> THEN rest ELSE <<seg>> \o rest
    BY <1>0, <2>1 DEF SegmentsAt
  <2> HIDE DEF rest
  <2>4. <<seg>> \o rest \in V
    BY <2>1, <2>2, ListBoth
  <2>. QED  BY <2>2, <2>3, <2>4
<1>2. \A s \in 1..(n + 1) : \A f \in F : H[s][f] = SegmentsAt(str, s, f)
  OBVIOUS
<1>3. H \in [1..(n + 1) -> [F -> V]]
  <2>1. ASSUME NEW s \in 1..(n + 1), NEW f \in F PROVE SegmentsAt(str, s, f) \in V
    <3>1. \A j \in (s + 1)..(n + 1) : f[j] \in V
      BY <1>0
    <3>. QED  BY <1>1, <3>1
  <2>. QED  BY <2>1
<1>4. LooksAhead(n, V, H)
  <2> SUFFICES ASSUME NEW s \in 1..(n + 1), NEW f \in F, NEW g \in F,
                      \A j \in (s + 1)..(n + 1) : f[j] = g[j]
               PROVE  H[s][f] = H[s][g]
    BY DEF LooksAhead
  <2>1. PICK k : k = Len(ComponentAt(s, str)) /\ k \in Nat
    BY <1>0, ComponentText
  <2>2. ~(s + k + 1 > n + 1) => f[s + k + 1] = g[s + k + 1]
    <3>1. ~(s + k + 1 > n + 1) => s + k + 1 \in (s + 1)..(n + 1)
      BY <1>0, <2>1
    <3>. QED  BY <3>1
  <2>3. SegmentsAt(str, s, f) = SegmentsAt(str, s, g)
    BY <1>0, <2>1, <2>2 DEF SegmentsAt
  <2> HIDE DEF H
  <2>. QED  BY <1>2, <2>3
<1>5. V # {}
  BY EmptySeq
<1>6. PICK f \in F : Meets(H, f, 1, n)
  <2> HIDE DEF V, H
  <2>. QED  BY <1>0, <1>3, <1>4, <1>5, Recursion
<1>7. f = [s \in 1..(Len(str) + 1) |-> SegmentsAt(str, s, f)]
  <2>1. \A s \in 1..(n + 1) : f[s] = SegmentsAt(str, s, f)
    <3> HIDE DEF H, V
    <3>. QED  BY <1>2, <1>6 DEF Meets
  <2>2. f = [s \in 1..(n + 1) |-> f[s]]
    BY <1>6
  <2>. QED  BY <1>0, <2>1, <2>2
<1> DEFINE from == CHOOSE from : from = [s \in 1..(Len(str) + 1) |-> SegmentsAt(str, s, from)]
<1>8. from = [s \in 1..(Len(str) + 1) |-> SegmentsAt(str, s, from)]
  BY <1>7
<1>9. SegmentsOf(str) = from[1]
  BY DEF SegmentsOf, SegmentsAt
<1> HIDE DEF from
<1>10. \A s \in 1..(n + 1) : from[s] = SegmentsAt(str, s, from)
  BY <1>0, <1>8
<1> DEFINE S == {s \in 1..(n + 1) : from[s] \in V}
<1>11. ASSUME NEW s \in 1..(n + 1), \A j \in (s + 1)..(n + 1) : j \in S PROVE s \in S
  <2>1. SegmentsAt(str, s, from) \in V
    <3>1. \A j \in (s + 1)..(n + 1) : from[j] \in V
      BY <1>11
    <3> HIDE DEF V
    <3>. QED  BY <1>1, <3>1
  <2>. QED  BY <1>10, <2>1
<1> HIDE DEF S
<1>12. \A s \in 1..(n + 1) : s \in S
  BY <1>0, <1>11, Descending
<1>13. Segments(str, from)
  BY <1>0, <1>10, <1>12 DEF S, Segments
<1>. QED  BY <1>9, <1>13

(* The slashes up to a place.                                              *)
Before(str, p) == {j \in 1..p : IsSlash(str, j)}
Count(str, p) == Cardinality(Before(str, p))

LEMMA CountIsNat ==
    ASSUME NEW str, NEW p \in Nat
    PROVE  IsFiniteSet(Before(str, p)) /\ Count(str, p) \in Nat
<1>1. IsFiniteSet(1..p)
  BY FS_Interval
<1>2. Before(str, p) \subseteq 1..p
  BY DEF Before
<1>3. IsFiniteSet(Before(str, p))
  BY <1>1, <1>2, FS_Subset
<1>. QED  BY <1>3, FS_CardinalityType DEF Count

LEMMA CountGrows ==
    ASSUME NEW str, NEW p \in Nat, NEW q \in Nat, p <= q
    PROVE  /\ Count(str, p) <= Count(str, q)
           /\ (\A l \in (p + 1)..q : ~IsSlash(str, l)) => Count(str, q) = Count(str, p)
<1>1. IsFiniteSet(Before(str, q))
  BY CountIsNat
<1>2. Before(str, p) \subseteq Before(str, q)
  BY DEF Before
<1>3. Cardinality(Before(str, p)) <= Cardinality(Before(str, q))
  BY <1>1, <1>2, FS_Subset
<1>4. ASSUME \A l \in (p + 1)..q : ~IsSlash(str, l) PROVE Before(str, q) = Before(str, p)
  <2>1. \A l \in 1..q : l \in 1..p \/ l \in (p + 1)..q
    OBVIOUS
  <2>2. Before(str, q) \subseteq Before(str, p)
    BY <1>4, <2>1 DEF Before
  <2>. QED  BY <1>2, <2>2
<1>. QED  BY <1>3, <1>4 DEF Count

LEMMA CountAtSlash ==
    ASSUME NEW str, NEW p \in Nat, IsSlash(str, p + 1)
    PROVE  Count(str, p + 1) = Count(str, p) + 1
<1>1. IsFiniteSet(Before(str, p))
  BY CountIsNat
<1>2. Before(str, p + 1) = Before(str, p) \cup {p + 1}
  <2>1. \A l : l \in 1..(p + 1) <=> l \in 1..p \/ l = p + 1
    OBVIOUS
  <2>. QED  BY <2>1 DEF Before
<1>3. p + 1 \notin Before(str, p)
  BY DEF Before
<1>4. Cardinality(Before(str, p) \cup {p + 1}) = Cardinality(Before(str, p)) + 1
  BY <1>1, <1>3, FS_AddElement
<1>. QED  BY <1>2, <1>4 DEF Count

LEMMA PrefixSlashes ==
    ASSUME NEW str \in Seq(STRING), NEW p \in 1..Len(str)
    PROVE  Cardinality(Slashes(SubSeq(str, 1, p))) = Count(str, p)
<1>0. PICK len : len = Len(str) /\ len \in Nat
  BY LenProperties
<1>1. 1 \in 1..(Len(str) + 1) /\ p \in 0..Len(str) /\ 1 <= p + 1 /\ p - 1 + 1 = p
  BY <1>0
<1>2. PICK sub : sub = SubSeq(str, 1, p)
  OBVIOUS
<1>3. sub \in Seq(STRING) /\ Len(sub) = p /\ \A i \in 1..p : sub[i] = str[1 + i - 1]
  BY <1>1, <1>2, Part
<1>4. DOMAIN sub = 1..p /\ \A i \in 1..p : 1 + i - 1 = i
  BY <1>3, LenProperties
<1>5. Slashes(sub) = Before(str, p)
  BY <1>3, <1>4 DEF Slashes, Before, IsSlash
<1>. QED  BY <1>2, <1>5 DEF Count

(* What appauth_parse_first_number looks at.                               *)
Found(str, k) == {ComponentAt(i, str) : i \in ComponentStarts(k, str)}

LEMMA StartsAre ==
    ASSUME NEW str \in Seq(STRING), NEW k, NEW i
    PROVE  i \in ComponentStarts(k, str) <=>
              \E j \in 1..Len(str) : i = j + 1 /\ IsSlash(str, j) /\ Count(str, j) = k
<1>1. DOMAIN str = 1..Len(str)
  BY LenProperties
<1>2. \A j : j \in Slashes(str) <=> j \in 1..Len(str) /\ IsSlash(str, j)
  BY <1>1 DEF Slashes, IsSlash
<1>3. \A j \in 1..Len(str) : Cardinality(Slashes(SubSeq(str, 1, j))) = Count(str, j)
  BY PrefixSlashes
<1>. QED  BY <1>2, <1>3 DEF ComponentStarts

LEMMA FoundHere ==
    ASSUME NEW str \in Seq(STRING), NEW p \in Nat, p < Len(str), IsSlash(str, p + 1)
    PROVE  Found(str, Count(str, p) + 1) = {ComponentAt(p + 2, str)}
<1>0. PICK len : len = Len(str) /\ len \in Nat
  BY LenProperties
<1>1. PICK j, k : j = p + 1 /\ p + 2 = j + 1 /\ j \in 1..len /\ k = Count(str, p) + 1
  BY <1>0
<1>2. IsSlash(str, j) /\ Count(str, j) = k
  BY <1>1, CountAtSlash
<1>3. j + 1 \in ComponentStarts(k, str)
  BY <1>0, <1>1, <1>2, StartsAre
<1>4. ComponentStarts(k, str) = {j + 1}
  BY <1>3, OneComponent
<1>. QED  BY <1>1, <1>4 DEF Found

LEMMA FoundNone ==
    ASSUME NEW str \in Seq(STRING), NEW k \in Nat, k > Count(str, Len(str))
    PROVE  Found(str, k) = {}
<1>0. PICK len : len = Len(str) /\ len \in Nat
  BY LenProperties
<1>1. ASSUME NEW i \in ComponentStarts(k, str) PROVE FALSE
  <2>1. PICK j \in 1..len : Count(str, j) = k
    BY <1>0, StartsAre
  <2>2. j \in Nat /\ j <= len
    BY <1>0
  <2>3. Count(str, j) <= Count(str, len) /\ Count(str, len) \in Nat
    BY <1>0, <2>2, CountGrows, CountIsNat
  <2>. QED  BY <1>0, <2>1, <2>3
<1>. QED  BY <1>1 DEF Found

(* The components from the c-th on are those of a list, and nothing more.  *)
Agrees(str, list, c) ==
    \A k \in Nat : k >= c =>
        IF k - c < Len(list) THEN Found(str, k) = {list[k - c + 1]} /\ list[k - c + 1] # <<>>
                             ELSE Found(str, k) \subseteq {<<>>}

LEMMA AgreesBefore ==
    ASSUME NEW str, NEW list \in Seq(Seq(STRING)), NEW c \in Nat, Agrees(str, list, c + 1),
           NEW seg \in Seq(STRING), seg # <<>>, Found(str, c) = {seg}
    PROVE  Agrees(str, <<seg>> \o list, c)
<1>0. PICK m : m = Len(list) /\ m \in Nat
  BY LenProperties
<1>1. PICK y : /\ y = <<seg>> \o list /\ Len(y) = m + 1
               /\ y[1] = seg /\ \A j \in 1..m : y[j + 1] = list[j]
  <2>1. PICK S : seg \in S /\ list \in Seq(S)
    OBVIOUS
  <2>2. /\ Len(<<seg>> \o list) = Len(list) + 1 /\ (<<seg>> \o list)[1] = seg
        /\ \A j \in 1..Len(list) : (<<seg>> \o list)[j + 1] = list[j]
    BY <2>1, ListBoth
  <2>. QED  BY <1>0, <2>2
<1>2. ASSUME NEW k \in Nat, k >= c
      PROVE  IF k - c < m + 1 THEN Found(str, k) = {y[k - c + 1]} /\ y[k - c + 1] # <<>>
                              ELSE Found(str, k) \subseteq {<<>>}
  <2>1. CASE k = c
    <3>1. k - c < m + 1 /\ k - c + 1 = 1
      BY <1>0, <2>1
    <3>. QED  BY <1>1, <2>1, <3>1
  <2>2. CASE k # c
    <3>1. PICK d : d = k - (c + 1) /\ d \in Nat /\ k >= c + 1 /\ k - c = d + 1
      BY <1>2, <2>2
    <3>2. IF d < m THEN Found(str, k) = {list[d + 1]} /\ list[d + 1] # <<>>
                   ELSE Found(str, k) \subseteq {<<>>}
      BY <1>0, <3>1 DEF Agrees
    <3>3. d < m <=> k - c < m + 1
      BY <1>0, <3>1
    <3>4. d < m => d + 1 \in 1..m /\ k - c + 1 = (d + 1) + 1
      BY <1>0, <3>1
    <3>5. d < m => y[k - c + 1] = list[d + 1]
      BY <1>1, <3>4
    <3>. QED  BY <3>2, <3>3, <3>5
  <2>. QED  BY <2>1, <2>2
<1>3. Agrees(str, y, c)
  BY <1>1, <1>2 DEF Agrees
<1>. QED  BY <1>1, <1>3

LEMMA AgreesNothing ==
    ASSUME NEW str, NEW c \in Nat, \A k \in Nat : k >= c => Found(str, k) \subseteq {<<>>}
    PROVE  Agrees(str, <<>>, c)
<1>1. Len(<<>>) = 0
  BY EmptySeq
<1>2. \A k \in Nat : k >= c => ~(k - c < 0)
  OBVIOUS
<1>. QED  BY <1>1, <1>2 DEF Agrees

LEMMA NothingAgrees ==
    ASSUME NEW str, NEW c \in Nat, Agrees(str, <<>>, c)
    PROVE  \A k \in Nat : k >= c => Found(str, k) \subseteq {<<>>}
<1>1. Len(<<>>) = 0
  BY EmptySeq
<1>2. \A k \in Nat : k >= c => ~(k - c < 0)
  OBVIOUS
<1>. QED  BY <1>1, <1>2 DEF Agrees

Single(str) == \A i \in 2..Len(str) : ~(IsSlash(str, i - 1) /\ IsSlash(str, i))

(* What SegmentsOf goes on with after the slash at p.                      *)
After(f, n, p) == IF p > n THEN <<>> ELSE f[p + 1]

Ends(str, p) == p = Len(str) + 1 \/ IsSlash(str, p)

LEMMA NextComponent ==
    ASSUME NEW str \in Seq(STRING), NEW p \in 1..Len(str), IsSlash(str, p)
    PROVE  \E q : /\ q \in (p + 1)..(Len(str) + 1) /\ Ends(str, q)
                  /\ Count(str, q - 1) = Count(str, p - 1) + 1
                  /\ Found(str, Count(str, p - 1) + 1) = {SubSeq(str, p + 1, q - 1)}
                  /\ ComponentAt(p + 1, str) = SubSeq(str, p + 1, q - 1)
                  /\ Len(SubSeq(str, p + 1, q - 1)) = q - 1 - p
                  /\ SubSeq(str, p + 1, q - 1) \in Seq(STRING)
<1>0. PICK len : len = Len(str) /\ len \in Nat
  BY LenProperties
<1>1. PICK s, a : s = p + 1 /\ s \in 1..(len + 1) /\ a = p - 1 /\ a \in Nat /\ p = a + 1 /\ s = a + 2 /\ a < len
  BY <1>0
<1>2. PICK e : EndsAt(str, s, e) /\ ComponentAt(s, str) = SubSeq(str, s, e)
  BY <1>0, <1>1, ComponentIs
<1>3. /\ e \in (s - 1)..len /\ (e = len \/ IsSlash(str, e + 1))
      /\ \A l \in s..e : ~IsSlash(str, l)
  BY <1>0, <1>2 DEF EndsAt
<1>4. PICK q : q = e + 1 /\ q - 1 = e /\ q \in (p + 1)..(len + 1)
  BY <1>0, <1>1, <1>3
<1>5. Ends(str, q)
  BY <1>0, <1>3, <1>4 DEF Ends
<1>6. p \in Nat /\ e \in Nat /\ p <= e /\ p + 1 = s
  BY <1>0, <1>1, <1>3
<1>7. Count(str, e) = Count(str, p)
  BY <1>3, <1>6, CountGrows
<1>8. Count(str, p) = Count(str, a) + 1
  BY <1>1, CountAtSlash
<1>9. Found(str, Count(str, a) + 1) = {ComponentAt(a + 2, str)}
  BY <1>0, <1>1, FoundHere
<1>10. s \in 1..(Len(str) + 1) /\ e \in 0..Len(str) /\ s <= e + 1 /\ e - s + 1 = q - 1 - p
  BY <1>0, <1>1, <1>3, <1>4
<1>11. SubSeq(str, s, e) \in Seq(STRING) /\ Len(SubSeq(str, s, e)) = e - s + 1
  BY <1>10, Part
<1>. QED  BY <1>0, <1>1, <1>2, <1>4, <1>5, <1>7, <1>8, <1>9, <1>10, <1>11

LEMMA SegmentsFound ==
    ASSUME NEW str \in Seq(STRING), Single(str), NEW t, NEW n, Trims(str, t, n),
           NEW f, Segments(t, f), NEW p \in 1..(Len(str) + 1), Ends(str, p)
    PROVE  Agrees(str, After(f, n, p), Count(str, p - 1) + 1)
<1>0. PICK len : len = Len(str) /\ len \in Nat
  BY LenProperties
<1>1. /\ t \in Seq(STRING) /\ n = Len(t) /\ n \in Nat /\ n <= len
      /\ n = len => ~IsSlash(str, n)
      /\ n # len => n + 1 = len /\ IsSlash(str, n + 1)
  BY <1>0 DEF Trims
<1> DEFINE S == {k \in 1..(len + 1) : Ends(str, k) => Agrees(str, After(f, n, k), Count(str, k - 1) + 1)}
<1>2. ASSUME NEW k \in 1..(len + 1), \A j \in (k + 1)..(len + 1) : j \in S PROVE k \in S
  <2> SUFFICES ASSUME Ends(str, k) PROVE Agrees(str, After(f, n, k), Count(str, k - 1) + 1)
    OBVIOUS
  <2>0. k - 1 \in Nat
    BY <1>0
  <2>1. PICK c : c = Count(str, k - 1) + 1 /\ c \in Nat
    <3>1. Count(str, k - 1) \in Nat
      BY <2>0, CountIsNat
    <3>. QED  BY <3>1
  <2>2. CASE k = len + 1
    <3>1. After(f, n, k) = <<>>
      <4>1. k > n
        BY <1>0, <1>1, <2>2
      <4>. QED  BY <4>1 DEF After
    <3>2. k - 1 = len
      BY <1>0, <2>2
    <3>3. ASSUME NEW j \in Nat, j >= c PROVE Found(str, j) \subseteq {<<>>}
      <4>1. Count(str, len) \in Nat
        BY <1>0, CountIsNat
      <4>2. j > Count(str, len)
        BY <2>1, <3>2, <3>3, <4>1
      <4>3. Found(str, j) = {}
        BY <1>0, <4>2, FoundNone
      <4>. QED  BY <4>3
    <3>. QED  BY <2>1, <3>1, <3>3, AgreesNothing
  <2>3. CASE k # len + 1
    <3>1. k \in 1..len /\ IsSlash(str, k)
      BY <1>0, <2>3 DEF Ends
    <3>2. PICK q, seg : /\ q \in (k + 1)..(len + 1) /\ Ends(str, q) /\ Count(str, q - 1) = c
                        /\ Found(str, c) = {seg} /\ ComponentAt(k + 1, str) = seg
                        /\ Len(seg) = q - 1 - k /\ seg \in Seq(STRING)
      BY <1>0, <2>1, <3>1, NextComponent
    <3>3. Agrees(str, After(f, n, q), c + 1)
      BY <1>2, <3>2
    <3>4. CASE k > n
      <4>1. k = len /\ q = len + 1 /\ q > n /\ q - 1 - k = 0
        BY <1>0, <1>1, <3>1, <3>2, <3>4
      <4>2. After(f, n, k) = <<>> /\ After(f, n, q) = <<>>
        BY <3>4, <4>1 DEF After
      <4>3. Found(str, c) = {<<>>}
        BY <3>2, <4>1, EmptySeq
      <4>4. ASSUME NEW j \in Nat, j >= c PROVE Found(str, j) \subseteq {<<>>}
        <5>1. c + 1 \in Nat /\ (j = c \/ j >= c + 1)
          BY <2>1, <4>4
        <5>. QED  BY <3>3, <4>2, <4>3, <5>1, NothingAgrees
      <4>. QED  BY <2>1, <4>2, <4>4, AgreesNothing
    <3>5. CASE ~(k > n)
      <4>1. k + 1 \in 1..(n + 1) /\ k + 1 <= len + 1
        BY <1>0, <1>1, <3>1, <3>5
      <4>2. ComponentAt(k + 1, t) = seg
        BY <1>0, <3>2, <4>1, TrimmedComponent
      <4>3. seg # <<>>
        <5>1. q - 1 - k # 0
          <6>1. CASE q = k + 1 /\ q = len + 1
            BY <1>0, <1>1, <3>1, <3>5, <6>1
          <6>2. CASE q = k + 1 /\ q # len + 1
            <7>1. q \in 2..Len(str) /\ q - 1 = k /\ IsSlash(str, q)
              BY <1>0, <3>1, <3>2, <6>2 DEF Ends
            <7>. QED  BY <3>1, <7>1 DEF Single
          <6>3. q - 1 - k = 0 => q = k + 1
            BY <3>1, <3>2
          <6>. QED  BY <6>1, <6>2, <6>3
        <5>. QED  BY <3>2, <5>1, EmptySeq
      <4>4. After(f, n, k) = <<seg>> \o After(f, n, q)
        <5>1. After(f, n, k) = SegmentsAt(t, k + 1, f)
          BY <1>1, <3>5, <4>1 DEF After, Segments
        <5>2. PICK m : m = Len(seg) /\ m = q - 1 - k
          BY <3>2
        <5>3. k + 1 + m + 1 = q + 1 /\ (q + 1 > n + 1 <=> q > n)
          BY <1>0, <1>1, <3>1, <3>2, <5>2
        <5>4. SegmentsAt(t, k + 1, f) = <<seg>> \o (IF q + 1 > n + 1 THEN <<>> ELSE f[q + 1])
          BY <1>1, <4>2, <4>3, <5>2, <5>3 DEF SegmentsAt
        <5>. QED  BY <5>1, <5>3, <5>4 DEF After
      <4>5. After(f, n, q) \in Seq(Seq(STRING))
        <5>1. CASE q > n
          <6>1. <<>> \in Seq(Seq(STRING))
            BY EmptySeq
          <6>. QED  BY <5>1, <6>1 DEF After
        <5>2. CASE ~(q > n)
          <6>1. q + 1 \in 1..(n + 1)
            BY <1>0, <1>1, <3>1, <3>2, <5>2
          <6>. QED  BY <1>1, <5>2, <6>1 DEF After, Segments
        <5>. QED  BY <5>1, <5>2
      <4>. QED  BY <2>1, <3>2, <3>3, <4>3, <4>4, <4>5, AgreesBefore
    <3>. QED  BY <3>4, <3>5
  <2>. QED  BY <2>2, <2>3
<1> HIDE DEF S
<1>3. \A k \in 1..(len + 1) : k \in S
  BY <1>0, <1>2, Descending
<1>. QED  BY <1>0, <1>3 DEF S

(* Every segment of a path, in its order.                                  *)
LEMMA SegmentsOfPath ==
    ASSUME NEW str \in Seq(STRING), str # <<>>, IsSlash(str, 1), Single(str)
    PROVE  /\ SegmentsOf(Trimmed(str)) \in Seq(Seq(STRING))
           /\ Agrees(str, SegmentsOf(Trimmed(str)), 1)
<1>0. PICK len : len = Len(str) /\ len \in Nat /\ len # 0
  <2>1. Len(str) \in Nat
    BY LenProperties
  <2>2. Len(str) # 0
    BY EmptySeq
  <2>. QED  BY <2>1, <2>2
<1>1. PICK t, n : t = Trimmed(str) /\ Trims(str, t, n)
  BY TrimmedIs
<1>2. t \in Seq(STRING) /\ n = Len(t) /\ n \in Nat /\ n <= len
  BY <1>0, <1>1 DEF Trims
<1>3. PICK f : SegmentsOf(t) = f[1] /\ Segments(t, f)
  BY <1>2, SegmentsIs
<1>4. 1 \in 1..(n + 1) /\ 1 <= len + 1 /\ 1 \in 1..(len + 1)
  BY <1>0, <1>2
<1>5. f[1] = SegmentsAt(t, 1, f) /\ f[1] \in Seq(Seq(STRING))
  BY <1>2, <1>3, <1>4 DEF Segments
<1>6. ComponentAt(1, t) = <<>>
  <2>1. ComponentAt(1, t) = ComponentAt(1, str)
    BY <1>0, <1>1, <1>4, TrimmedComponent
  <2>2. PICK e : EndsAt(str, 1, e) /\ ComponentAt(1, str) = SubSeq(str, 1, e)
    BY <1>0, <1>4, ComponentIs
  <2>3. e = 0
    <3>1. e \in (1 - 1)..len /\ \A l \in 1..e : ~IsSlash(str, l)
      BY <1>0, <2>2 DEF EndsAt
    <3>2. ~(1 \in 1..e)
      BY <3>1
    <3>. QED  BY <1>0, <3>1, <3>2
  <2>4. SubSeq(str, 1, 0) = <<>>
    BY SubSeqEmpty
  <2>. QED  BY <2>1, <2>2, <2>3, <2>4
<1>7. SegmentsOf(t) = After(f, n, 1)
  <2>1. Len(<<>>) = 0 /\ 1 + 0 + 1 = 1 + 1 /\ (1 + 0 + 1 > n + 1 <=> 1 > n)
    BY <1>2, EmptySeq
  <2>2. SegmentsAt(t, 1, f) = IF 1 > n THEN <<>> ELSE f[1 + 1]
    BY <1>2, <1>6, <2>1 DEF SegmentsAt
  <2>. QED  BY <1>3, <1>5, <2>2 DEF After
<1>8. Agrees(str, After(f, n, 1), Count(str, 1 - 1) + 1)
  <2>1. Ends(str, 1)
    BY DEF Ends
  <2>. QED  BY <1>0, <1>1, <1>3, <1>4, <2>1, SegmentsFound
<1>9. Count(str, 1 - 1) + 1 = 1
  <2>1. Before(str, 0) = {}
    BY DEF Before
  <2>2. Count(str, 0) = 0
    BY <2>1, FS_EmptySet DEF Count
  <2>. QED  BY <2>2
<1>. QED  BY <1>1, <1>3, <1>5, <1>7, <1>8, <1>9

(* A component has the characters of the path.                             *)
LEMMA FoundWithin ==
    ASSUME NEW str \in Seq(STRING), NEW k, NEW x \in Found(str, k), NEW c,
           \A i \in 1..Len(str) : str[i] # c
    PROVE  \A i \in 1..Len(x) : x[i] # c
<1>0. PICK len : len = Len(str) /\ len \in Nat
  BY LenProperties
<1>1. PICK i \in ComponentStarts(k, str) : x = ComponentAt(i, str)
  BY DEF Found
<1>2. PICK j \in 1..len : i = j + 1
  BY <1>0, StartsAre
<1>3. i \in 1..(len + 1)
  BY <1>0, <1>2
<1>4. PICK e : EndsAt(str, i, e) /\ x = SubSeq(str, i, e)
  BY <1>0, <1>1, <1>3, ComponentIs
<1>5. e \in (i - 1)..len
  BY <1>0, <1>4 DEF EndsAt
<1>6. PICK m : m = e - i + 1
  OBVIOUS
<1>7. i \in 1..(Len(str) + 1) /\ e \in 0..Len(str) /\ i <= e + 1
  BY <1>0, <1>3, <1>5
<1>8. Len(x) = m /\ \A l \in 1..m : x[l] = str[i + l - 1]
  BY <1>4, <1>6, <1>7, Part
<1>9. \A l \in 1..m : i + l - 1 \in 1..len
  BY <1>0, <1>3, <1>5, <1>6
<1>. QED  BY <1>0, <1>8, <1>9

-----------------------------------------------------------------------------
(* The stretches from p on, one by one, and a list of their texts.         *)
Lists(str, list, st, p) ==
    /\ st \in Seq(Stretches(str)) /\ list \in Seq(Seq(STRING)) /\ Len(list) = Len(st)
    /\ \A m \in 1..Len(st) : st[m][1] >= p /\ list[m] = SubSeq(str, st[m][1], st[m][2])
    /\ \A l, m \in 1..Len(st) : l < m => st[l][2] < st[m][1]
    /\ \A i \in p..Len(str) : ~IsSlash(str, i) =>
          \E m \in 1..Len(st) : st[m][1] <= i /\ i <= st[m][2]

LEMMA StretchIs ==
    ASSUME NEW str \in Seq(STRING), NEW s
    PROVE  s \in Stretches(str) <=>
              /\ s \in (1..Len(str)) \X (1..Len(str)) /\ s[1] <= s[2]
              /\ \A i \in s[1]..s[2] : ~IsSlash(str, i)
              /\ s[1] = 1 \/ IsSlash(str, s[1] - 1)
              /\ s[2] = Len(str) \/ IsSlash(str, s[2] + 1)
  BY DEF Stretches, IsSlash

LEMMA NothingLists ==
    ASSUME NEW str \in Seq(STRING), NEW p \in Nat, p > Len(str)
    PROVE  Lists(str, <<>>, <<>>, p)
<1>1. Len(str) \in Nat
  BY LenProperties
<1>2. /\ <<>> \in Seq(Stretches(str)) /\ <<>> \in Seq(Seq(STRING)) /\ Len(<<>>) = 0
      /\ 1..0 = {} /\ p..Len(str) = {}
  BY <1>1, EmptySeq
<1>. QED  BY <1>2 DEF Lists

LEMMA ListsPast ==
    ASSUME NEW str \in Seq(STRING), NEW p \in Nat, NEW list, NEW st,
           Lists(str, list, st, p + 1), p <= Len(str) => IsSlash(str, p)
    PROVE  Lists(str, list, st, p)
<1>0. PICK len, n : len = Len(str) /\ len \in Nat /\ n = Len(st) /\ n \in Nat
  BY LenProperties DEF Lists
<1>1. ASSUME NEW m \in 1..n PROVE st[m][1] >= p
  <2>1. st[m] \in Stretches(str)
    BY <1>0, ElementOfSeq DEF Lists
  <2>2. st[m][1] \in Nat
    BY <1>0, <2>1, StretchIs
  <2>3. st[m][1] >= p + 1
    BY <1>0 DEF Lists
  <2>. QED  BY <2>2, <2>3
<1>2. ASSUME NEW i \in p..len, ~IsSlash(str, i) PROVE i \in (p + 1)..len
  BY <1>0, <1>2
<1>. QED  BY <1>0, <1>1, <1>2 DEF Lists

LEMMA ListsBefore ==
    ASSUME NEW str \in Seq(STRING), NEW p \in 1..Len(str), p = 1 \/ IsSlash(str, p - 1),
           NEW e \in p..Len(str), EndsAt(str, p, e),
           NEW list, NEW st, Lists(str, list, st, e + 1)
    PROVE  Lists(str, <<SubSeq(str, p, e)>> \o list, <<<<p, e>>>> \o st, p)
<1>0. PICK len, n : len = Len(str) /\ len \in Nat /\ n = Len(st) /\ n \in Nat
  BY LenProperties DEF Lists
<1>a. PICK first : first = <<p, e>>
  OBVIOUS
<1>1. first = <<p, e>> /\ first[1] = p /\ first[2] = e
  BY <1>a
<1>2. first \in Stretches(str)
  <2>1. first \in (1..len) \X (1..len)
    BY <1>0, <1>1
  <2>. QED  BY <1>0, <1>1, <2>1, StretchIs DEF EndsAt
<1>3. PICK text : text = SubSeq(str, p, e) /\ text \in Seq(STRING)
  <2>1. p \in 1..(Len(str) + 1) /\ e \in 0..Len(str) /\ p <= e + 1
    BY <1>0
  <2>. QED  BY <2>1, Part
<1>4. /\ st \in Seq(Stretches(str)) /\ list \in Seq(Seq(STRING)) /\ Len(list) = n
      /\ \A m \in 1..n : st[m][1] >= e + 1 /\ list[m] = SubSeq(str, st[m][1], st[m][2])
      /\ \A l, m \in 1..n : l < m => st[l][2] < st[m][1]
      /\ \A i \in (e + 1)..len : ~IsSlash(str, i) => \E m \in 1..n : st[m][1] <= i /\ i <= st[m][2]
  BY <1>0 DEF Lists
<1>b. PICK ss, ll : ss = <<first>> \o st /\ ll = <<text>> \o list
  OBVIOUS
<1>5. /\ ss = <<first>> \o st /\ ss \in Seq(Stretches(str)) /\ Len(ss) = n + 1
      /\ ss[1] = first /\ \A j \in 1..n : ss[j + 1] = st[j]
  BY <1>0, <1>2, <1>4, <1>b, ListBoth
<1>6. /\ ll = <<text>> \o list /\ ll \in Seq(Seq(STRING)) /\ Len(ll) = n + 1
      /\ ll[1] = text /\ \A j \in 1..n : ll[j + 1] = list[j]
  BY <1>3, <1>4, <1>b, ListBoth
<1>7. \A m \in 1..n : st[m][1] \in Nat /\ st[m][2] \in Nat
  <2>1. \A m \in 1..n : st[m] \in Stretches(str)
    BY <1>0, <1>4, ElementOfSeq
  <2>. QED  BY <1>0, <2>1, StretchIs
<1>8. \A m \in 1..(n + 1) : m = 1 \/ \E j \in 1..n : m = j + 1
  <2>1. \A m \in 1..(n + 1) : m # 1 => m - 1 \in 1..n /\ m = (m - 1) + 1
    BY <1>0
  <2>. QED  BY <2>1
<1>9. ASSUME NEW m \in 1..(n + 1) PROVE ss[m][1] >= p /\ ll[m] = SubSeq(str, ss[m][1], ss[m][2])
  <2>1. CASE m = 1
    BY <1>0, <1>1, <1>3, <1>5, <1>6, <2>1
  <2>2. ASSUME NEW j \in 1..n, m = j + 1 PROVE ss[m][1] >= p /\ ll[m] = SubSeq(str, ss[m][1], ss[m][2])
    <3>1. ss[m] = st[j] /\ ll[m] = list[j]
      BY <1>5, <1>6, <2>2
    <3>2. st[j][1] >= p
      BY <1>0, <1>4, <1>7
    <3>. QED  BY <1>4, <3>1, <3>2
  <2>. QED  BY <1>8, <2>1, <2>2
<1>10. ASSUME NEW l \in 1..(n + 1), NEW m \in 1..(n + 1), l < m PROVE ss[l][2] < ss[m][1]
  <2>1. PICK j \in 1..n : m = j + 1
    BY <1>0, <1>8, <1>10
  <2>2. CASE l = 1
    <3>1. ss[l][2] = e /\ ss[m][1] = st[j][1]
      BY <1>1, <1>5, <2>1, <2>2
    <3>. QED  BY <1>0, <1>4, <1>7, <3>1
  <2>3. ASSUME NEW k \in 1..n, l = k + 1 PROVE ss[l][2] < ss[m][1]
    <3>1. k < j
      BY <1>10, <2>1, <2>3
    <3>. QED  BY <1>4, <1>5, <2>1, <2>3, <3>1
  <2>. QED  BY <1>8, <2>2, <2>3
<1>11. ASSUME NEW i \in p..len, ~IsSlash(str, i)
       PROVE  \E m \in 1..(n + 1) : ss[m][1] <= i /\ i <= ss[m][2]
  <2>1. CASE i <= e
    <3>1. 1 \in 1..(n + 1) /\ ss[1][1] <= i /\ i <= ss[1][2]
      BY <1>0, <1>1, <1>5, <2>1
    <3>. QED  BY <3>1
  <2>2. CASE ~(i <= e)
    <3>1. i \in (e + 1)..len
      BY <1>0, <2>2
    <3>2. PICK j \in 1..n : st[j][1] <= i /\ i <= st[j][2]
      BY <1>4, <1>11, <3>1
    <3>3. j + 1 \in 1..(n + 1) /\ ss[j + 1] = st[j]
      BY <1>0, <1>5
    <3>. QED  BY <3>2, <3>3
  <2>. QED  BY <2>1, <2>2
<1>12. Lists(str, ll, ss, p)
  BY <1>0, <1>5, <1>6, <1>9, <1>10, <1>11 DEF Lists
<1>. QED  BY <1>1, <1>3, <1>5, <1>6, <1>12

(* The segments that the parser finds are the stretches.                   *)
LEMMA SegmentsListed ==
    ASSUME NEW str \in Seq(STRING), NEW f, Segments(str, f),
           NEW p \in 1..(Len(str) + 1), p = 1 \/ IsSlash(str, p - 1)
    PROVE  \E st : Lists(str, f[p], st, p)
<1>0. PICK n : n = Len(str) /\ n \in Nat
  BY LenProperties
<1> DEFINE Starts(k) == k = 1 \/ IsSlash(str, k - 1)
           S == {k \in 1..(n + 1) : Starts(k) => \E st : Lists(str, f[k], st, k)}
<1>1. ASSUME NEW k \in 1..(n + 1), \A j \in (k + 1)..(n + 1) : j \in S PROVE k \in S
  <2> SUFFICES ASSUME Starts(k) PROVE \E st : Lists(str, f[k], st, k)
    OBVIOUS
  <2>1. PICK e : EndsAt(str, k, e) /\ ComponentAt(k, str) = SubSeq(str, k, e)
    BY <1>0, ComponentIs
  <2>2. e \in (k - 1)..n /\ (e = n \/ IsSlash(str, e + 1))
    BY <1>0, <2>1 DEF EndsAt
  <2>3. PICK seg, m : /\ seg = SubSeq(str, k, e) /\ seg \in Seq(STRING) /\ m = Len(seg)
                      /\ m = e - k + 1 /\ k + m + 1 = e + 2
    <3>1. k \in 1..(Len(str) + 1) /\ e \in 0..Len(str) /\ k <= e + 1 /\ k + (e - k + 1) + 1 = e + 2
      BY <1>0, <2>2
    <3>2. SubSeq(str, k, e) \in Seq(STRING) /\ Len(SubSeq(str, k, e)) = e - k + 1
      BY <3>1, Part
    <3>. QED  BY <3>1, <3>2
  <2> DEFINE rest == IF e + 2 > n + 1 THEN <<>> ELSE f[e + 2]
  <2>4. f[k] = IF seg = <<>> THEN rest ELSE <<seg>> \o rest
    <3>1. f[k] = SegmentsAt(str, k, f)
      BY <1>0 DEF Segments
    <3>. QED  BY <1>0, <2>1, <2>3, <3>1 DEF SegmentsAt
  <2>5. e + 1 \in Nat /\ e + 2 \in Nat /\ (e + 1) + 1 = e + 2
    BY <1>0, <2>2
  <2>6. PICK st : Lists(str, rest, st, e + 2)
    <3>1. CASE e + 2 > n + 1
      <4>1. e + 2 > Len(str)
        BY <1>0, <2>2, <3>1
      <4>2. Lists(str, <<>>, <<>>, e + 2)
        BY <2>5, <4>1, NothingLists
      <4>. QED  BY <3>1, <4>2
    <3>2. CASE ~(e + 2 > n + 1)
      <4>1. e + 2 \in (k + 1)..(n + 1) /\ e # n /\ (e + 2) - 1 = e + 1
        BY <1>0, <2>2, <3>2
      <4>2. Starts(e + 2)
        BY <2>2, <4>1
      <4>3. e + 2 \in S
        BY <1>1, <4>1
      <4>. QED  BY <3>2, <4>2, <4>3
    <3>. QED  BY <3>1, <3>2
  <2> HIDE DEF rest
  <2>7. Lists(str, rest, st, e + 1)
    <3>1. e + 1 <= Len(str) => IsSlash(str, e + 1)
      BY <1>0, <2>2
    <3>. QED  BY <2>5, <2>6, <3>1, ListsPast
  <2>8. CASE e = k - 1
    <3>1. seg = <<>> /\ e + 1 = k
      BY <2>3, <2>8, EmptySeq
    <3>. QED  BY <2>4, <2>7, <3>1
  <2>9. CASE e # k - 1
    <3>1. k \in 1..Len(str) /\ e \in k..Len(str) /\ m # 0
      BY <1>0, <2>2, <2>3, <2>9
    <3>2. seg # <<>>
      BY <2>3, <3>1, EmptySeq
    <3>3. Lists(str, <<seg>> \o rest, <<<<k, e>>>> \o st, k)
      BY <2>1, <2>3, <2>7, <3>1, ListsBefore
    <3>. QED  BY <2>4, <3>2, <3>3
  <2>. QED  BY <2>8, <2>9
<1> HIDE DEF S
<1>2. \A k \in 1..(n + 1) : k \in S
  BY <1>0, <1>1, Descending
<1>3. p \in S
  BY <1>0, <1>2
<1>. QED  BY <1>3 DEF S

(* The slash that is cut off at the end takes part in none of them.        *)
LEMMA PathListed ==
    ASSUME NEW str \in Seq(STRING), str # <<>>
    PROVE  \E st : Lists(str, SegmentsOf(Trimmed(str)), st, 1)
<1>0. PICK len : len = Len(str) /\ len \in Nat
  BY LenProperties
<1>1. PICK t, n : t = Trimmed(str) /\ Trims(str, t, n)
  BY TrimmedIs
<1>2. /\ t \in Seq(STRING) /\ n = Len(t) /\ n \in Nat /\ n <= len
      /\ \A i \in 1..n : t[i] = str[i]
      /\ n # len => n + 1 = len /\ IsSlash(str, n + 1)
  BY <1>0, <1>1 DEF Trims
<1>3. PICK f : SegmentsOf(t) = f[1] /\ Segments(t, f)
  BY <1>2, SegmentsIs
<1>4. PICK list, st : list = f[1] /\ Lists(t, list, st, 1)
  <2>1. 1 \in 1..(Len(t) + 1)
    BY <1>2
  <2>. QED  BY <1>2, <1>3, <2>1, SegmentsListed
<1>5. PICK k : k = Len(st) /\ k \in Nat
  BY <1>4, LenProperties DEF Lists
<1>6. \A i \in 1..n : IsSlash(t, i) <=> IsSlash(str, i)
  BY <1>2 DEF IsSlash
<1>7. ASSUME NEW s \in Stretches(t)
      PROVE  s \in Stretches(str) /\ SubSeq(t, s[1], s[2]) = SubSeq(str, s[1], s[2])
  <2>1. /\ s \in (1..n) \X (1..n) /\ s[1] <= s[2]
        /\ \A i \in s[1]..s[2] : ~IsSlash(t, i)
        /\ s[1] = 1 \/ IsSlash(t, s[1] - 1)
        /\ s[2] = n \/ IsSlash(t, s[2] + 1)
    BY <1>2, <1>7, StretchIs
  <2>2. PICK a, b : a = s[1] /\ b = s[2] /\ a \in 1..n /\ b \in 1..n /\ a <= b
    BY <2>1
  <2>3. s \in (1..len) \X (1..len)
    BY <1>0, <1>2, <2>1
  <2>4. \A i \in a..b : ~IsSlash(str, i)
    <3>1. \A i \in a..b : i \in 1..n
      BY <1>2, <2>2
    <3>. QED  BY <1>6, <2>1, <2>2, <3>1
  <2>5. a = 1 \/ IsSlash(str, a - 1)
    <3>1. a # 1 => a - 1 \in 1..n
      BY <1>2, <2>2
    <3>. QED  BY <1>6, <2>1, <2>2, <3>1
  <2>6. b = len \/ IsSlash(str, b + 1)
    <3>1. b # n => b + 1 \in 1..n
      BY <1>2, <2>2
    <3>. QED  BY <1>2, <1>6, <2>1, <2>2, <3>1
  <2>7. s \in Stretches(str)
    BY <1>0, <2>1, <2>2, <2>3, <2>4, <2>5, <2>6, StretchIs
  <2>8. SubSeq(t, a, b) = SubSeq(str, a, b)
    <3>1. a \in 1..(Len(t) + 1) /\ b \in 0..Len(t) /\ a <= b + 1
      BY <1>2, <2>2
    <3>2. a \in 1..(Len(str) + 1) /\ b \in 0..Len(str) /\ a <= b + 1
      BY <1>0, <1>2, <2>2
    <3>3. PICK y, l : y = SubSeq(str, a, b) /\ l = b - a + 1
      OBVIOUS
    <3>4. y \in Seq(STRING) /\ Len(y) = l /\ \A j \in 1..l : y[j] = str[a + j - 1]
      BY <3>2, <3>3, Part
    <3>5. \A j \in 1..l : a + j - 1 \in 1..n
      <4>1. a \in Nat /\ b \in Nat /\ n \in Nat /\ 1 <= a /\ b <= n /\ l = b - a + 1
        BY <1>2, <2>2, <3>3
      <4>. QED  BY <4>1
    <3>6. \A j \in 1..Len(y) : t[a + j - 1] = y[j]
      BY <1>2, <3>4, <3>5
    <3>. QED  BY <1>2, <3>1, <3>3, <3>4, <3>6, SamePart
  <2>. QED  BY <2>2, <2>7, <2>8
<1>8. st \in Seq(Stretches(str))
  BY <1>4, <1>7, SeqMonotonic DEF Lists
<1>9. \A m \in 1..k : list[m] = SubSeq(str, st[m][1], st[m][2])
  <2>1. \A m \in 1..k : st[m] \in Stretches(t)
    BY <1>4, <1>5, ElementOfSeq DEF Lists
  <2>. QED  BY <1>4, <1>5, <1>7, <2>1 DEF Lists
<1>10. ASSUME NEW i \in 1..len, ~IsSlash(str, i)
       PROVE  \E m \in 1..k : st[m][1] <= i /\ i <= st[m][2]
  <2>1. i \in 1..n
    BY <1>0, <1>2, <1>10
  <2>. QED  BY <1>2, <1>4, <1>5, <1>6, <1>10, <2>1 DEF Lists
<1>11. Lists(str, list, st, 1)
  BY <1>0, <1>4, <1>5, <1>8, <1>9, <1>10 DEF Lists
<1>. QED  BY <1>1, <1>3, <1>4, <1>11

(* A set that is counted.                                                  *)
LEMMA Counted ==
    ASSUME NEW T, NEW k \in Nat, NEW f \in [1..k -> T],
           \A l, m \in 1..k : f[l] = f[m] => l = m, \A x \in T : \E m \in 1..k : x = f[m]
    PROVE  IsFiniteSet(T) /\ Cardinality(T) = k
<1>1. f \in Bijection(1..k, T)
  BY DEF Bijection, Injection, Surjection, IsInjective
<1>2. ExistsBijection(1..k, T)
  BY <1>1 DEF ExistsBijection
<1>3. IsFiniteSet(1..k) /\ Cardinality(1..k) = k
  BY FS_Interval
<1>. QED  BY <1>2, <1>3, FS_Bijection

(* Two stretches have no place in common.                                  *)
LEMMA StretchesApart ==
    ASSUME NEW str \in Seq(STRING), NEW s \in Stretches(str), NEW t \in Stretches(str), NEW i,
           s[1] <= i, i <= s[2], t[1] <= i, i <= t[2], i \in Nat
    PROVE  s = t
<1>0. PICK len : len = Len(str) /\ len \in Nat
  BY LenProperties
<1>1. ASSUME NEW a \in Stretches(str), NEW b \in Stretches(str),
             a[1] <= i, i <= a[2], b[1] <= i, i <= b[2]
      PROVE  ~(a[1] < b[1]) /\ ~(b[2] < a[2])
  <2>1. /\ a[1] \in 1..len /\ a[2] \in 1..len /\ b[1] \in 1..len /\ b[2] \in 1..len
        /\ \A l \in a[1]..a[2] : ~IsSlash(str, l)
        /\ b[1] = 1 \/ IsSlash(str, b[1] - 1)
        /\ b[2] = len \/ IsSlash(str, b[2] + 1)
    BY <1>0, StretchIs
  <2>2. a[1] < b[1] => b[1] # 1 /\ b[1] - 1 \in a[1]..a[2]
    BY <1>0, <1>1, <2>1
  <2>3. b[2] < a[2] => b[2] # len /\ b[2] + 1 \in a[1]..a[2]
    BY <1>0, <1>1, <2>1
  <2>. QED  BY <2>1, <2>2, <2>3
<1>2. /\ s \in (1..len) \X (1..len) /\ t \in (1..len) \X (1..len)
      /\ s[1] \in Nat /\ s[2] \in Nat /\ t[1] \in Nat /\ t[2] \in Nat
  BY <1>0, StretchIs
<1>3. ~(s[1] < t[1]) /\ ~(t[1] < s[1]) /\ ~(s[2] < t[2]) /\ ~(t[2] < s[2])
  BY <1>1
<1>4. s[1] = t[1] /\ s[2] = t[2]
  BY <1>2, <1>3
<1>. QED  BY <1>2, <1>4

(* The stretches in the list are all there are, each at its index.         *)
LEMMA ListedAtIndex ==
    ASSUME NEW str \in Seq(STRING), NEW list, NEW st, Lists(str, list, st, 1)
    PROVE  /\ Cardinality(Stretches(str)) = Len(st)
           /\ \A s \in Stretches(str) : \E m \in 1..Len(st) :
                 s = st[m] /\ Cardinality({r \in Stretches(str) : r[2] < s[1]}) = m - 1
<1>0. PICK len, n : len = Len(str) /\ len \in Nat /\ n = Len(st) /\ n \in Nat
  BY LenProperties DEF Lists
<1>1. \A m \in 1..n : st[m] \in Stretches(str)
  BY <1>0, ElementOfSeq DEF Lists
<1>2. \A s \in Stretches(str) : /\ s[1] \in 1..len /\ s[2] \in 1..len /\ s[1] <= s[2]
                                /\ \A i \in s[1]..s[2] : ~IsSlash(str, i)
  BY <1>0, StretchIs
<1>3. \A l, m \in 1..n : l < m => st[l][2] < st[m][1]
  BY <1>0 DEF Lists
<1>4. ASSUME NEW s \in Stretches(str) PROVE \E m \in 1..n : s = st[m]
  <2>1. s[1] \in 1..len /\ s[1] \in Nat /\ s[1] <= s[1] /\ s[1] <= s[2] /\ ~IsSlash(str, s[1])
    BY <1>0, <1>2
  <2>2. PICK m \in 1..n : st[m][1] <= s[1] /\ s[1] <= st[m][2]
    BY <1>0, <2>1 DEF Lists
  <2>. QED  BY <1>1, <2>1, <2>2, StretchesApart
<1>5. ASSUME NEW l \in 1..n, NEW m \in 1..n, st[l] = st[m] PROVE l = m
  <2>1. /\ st[m][1] \in Nat /\ st[m][2] \in Nat /\ st[m][1] <= st[m][2] /\ l \in Nat /\ m \in Nat
    BY <1>0, <1>1, <1>2
  <2>2. ~(st[m][2] < st[m][1])
    BY <2>1
  <2>3. ~(l < m) /\ ~(m < l)
    BY <1>3, <1>5, <2>2
  <2>. QED  BY <2>1, <2>3
<1>6. Cardinality(Stretches(str)) = n
  <2>1. \A l, m \in 1..n : st[l] = st[m] => l = m
    BY <1>5
  <2>2. \A s \in Stretches(str) : \E m \in 1..n : s = st[m]
    BY <1>4
  <2>3. PICK f : f = [m \in 1..n |-> st[m]]
    OBVIOUS
  <2>4. f \in [1..n -> Stretches(str)] /\ \A m \in 1..n : f[m] = st[m]
    BY <1>1, <2>3
  <2>5. \A l, m \in 1..n : f[l] = f[m] => l = m
    BY <2>1, <2>4
  <2>6. \A s \in Stretches(str) : \E m \in 1..n : s = f[m]
    BY <2>2, <2>4
  <2>7. n \in Nat /\ f \in [1..n -> Stretches(str)]
    BY <1>0, <2>4
  <2>. QED  BY <2>5, <2>6, <2>7, Counted
<1>7. ASSUME NEW m \in 1..n PROVE Cardinality({r \in Stretches(str) : r[2] < st[m][1]}) = m - 1
  <2> DEFINE T == {r \in Stretches(str) : r[2] < st[m][1]}
  <2>1. PICK k : k = m - 1 /\ k \in Nat /\ 1..k \subseteq 1..n /\ \A l \in 1..n : l < m => l \in 1..k
    BY <1>0
  <2>2. \A l \in 1..k : l < m
    BY <1>0, <2>1
  <2>3. \A l \in 1..k : st[l] \in T
    BY <1>1, <1>3, <2>1, <2>2
  <2>4. ASSUME NEW r \in T PROVE \E l \in 1..k : r = st[l]
    <3>1. PICK l \in 1..n : r = st[l]
      BY <1>4
    <3>2. /\ st[l][1] \in Nat /\ st[l][2] \in Nat /\ st[l][1] <= st[l][2]
          /\ st[m][1] \in Nat /\ st[m][2] \in Nat /\ st[m][1] <= st[m][2] /\ l \in Nat /\ m \in Nat
      BY <1>0, <1>1, <1>2
    <3>a. st[l][2] < st[m][1]
      BY <3>1
    <3>3. ~(m < l)
      <4>1. ~(st[m][2] < st[l][1])
        BY <3>2, <3>a
      <4>. QED  BY <1>3, <4>1
    <3>4. l # m
      BY <3>2, <3>a
    <3>. QED  BY <2>1, <3>1, <3>2, <3>3, <3>4
  <2>5. \A l, j \in 1..k : st[l] = st[j] => l = j
    BY <1>5, <2>1
  <2>a. \A r \in T : \E l \in 1..k : r = st[l]
    BY <2>4
  <2> HIDE DEF T
  <2>6. Cardinality(T) = k
    <3>1. PICK f : f = [l \in 1..k |-> st[l]]
      OBVIOUS
    <3>2. f \in [1..k -> T] /\ \A l \in 1..k : f[l] = st[l]
      BY <2>3, <3>1
    <3>3. \A l, j \in 1..k : f[l] = f[j] => l = j
      BY <2>5, <3>2
    <3>4. \A r \in T : \E l \in 1..k : r = f[l]
      BY <2>a, <3>2
    <3>5. k \in Nat /\ f \in [1..k -> T]
      BY <2>1, <3>2
    <3>. QED  BY <3>3, <3>4, <3>5, Counted
  <2>. QED  BY <2>1, <2>6 DEF T
<1>. QED  BY <1>0, <1>4, <1>6, <1>7

-----------------------------------------------------------------------------
(* What is decoded from a place on.                                        *)
DecodedAt(src, i, from) ==
    IF i > Len(src) THEN {<<>>}
    ELSE IF src[i] # "%" THEN {<<src[i]>> \o text : text \in from[i + 1]}
    ELSE IF i + 2 <= Len(src) /\ hex_val(src[i + 1]) >= 0 /\ hex_val(src[i + 2]) >= 0
    THEN {<<Escaped(src[i + 1], src[i + 2])>> \o text : text \in from[i + 3]}
    ELSE {}

(* The hexadecimal digits.                                                 *)
LEMMA HexValIs ==
    ASSUME NEW c
    PROVE  /\ c \in ToSet(HexDigits) => hex_val(c) \in 0..(HexBase - 1)
           /\ c \notin ToSet(HexDigits) => ~(hex_val(c) >= 0)
           /\ HexBase \in Nat
<1>1. HexBase \in Nat /\ DOMAIN HexDigits = 1..HexBase
  BY HexDigitsAssumption, LenProperties DEF HexBase
<1>2. ASSUME c \in ToSet(HexDigits) PROVE hex_val(c) \in 0..(HexBase - 1)
  <2>1. \E i \in DOMAIN HexDigits : HexDigits[i] = c
    BY <1>2 DEF ToSet
  <2>2. PICK j : j = (CHOOSE i \in DOMAIN HexDigits : HexDigits[i] = c)
    OBVIOUS
  <2>3. j \in 1..HexBase
    BY <1>1, <2>1, <2>2
  <2>4. hex_val(c) = j - 1
    BY <1>2, <2>2 DEF hex_val
  <2>. QED  BY <1>1, <2>3, <2>4
<1>3. ASSUME c \notin ToSet(HexDigits) PROVE ~(hex_val(c) >= 0)
  <2>1. hex_val(c) = -1
    BY <1>3 DEF hex_val
  <2>. QED  BY <2>1
<1>. QED  BY <1>1, <1>2, <1>3

LEMMA EscapedIs ==
    ASSUME NEW hi \in ToSet(HexDigits), NEW lo \in ToSet(HexDigits)
    PROVE  Escaped(hi, lo) \in STRING
<1>1. PICK a, b, h : a = hex_val(hi) /\ b = hex_val(lo) /\ h = HexBase
  OBVIOUS
<1>2. h \in Nat /\ a \in 0..(h - 1) /\ b \in 0..(h - 1)
  BY <1>1, HexValIs
<1>3. h * a + b + 1 \in 1..(h * h)
  <2>1. PICK c : c \in Nat /\ h = a + 1 + c
    <3>1. h - (a + 1) \in Nat /\ h = a + 1 + (h - (a + 1))
      BY <1>2
    <3>. QED  BY <3>1
  <2>2. h * h = h * a + h + h * c /\ h * c \in Nat /\ h * a \in Nat
    <3>1. h * h = h * (a + 1 + c)
      BY <2>1
    <3>2. h * (a + 1 + c) = h * a + h + h * c
      BY <1>2, <2>1
    <3>3. h * c \in Nat /\ h * a \in Nat
      BY <1>2, <2>1
    <3>. QED  BY <3>1, <3>2, <3>3
  <2>3. PICK hh, ha, hc : hh = h * h /\ ha = h * a /\ hc = h * c
    OBVIOUS
  <2>4. hh = ha + h + hc /\ hc \in Nat /\ ha \in Nat
    BY <2>2, <2>3
  <2>5. ha + b + 1 \in 1..hh
    BY <1>2, <2>4
  <2>. QED  BY <2>3, <2>5
<1>4. Len(CharOf) = h * h
  BY <1>1, CharOfAssumption
<1>5. Escaped(hi, lo) = CharOf[h * a + b + 1]
  BY <1>1 DEF Escaped
<1>. QED  BY <1>3, <1>4, <1>5, CharOfAssumption, ElementOfSeq

(* append_percent_decoded, unfolded.                                       *)
LEMMA DecodedIs ==
    ASSUME NEW src \in Seq(STRING)
    PROVE  \E f : /\ append_percent_decoded(src) = f[1]
                  /\ \A i \in 1..(Len(src) + 1) : f[i] = DecodedAt(src, i, f)
<1>0. PICK n : n = Len(src) /\ n \in Nat
  BY LenProperties
<1> DEFINE V == SUBSET Seq(STRING)
           F == [1..(n + 1) -> V]
           H == [i \in 1..(n + 1) |-> [f \in F |-> DecodedAt(src, i, f)]]
<1>1. \A i \in 1..(n + 1) : \A f \in F : H[i][f] = DecodedAt(src, i, f)
  OBVIOUS
<1>2. H \in [1..(n + 1) -> [F -> V]]
  <2>1. ASSUME NEW i \in 1..(n + 1), NEW f \in F PROVE DecodedAt(src, i, f) \in V
    <3>1. CASE i > n
      <4>1. <<>> \in Seq(STRING)
        BY EmptySeq
      <4>. QED  BY <1>0, <3>1, <4>1 DEF DecodedAt
    <3>2. CASE ~(i > n) /\ src[i] # "%"
      <4>1. i + 1 \in 1..(n + 1) /\ i \in 1..n
        BY <1>0, <3>2
      <4>2. f[i + 1] \in V /\ src[i] \in STRING
        BY <1>0, <4>1, ElementOfSeq
      <4>3. \A text \in f[i + 1] : <<src[i]>> \o text \in Seq(STRING)
        BY <4>2, ListBoth
      <4>4. DecodedAt(src, i, f) = {<<src[i]>> \o text : text \in f[i + 1]}
        BY <1>0, <3>2 DEF DecodedAt
      <4>. QED  BY <4>3, <4>4
    <3>3. CASE /\ ~(i > n) /\ ~(src[i] # "%") /\ i + 2 <= n
               /\ hex_val(src[i + 1]) >= 0 /\ hex_val(src[i + 2]) >= 0
      <4>1. i + 3 \in 1..(n + 1)
        BY <1>0, <3>3
      <4>2. PICK c : c = Escaped(src[i + 1], src[i + 2]) /\ c \in STRING
        BY <3>3, HexValIs, EscapedIs
      <4>3. f[i + 3] \in V
        BY <4>1
      <4>4. \A text \in f[i + 3] : <<c>> \o text \in Seq(STRING)
        BY <4>2, <4>3, ListBoth
      <4>5. DecodedAt(src, i, f) = {<<c>> \o text : text \in f[i + 3]}
        BY <1>0, <3>3, <4>2 DEF DecodedAt
      <4>. QED  BY <4>4, <4>5
    <3>4. CASE /\ ~(i > n) /\ ~(src[i] # "%")
               /\ ~(i + 2 <= n /\ hex_val(src[i + 1]) >= 0 /\ hex_val(src[i + 2]) >= 0)
      <4>1. DecodedAt(src, i, f) = {}
        BY <1>0, <3>4 DEF DecodedAt
      <4>. QED  BY <4>1
    <3>. QED  BY <3>1, <3>2, <3>3, <3>4
  <2>. QED  BY <2>1
<1>3. LooksAhead(n, V, H)
  <2> SUFFICES ASSUME NEW i \in 1..(n + 1), NEW f \in F, NEW g \in F,
                      \A j \in (i + 1)..(n + 1) : f[j] = g[j]
               PROVE  H[i][f] = H[i][g]
    BY DEF LooksAhead
  <2>1. ~(i > n) => f[i + 1] = g[i + 1]
    <3>1. ~(i > n) => i + 1 \in (i + 1)..(n + 1)
      BY <1>0
    <3>. QED  BY <3>1
  <2>2. i + 2 <= n => f[i + 3] = g[i + 3]
    <3>1. i + 2 <= n => i + 3 \in (i + 1)..(n + 1)
      BY <1>0
    <3>. QED  BY <3>1
  <2>3. DecodedAt(src, i, f) = DecodedAt(src, i, g)
    BY <1>0, <2>1, <2>2 DEF DecodedAt
  <2> HIDE DEF H
  <2>. QED  BY <1>1, <2>3
<1>4. PICK f \in F : Meets(H, f, 1, n)
  <2>1. V # {}
    OBVIOUS
  <2> HIDE DEF V, H
  <2>. QED  BY <1>0, <1>2, <1>3, <2>1, Recursion
<1>5. f = [i \in 1..(Len(src) + 1) |-> DecodedAt(src, i, f)]
  <2>1. \A i \in 1..(n + 1) : f[i] = DecodedAt(src, i, f)
    <3> HIDE DEF H, V
    <3>. QED  BY <1>1, <1>4 DEF Meets
  <2>2. f = [i \in 1..(n + 1) |-> f[i]]
    BY <1>4
  <2>. QED  BY <1>0, <2>1, <2>2
<1> DEFINE from == CHOOSE from : from = [i \in 1..(Len(src) + 1) |-> DecodedAt(src, i, from)]
<1>6. from = [i \in 1..(Len(src) + 1) |-> DecodedAt(src, i, from)]
  BY <1>5
<1>7. append_percent_decoded(src) = from[1]
  BY DEF append_percent_decoded, DecodedAt
<1> HIDE DEF from
<1>8. \A i \in 1..(n + 1) : from[i] = DecodedAt(src, i, from)
  BY <1>0, <1>6
<1>. QED  BY <1>0, <1>7, <1>8

(* A text without escapes is its own decoding.                             *)
Plain(src) == \A i \in 1..Len(src) : src[i] # "%"

LEMMA DecodedPlain ==
    ASSUME NEW src \in Seq(STRING), Plain(src), NEW i \in 1..(Len(src) + 1), NEW f
    PROVE  DecodedAt(src, i, f) = IF i > Len(src) THEN {<<>>}
                                  ELSE {<<src[i]>> \o text : text \in f[i + 1]}
<1>0. PICK len : len = Len(src) /\ len \in Nat
  BY LenProperties
<1>1. i > len \/ i \in 1..len
  BY <1>0
<1>2. i \in 1..len => src[i] # "%"
  BY <1>0 DEF Plain
<1>. QED  BY <1>0, <1>1, <1>2 DEF DecodedAt

LEMMA PlainDecoded ==
    ASSUME NEW src \in Seq(STRING), Plain(src)
    PROVE  append_percent_decoded(src) = {src}
<1>0. PICK n : n = Len(src) /\ n \in Nat
  BY LenProperties
<1>1. PICK from : /\ append_percent_decoded(src) = from[1]
                  /\ \A i \in 1..(Len(src) + 1) : from[i] = DecodedAt(src, i, from)
  BY DecodedIs
<1> DEFINE Rest(i) == SubSeq(src, i, n)
           S == {i \in 1..(n + 1) : from[i] = {Rest(i)}}
<1>2. ASSUME NEW i \in 1..(n + 1), \A j \in (i + 1)..(n + 1) : j \in S PROVE i \in S
  <2>1. CASE i > n
    <3>1. i \in Int /\ n \in Int /\ n < i
      BY <1>0, <2>1
    <3>2. Rest(i) = <<>>
      BY <3>1, SubSeqEmpty
    <3>3. from[i] = {<<>>}
      BY <1>0, <1>1, <2>1, DecodedPlain
    <3>. QED  BY <3>2, <3>3
  <2>2. CASE ~(i > n)
    <3>1. i + 1 \in (i + 1)..(n + 1) /\ i \in 1..n /\ n \in 0..n
      BY <1>0, <2>2
    <3>2. from[i + 1] = {Rest(i + 1)}
      BY <1>2, <3>1
    <3>3. from[i] = {<<src[i]>> \o Rest(i + 1)}
      <4>1. from[i] = {<<src[i]>> \o text : text \in from[i + 1]}
        BY <1>0, <1>1, <2>2, DecodedPlain
      <4>2. PICK c, x : c = <<src[i]>> /\ x = Rest(i + 1)
        OBVIOUS
      <4>3. from[i] = {c \o text : text \in {x}}
        BY <3>2, <4>1, <4>2
      <4>4. from[i] = {c \o x}
        BY <4>3
      <4>. QED  BY <4>2, <4>4
    <3>4. <<src[i]>> \o Rest(i + 1) = Rest(i)
      <4>1. src[i] \in STRING
        BY <1>0, <3>1, ElementOfSeq
      <4>2. i + 1 \in 1..(n + 1) /\ n \in 0..n /\ i + 1 <= n + 1 /\ i <= n + 1 /\ n - (i + 1) + 1 = n - i
        BY <1>0, <3>1
      <4>3. PICK x, m : x = SubSeq(src, i + 1, n) /\ m = n - i
        OBVIOUS
      <4>4. x \in Seq(STRING) /\ Len(x) = m /\ \A l \in 1..m : x[l] = src[(i + 1) + l - 1]
        BY <1>0, <4>2, <4>3, Part
      <4>a. PICK c, y : c = src[i] /\ y = <<c>> \o x
        OBVIOUS
      <4>b. c \in STRING
        BY <4>1, <4>a
      <4>5. /\ y = <<src[i]>> \o x /\ y \in Seq(STRING) /\ Len(y) = m + 1
            /\ y[1] = src[i] /\ \A l \in 1..m : y[l + 1] = x[l]
        <5>1. y \in Seq(STRING) /\ Len(y) = Len(x) + 1 /\ y[1] = c /\ \A l \in 1..Len(x) : y[l + 1] = x[l]
          BY <4>4, <4>a, <4>b, ListBoth
        <5>. QED  BY <4>4, <4>a, <5>1
      <4>6. ASSUME NEW l \in 1..(m + 1) PROVE src[i + l - 1] = y[l]
        <5>1. CASE l = 1
          <6>1. i + 1 - 1 = i
            BY <3>1
          <6>. QED  BY <4>5, <5>1, <6>1
        <5>2. CASE l # 1
          <6>1. PICK d : d \in 1..m /\ l = d + 1 /\ (i + 1) + d - 1 = i + l - 1
            <7>1. l - 1 \in 1..m /\ l = (l - 1) + 1 /\ (i + 1) + (l - 1) - 1 = i + l - 1
              BY <1>0, <3>1, <4>3, <5>2
            <7>. QED  BY <7>1
          <6>. QED  BY <4>4, <4>5, <6>1
        <5>. QED  BY <5>1, <5>2
      <4>7. Len(y) = n - i + 1
        BY <4>3, <4>5
      <4>8. SubSeq(src, i, n) = y
        BY <1>0, <4>2, <4>3, <4>5, <4>6, <4>7, SamePart
      <4>. QED  BY <4>3, <4>5, <4>8
    <3>. QED  BY <3>3, <3>4
  <2>. QED  BY <2>1, <2>2
<1> HIDE DEF S
<1>3. 1 \in S
  <2>1. \A i \in 1..(n + 1) : i \in S
    BY <1>0, <1>2, Descending
  <2>2. 1 \in 1..(n + 1)
    BY <1>0
  <2>. QED  BY <2>1, <2>2
<1>4. SubSeq(src, 1, n) = src
  <2>1. 1 \in 1..(n + 1) /\ n \in 0..n /\ 1 <= n + 1 /\ n = n - 1 + 1
    BY <1>0
  <2>2. \A l \in 1..n : src[1 + l - 1] = src[l]
    <3>1. \A l \in 1..n : 1 + l - 1 = l
      OBVIOUS
    <3>. QED  BY <3>1
  <2>. QED  BY <1>0, <2>1, <2>2, SamePart
<1>. QED  BY <1>1, <1>3, <1>4 DEF S

-----------------------------------------------------------------------------
(* Places in a set of places, and their texts.                             *)
Rank(T, i) == Cardinality({j \in T : j <= i})

Ranked(T) == \A k \in 1..Cardinality(T) : \E i \in T : Rank(T, i) = k

LEMMA RankFirst ==
    ASSUME NEW p \in Nat, NEW T \in SUBSET Nat, IsFiniteSet(T), \A i \in T : p < i
    PROVE  /\ IsFiniteSet(T \cup {p}) /\ Cardinality(T) \in Nat
           /\ Cardinality(T \cup {p}) = Cardinality(T) + 1
           /\ Rank(T \cup {p}, p) = 1
           /\ \A i \in T : Rank(T \cup {p}, i) = Rank(T, i) + 1 /\ Rank(T, i) \in 1..Cardinality(T)
<1>1. p \notin T
  OBVIOUS
<1>2. /\ IsFiniteSet(T \cup {p}) /\ Cardinality(T) \in Nat
      /\ Cardinality(T \cup {p}) = Cardinality(T) + 1
  BY <1>1, FS_AddElement, FS_CardinalityType
<1>3. Rank(T \cup {p}, p) = 1
  <2>1. p <= p /\ \A j \in T : ~(j <= p)
    OBVIOUS
  <2>2. {j \in T \cup {p} : j <= p} = {p}
    BY <2>1
  <2>. QED  BY <2>2, FS_Singleton DEF Rank
<1>4. ASSUME NEW i \in T
      PROVE  Rank(T \cup {p}, i) = Rank(T, i) + 1 /\ Rank(T, i) \in 1..Cardinality(T)
  <2>1. PICK U : U = {j \in T : j <= i}
    OBVIOUS
  <2>2. U \subseteq T /\ i \in U /\ p \notin U
    BY <1>1, <2>1
  <2>3. {j \in T \cup {p} : j <= i} = U \cup {p}
    BY <2>1
  <2>4. IsFiniteSet(U) /\ Cardinality(U) <= Cardinality(T) /\ Cardinality(U) \in Nat
    BY <2>2, FS_Subset, FS_CardinalityType
  <2>5. Cardinality(U \cup {p}) = Cardinality(U) + 1
    BY <2>2, <2>4, FS_AddElement
  <2>6. Cardinality(U) # 0
    BY <2>2, <2>4, FS_EmptySet
  <2>7. Rank(T, i) = Cardinality(U) /\ Rank(T \cup {p}, i) = Cardinality(U \cup {p})
    BY <2>1, <2>3 DEF Rank
  <2>. QED  BY <1>2, <2>4, <2>5, <2>6, <2>7
<1>. QED  BY <1>2, <1>3, <1>4

LEMMA RankOne ==
    ASSUME NEW T \in SUBSET Nat, IsFiniteSet(T), NEW i \in T, NEW j \in T, Rank(T, i) = Rank(T, j)
    PROVE  i = j
<1>1. ASSUME NEW a \in T, NEW b \in T, a < b PROVE Rank(T, a) # Rank(T, b)
  <2>1. PICK A, B : A = {l \in T : l <= a} /\ B = {l \in T : l <= b}
    OBVIOUS
  <2>a. a \in Nat /\ b \in Nat /\ ~(b <= a) /\ b <= b /\ \A l \in T : l <= a => l <= b
    BY <1>1
  <2>2. A \subseteq B /\ b \in B /\ b \notin A /\ B \subseteq T
    BY <2>1, <2>a
  <2>3. IsFiniteSet(B)
    BY <2>2, FS_Subset
  <2>4. Cardinality(A) # Cardinality(B)
    BY <2>2, <2>3, FS_Subset
  <2>. QED  BY <2>1, <2>4 DEF Rank
<1>2. ~(i < j) /\ ~(j < i)
  BY <1>1
<1>. QED  BY <1>2

CharAt(str, i) == IF str[i] = "%" THEN Escaped(str[i + 1], str[i + 2]) ELSE str[i]

Known(str, s) ==
    /\ Origins(str, s) \in SUBSET Nat /\ IsFiniteSet(Origins(str, s)) /\ Ranked(Origins(str, s))
    /\ TextOf(str, s) \in Seq(STRING) /\ Len(TextOf(str, s)) = Cardinality(Origins(str, s))

LEMMA TextIs ==
    ASSUME NEW str, NEW s
    PROVE  TextOf(str, s) = [k \in 1..Cardinality(Origins(str, s)) |-> CharAt(str, Origin(str, s, k))]
  BY DEF TextOf, CharAt

LEMMA OriginIs ==
    ASSUME NEW str, NEW s, Origins(str, s) \in SUBSET Nat, IsFiniteSet(Origins(str, s)),
           NEW i \in Origins(str, s), NEW k, Rank(Origins(str, s), i) = k
    PROVE  Origin(str, s, k) = i
<1>1. Origin(str, s, k) \in Origins(str, s) /\ Rank(Origins(str, s), Origin(str, s, k)) = k
  BY DEF Origin, Rank
<1>. QED  BY <1>1, RankOne

LEMMA TextGrows ==
    ASSUME NEW str, NEW s, NEW t, NEW p \in Nat, Known(str, t),
           Origins(str, s) = Origins(str, t) \cup {p}, \A i \in Origins(str, t) : p < i,
           CharAt(str, p) \in STRING
    PROVE  /\ Known(str, s) /\ TextOf(str, s) = <<CharAt(str, p)>> \o TextOf(str, t)
           /\ Len(TextOf(str, s)) = Len(TextOf(str, t)) + 1
<1>1. PICK T, x, m : T = Origins(str, t) /\ x = TextOf(str, t) /\ m = Cardinality(T)
  OBVIOUS
<1>2. /\ T \in SUBSET Nat /\ IsFiniteSet(T) /\ Ranked(T) /\ x \in Seq(STRING) /\ Len(x) = m
      /\ \A i \in T : p < i
  BY <1>1 DEF Known
<1>3. PICK O : O = T \cup {p} /\ O = Origins(str, s)
  BY <1>1
<1>4. /\ IsFiniteSet(O) /\ m \in Nat /\ Cardinality(O) = m + 1 /\ Rank(O, p) = 1
      /\ \A i \in T : Rank(O, i) = Rank(T, i) + 1
  <2>1. /\ IsFiniteSet(T \cup {p}) /\ Cardinality(T) \in Nat
        /\ Cardinality(T \cup {p}) = Cardinality(T) + 1 /\ Rank(T \cup {p}, p) = 1
        /\ \A i \in T : Rank(T \cup {p}, i) = Rank(T, i) + 1
    BY <1>2, RankFirst
  <2>. QED  BY <1>1, <1>3, <2>1
<1>5. O \in SUBSET Nat /\ p \in O /\ T \subseteq O
  BY <1>2, <1>3
<1>a. /\ Origins(str, s) \in SUBSET Nat /\ IsFiniteSet(Origins(str, s))
      /\ Origins(str, t) \in SUBSET Nat /\ IsFiniteSet(Origins(str, t))
  BY <1>1, <1>2, <1>3, <1>4, <1>5
<1>b. \A k : \A i \in O : Rank(O, i) = k => Origin(str, s, k) = i
  BY <1>3, <1>a, OriginIs
<1>c. \A k : \A i \in T : Rank(T, i) = k => Origin(str, t, k) = i
  BY <1>1, <1>a, OriginIs
<1>6. Origin(str, s, 1) = p
  BY <1>4, <1>5, <1>b
<1>7. ASSUME NEW k \in 1..m
      PROVE  /\ \E i \in O : Rank(O, i) = k + 1
             /\ Origin(str, s, k + 1) = Origin(str, t, k)
  <2>1. PICK i \in T : Rank(T, i) = k
    BY <1>1, <1>2 DEF Ranked
  <2>2. Rank(O, i) = k + 1 /\ i \in O
    BY <1>4, <1>5, <2>1
  <2>3. Origin(str, s, k + 1) = i
    BY <1>b, <2>2
  <2>4. Origin(str, t, k) = i
    BY <1>c, <2>1
  <2>. QED  BY <2>2, <2>3, <2>4
<1>8. \A k \in 1..(m + 1) : k = 1 \/ \E l \in 1..m : k = l + 1
  <2>1. \A k \in 1..(m + 1) : k # 1 => k - 1 \in 1..m /\ k = (k - 1) + 1
    BY <1>4
  <2>. QED  BY <2>1
<1>9. Ranked(O)
  BY <1>4, <1>5, <1>7, <1>8 DEF Ranked
<1>10. x = [k \in 1..m |-> CharAt(str, Origin(str, t, k))]
  BY <1>1, TextIs
<1>11. PICK y : y = [k \in 1..(m + 1) |-> CharAt(str, Origin(str, s, k))] /\ y = TextOf(str, s)
  BY <1>3, <1>4, TextIs
<1>12. PICK c, z : c = CharAt(str, p) /\ z = <<c>> \o x
  OBVIOUS
<1>13. /\ c \in STRING /\ z \in Seq(STRING) /\ Len(z) = m + 1 /\ z[1] = c
       /\ \A k \in 1..m : z[k + 1] = x[k]
  <2>1. c \in STRING
    BY <1>12
  <2>2. z \in Seq(STRING) /\ Len(z) = Len(x) + 1 /\ z[1] = c /\ \A k \in 1..Len(x) : z[k + 1] = x[k]
    BY <1>2, <1>12, <2>1, ListBoth
  <2>. QED  BY <1>2, <2>1, <2>2
<1>14. y[1] = c
  <2>1. 1 \in 1..(m + 1)
    BY <1>4
  <2>. QED  BY <1>6, <1>11, <1>12, <2>1
<1>15. \A k \in 1..m : y[k + 1] = x[k]
  <2>1. \A k \in 1..m : k + 1 \in 1..(m + 1)
    BY <1>4
  <2>. QED  BY <1>7, <1>10, <1>11, <2>1
<1>16. \A k \in 1..(m + 1) : y[k] = z[k]
  BY <1>8, <1>13, <1>14, <1>15
<1>17. y \in Seq(STRING) /\ Len(y) = m + 1
  <2>1. \A k \in 1..(m + 1) : z[k] \in STRING
    BY <1>13, ElementOfSeq
  <2>2. y \in [1..(m + 1) -> STRING]
    BY <1>11, <1>16, <2>1
  <2>3. m + 1 \in Nat
    BY <1>4
  <2>. QED  BY <2>2, <2>3, FcnIsSeq
<1>18. y = z
  BY <1>13, <1>16, <1>17, SeqEqual
<1>19. Known(str, s)
  BY <1>3, <1>4, <1>5, <1>9, <1>11, <1>17 DEF Known
<1>. QED  BY <1>1, <1>2, <1>11, <1>12, <1>17, <1>18, <1>19

LEMMA NoText ==
    ASSUME NEW str, NEW s, Origins(str, s) = {}
    PROVE  Known(str, s) /\ TextOf(str, s) = <<>> /\ Len(TextOf(str, s)) = 0
<1>1. IsFiniteSet({}) /\ Cardinality({}) = 0 /\ 1..0 = {}
  BY FS_EmptySet
<1>2. PICK y : y = TextOf(str, s)
  OBVIOUS
<1>3. y \in [1..0 -> STRING]
  <2>1. y = [k \in 1..0 |-> CharAt(str, Origin(str, s, k))]
    BY <1>1, <1>2, TextIs
  <2>. QED  BY <1>1, <2>1
<1>4. y \in Seq(STRING) /\ Len(y) = 0
  BY <1>3, FcnIsSeq
<1>5. y = <<>>
  BY <1>4, EmptySeq
<1>. QED  BY <1>1, <1>2, <1>4, <1>5 DEF Known, Ranked

(* An escape that is not cut off and has two digits.                       *)
Sound(str, i) == i + 2 <= Len(str) /\ str[i + 1] \in ToSet(HexDigits) /\ str[i + 2] \in ToSet(HexDigits)

LEMMA EscapeIs ==
    ASSUME NEW str \in Seq(STRING)
    PROVE  /\ \A i : i \in Escapes(str) <=> i \in 1..Len(str) /\ str[i] = "%"
           /\ WellFormedEscapes(str) <=> \A i \in 1..Len(str) : str[i] = "%" => Sound(str, i)
<1>1. DOMAIN str = 1..Len(str)
  BY LenProperties
<1>2. \A i : i \in Escapes(str) <=> i \in 1..Len(str) /\ str[i] = "%"
  BY <1>1 DEF Escapes
<1>. QED  BY <1>2 DEF WellFormedEscapes, Sound

LEMMA HexDigitIs ==
    ASSUME NEW c
    PROVE  /\ c \in ToSet(HexDigits) => c # "/" /\ c # "%"
           /\ hex_val(c) >= 0 <=> c \in ToSet(HexDigits)
<1>1. hex_val(c) >= 0 <=> c \in ToSet(HexDigits)
  <2>1. HexBase \in Nat
    BY HexValIs
  <2>2. hex_val(c) \in 0..(HexBase - 1) => hex_val(c) >= 0
    BY <2>1
  <2>. QED  BY <2>2, HexValIs
<1>. QED  BY <1>1, HexDigitsAssumption

(* The text of a stretch of a path, decoded step by step.                  *)
Unfolds(str, a, b, f) ==
    /\ f[b + 1] = {<<>>}
    /\ \A p \in a..b :
          f[p] = IF str[p] # "%" THEN {<<str[p]>> \o text : text \in f[p + 1]}
                 ELSE IF p + 2 <= b /\ Sound(str, p)
                 THEN {<<CharAt(str, p)>> \o text : text \in f[p + 3]}
                 ELSE {}

LEMMA PartDecoded ==
    ASSUME NEW str \in Seq(STRING), NEW a \in 1..Len(str), NEW b \in a..Len(str)
    PROVE  \E f : append_percent_decoded(SubSeq(str, a, b)) = f[a] /\ Unfolds(str, a, b, f)
<1>0. PICK len : len = Len(str) /\ len \in Nat /\ a \in 1..len /\ b \in a..len
  BY LenProperties
<1>a. PICK x, n : x = SubSeq(str, a, b) /\ n = b - a + 1
  OBVIOUS
<1>1. x = SubSeq(str, a, b) /\ n = b - a + 1 /\ n \in Nat
  BY <1>0, <1>a
<1>2. x \in Seq(STRING) /\ Len(x) = n /\ \A i \in 1..n : x[i] = str[a + i - 1]
  <2>1. a \in 1..(Len(str) + 1) /\ b \in 0..Len(str) /\ a <= b + 1
    BY <1>0
  <2>. QED  BY <1>1, <2>1, Part
<1>3. PICK g : /\ append_percent_decoded(x) = g[1]
               /\ \A i \in 1..(n + 1) : g[i] = DecodedAt(x, i, g)
  BY <1>2, DecodedIs
<1>4. PICK f : f = [p \in a..(b + 1) |-> g[p - a + 1]]
  OBVIOUS
<1>5. f[a] = g[1]
  <2>1. a \in a..(b + 1) /\ a - a + 1 = 1
    BY <1>0
  <2>. QED  BY <1>4, <2>1
<1>6. f[b + 1] = {<<>>}
  <2>1. b + 1 \in a..(b + 1) /\ (b + 1) - a + 1 = n + 1 /\ n + 1 \in 1..(n + 1) /\ n + 1 > n
    BY <1>0, <1>1
  <2>2. g[n + 1] = {<<>>}
    BY <1>2, <1>3, <2>1 DEF DecodedAt
  <2>. QED  BY <1>4, <2>1, <2>2
<1>7. ASSUME NEW p \in a..b
      PROVE  f[p] = IF str[p] # "%" THEN {<<str[p]>> \o text : text \in f[p + 1]}
                    ELSE IF p + 2 <= b /\ Sound(str, p)
                    THEN {<<CharAt(str, p)>> \o text : text \in f[p + 3]}
                    ELSE {}
  <2>1. PICK i : i = p - a + 1
    OBVIOUS
  <2>2. /\ i \in 1..n /\ i \in 1..(n + 1) /\ ~(i > n) /\ a + i - 1 = p
        /\ p \in a..(b + 1) /\ p + 1 \in a..(b + 1) /\ (p + 1) - a + 1 = i + 1
        /\ i + 2 <= n <=> p + 2 <= b
    BY <1>0, <1>1, <2>1
  <2>3. f[p] = DecodedAt(x, i, g) /\ f[p + 1] = g[i + 1] /\ x[i] = str[p]
    BY <1>2, <1>3, <1>4, <2>1, <2>2
  <2>4. CASE str[p] # "%"
    BY <1>2, <2>2, <2>3, <2>4 DEF DecodedAt
  <2>5. CASE str[p] = "%" /\ ~(p + 2 <= b)
    BY <1>2, <2>2, <2>3, <2>5 DEF DecodedAt
  <2>6. CASE str[p] = "%" /\ p + 2 <= b
    <3>1. /\ i + 1 \in 1..n /\ i + 2 \in 1..n /\ a + (i + 1) - 1 = p + 1 /\ a + (i + 2) - 1 = p + 2
          /\ p + 3 \in a..(b + 1) /\ (p + 3) - a + 1 = i + 3 /\ p + 2 <= len
      BY <1>0, <1>1, <2>1, <2>6
    <3>2. x[i + 1] = str[p + 1] /\ x[i + 2] = str[p + 2] /\ f[p + 3] = g[i + 3]
      <4>1. x[i + 1] = str[p + 1]
        <5>1. PICK j : j = i + 1 /\ j \in 1..n /\ a + j - 1 = p + 1
          BY <3>1
        <5>. QED  BY <1>2, <5>1
      <4>2. x[i + 2] = str[p + 2]
        <5>1. PICK j : j = i + 2 /\ j \in 1..n /\ a + j - 1 = p + 2
          BY <3>1
        <5>. QED  BY <1>2, <5>1
      <4>3. f[p + 3] = g[(p + 3) - a + 1]
        BY <1>4, <3>1
      <4>. QED  BY <3>1, <4>1, <4>2, <4>3
    <3>3. Sound(str, p) <=> hex_val(x[i + 1]) >= 0 /\ hex_val(x[i + 2]) >= 0
      BY <1>0, <3>1, <3>2, HexDigitIs DEF Sound
    <3>4. CharAt(str, p) = Escaped(x[i + 1], x[i + 2])
      BY <2>6, <3>2 DEF CharAt
    <3>5. DecodedAt(x, i, g) = IF hex_val(x[i + 1]) >= 0 /\ hex_val(x[i + 2]) >= 0
                               THEN {<<CharAt(str, p)>> \o text : text \in f[p + 3]} ELSE {}
      BY <1>2, <2>2, <2>3, <2>6, <3>2, <3>4 DEF DecodedAt
    <3>. QED  BY <2>3, <2>6, <3>3, <3>5
  <2>. QED  BY <2>4, <2>5, <2>6
<1>8. Unfolds(str, a, b, f)
  BY <1>6, <1>7 DEF Unfolds
<1>9. append_percent_decoded(SubSeq(str, a, b)) = f[a]
  BY <1>1, <1>3, <1>5
<1>. QED  BY <1>8, <1>9

(* One broken escape is enough.                                            *)
LEMMA BrokenRefused ==
    ASSUME NEW str \in Seq(STRING), NEW a \in 1..Len(str), NEW b \in a..Len(str),
           NEW i \in a..b, str[i] = "%", ~Sound(str, i)
    PROVE  append_percent_decoded(SubSeq(str, a, b)) = {}
<1>0. PICK len : len = Len(str) /\ len \in Nat /\ a \in Nat /\ b \in Nat /\ 1 <= a /\ a <= b /\ b <= len
  <2>1. Len(str) \in Nat
    BY LenProperties
  <2>. QED  BY <2>1
<1>a. PICK f : append_percent_decoded(SubSeq(str, a, b)) = f[a] /\ Unfolds(str, a, b, f)
  BY PartDecoded
<1>1. \A p \in a..b :
         f[p] = IF str[p] # "%" THEN {<<str[p]>> \o text : text \in f[p + 1]}
                ELSE IF p + 2 <= b /\ Sound(str, p)
                THEN {<<CharAt(str, p)>> \o text : text \in f[p + 3]}
                ELSE {}
  BY <1>a DEF Unfolds
<1> DEFINE Broken(p) == \E j \in p..b : str[j] = "%" /\ ~Sound(str, j)
           S == {p \in 1..(b + 1) : p >= a /\ Broken(p) => f[p] = {}}
<1>2. ASSUME NEW p \in 1..(b + 1), \A q \in (p + 1)..(b + 1) : q \in S PROVE p \in S
  <2> SUFFICES ASSUME p >= a, NEW j \in p..b, str[j] = "%", ~Sound(str, j) PROVE f[p] = {}
    OBVIOUS
  <2>1. p \in a..b /\ j \in Nat /\ p <= j /\ j <= b /\ p \in Nat
    BY <1>0
  <2>2. CASE str[p] # "%"
    <3>1. p + 1 \in (p + 1)..(b + 1) /\ p + 1 >= a /\ j \in (p + 1)..b
      <4>1. j # p
        BY <2>2
      <4>. QED  BY <1>0, <2>1, <4>1
    <3>2. f[p + 1] = {}
      BY <1>2, <3>1
    <3>3. f[p] = {<<str[p]>> \o text : text \in f[p + 1]}
      BY <1>1, <2>1, <2>2
    <3>. QED  BY <3>2, <3>3
  <2>3. CASE str[p] = "%" /\ ~(p + 2 <= b /\ Sound(str, p))
    BY <1>1, <2>1, <2>3
  <2>4. CASE str[p] = "%" /\ p + 2 <= b /\ Sound(str, p)
    <3>1. str[p + 1] # "%" /\ str[p + 2] # "%"
      BY <2>4, HexDigitIs DEF Sound
    <3>2. j # p /\ j # p + 1 /\ j # p + 2
      BY <2>4, <3>1
    <3>3. p + 3 \in (p + 1)..(b + 1) /\ p + 3 >= a /\ j \in (p + 3)..b
      BY <1>0, <2>1, <2>4, <3>2
    <3>4. f[p + 3] = {}
      BY <1>2, <3>3
    <3>5. f[p] = {<<CharAt(str, p)>> \o text : text \in f[p + 3]}
      BY <1>1, <2>1, <2>4
    <3>. QED  BY <3>4, <3>5
  <2>. QED  BY <2>2, <2>3, <2>4
<1>3. a \in 1..(b + 1) /\ a >= a /\ Broken(a)
  BY <1>0
<1> HIDE DEF S
<1>4. \A p \in 1..(b + 1) : p \in S
  BY <1>0, <1>2, Descending
<1>. QED  BY <1>a, <1>3, <1>4 DEF S

(* A place that is no hexadecimal digit of an escape.                      *)
Counts(str, j) == \A i \in Escapes(str) : j # i + 1 /\ j # i + 2

LEMMA OriginsAre ==
    ASSUME NEW str, NEW p, NEW q, NEW j
    PROVE  j \in Origins(str, <<p, q>>) <=> j \in p..q /\ Counts(str, j)
<1>1. Origins(str, <<p, q>>) = (p..q) \ UNION {{i + 1, i + 2} : i \in Escapes(str)}
  BY DEF Origins
<1>2. j \in UNION {{i + 1, i + 2} : i \in Escapes(str)} <=> \E i \in Escapes(str) : j = i + 1 \/ j = i + 2
  OBVIOUS
<1>. QED  BY <1>1, <1>2 DEF Counts

(* A text whose escapes are sound has one character for each place that    *)
(* counts.                                                                 *)
LEMMA SoundDecoded ==
    ASSUME NEW str \in Seq(STRING), WellFormedEscapes(str), NEW s \in Stretches(str)
    PROVE  /\ append_percent_decoded(SubSeq(str, s[1], s[2])) = {TextOf(str, s)}
           /\ TextOf(str, s) \in Seq(STRING)
           /\ Len(TextOf(str, s)) <= s[2] - s[1] + 1
<1>1. PICK a, b : a = s[1] /\ b = s[2]
  OBVIOUS
<1>2. PICK len : len = Len(str) /\ len \in Nat
  BY LenProperties
<1>3. /\ a \in 1..len /\ b \in a..len /\ s = <<a, b>>
      /\ a = 1 \/ IsSlash(str, a - 1)
      /\ b = len \/ IsSlash(str, b + 1)
  BY <1>1, <1>2, StretchIs
<1>4. /\ a \in Nat /\ b \in Nat /\ 1 <= a /\ a <= b /\ b <= len
  BY <1>2, <1>3
<1>a. a \in 1..Len(str) /\ b \in a..Len(str)
  BY <1>2, <1>3
<1>b. PICK f : append_percent_decoded(SubSeq(str, a, b)) = f[a] /\ Unfolds(str, a, b, f)
  BY <1>a, PartDecoded
<1>5. /\ f[b + 1] = {<<>>}
      /\ \A p \in a..b :
            f[p] = IF str[p] # "%" THEN {<<str[p]>> \o text : text \in f[p + 1]}
                   ELSE IF p + 2 <= b /\ Sound(str, p)
                   THEN {<<CharAt(str, p)>> \o text : text \in f[p + 3]}
                   ELSE {}
  BY <1>b DEF Unfolds
<1>6. /\ \A i : i \in Escapes(str) <=> i \in 1..len /\ str[i] = "%"
      /\ \A i \in 1..len : str[i] = "%" => Sound(str, i)
  BY <1>2, EscapeIs
<1>7. \A i \in 1..len : str[i] = "%" => /\ i + 2 <= len
                                        /\ ~IsSlash(str, i + 1) /\ ~IsSlash(str, i + 2)
                                        /\ str[i + 1] # "%" /\ str[i + 2] # "%"
  BY <1>2, <1>6, HexDigitIs DEF Sound, IsSlash
<1> DEFINE Rest(p) == /\ f[p] = {TextOf(str, <<p, b>>)} /\ Known(str, <<p, b>>)
                      /\ Len(TextOf(str, <<p, b>>)) <= b - p + 1
           S == {p \in 1..(b + 1) : p >= a /\ Counts(str, p) => Rest(p)}
<1>8. ASSUME NEW p \in 1..(b + 1), \A q \in (p + 1)..(b + 1) : q \in S PROVE p \in S
  <2> SUFFICES ASSUME p >= a, Counts(str, p) PROVE Rest(p)
    OBVIOUS
  <2>0. p \in Nat
    BY <1>4
  <2>1. CASE p = b + 1
    <3>1. p..b = {} /\ 0 <= b - p + 1
      BY <1>4, <2>1
    <3>2. Origins(str, <<p, b>>) = {}
      BY <3>1, OriginsAre
    <3>. QED  BY <1>5, <2>1, <3>1, <3>2, NoText
  <2>2. CASE p # b + 1 /\ str[p] # "%"
    <3>a. PICK q : q = p + 1
      OBVIOUS
    <3>1. /\ q = p + 1 /\ q \in (p + 1)..(b + 1) /\ q >= a /\ p \in a..b /\ p \in 1..len
          /\ \A j : j \in p..b <=> j = p \/ j \in q..b
      <4>1. p >= a /\ p <= b + 1 /\ p # b + 1 /\ p >= 1
        BY <1>4, <2>2
      <4>2. p \in a..b /\ p \in 1..len
        BY <1>2, <1>4, <2>0, <4>1
      <4>3. \A j : j \in p..b <=> j = p \/ j \in q..b
        BY <1>4, <2>0, <3>a, <4>1
      <4>. QED  BY <1>4, <2>0, <3>a, <4>1, <4>2, <4>3
    <3>2. Counts(str, q)
      <4>1. \A i \in Escapes(str) : i \in Nat /\ i # p /\ p # i + 1
        BY <1>2, <1>6, <2>2 DEF Counts
      <4>. QED  BY <2>0, <3>1, <4>1 DEF Counts
    <3>3. f[q] = {TextOf(str, <<q, b>>)} /\ Known(str, <<q, b>>) /\ Len(TextOf(str, <<q, b>>)) <= b - q + 1
      BY <1>8, <3>1, <3>2
    <3>4. Origins(str, <<p, b>>) = Origins(str, <<q, b>>) \cup {p}
      <4>1. \A j : j \in Origins(str, <<p, b>>) <=> j = p \/ j \in Origins(str, <<q, b>>)
        BY <3>1, OriginsAre
      <4>. QED  BY <4>1
    <3>5. \A i \in Origins(str, <<q, b>>) : p < i
      <4>1. \A i \in q..b : p < i
        BY <1>4, <2>0, <3>1
      <4>. QED  BY <4>1, OriginsAre
    <3>6. CharAt(str, p) = str[p] /\ str[p] \in STRING
      BY <1>2, <2>2, <3>1, ElementOfSeq DEF CharAt
    <3>7. /\ Known(str, <<p, b>>)
          /\ TextOf(str, <<p, b>>) = <<str[p]>> \o TextOf(str, <<q, b>>)
          /\ Len(TextOf(str, <<p, b>>)) = Len(TextOf(str, <<q, b>>)) + 1
      <4>1. PICK s1, t1 : s1 = <<p, b>> /\ t1 = <<q, b>>
        OBVIOUS
      <4>2. /\ p \in Nat /\ Known(str, t1) /\ Origins(str, s1) = Origins(str, t1) \cup {p}
            /\ \A i \in Origins(str, t1) : p < i
            /\ CharAt(str, p) \in STRING
        BY <2>0, <3>3, <3>4, <3>5, <3>6, <4>1
      <4>3. /\ Known(str, s1) /\ TextOf(str, s1) = <<CharAt(str, p)>> \o TextOf(str, t1)
            /\ Len(TextOf(str, s1)) = Len(TextOf(str, t1)) + 1
        BY <4>2, TextGrows
      <4>. QED  BY <3>6, <4>1, <4>3
    <3>8. f[p] = {TextOf(str, <<p, b>>)}
      <4>1. f[p] = {<<str[p]>> \o text : text \in f[q]}
        BY <1>5, <2>2, <3>1
      <4>2. f[p] = {<<str[p]>> \o TextOf(str, <<q, b>>)}
        BY <3>3, <4>1
      <4>. QED  BY <3>7, <4>2
    <3>9. Len(TextOf(str, <<p, b>>)) <= b - p + 1
      <4>1. PICK l, m : l = Len(TextOf(str, <<p, b>>)) /\ m = Len(TextOf(str, <<q, b>>))
        OBVIOUS
      <4>2. m \in Nat
        BY <3>3, <4>1, LenProperties DEF Known
      <4>3. l = m + 1 /\ m <= b - q + 1
        BY <3>3, <3>7, <4>1
      <4>4. l <= b - p + 1
        BY <1>4, <2>0, <3>1, <4>2, <4>3
      <4>. QED  BY <4>1, <4>4
    <3>. QED  BY <3>7, <3>8, <3>9
  <2>3. CASE p # b + 1 /\ str[p] = "%"
    <3>1. p \in a..b /\ p \in 1..len
      <4>1. p >= a /\ p <= b + 1 /\ p # b + 1 /\ p >= 1
        BY <1>4, <2>3
      <4>. QED  BY <1>2, <1>4, <2>0, <4>1
    <3>2. p \in Escapes(str) /\ Sound(str, p)
      BY <1>6, <2>3, <3>1
    <3>3. p + 2 <= b
      <4>1. p + 2 <= len /\ ~IsSlash(str, p + 1) /\ ~IsSlash(str, p + 2)
        BY <1>7, <2>3, <3>1
      <4>2. b # len => b + 1 # p + 1 /\ b + 1 # p + 2
        BY <1>3, <4>1
      <4>. QED  BY <1>2, <1>4, <3>1, <4>1, <4>2
    <3>4. PICK q : /\ q = p + 3 /\ q \in (p + 1)..(b + 1) /\ q >= a
                   /\ \A j : j \in p..b <=> j = p \/ j = p + 1 \/ j = p + 2 \/ j \in q..b
      BY <1>4, <2>0, <3>1, <3>3
    <3>5. Counts(str, q) /\ ~Counts(str, p + 1) /\ ~Counts(str, p + 2)
      <4>1. \A i \in Escapes(str) : i \in Nat /\ i # p + 2 /\ i # p + 1
        BY <1>2, <1>6, <1>7, <2>3, <3>1
      <4>. QED  BY <2>0, <3>2, <3>4, <4>1 DEF Counts
    <3>6. f[q] = {TextOf(str, <<q, b>>)} /\ Known(str, <<q, b>>) /\ Len(TextOf(str, <<q, b>>)) <= b - q + 1
      BY <1>8, <3>4, <3>5
    <3>7. Origins(str, <<p, b>>) = Origins(str, <<q, b>>) \cup {p}
      <4>1. \A j : j \in Origins(str, <<p, b>>) <=> j = p \/ j \in Origins(str, <<q, b>>)
        BY <3>4, <3>5, OriginsAre
      <4>. QED  BY <4>1
    <3>8. \A i \in Origins(str, <<q, b>>) : p < i
      <4>1. \A i \in q..b : p < i
        BY <1>4, <2>0, <3>4
      <4>. QED  BY <4>1, OriginsAre
    <3>9. CharAt(str, p) \in STRING
      BY <2>3, <3>2, EscapedIs DEF CharAt, Sound
    <3>10. /\ Known(str, <<p, b>>)
           /\ TextOf(str, <<p, b>>) = <<CharAt(str, p)>> \o TextOf(str, <<q, b>>)
           /\ Len(TextOf(str, <<p, b>>)) = Len(TextOf(str, <<q, b>>)) + 1
      <4>1. PICK s1, t1 : s1 = <<p, b>> /\ t1 = <<q, b>>
        OBVIOUS
      <4>2. /\ p \in Nat /\ Known(str, t1) /\ Origins(str, s1) = Origins(str, t1) \cup {p}
            /\ \A i \in Origins(str, t1) : p < i
            /\ CharAt(str, p) \in STRING
        BY <2>0, <3>6, <3>7, <3>8, <3>9, <4>1
      <4>3. /\ Known(str, s1) /\ TextOf(str, s1) = <<CharAt(str, p)>> \o TextOf(str, t1)
            /\ Len(TextOf(str, s1)) = Len(TextOf(str, t1)) + 1
        BY <4>2, TextGrows
      <4>. QED  BY <4>1, <4>3
    <3>11. f[p] = {TextOf(str, <<p, b>>)}
      <4>1. f[p] = {<<CharAt(str, p)>> \o text : text \in f[q]}
        BY <1>5, <2>3, <3>1, <3>2, <3>3, <3>4
      <4>2. f[p] = {<<CharAt(str, p)>> \o TextOf(str, <<q, b>>)}
        BY <3>6, <4>1
      <4>. QED  BY <3>10, <4>2
    <3>12. Len(TextOf(str, <<p, b>>)) <= b - p + 1
      <4>1. PICK l, m : l = Len(TextOf(str, <<p, b>>)) /\ m = Len(TextOf(str, <<q, b>>))
        OBVIOUS
      <4>2. m \in Nat
        BY <3>6, <4>1, LenProperties DEF Known
      <4>3. l = m + 1 /\ m <= b - q + 1
        BY <3>6, <3>10, <4>1
      <4>4. l <= b - p + 1
        BY <1>4, <2>0, <3>4, <4>2, <4>3
      <4>. QED  BY <4>1, <4>4
    <3>. QED  BY <3>10, <3>11, <3>12
  <2>. QED  BY <2>1, <2>2, <2>3
<1>9. Counts(str, a)
  <2> SUFFICES ASSUME NEW i \in Escapes(str) PROVE a # i + 1 /\ a # i + 2
    BY DEF Counts
  <2>1. i \in 1..len /\ str[i] = "%" /\ ~IsSlash(str, i) /\ ~IsSlash(str, i + 1)
    <3>1. i \in 1..len /\ str[i] = "%"
      BY <1>6
    <3>. QED  BY <1>7, <3>1 DEF IsSlash
  <2>2. a # 1 => a - 1 # i /\ a - 1 # i + 1
    BY <1>3, <2>1
  <2>. QED  BY <1>2, <1>4, <2>1, <2>2
<1>10. a \in 1..(b + 1) /\ a >= a
  BY <1>4
<1> HIDE DEF S, Rest
<1>11. \A p \in 1..(b + 1) : p \in S
  BY <1>4, <1>8, Descending
<1>12. Rest(a)
  BY <1>9, <1>10, <1>11 DEF S
<1>. QED  BY <1>1, <1>3, <1>b, <1>12 DEF Rest, Known

-----------------------------------------------------------------------------
(* What parse_path has stored after i segments.                            *)
Empty == [storage |-> <<>>, ranges |-> <<>>]

StoredAt(list, i, after) ==
    IF i = 0 THEN {Empty}
    ELSE {Push(out, text) : out \in after[i - 1], text \in append_percent_decoded(list[i])}

Stores(list, n, after) == after = [i \in 0..n |-> StoredAt(list, i, after)]

LEMMA StoresExists ==
    ASSUME NEW list, NEW len \in Nat
    PROVE  \E after : Stores(list, len, after)
<1> DEFINE S == {n \in Nat : \E after : Stores(list, n, after)}
<1>1. 0 \in S
  <2> DEFINE f == [i \in 0..0 |-> {Empty}]
  <2>1. f = [i \in 0..0 |-> StoredAt(list, i, f)]
    <3>1. \A i \in 0..0 : i = 0
      OBVIOUS
    <3>. QED  BY <3>1 DEF StoredAt
  <2>. QED  BY <2>1 DEF Stores
<1>2. ASSUME NEW n \in Nat, n \in S PROVE n + 1 \in S
  <2>1. PICK f : Stores(list, n, f)
    BY <1>2
  <2> DEFINE last == {Push(out, text) : out \in f[n], text \in append_percent_decoded(list[n + 1])}
             g == [i \in 0..(n + 1) |-> IF i = n + 1 THEN last ELSE f[i]]
  <2>2. ASSUME NEW i \in 0..(n + 1) PROVE g[i] = StoredAt(list, i, g)
    <3>1. CASE i = n + 1
      <4>1. g[i] = last /\ i # 0 /\ i - 1 = n /\ n \in 0..(n + 1) /\ n # n + 1
        BY <3>1
      <4>2. g[i - 1] = f[n]
        BY <4>1
      <4>. QED  BY <3>1, <4>1, <4>2 DEF StoredAt
    <3>2. CASE i = 0
      <4>1. 0 \in 0..n /\ 0 # n + 1
        OBVIOUS
      <4>2. f[0] = {Empty}
        BY <2>1, <4>1 DEF Stores, StoredAt
      <4>. QED  BY <3>2, <4>1, <4>2 DEF StoredAt
    <3>3. CASE i \in 1..n
      <4>1. /\ i \in 0..n /\ i # 0 /\ i # n + 1
            /\ i - 1 \in 0..(n + 1) /\ i - 1 # n + 1
        BY <3>3
      <4>2. f[i] = StoredAt(list, i, f)
        BY <2>1, <4>1 DEF Stores
      <4>3. g[i] = f[i] /\ g[i - 1] = f[i - 1]
        BY <4>1
      <4>. QED  BY <4>1, <4>2, <4>3 DEF StoredAt
    <3>. QED  BY <3>1, <3>2, <3>3
  <2>3. g = [i \in 0..(n + 1) |-> g[i]]
    OBVIOUS
  <2> HIDE DEF g
  <2>4. Stores(list, n + 1, g)
    BY <2>2, <2>3 DEF Stores
  <2>. QED  BY <2>4
<1> HIDE DEF S
<1>3. Nat \subseteq S
  BY <1>1, <1>2, SetInduction
<1>. QED  BY <1>3 DEF S

RangeType == [offset : Nat, length : Nat]

(* A text y lies in a text x, after o characters.                          *)
LiesAt(x, o, l, y) == o + l <= Len(x) /\ SubSeq(x, o + 1, o + l) = y

(* The first i texts of a list lie in the storage, where the ranges say.   *)
Kept(P, list, i) ==
    /\ P.storage \in Seq(STRING) /\ P.ranges \in Seq(RangeType) /\ Len(P.ranges) = i
    /\ \A m \in 1..i : LiesAt(P.storage, P.ranges[m].offset, P.ranges[m].length, list[m])

LEMMA LiesStill ==
    ASSUME NEW x \in Seq(STRING), NEW y \in Seq(STRING), NEW o \in Nat, NEW l \in Nat,
           NEW w, LiesAt(x, o, l, w)
    PROVE  LiesAt(x \o y, o, l, w)
<1>0. PICK n, m : n = Len(x) /\ n \in Nat /\ m = Len(y) /\ m \in Nat
  BY LenProperties
<1>a. PICK z : z = x \o y
  OBVIOUS
<1>1. z \in Seq(STRING) /\ Len(z) = n + m /\ \A i \in 1..n : z[i] = x[i]
  BY <1>0, <1>a, Joined
<1>2. PICK a, b : a = o + 1 /\ b = o + l /\ b - a + 1 = l
  OBVIOUS
<1>b. w = SubSeq(x, a, b) /\ b <= n
  BY <1>0, <1>2 DEF LiesAt
<1>3. /\ a \in 1..(n + 1) /\ b \in 0..n /\ a <= b + 1 /\ a \in 1..(n + m + 1) /\ b \in 0..(n + m)
      /\ \A i \in 1..l : a + i - 1 \in 1..n
  BY <1>0, <1>2, <1>b
<1>5. w \in Seq(STRING) /\ Len(w) = l /\ \A i \in 1..l : w[i] = x[a + i - 1]
  BY <1>0, <1>2, <1>3, <1>b, Part
<1>6. \A i \in 1..l : z[a + i - 1] = w[i]
  BY <1>1, <1>3, <1>5
<1>7. SubSeq(z, a, b) = w
  <2>1. a \in 1..(Len(z) + 1) /\ b \in 0..Len(z) /\ Len(w) = b - a + 1
    BY <1>1, <1>2, <1>3, <1>5
  <2>2. \A i \in 1..Len(w) : z[a + i - 1] = w[i]
    BY <1>5, <1>6
  <2>. QED  BY <1>1, <1>3, <1>5, <2>1, <2>2, SamePart
<1>8. b <= n + m
  BY <1>0, <1>3
<1>. QED  BY <1>a, <1>1, <1>2, <1>7, <1>8 DEF LiesAt

LEMMA LiesLast ==
    ASSUME NEW x \in Seq(STRING), NEW y \in Seq(STRING)
    PROVE  LiesAt(x \o y, Len(x), Len(y), y)
<1>0. PICK n, m : n = Len(x) /\ n \in Nat /\ m = Len(y) /\ m \in Nat
  BY LenProperties
<1>a. PICK z : z = x \o y
  OBVIOUS
<1>1. z \in Seq(STRING) /\ Len(z) = n + m /\ \A i \in 1..m : z[n + i] = y[i]
  BY <1>0, <1>a, Joined
<1>2. PICK a, b : a = n + 1 /\ b = n + m /\ b - a + 1 = m
  BY <1>0
<1>3. /\ a \in 1..(n + m + 1) /\ b \in 0..(n + m) /\ a <= b + 1 /\ b <= n + m
      /\ \A i \in 1..m : a + i - 1 = n + i
  BY <1>0, <1>2
<1>4. \A i \in 1..m : z[a + i - 1] = y[i]
  BY <1>1, <1>3
<1>5. SubSeq(z, a, b) = y
  <2>1. a \in 1..(Len(z) + 1) /\ b \in 0..Len(z) /\ Len(y) = b - a + 1
    BY <1>0, <1>1, <1>2, <1>3
  <2>2. \A i \in 1..Len(y) : z[a + i - 1] = y[i]
    BY <1>0, <1>4
  <2>. QED  BY <1>1, <1>3, <2>1, <2>2, SamePart
<1>. QED  BY <1>a, <1>0, <1>1, <1>2, <1>3, <1>5 DEF LiesAt

LEMMA PushKeeps ==
    ASSUME NEW P, NEW list, NEW i \in Nat, Kept(P, list, i), list[i + 1] \in Seq(STRING)
    PROVE  Kept(Push(P, list[i + 1]), list, i + 1)
<1>1. PICK x, y, r, n, l : x = P.storage /\ y = list[i + 1] /\ r = P.ranges /\ n = Len(x) /\ l = Len(y)
  OBVIOUS
<1>2. /\ x \in Seq(STRING) /\ y \in Seq(STRING) /\ r \in Seq(RangeType) /\ Len(r) = i
      /\ n \in Nat /\ l \in Nat
  BY <1>1, LenProperties DEF Kept
<1>3. PICK new, s, Q : new = [offset |-> n, length |-> l] /\ s = Append(r, new) /\ Q = Push(P, list[i + 1])
  OBVIOUS
<1>4. new \in RangeType /\ new.offset = n /\ new.length = l
  BY <1>2, <1>3 DEF RangeType
<1>5. s \in Seq(RangeType) /\ Len(s) = i + 1 /\ s[i + 1] = new /\ \A m \in 1..i : s[m] = r[m]
  BY <1>2, <1>3, <1>4, AppendProperties
<1>6. Q.storage = x \o y /\ Q.ranges = s
  BY <1>1, <1>3 DEF Push
<1>7. x \o y \in Seq(STRING)
  BY <1>2, ConcatProperties
<1>8. ASSUME NEW m \in 1..(i + 1)
      PROVE  LiesAt(x \o y, s[m].offset, s[m].length, list[m])
  <2>1. CASE m = i + 1
    <3>1. LiesAt(x \o y, n, l, y)
      BY <1>1, <1>2, LiesLast
    <3>. QED  BY <1>1, <1>4, <1>5, <2>1, <3>1
  <2>2. CASE m # i + 1
    <3>1. m \in 1..i
      BY <2>2
    <3>2. r[m].offset \in Nat /\ r[m].length \in Nat
      <4>1. r[m] \in RangeType
        BY <1>2, <3>1, ElementOfSeq
      <4>. QED  BY <4>1 DEF RangeType
    <3>3. LiesAt(x, r[m].offset, r[m].length, list[m])
      BY <1>1, <3>1 DEF Kept
    <3>4. LiesAt(x \o y, r[m].offset, r[m].length, list[m])
      BY <1>2, <3>2, <3>3, LiesStill
    <3>. QED  BY <1>5, <3>1, <3>4
  <2>. QED  BY <2>1, <2>2
<1>. QED  BY <1>3, <1>5, <1>6, <1>7, <1>8 DEF Kept

(* The texts of segments that take no more space than ends says.           *)
Fits(list, texts, ends, n) ==
    /\ ends[0] = 0
    /\ \A m \in 1..n : /\ texts[m] \in Seq(STRING) /\ append_percent_decoded(list[m]) = {texts[m]}
                       /\ ends[m - 1] \in Nat /\ ends[m] \in Nat
                       /\ ends[m - 1] + Len(texts[m]) <= ends[m]

(* All that is there after n segments.                                     *)
AloneIs(after, texts, ends, n, P) ==
    after[n] = {P} /\ Kept(P, texts, n) /\ Len(P.storage) <= ends[n]

(* The texts of the first n segments are stored, and take no more space    *)
(* than the path had up to the end of the last of them.                    *)
LEMMA StoresTexts ==
    ASSUME NEW list, NEW len \in Nat, NEW after, Stores(list, len, after),
           NEW n \in 0..len, NEW texts, NEW ends, Fits(list, texts, ends, n)
    PROVE  \E P : AloneIs(after, texts, ends, n, P)
<1>0. n \in Nat /\ n <= len
  OBVIOUS
<1> DEFINE S == {i \in Nat : i <= n => \E P : AloneIs(after, texts, ends, i, P)}
<1>1. 0 \in S
  <2>1. after[0] = {Empty}
    <3>1. 0 \in 0..len
      OBVIOUS
    <3>. QED  BY <3>1 DEF Stores, StoredAt
  <2>2. Kept(Empty, texts, 0) /\ Len(Empty.storage) <= ends[0]
    <3>1. /\ <<>> \in Seq(STRING) /\ <<>> \in Seq(RangeType) /\ Len(<<>>) = 0 /\ 1..0 = {}
      BY EmptySeq
    <3>2. ends[0] = 0
      BY DEF Fits
    <3>. QED  BY <3>1, <3>2 DEF Kept, Empty
  <2>. QED  BY <2>1, <2>2 DEF AloneIs
<1>2. ASSUME NEW i \in Nat, i + 1 <= n, i \in S PROVE i + 1 \in S
  <2>1. i <= n /\ i + 1 \in 0..len /\ i + 1 \in 1..n /\ i + 1 # 0 /\ (i + 1) - 1 = i
    BY <1>0, <1>2
  <2>2. PICK P : after[i] = {P} /\ Kept(P, texts, i) /\ Len(P.storage) <= ends[i]
    BY <1>2, <2>1 DEF AloneIs
  <2>3. PICK x, y, a, b : x = P.storage /\ y = texts[i + 1] /\ a = ends[i] /\ b = ends[i + 1]
    OBVIOUS
  <2>4. /\ x \in Seq(STRING) /\ y \in Seq(STRING) /\ append_percent_decoded(list[i + 1]) = {y}
        /\ a \in Nat /\ b \in Nat /\ a + Len(y) <= b /\ Len(x) <= a
    BY <2>1, <2>2, <2>3 DEF Kept, Fits
  <2>5. after[i + 1] = StoredAt(list, i + 1, after)
    BY <2>1 DEF Stores
  <2>6. after[i + 1] = {Push(P, y)}
    BY <2>1, <2>2, <2>4, <2>5 DEF StoredAt
  <2>7. Kept(Push(P, y), texts, i + 1)
    BY <2>2, <2>3, <2>4, PushKeeps
  <2>8. Len(Push(P, y).storage) <= b
    <3>1. Push(P, y).storage = x \o y
      BY <2>3 DEF Push
    <3>2. PICK k, l : k = Len(x) /\ l = Len(y)
      OBVIOUS
    <3>3. k \in Nat /\ l \in Nat /\ Len(x \o y) = k + l
      BY <2>4, <3>2, Joined
    <3>4. k + l <= b
      BY <2>4, <3>2, <3>3
    <3>. QED  BY <3>1, <3>3, <3>4
  <2>. QED  BY <2>3, <2>6, <2>7, <2>8 DEF AloneIs
<1>3. ASSUME NEW i \in Nat, i \in S PROVE i + 1 \in S
  <2>1. CASE i + 1 <= n
    BY <1>2, <1>3, <2>1
  <2>2. CASE ~(i + 1 <= n)
    BY <2>2
  <2>. QED  BY <2>1, <2>2
<1> HIDE DEF S
<1>4. n \in S
  BY <1>0, <1>1, <1>3, SetInduction
<1>. QED  BY <1>0, <1>4 DEF S

(* One segment that is refused is enough.                                  *)
LEMMA StoresNothing ==
    ASSUME NEW list, NEW len \in Nat, NEW after, Stores(list, len, after),
           NEW m \in 1..len, append_percent_decoded(list[m]) = {}
    PROVE  after[len] = {}
<1> DEFINE S == {i \in Nat : i >= m /\ i <= len => after[i] = {}}
<1>1. 0 \in S
  OBVIOUS
<1>2. ASSUME NEW i \in Nat, i \in S PROVE i + 1 \in S
  <2> SUFFICES ASSUME i + 1 >= m, i + 1 <= len PROVE after[i + 1] = {}
    OBVIOUS
  <2>1. i + 1 \in 0..len /\ i + 1 # 0 /\ (i + 1) - 1 = i /\ i <= len
    OBVIOUS
  <2>a. after[i + 1] = StoredAt(list, i + 1, after)
    BY <2>1 DEF Stores
  <2>2. after[i + 1] = {Push(out, text) : out \in after[i], text \in append_percent_decoded(list[i + 1])}
    BY <2>1, <2>a DEF StoredAt
  <2>3. CASE i + 1 = m
    BY <2>2, <2>3
  <2>4. CASE i + 1 # m
    <3>1. i >= m
      BY <2>4
    <3>2. after[i] = {}
      BY <1>2, <2>1, <3>1
    <3>. QED  BY <2>2, <3>2
  <2>. QED  BY <2>3, <2>4
<1> HIDE DEF S
<1>3. len \in S
  BY <1>1, <1>2, SetInduction
<1>. QED  BY <1>3 DEF S

LEMMA ParsedFrom ==
    ASSUME NEW str, str # <<>>, NEW list, list = SegmentsOf(Trimmed(str)), NEW n \in Nat, n = Len(list)
    PROVE  \E after : parse_path(str) = after[n] /\ Stores(list, n, after)
<1> DEFINE after == CHOOSE after : after = [i \in 0..n |-> StoredAt(list, i, after)]
<1>1. parse_path(str) = after[n]
  BY DEF parse_path, StoredAt, Trimmed, Empty
<1>2. Stores(list, n, after)
  <2>1. PICK g : Stores(list, n, g)
    BY StoresExists
  <2>2. g = [i \in 0..n |-> StoredAt(list, i, g)]
    BY <2>1 DEF Stores
  <2>3. after = [i \in 0..n |-> StoredAt(list, i, after)]
    BY <2>2
  <2> HIDE DEF after
  <2>. QED  BY <2>3 DEF Stores
<1> HIDE DEF after
<1>. QED  BY <1>1, <1>2

LEMMA ParsedTexts ==
    ASSUME NEW str \in Seq(STRING), str # <<>>, WellFormedEscapes(str),
           NEW list, list = SegmentsOf(Trimmed(str)), NEW st, Lists(str, list, st, 1),
           NEW texts, texts = [m \in 1..Len(st) |-> TextOf(str, st[m])]
    PROVE  \E P : parse_path(str) = {P} /\ Kept(P, texts, Len(st)) /\ Len(P.storage) <= Len(str)
<1>0. PICK len, n : len = Len(str) /\ len \in Nat /\ n = Len(st) /\ n \in Nat /\ n = Len(list)
  BY LenProperties DEF Lists
<1>1. PICK after : parse_path(str) = after[n] /\ Stores(list, n, after)
  BY <1>0, ParsedFrom
<1>2. PICK ends : ends = [m \in 0..n |-> IF m = 0 THEN 0 ELSE st[m][2]]
  OBVIOUS
<1>3. ends[0] = 0 /\ \A m \in 1..n : ends[m] = st[m][2]
  <2>1. 0 \in 0..n /\ \A m \in 1..n : m \in 0..n /\ m # 0
    BY <1>0
  <2>. QED  BY <1>2, <2>1
<1>4. ASSUME NEW m \in 1..n
      PROVE  /\ texts[m] = TextOf(str, st[m]) /\ st[m] \in Stretches(str)
             /\ list[m] = SubSeq(str, st[m][1], st[m][2])
             /\ st[m][1] \in Nat /\ st[m][2] \in Nat /\ st[m][1] >= 1 /\ st[m][2] <= len
  <2>1. st[m] \in Stretches(str) /\ list[m] = SubSeq(str, st[m][1], st[m][2])
    BY <1>0, ElementOfSeq DEF Lists
  <2>2. st[m][1] \in 1..len /\ st[m][2] \in 1..len
    BY <1>0, <2>1, StretchIs
  <2>. QED  BY <1>0, <2>1, <2>2
<1>5. ASSUME NEW m \in 1..n
      PROVE  /\ texts[m] \in Seq(STRING) /\ append_percent_decoded(list[m]) = {texts[m]}
             /\ ends[m - 1] \in Nat /\ ends[m] \in Nat
             /\ ends[m - 1] + Len(texts[m]) <= ends[m]
  <2>1. PICK s : s = st[m] /\ s \in Stretches(str)
    BY <1>4
  <2>2. /\ append_percent_decoded(SubSeq(str, s[1], s[2])) = {TextOf(str, s)}
        /\ TextOf(str, s) \in Seq(STRING)
        /\ Len(TextOf(str, s)) <= s[2] - s[1] + 1
    BY <2>1, SoundDecoded
  <2>3. texts[m] \in Seq(STRING) /\ append_percent_decoded(list[m]) = {texts[m]}
    BY <1>4, <2>1, <2>2
  <2>4. PICK a, b, c, l : a = s[1] /\ b = s[2] /\ c = ends[m - 1] /\ l = Len(texts[m])
    OBVIOUS
  <2>5. a \in Nat /\ b \in Nat /\ a >= 1 /\ l \in Nat /\ l <= b - a + 1 /\ ends[m] = b
    BY <1>3, <1>4, <2>1, <2>2, <2>3, <2>4, LenProperties
  <2>6. c \in Nat /\ c < a
    <3>1. CASE m = 1
      <4>1. m - 1 = 0
        BY <3>1
      <4>. QED  BY <1>3, <2>4, <2>5, <4>1
    <3>2. CASE m # 1
      <4>1. PICK k : k = m - 1
        OBVIOUS
      <4>2. k \in 1..n /\ k < m
        BY <1>0, <3>2, <4>1
      <4>3. st[k][2] < st[m][1]
        BY <1>0, <4>2 DEF Lists
      <4>. QED  BY <1>3, <1>4, <2>1, <2>4, <4>1, <4>2, <4>3
    <3>. QED  BY <3>1, <3>2
  <2>7. c + l <= b
    BY <2>5, <2>6
  <2>. QED  BY <2>3, <2>4, <2>5, <2>6, <2>7
<1>6. PICK P : after[n] = {P} /\ Kept(P, texts, n) /\ Len(P.storage) <= ends[n]
  <2>1. PICK all, each : all = list /\ each = texts
    OBVIOUS
  <2>2. n \in Nat /\ n \in 0..n /\ Stores(all, n, after)
    BY <1>0, <1>1, <2>1
  <2>3. Fits(list, texts, ends, n)
    BY <1>3, <1>5 DEF Fits
  <2>4. Fits(all, each, ends, n)
    BY <2>1, <2>3
  <2>5. \E P : AloneIs(after, each, ends, n, P)
    BY <2>2, <2>4, StoresTexts
  <2>. QED  BY <2>1, <2>5 DEF AloneIs
<1>7. Len(P.storage) <= len
  <2>1. PICK k, e : k = Len(P.storage) /\ e = ends[n]
    OBVIOUS
  <2>2. k \in Nat
    BY <1>6, <2>1, LenProperties DEF Kept
  <2>3. e \in Nat /\ e <= len
    <3>1. CASE n = 0
      BY <1>0, <1>3, <2>1, <3>1
    <3>2. CASE n # 0
      <4>1. n \in 1..n
        BY <1>0, <3>2
      <4>. QED  BY <1>3, <1>4, <2>1, <4>1
    <3>. QED  BY <3>1, <3>2
  <2>. QED  BY <1>0, <1>6, <2>1, <2>2, <2>3
<1>. QED  BY <1>0, <1>1, <1>6, <1>7

LEMMA ParsedNothing ==
    ASSUME NEW str \in Seq(STRING), str # <<>>, ~WellFormedEscapes(str)
    PROVE  parse_path(str) = {}
<1>1. PICK list, st : list = SegmentsOf(Trimmed(str)) /\ Lists(str, list, st, 1)
  BY PathListed
<1>0. PICK len, n : len = Len(str) /\ len \in Nat /\ n = Len(st) /\ n \in Nat /\ n = Len(list)
  BY <1>1, LenProperties DEF Lists
<1>2. PICK after : parse_path(str) = after[n] /\ Stores(list, n, after)
  BY <1>0, <1>1, ParsedFrom
<1>3. PICK i \in 1..len : str[i] = "%" /\ ~Sound(str, i)
  BY <1>0, EscapeIs
<1>4. PICK m \in 1..n : st[m][1] <= i /\ i <= st[m][2]
  <2>1. ~IsSlash(str, i)
    BY <1>3 DEF IsSlash
  <2>. QED  BY <1>0, <1>1, <1>3, <2>1 DEF Lists
<1>5. PICK a, b : a = st[m][1] /\ b = st[m][2]
  OBVIOUS
<1>6. list[m] = SubSeq(str, a, b) /\ a \in 1..len /\ b \in a..len
  <2>1. st[m] \in Stretches(str) /\ list[m] = SubSeq(str, a, b)
    BY <1>0, <1>1, <1>5, ElementOfSeq DEF Lists
  <2>2. a \in 1..len /\ b \in 1..len /\ a <= b
    BY <1>0, <1>5, <2>1, StretchIs
  <2>. QED  BY <1>0, <2>1, <2>2
<1>7. i \in a..b
  BY <1>0, <1>3, <1>4, <1>5, <1>6
<1>8. append_percent_decoded(list[m]) = {}
  <2>1. a \in 1..Len(str) /\ b \in a..Len(str)
    BY <1>0, <1>6
  <2>2. append_percent_decoded(SubSeq(str, a, b)) = {}
    BY <1>3, <1>7, <2>1, BrokenRefused
  <2>. QED  BY <1>6, <2>2
<1>9. after[n] = {}
  BY <1>0, <1>2, <1>4, <1>8, StoresNothing
<1>. QED  BY <1>2, <1>9

(* Every path is cut up exactly: it is refused only when it is empty or    *)
(* has a broken escape, and else each of its segments is at its index.     *)
THEOREM CutsExactly == PathInit => SegmentsExact
<1> SUFFICES ASSUME PathInit PROVE SegmentsExact
  OBVIOUS
<1>1. PICK str : str = raw /\ str \in Seq(STRING)
  BY RawsAssumption DEF PathInit
<1>2. CASE str = <<>>
  <2>1. parse_path(str) = {}
    BY <1>2 DEF parse_path
  <2>. QED  BY <1>1, <1>2, <2>1 DEF SegmentsExact
<1>3. CASE str # <<>> /\ ~WellFormedEscapes(str)
  <2>1. parse_path(str) = {}
    BY <1>1, <1>3, ParsedNothing
  <2>. QED  BY <1>1, <1>3, <2>1 DEF SegmentsExact
<1>4. CASE str # <<>> /\ WellFormedEscapes(str)
  <2>1. PICK list, st : list = SegmentsOf(Trimmed(str)) /\ Lists(str, list, st, 1)
    BY <1>1, <1>4, PathListed
  <2>2. PICK texts, n : texts = [m \in 1..n |-> TextOf(str, st[m])] /\ n = Len(st)
    OBVIOUS
  <2>3. PICK P : parse_path(str) = {P} /\ Kept(P, texts, n) /\ Len(P.storage) <= Len(str)
    BY <1>1, <1>4, <2>1, <2>2, ParsedTexts
  <2>4. /\ Cardinality(Stretches(str)) = n
        /\ \A s \in Stretches(str) : \E m \in 1..n :
              s = st[m] /\ Cardinality({r \in Stretches(str) : r[2] < s[1]}) = m - 1
    BY <1>1, <2>1, <2>2, ListedAtIndex
  <2>5. Len(P.ranges) = Cardinality(Stretches(str))
    BY <2>3, <2>4 DEF Kept
  <2>6. ASSUME NEW s \in Stretches(str)
        PROVE  get_idx(P, Cardinality({r \in Stretches(str) : r[2] < s[1]})) = TextOf(str, s)
    <3>1. PICK m \in 1..n : s = st[m] /\ Cardinality({r \in Stretches(str) : r[2] < s[1]}) = m - 1
      BY <2>4
    <3>2. m - 1 + 1 = m
      OBVIOUS
    <3>3. get_idx(P, m - 1) = texts[m]
      BY <2>3, <3>2 DEF get_idx, Kept, LiesAt
    <3>4. texts[m] = TextOf(str, s)
      BY <2>2, <3>1
    <3>. QED  BY <3>1, <3>3, <3>4
  <2>7. str # <<>> /\ WellFormedEscapes(str) /\ parse_path(str) # {}
    BY <1>4, <2>3
  <2>. QED  BY <1>1, <2>3, <2>5, <2>6, <2>7 DEF SegmentsExact
<1>. QED  BY <1>2, <1>3, <1>4

(* from_chars reads a positive number exactly where strtol does.           *)
LEMMA BothRead ==
    ASSUME NEW x \in Seq(STRING), NEW v \in 1..IntMax
    PROVE  (AllDigits(x) /\ Numeral(x) = v) <=> from_chars(x) = {v}
<1>0. IntMax \in Nat /\ v \in Nat /\ v # 0 /\ v <= IntMax
  BY WidthsAssumption
<1>1. CASE x # <<>> /\ x[1] = "-"
  <2>1. ~AllDigits(x)
    <3>1. 1 \in DOMAIN x
      <4>1. Len(x) \in Nat /\ Len(x) # 0 /\ DOMAIN x = 1..Len(x)
        <5>1. Len(x) \in Nat /\ DOMAIN x = 1..Len(x)
          BY LenProperties
        <5>2. Len(x) # 0
          BY <1>1, EmptySeq
        <5>. QED  BY <5>1, <5>2
      <4>. QED  BY <4>1
    <3>2. "-" \in ToSet(x)
      BY <1>1, <3>1 DEF ToSet
    <3>. QED  BY <3>2, SignAssumption DEF AllDigits
  <2>2. PICK y : y = Tail(x) /\ y \in Seq(STRING) /\ y # x /\ Unsigned(x) = y
    <3>1. Tail(x) \in Seq(STRING) /\ Len(Tail(x)) = Len(x) - 1 /\ Len(x) \in Nat
      BY <1>1, HeadTailProperties, LenProperties
    <3>2. Tail(x) # x
      <4>1. PICK k : k = Len(x) /\ k \in Nat
        BY <3>1
      <4>2. k - 1 # k
        BY <4>1
      <4>. QED  BY <3>1, <4>1, <4>2
    <3>. QED  BY <1>1, <3>1, <3>2 DEF Unsigned
  <2>3. AllDigits(y) => Numeral(y) \in Nat
    BY <2>2, NumeralIsNat
  <2>4. from_chars(x) = {v} => AllDigits(y) /\ -Numeral(y) = v
    BY <2>2 DEF from_chars
  <2>5. from_chars(x) # {v}
    <3>1. PICK k : k = Numeral(y)
      OBVIOUS
    <3>2. k \in Nat => -k # v
      BY <1>0
    <3>. QED  BY <2>3, <2>4, <3>1, <3>2
  <2>. QED  BY <2>1, <2>5
<1>2. CASE ~(x # <<>> /\ x[1] = "-")
  <2>1. Unsigned(x) = x
    BY <1>2 DEF Unsigned
  <2>2. from_chars(x) = IF AllDigits(x) /\ Numeral(x) \in (-IntMax - 1)..IntMax THEN {Numeral(x)} ELSE {}
    BY <2>1 DEF from_chars
  <2>3. PICK k : k = Numeral(x)
    OBVIOUS
  <2>4. v \in (-IntMax - 1)..IntMax
    BY <1>0
  <2>. QED  BY <2>2, <2>3, <2>4
<1>. QED  BY <1>1, <1>2

LEMMA CheckedIs ==
    ASSUME NEW str \in Seq(STRING), str # <<>>, IsSlash(str, 1), NEW n, NEW v \in 1..IntMax
    PROVE  /\ Found(str, n) \subseteq {<<>>} => appauth_parse_first_number(n, str) # v
           /\ \A x \in Seq(STRING) : Found(str, n) = {x} =>
                 (appauth_parse_first_number(n, str) = v <=> AllDigits(x) /\ Numeral(x) = v)
<1>0. /\ IntMax \in Nat /\ LongMax \in Nat /\ IntMax <= LongMax
      /\ v \in Nat /\ v # 0 /\ v <= IntMax
  BY WidthsAssumption
<1> DEFINE good(s) == AllDigits(s) /\ strtol(s).errno = "0" /\ strtol(s).value <= IntMax
<1>1. appauth_parse_first_number(n, str) =
         IF \E s \in Found(str, n) : good(s) THEN strtol(CHOOSE s \in Found(str, n) : TRUE).value ELSE 0
  BY DEF appauth_parse_first_number, Found, IsSlash
<1>2. ~good(<<>>)
  BY DEF AllDigits
<1>3. ASSUME Found(str, n) \subseteq {<<>>} PROVE appauth_parse_first_number(n, str) # v
  <2>1. appauth_parse_first_number(n, str) = 0
    BY <1>1, <1>2, <1>3
  <2>. QED  BY <1>0, <2>1
<1>4. ASSUME NEW x \in Seq(STRING), Found(str, n) = {x}
      PROVE  appauth_parse_first_number(n, str) = v <=> AllDigits(x) /\ Numeral(x) = v
  <2>1. appauth_parse_first_number(n, str) = IF good(x) THEN strtol(x).value ELSE 0
    BY <1>1, <1>4
  <2>2. PICK k : k = Numeral(x) /\ (AllDigits(x) => k \in Nat)
    BY <1>4, NumeralIsNat
  <2>3. CASE ~AllDigits(x)
    BY <1>0, <2>1, <2>3
  <2>4. CASE AllDigits(x) /\ k > LongMax
    <3>1. strtol(x).errno = "ERANGE"
      BY <2>2, <2>4 DEF strtol
    <3>2. ~good(x)
      BY <3>1
    <3>3. k # v
      BY <1>0, <2>2, <2>4
    <3>. QED  BY <1>0, <2>1, <2>2, <3>2, <3>3
  <2>5. CASE AllDigits(x) /\ ~(k > LongMax)
    <3>1. strtol(x).errno = "0" /\ strtol(x).value = k
      BY <2>2, <2>5 DEF strtol
    <3>2. good(x) <=> k <= IntMax
      BY <2>5, <3>1
    <3>3. k = v => k <= IntMax
      BY <1>0
    <3>4. 0 # v
      BY <1>0
    <3>. QED  BY <2>1, <2>2, <2>5, <3>1, <3>2, <3>3, <3>4
  <2>. QED  BY <2>3, <2>4, <2>5
<1>. QED  BY <1>3, <1>4

LEMMA ReadIs ==
    ASSUME NEW P, NEW list, NEW len \in Nat, len = Len(list), Kept(P, list, len), NEW n \in Nat \ {0}
    PROVE  {r.out : r \in consume_read(P, n - 1)} = IF n <= len THEN from_chars(list[n]) ELSE {}
<1>1. Len(P.ranges) = len
  BY DEF Kept
<1>2. PICK i : i = n - 1 /\ i + 1 = n /\ (i >= len <=> ~(n <= len))
  OBVIOUS
<1>3. CASE ~(n <= len)
  <2>1. consume_read(P, i) = {}
    BY <1>1, <1>2, <1>3 DEF consume_read
  <2>. QED  BY <1>2, <1>3, <2>1
<1>4. CASE n <= len
  <2>1. consume_read(P, i) = {[out |-> value, idx |-> i + 1] : value \in from_chars(get_idx(P, i))}
    BY <1>1, <1>2, <1>4 DEF consume_read
  <2>2. n \in 1..len
    BY <1>4
  <2>3. get_idx(P, i) = list[n]
    BY <1>2, <2>2 DEF get_idx, Kept, LiesAt
  <2>4. {r.out : r \in consume_read(P, i)} = from_chars(list[n])
    <3>1. PICK C, S, k : C = consume_read(P, i) /\ S = from_chars(list[n]) /\ k = i + 1
      OBVIOUS
    <3>2. C = {[out |-> value, idx |-> k] : value \in S}
      BY <2>1, <2>3, <3>1
    <3>3. {r.out : r \in C} = S
      <4>1. \A value \in S : [out |-> value, idx |-> k] \in C /\ [out |-> value, idx |-> k].out = value
        BY <3>2
      <4>2. \A r \in C : r.out \in S
        BY <3>2
      <4>. QED  BY <4>1, <4>2
    <3>. QED  BY <3>1, <3>3
  <2>. QED  BY <1>2, <1>4, <2>4
<1>. QED  BY <1>3, <1>4

(* The hook and a handler read one group, for every path without escapes   *)
(* and empty segments.                                                     *)
THEOREM ReadsGroupChecked == PathInit => GroupCheckedIsGroupRead
<1> SUFFICES ASSUME PathInit, NEW parsed \in parse_path(raw), NEW n \in 1..Len(raw),
                    raw[1] = "/", Escapes(raw) = {},
                    \A i \in 2..Len(raw) : ~(raw[i - 1] = "/" /\ raw[i] = "/"),
                    NEW v \in 1..IntMax
             PROVE  (appauth_parse_first_number(n, raw) = v)
                       = ({r.out : r \in consume_read(parsed, n - 1)} = {v})
  BY DEF GroupCheckedIsGroupRead
<1>1. PICK str : str = raw /\ str \in Seq(STRING)
  BY RawsAssumption DEF PathInit
<1>2. IsSlash(str, 1) /\ Single(str)
  BY <1>1 DEF IsSlash, Single
<1>3. str # <<>>
  <2>1. 1..Len(str) # {}
    BY <1>1
  <2>2. str = <<>> => 1..Len(str) = {}
    BY EmptySeq
  <2>. QED  BY <2>1, <2>2
<1>4. PICK list, len : /\ list = SegmentsOf(Trimmed(str)) /\ list \in Seq(Seq(STRING))
                       /\ Agrees(str, list, 1) /\ len = Len(list) /\ len \in Nat
  BY <1>1, <1>2, <1>3, SegmentsOfPath, LenProperties
<1>5. ASSUME NEW m \in Nat \ {0}
      PROVE  IF m <= len THEN Found(str, m) = {list[m]} /\ list[m] # <<>>
                         ELSE Found(str, m) \subseteq {<<>>}
  <2>1. m >= 1 /\ m - 1 + 1 = m /\ (m - 1 < len <=> m <= len)
    BY <1>4
  <2>. QED  BY <1>4, <2>1 DEF Agrees
<1>6. \A m \in 1..len : Plain(list[m])
  <2> SUFFICES ASSUME NEW m \in 1..len PROVE Plain(list[m])
    OBVIOUS
  <2>1. m \in Nat \ {0} /\ m <= len
    BY <1>4
  <2>2. list[m] \in Found(str, m)
    BY <1>5, <2>1
  <2>3. \A i \in 1..Len(str) : str[i] # "%"
    BY <1>1, LenProperties DEF Escapes
  <2>. QED  BY <1>1, <2>2, <2>3, FoundWithin DEF Plain
<1>7. PICK P : parse_path(str) = {P} /\ Kept(P, list, len)
  <2>1. WellFormedEscapes(str)
    BY <1>1 DEF WellFormedEscapes
  <2>2. PICK st : Lists(str, list, st, 1)
    BY <1>1, <1>3, <1>4, PathListed
  <2>3. PICK texts : texts = [m \in 1..Len(st) |-> TextOf(str, st[m])]
    OBVIOUS
  <2>4. PICK P : parse_path(str) = {P} /\ Kept(P, texts, Len(st))
    BY <1>1, <1>3, <1>4, <2>1, <2>2, <2>3, ParsedTexts
  <2>5. Len(st) = len
    BY <1>4, <2>2 DEF Lists
  <2>6. ASSUME NEW m \in 1..len PROVE texts[m] = list[m]
    <3>1. PICK s : s = st[m] /\ s \in Stretches(str)
      BY <2>2, <2>5, ElementOfSeq DEF Lists
    <3>2. list[m] = SubSeq(str, s[1], s[2]) /\ texts[m] = TextOf(str, s)
      BY <2>2, <2>3, <2>5, <3>1 DEF Lists
    <3>3. append_percent_decoded(list[m]) = {texts[m]}
      BY <1>1, <2>1, <3>1, <3>2, SoundDecoded
    <3>4. append_percent_decoded(list[m]) = {list[m]}
      BY <1>4, <1>6, ElementOfSeq, PlainDecoded
    <3>. QED  BY <3>3, <3>4
  <2>7. Kept(P, list, len)
    BY <2>4, <2>5, <2>6 DEF Kept
  <2>. QED  BY <2>4, <2>7
<1>8. parsed = P
  BY <1>1, <1>7
<1>9. n \in Nat \ {0}
  <2>1. Len(raw) \in Nat
    BY <1>1, LenProperties
  <2>. QED  BY <2>1
<1>10. {r.out : r \in consume_read(P, n - 1)} = IF n <= len THEN from_chars(list[n]) ELSE {}
  BY <1>4, <1>7, <1>9, ReadIs
<1>11. CASE n <= len
  <2>1. Found(str, n) = {list[n]} /\ list[n] \in Seq(STRING)
    <3>1. n \in 1..Len(list)
      BY <1>4, <1>9, <1>11
    <3>. QED  BY <1>4, <1>5, <1>9, <1>11, <3>1, ElementOfSeq
  <2>2. appauth_parse_first_number(n, str) = v <=> AllDigits(list[n]) /\ Numeral(list[n]) = v
    BY <1>1, <1>2, <1>3, <2>1, CheckedIs
  <2>3. (AllDigits(list[n]) /\ Numeral(list[n]) = v) <=> from_chars(list[n]) = {v}
    BY <2>1, BothRead
  <2>. QED  BY <1>1, <1>8, <1>10, <1>11, <2>2, <2>3
<1>12. CASE ~(n <= len)
  <2>1. Found(str, n) \subseteq {<<>>}
    BY <1>5, <1>9, <1>12
  <2>2. appauth_parse_first_number(n, str) # v
    BY <1>1, <1>2, <1>3, <2>1, CheckedIs
  <2>. QED  BY <1>1, <1>8, <1>10, <1>12, <2>2
<1>. QED  BY <1>11, <1>12
=============================================================================
