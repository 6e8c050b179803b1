-------------------------- MODULE FormDecoderProofs --------------------------
(***************************************************************************)
(* For every number of parts, files and bytes: the decoder is well typed,  *)
(* closes every descriptor once, and leaves no temporary file behind but   *)
(* those a field was made to forget.                                       *)
(***************************************************************************)
EXTENDS FormDecoder, SequenceTheorems, TLAPS

LEMMA NewFieldType == NewField \in FieldType
  BY DEF NewField, FieldType

(* A field of a list is replaced by another.                               *)
LEMMA Replaced ==
    ASSUME NEW fs \in Seq(FieldType), NEW i \in 1..Len(fs), NEW r \in FieldType
    PROVE  /\ [fs EXCEPT ![i] = r] \in Seq(FieldType)
           /\ Len([fs EXCEPT ![i] = r]) = Len(fs)
           /\ [fs EXCEPT ![i] = r][i] = r
           /\ \A j \in 1..Len(fs) : j # i => [fs EXCEPT ![i] = r][j] = fs[j]
  BY ExceptSeq

LEMMA Appended ==
    ASSUME NEW fs \in Seq(FieldType)
    PROVE  /\ Append(fs, NewField) \in Seq(FieldType)
           /\ Len(Append(fs, NewField)) = Len(fs) + 1
           /\ \A i \in 1..Len(fs) : Append(fs, NewField)[i] = fs[i]
           /\ Append(fs, NewField)[Len(fs) + 1] = NewField
  BY NewFieldType, AppendProperties

(* The parts of the type invariant.                                        *)
Kinds == {"start", "multipart", "urlencoded", "done", "failed", "disposed", "ended"}

FilesTyped == /\ descriptors \subseteq Files /\ disk \subseteq Files
              /\ orphans \subseteq Files
              /\ content \in [Files -> Seq(Bytes)]

FormTyped == /\ fields \in Seq(FieldType)
             /\ current \in 0..Len(fields)
             /\ inBody \in BOOLEAN /\ (inBody => current # 0)
             /\ gathered \in Seq(Bytes) \cup {NoData}
             /\ inBody => (gathered = NoData <=> fields[current].fd # NoFile)

ReadingTyped == size \in 0..(MaxSize + 1) /\ total \in 0..MaxSize

LEMMA TypeParts ==
    TypeOK <=> phase \in Kinds /\ FilesTyped /\ FormTyped /\ ReadingTyped
  BY DEF TypeOK, Kinds, FilesTyped, FormTyped, ReadingTyped

LEMMA DisposedTyped ==
    ASSUME TypeOK, NEW fs, Disposed(fs)
    PROVE  FilesTyped' /\ FormTyped' /\ ReadingTyped'
<1>1. FilesTyped /\ ReadingTyped
  BY DEF TypeOK, FilesTyped, ReadingTyped
<1>2. FilesTyped'
  BY <1>1 DEF Disposed, FilesTyped
<1>3. fields' = <<>> /\ current' = 0 /\ inBody' = FALSE /\ gathered' = NoData
  BY DEF Disposed
<1>4. fields' \in Seq(FieldType) /\ current' \in 0..Len(fields')
  BY <1>3
<1>5. FormTyped'
  BY <1>3, <1>4 DEF FormTyped
<1>6. ReadingTyped'
  BY <1>1 DEF Disposed, ReadingTyped, reading
<1>. QED
  BY <1>2, <1>5, <1>6

LEMMA GiveUpTyped ==
    ASSUME TypeOK, NEW fs, GiveUp(fs)
    PROVE  TypeOK'
<1>1. FilesTyped' /\ FormTyped' /\ ReadingTyped'
  BY DisposedTyped DEF GiveUp
<1>2. phase' \in Kinds
  BY DEF GiveUp, Kinds
<1>. QED
  BY <1>1, <1>2 DEF TypeOK, Kinds, FilesTyped, FormTyped, ReadingTyped

(* A field becomes a file.                                                 *)
ToFile(fs, i, f) == [fs EXCEPT ![i].fd = f, ![i].tempfilename = f]

LEMMA ToFileFields ==
    ASSUME NEW fs \in Seq(FieldType), NEW i \in 1..Len(fs), NEW f \in Files
    PROVE  /\ ToFile(fs, i, f) \in Seq(FieldType)
           /\ Len(ToFile(fs, i, f)) = Len(fs)
           /\ ToFile(fs, i, f)[i].fd = f /\ ToFile(fs, i, f)[i].tempfilename = f
           /\ \A j \in 1..Len(fs) : j # i => ToFile(fs, i, f)[j] = fs[j]
<1> DEFINE r == [[fs[i] EXCEPT !.fd = f] EXCEPT !.tempfilename = f]
<1>1. fs[i] \in FieldType
  BY ElementOfSeq
<1>2. r \in FieldType /\ r.fd = f /\ r.tempfilename = f
  BY <1>1 DEF FieldType
<1>3. ToFile(fs, i, f) = [fs EXCEPT ![i] = r]
  BY <1>1 DEF ToFile
<1> HIDE DEF r
<1>. QED
  BY <1>2, <1>3, Replaced

LEMMA SaveToTyped ==
    ASSUME TypeOK, NEW fs \in Seq(FieldType), NEW i \in 1..Len(fs),
           phase = "multipart", ~inBody, SaveTo(fs, i)
    PROVE  TypeOK'
<1>1. CASE GiveUp(fs)
  BY <1>1, GiveUpTyped
<1>2. CASE ~GiveUp(fs)
  <2>1. PICK f \in Files \ (disk \cup descriptors) :
          /\ fields' = ToFile(fs, i, f)
          /\ descriptors' = descriptors \cup {f}
          /\ disk' = disk \cup {f}
          /\ content' = [content EXCEPT ![f] = <<>>]
          /\ orphans' = orphans \cup ({fs[i].tempfilename} \ {NoFile})
          /\ current' = i
          /\ UNCHANGED <<phase, gathered, inBody, reading>>
    BY <1>2 DEF SaveTo, ToFile
  <2>2. fs[i].tempfilename \in Files \cup {NoFile}
    <3>1. fs[i] \in FieldType
      BY ElementOfSeq
    <3>. QED  BY <3>1 DEF FieldType
  <2>3. FilesTyped'
    BY <2>1, <2>2 DEF TypeOK, FilesTyped
  <2>4. fields' \in Seq(FieldType) /\ Len(fields') = Len(fs)
    BY <2>1, ToFileFields
  <2>5. current' \in 0..Len(fields')
    BY <2>1, <2>4
  <2>6. FormTyped'
    BY <2>1, <2>4, <2>5 DEF TypeOK, FormTyped
  <2>7. ReadingTyped' /\ phase' \in Kinds
    BY <2>1 DEF TypeOK, ReadingTyped, reading, Kinds
  <2>. QED
    BY <2>3, <2>6, <2>7 DEF TypeOK, Kinds, FilesTyped, FormTyped, ReadingTyped
<1>. QED  BY <1>1, <1>2

(* A field takes a piece of its body, or is closed, or gets its data.      *)
LEMMA FieldTyped ==
    ASSUME FormTyped, inBody
    PROVE  /\ current \in 1..Len(fields)
           /\ fields[current] \in FieldType
<1>1. current \in 1..Len(fields)
  BY LenProperties DEF FormTyped
<1>. QED
  BY <1>1, ElementOfSeq DEF FormTyped

Grown(fs, i, chunk) == [fs EXCEPT ![i].data_len = @ + Len(chunk),
                                  ![i].body = @ \o chunk]

LEMMA GrownFields ==
    ASSUME NEW fs \in Seq(FieldType), NEW i \in 1..Len(fs), NEW chunk \in Seq(Bytes)
    PROVE  /\ Grown(fs, i, chunk) \in Seq(FieldType)
           /\ Len(Grown(fs, i, chunk)) = Len(fs)
           /\ Grown(fs, i, chunk)[i].fd = fs[i].fd
           /\ Grown(fs, i, chunk)[i].tempfilename = fs[i].tempfilename
           /\ Grown(fs, i, chunk)[i].data_len = fs[i].data_len + Len(chunk)
           /\ Grown(fs, i, chunk)[i].body = fs[i].body \o chunk
           /\ \A j \in 1..Len(fs) : j # i => Grown(fs, i, chunk)[j] = fs[j]
<1> DEFINE n == fs[i].data_len + Len(chunk)
           b == fs[i].body \o chunk
           r == [[fs[i] EXCEPT !.data_len = n] EXCEPT !.body = b]
<1>1. fs[i] \in FieldType
  BY ElementOfSeq
<1>2. n \in Nat
  BY <1>1, LenProperties DEF FieldType
<1>3. fs[i].body \in Seq(Bytes)
  BY <1>1 DEF FieldType
<1>4. b \in Seq(Bytes)
  BY <1>3, ConcatProperties
<1>5. Grown(fs, i, chunk) = [fs EXCEPT ![i] = r]
  BY <1>1 DEF Grown, FieldType
<1> HIDE DEF n, b
<1>6. /\ r \in FieldType /\ r.fd = fs[i].fd /\ r.tempfilename = fs[i].tempfilename
      /\ r.data_len = n /\ r.body = b
  BY <1>1, <1>2, <1>4 DEF FieldType
<1> HIDE DEF r
<1>. QED
  BY <1>5, <1>6, Replaced DEF n, b

LEMMA BeginTyped == TypeOK /\ element_begin => TypeOK'
<1> SUFFICES ASSUME TypeOK, element_begin PROVE TypeOK'
  OBVIOUS
<1>1. CASE GiveUp(fields)
  BY <1>1, GiveUpTyped
<1>2. CASE ~GiveUp(fields)
  <2>1. /\ gathered' = IF fields[current].fd = NoFile THEN <<>> ELSE NoData
        /\ inBody' = TRUE /\ current # 0
        /\ UNCHANGED <<phase, fields, current, files, reading>>
    BY <1>2 DEF element_begin
  <2>2. <<>> \in Seq(Bytes) /\ <<>> # NoData
    <3>1. <<>> \in Seq(Bytes)
      OBVIOUS
    <3>. QED  BY <3>1, NoDataAssumption
  <2>3. FilesTyped' /\ ReadingTyped' /\ phase' \in Kinds
    BY <2>1, TypeParts DEF FilesTyped, ReadingTyped, files, reading
  <2>4. FormTyped'
    BY <2>1, <2>2, TypeParts DEF FormTyped
  <2>. QED
    BY <2>3, <2>4 DEF TypeOK, Kinds, FilesTyped, FormTyped, ReadingTyped
<1>. QED  BY <1>1, <1>2

LEMMA ChunkTyped == TypeOK /\ element_chunk => TypeOK'
<1> SUFFICES ASSUME TypeOK, element_chunk PROVE TypeOK'
  OBVIOUS
<1>1. CASE GiveUp(fields)
  BY <1>1, GiveUpTyped
<1>2. CASE ~GiveUp(fields)
  <2>1. PICK chunk \in Chunks(MaxBody - Len(fields[current].body)) :
          \/ /\ fields[current].fd = NoFile
             /\ gathered' = gathered \o chunk
             /\ Received(chunk)
             /\ UNCHANGED <<phase, current, inBody, files, reading>>
          \/ /\ fields[current].fd # NoFile
             /\ content' = [content EXCEPT ![fields[current].fd] = @ \o chunk]
             /\ Received(chunk)
             /\ UNCHANGED <<phase, current, gathered, inBody, descriptors, disk, orphans, reading>>
    BY <1>2 DEF element_chunk
  <2>2. chunk \in Seq(Bytes) /\ Len(chunk) \in Nat
    BY <2>1, LenProperties DEF Chunks
  <2>3. /\ FilesTyped /\ FormTyped /\ ReadingTyped /\ phase \in Kinds /\ inBody
        /\ current \in 1..Len(fields) /\ fields[current] \in FieldType
    BY TypeParts, FieldTyped DEF element_chunk
  <2>5. fields' = Grown(fields, current, chunk)
    BY <2>1 DEF Received, Grown
  <2>6. /\ fields' \in Seq(FieldType) /\ Len(fields') = Len(fields)
        /\ fields'[current].fd = fields[current].fd
    BY <2>2, <2>3, <2>5, GrownFields DEF FormTyped
  <2>7. CASE fields[current].fd = NoFile
    <3>1. gathered \in Seq(Bytes)
      BY <2>3, <2>7 DEF FormTyped
    <3>2. gathered' \in Seq(Bytes)
      BY <2>1, <2>2, <2>7, <3>1, ConcatProperties
    <3>3. FormTyped'
      BY <2>1, <2>3, <2>6, <2>7, <3>2, NoDataAssumption DEF FormTyped
    <3>4. FilesTyped' /\ ReadingTyped' /\ phase' \in Kinds
      BY <2>1, <2>3, <2>7 DEF FilesTyped, ReadingTyped, files, reading
    <3>. QED
      BY <3>3, <3>4 DEF TypeOK, Kinds, FilesTyped, FormTyped, ReadingTyped
  <2>8. CASE fields[current].fd # NoFile
    <3>1. fields[current].fd \in Files
      BY <2>3, <2>8 DEF FieldType
    <3>2. content[fields[current].fd] \o chunk \in Seq(Bytes)
      BY <2>2, <2>3, <3>1 DEF FilesTyped
    <3>3. FilesTyped' /\ ReadingTyped' /\ phase' \in Kinds
      BY <2>1, <2>3, <2>8, <3>2 DEF FilesTyped, ReadingTyped, reading
    <3>4. FormTyped'
      BY <2>1, <2>3, <2>6, <2>8 DEF FormTyped
    <3>. QED
      BY <3>3, <3>4 DEF TypeOK, Kinds, FilesTyped, FormTyped, ReadingTyped
  <2>. QED  BY <2>7, <2>8
<1>. QED  BY <1>1, <1>2

LEMMA EndTyped == TypeOK /\ element_end => TypeOK'
<1> SUFFICES ASSUME TypeOK, element_end PROVE TypeOK'
  OBVIOUS
<1>1. /\ FilesTyped /\ FormTyped /\ ReadingTyped /\ phase \in Kinds /\ inBody
      /\ current \in 1..Len(fields) /\ fields[current] \in FieldType
  BY TypeParts, FieldTyped DEF element_end
<1>2. fields' \in Seq(FieldType) /\ gathered' \in Seq(Bytes) \cup {NoData}
  <2>1. CASE fields[current].fd = NoFile
    <3> DEFINE r == [[fields[current] EXCEPT !.data = gathered]
                                      EXCEPT !.data_len = Len(gathered)]
    <3>1. gathered \in Seq(Bytes) /\ Len(gathered) \in Nat
      BY <1>1, <2>1, LenProperties DEF FormTyped
    <3>2. r \in FieldType
      BY <1>1, <3>1 DEF FieldType
    <3>3. fields' = [fields EXCEPT ![current] = r] /\ gathered' = NoData
      BY <1>1, <2>1 DEF element_end, FormTyped
    <3> HIDE DEF r
    <3>. QED
      BY <1>1, <3>2, <3>3, Replaced DEF FormTyped
  <2>2. CASE fields[current].fd # NoFile
    <3> DEFINE r == [fields[current] EXCEPT !.fd = NoFile]
    <3>1. r \in FieldType
      BY <1>1 DEF FieldType
    <3>2. fields' = [fields EXCEPT ![current] = r] /\ gathered' = gathered
      BY <1>1, <2>2 DEF element_end, FormTyped
    <3> HIDE DEF r
    <3>. QED
      BY <1>1, <3>1, <3>2, Replaced DEF FormTyped
  <2>. QED  BY <2>1, <2>2
<1>3. current' = 0 /\ inBody' = FALSE /\ current' \in 0..Len(fields')
  <2>1. Len(fields') \in Nat
    BY <1>2, LenProperties
  <2>. QED  BY <2>1 DEF element_end
<1>4. FormTyped'
  BY <1>2, <1>3 DEF FormTyped
<1>5. FilesTyped' /\ ReadingTyped' /\ phase' \in Kinds
  BY <1>1 DEF element_end, FilesTyped, ReadingTyped, reading, Kinds
<1>. QED
  BY <1>4, <1>5 DEF TypeOK, Kinds, FilesTyped, FormTyped, ReadingTyped

(* The parser's other callbacks, and the reading.                          *)
LEMMA HeaderTyped ==
    TypeOK /\ (header_with_name \/ header_with_filename_only
               \/ header_type_without_name) => TypeOK'
<1> SUFFICES ASSUME TypeOK,
                    header_with_name \/ header_with_filename_only
                    \/ header_type_without_name
             PROVE  TypeOK'
  OBVIOUS
<1>1. /\ FilesTyped /\ FormTyped /\ ReadingTyped /\ phase = "multipart" /\ ~inBody
      /\ fields \in Seq(FieldType)
  BY TypeParts DEF header_with_name, header_with_filename_only,
                   header_type_without_name, BetweenBodies, FormTyped
<1>2. CASE header_with_name
  <2> DEFINE fs == Append(fields, NewField)
  <2>1. fs \in Seq(FieldType) /\ Len(fs) = Len(fields) + 1 /\ Len(fields) \in Nat
    BY <1>1, Appended, LenProperties
  <2>2. Len(fields) + 1 \in 1..Len(fs)
    BY <2>1
  <2> HIDE DEF fs
  <2>3. CASE GiveUp(fields)
    BY <2>3, GiveUpTyped
  <2>4. CASE SaveTo(fs, Len(fields) + 1)
    BY <1>1, <2>1, <2>2, <2>4, SaveToTyped
  <2>5. CASE /\ fields' = fs /\ current' = Len(fields) + 1
             /\ UNCHANGED <<phase, gathered, inBody, files, reading>>
    <3>1. FilesTyped' /\ ReadingTyped' /\ phase' \in Kinds
      BY <1>1, <2>5 DEF FilesTyped, ReadingTyped, files, reading, Kinds
    <3>2. FormTyped'
      BY <1>1, <2>1, <2>2, <2>5 DEF FormTyped
    <3>. QED
      BY <3>1, <3>2 DEF TypeOK, Kinds, FilesTyped, FormTyped, ReadingTyped
  <2>. QED
    BY <1>2, <2>3, <2>4, <2>5 DEF header_with_name, fs
<1>3. CASE header_with_filename_only
  <2>1. current \in 1..Len(fields)
    BY <1>1, <1>3, LenProperties DEF header_with_filename_only, FormTyped
  <2>. QED
    BY <1>1, <1>3, <2>1, SaveToTyped DEF header_with_filename_only
<1>4. CASE header_type_without_name
  <2>1. current = 0 /\ current' = 0 /\ inBody' = FALSE /\ fields' = <<>>
        /\ gathered' = NoData
    BY <1>1, <1>4 DEF header_type_without_name
  <2>2. fields' \in Seq(FieldType) /\ current' \in 0..Len(fields')
    BY <2>1
  <2>3. FormTyped'
    BY <2>1, <2>2 DEF FormTyped
  <2>4. FilesTyped' /\ ReadingTyped' /\ phase' \in Kinds
    BY <1>1, <1>4 DEF header_type_without_name, FilesTyped, ReadingTyped, reading, Kinds
  <2>. QED
    BY <2>3, <2>4 DEF TypeOK, Kinds, FilesTyped, FormTyped, ReadingTyped
<1>. QED
  BY <1>2, <1>3, <1>4

Reads == read_piece \/ read_buffer_full \/ read_ends

LEMMA OtherTyped ==
    TypeOK /\ (formdecoder_decodefcgirequest \/ stream_fails \/ stream_ends
               \/ Reads \/ formdecoder_dispose) => TypeOK'
<1> SUFFICES ASSUME TypeOK,
                    formdecoder_decodefcgirequest \/ stream_fails \/ stream_ends
                    \/ Reads \/ formdecoder_dispose
             PROVE  TypeOK'
  OBVIOUS
<1>1. CASE GiveUp(fields)
  BY <1>1, GiveUpTyped
<1>2. CASE formdecoder_dispose
  BY <1>2, DisposedTyped DEF formdecoder_dispose, TypeOK, FilesTyped, FormTyped, ReadingTyped
<1>3. CASE read_piece
  BY <1>3, BoundsAssumption DEF read_piece, TypeOK, form, files
<1>4. CASE UNCHANGED <<form, files, reading>> /\ phase' \in Kinds
  BY <1>4 DEF TypeOK, Kinds, form, files, reading
<1>. QED
  BY <1>1, <1>2, <1>3, <1>4
  DEF Reads, Kinds, formdecoder_decodefcgirequest, stream_fails, stream_ends,
      read_buffer_full, read_ends

LEMMA InitTyped == Init => TypeOK
<1> SUFFICES ASSUME Init PROVE TypeOK
  OBVIOUS
<1>1. fields \in Seq(FieldType) /\ current \in 0..Len(fields)
  BY DEF Init
<1>2. content \in [Files -> Seq(Bytes)]
  BY DEF Init
<1>3. FormTyped
  BY <1>1 DEF Init, FormTyped
<1>4. FilesTyped /\ phase \in Kinds
  BY <1>2 DEF Init, FilesTyped, Kinds
<1>5. ReadingTyped
  BY BoundsAssumption DEF Init, ReadingTyped
<1>. QED
  BY <1>3, <1>4, <1>5, TypeParts

LEMMA StepTyped == TypeOK /\ [Next]_vars => TypeOK'
<1> SUFFICES ASSUME TypeOK, [Next]_vars PROVE TypeOK'
  OBVIOUS
<1>1. CASE UNCHANGED vars
  BY <1>1 DEF TypeOK, vars, form, files, reading
<1>2. CASE Next
  BY <1>2, BeginTyped, ChunkTyped, EndTyped, HeaderTyped, OtherTyped DEF Next, Reads
<1>. QED  BY <1>1, <1>2

(* The variables keep their kinds for every form and every body, and a     *)
(* body is gathered in memory exactly if its part has no file.             *)
THEOREM Typed == Spec => []TypeOK
<1>. QED  BY InitTyped, StepTyped, PTL DEF Spec

-----------------------------------------------------------------------------
(***************************************************************************)
(* The inductive invariant: while there is a process, every open           *)
(* descriptor and every file there is belongs to one field, or is an       *)
(* orphan; a field's descriptor is that of its file.                       *)
(***************************************************************************)
Owners(fs) ==
    /\ \A i \in 1..Len(fs) : fs[i].fd \in {NoFile, fs[i].tempfilename}
    /\ \A i, j \in 1..Len(fs) :
          i # j /\ fs[i].tempfilename # NoFile =>
              fs[i].tempfilename # fs[j].tempfilename
    /\ \A i \in 1..Len(fs) : fs[i].tempfilename \notin orphans
    /\ \A i \in 1..Len(fs) : fs[i].tempfilename # NoFile => fs[i].tempfilename \in disk
    /\ \A i \in 1..Len(fs) : fs[i].fd # NoFile => fs[i].fd \in descriptors

Owned(fs) ==
    /\ \A d \in descriptors : d \in orphans \/ \E i \in 1..Len(fs) : fs[i].fd = d
    /\ \A d \in disk : d \in orphans \/ \E i \in 1..Len(fs) : fs[i].tempfilename = d
    /\ orphans \subseteq descriptors /\ orphans \subseteq disk

CurrentOwns == current # 0 => fields[current].fd = fields[current].tempfilename

Given == phase \in {"start", "failed", "disposed", "ended"} =>
             fields = <<>> /\ current = 0

Ownership == /\ Given
             /\ phase # "ended" => Owners(fields) /\ Owned(fields) /\ CurrentOwns

LEMMA InList ==
    ASSUME NEW fs \in Seq(FieldType)
    PROVE  /\ \A fd \in ListOf(fs) : \E i \in 1..Len(fs) : fs[i] = fd
           /\ \A i \in 1..Len(fs) : fs[i] \in ListOf(fs)
<1>1. DOMAIN fs = 1..Len(fs)
  BY LenProperties
<1>. QED  BY <1>1 DEF ListOf

(* What dispose closes and removes is everything but the orphans.          *)
LEMMA DisposedOwned ==
    ASSUME TypeOK, NEW fs \in Seq(FieldType), Owners(fs), Owned(fs), Disposed(fs)
    PROVE  descriptors' = orphans' /\ disk' = orphans' /\ fields' = <<>> /\ current' = 0
<1>1. NoFile \notin descriptors /\ NoFile \notin disk
  BY FilesAssumption DEF TypeOK
<1>2. descriptors \ {fd.fd : fd \in ListOf(fs)} = orphans
  <2>1. \A fd \in ListOf(fs) : fd.fd \notin orphans
    BY <1>1, InList DEF Owners, Owned
  <2>2. \A d \in descriptors \ orphans : \E fd \in ListOf(fs) : fd.fd = d
    BY InList DEF Owned
  <2>. QED  BY <2>1, <2>2 DEF Owned
<1>3. disk \ {fd.tempfilename : fd \in ListOf(fs)} = orphans
  <2>1. \A fd \in ListOf(fs) : fd.tempfilename \notin orphans
    BY InList DEF Owners
  <2>2. \A d \in disk \ orphans : \E fd \in ListOf(fs) : fd.tempfilename = d
    BY InList DEF Owned
  <2>. QED  BY <2>1, <2>2 DEF Owned
<1>. QED
  BY <1>2, <1>3 DEF Disposed

LEMMA GiveUpOwned ==
    ASSUME TypeOK, NEW fs \in Seq(FieldType), Owners(fs), Owned(fs),
           Disposed(fs), phase' \in {"failed", "disposed"}
    PROVE  Ownership'
<1>1. descriptors' = orphans' /\ disk' = orphans' /\ fields' = <<>> /\ current' = 0
  BY DisposedOwned
<1>. QED
  BY <1>1 DEF Ownership, Given, Owners, Owned, CurrentOwns

(* A new field owns nothing.                                               *)
LEMMA NewFieldOwned ==
    ASSUME TypeOK, Owners(fields), Owned(fields)
    PROVE  /\ Append(fields, NewField) \in Seq(FieldType)
           /\ Owners(Append(fields, NewField)) /\ Owned(Append(fields, NewField))
<1> DEFINE fs == Append(fields, NewField)
<1>1. fields \in Seq(FieldType) /\ Len(fields) \in Nat
  BY LenProperties DEF TypeOK
<1>2. /\ fs \in Seq(FieldType)
      /\ Len(fs) = Len(fields) + 1
      /\ \A i \in 1..Len(fields) : fs[i] = fields[i]
      /\ fs[Len(fs)].fd = NoFile /\ fs[Len(fs)].tempfilename = NoFile
  BY <1>1, Appended DEF NewField
<1>3. \A i \in 1..Len(fs) : i = Len(fs) \/ i \in 1..Len(fields)
  BY <1>1, <1>2
<1>4. 1..Len(fields) \subseteq 1..Len(fs)
  BY <1>1, <1>2
<1>5. NoFile \notin orphans
  BY FilesAssumption DEF TypeOK
<1> HIDE DEF fs
<1>6. Owners(fs)
  BY <1>2, <1>3, <1>5 DEF Owners
<1>7. Owned(fs)
  BY <1>2, <1>4 DEF Owned
<1>. QED
  BY <1>2, <1>6, <1>7 DEF fs

(* A field that becomes a file owns the new one, and the one it had is an  *)
(* orphan.                                                                 *)
LEMMA SaveToOwned ==
    ASSUME TypeOK, NEW fs \in Seq(FieldType), NEW i \in 1..Len(fs),
           Owners(fs), Owned(fs), fs[i].fd = fs[i].tempfilename,
           phase = "multipart", SaveTo(fs, i)
    PROVE  Ownership'
<1>1. CASE GiveUp(fs)
  BY <1>1, GiveUpOwned DEF GiveUp
<1>2. CASE ~GiveUp(fs)
  <2> DEFINE t == fs[i].tempfilename
  <2>1. PICK f \in Files \ (disk \cup descriptors) :
          /\ fields' = ToFile(fs, i, f)
          /\ descriptors' = descriptors \cup {f}
          /\ disk' = disk \cup {f}
          /\ orphans' = orphans \cup ({t} \ {NoFile})
          /\ current' = i /\ phase' = phase
    BY <1>2 DEF SaveTo, ToFile
  <2>2. /\ Len(fields') = Len(fs)
        /\ fields'[i].fd = f /\ fields'[i].tempfilename = f
        /\ \A j \in 1..Len(fs) : j # i => fields'[j] = fs[j]
    BY <2>1, ToFileFields
  <2>3. f # NoFile /\ f \notin disk /\ f \notin descriptors /\ f \notin orphans'
    BY <2>1, FilesAssumption DEF Owned, Owners
  <2>4. NoFile \notin descriptors /\ NoFile \notin disk /\ NoFile \notin orphans'
    BY <2>1, FilesAssumption DEF TypeOK
  <2>5. \A j \in 1..Len(fs) : j # i => /\ fs[j].tempfilename \notin orphans'
                                      /\ fs[j].tempfilename # f
    BY <2>1, <2>3, <2>4 DEF Owners
  <2>6. Owners(fields)'
    <3>1. \A j \in 1..Len(fs) : fields'[j].fd \in {NoFile, fields'[j].tempfilename}
      BY <2>2 DEF Owners
    <3>2. \A j, k \in 1..Len(fs) : j # k /\ fields'[j].tempfilename # NoFile =>
             fields'[j].tempfilename # fields'[k].tempfilename
      BY <2>2, <2>5 DEF Owners
    <3>3. \A j \in 1..Len(fs) : fields'[j].tempfilename \notin orphans'
      BY <2>2, <2>3, <2>5
    <3>4. \A j \in 1..Len(fs) :
             /\ fields'[j].tempfilename # NoFile => fields'[j].tempfilename \in disk'
             /\ fields'[j].fd # NoFile => fields'[j].fd \in descriptors'
      BY <2>1, <2>2 DEF Owners
    <3>. QED  BY <2>2, <3>1, <3>2, <3>3, <3>4 DEF Owners
  <2>7. Owned(fields)'
    <3>1. \A d \in descriptors' : d \in orphans' \/ \E j \in 1..Len(fs) : fields'[j].fd = d
      BY <2>1, <2>2, <2>4 DEF Owned
    <3>2. \A d \in disk' : d \in orphans' \/ \E j \in 1..Len(fs) : fields'[j].tempfilename = d
      BY <2>1, <2>2, <2>4 DEF Owned
    <3>3. t # NoFile => t \in descriptors /\ t \in disk
      BY DEF Owners
    <3>4. orphans' \subseteq descriptors' /\ orphans' \subseteq disk'
      BY <2>1, <3>3 DEF Owned
    <3>. QED  BY <2>2, <3>1, <3>2, <3>4 DEF Owned
  <2>8. CurrentOwns' /\ Given'
    BY <2>1, <2>2 DEF CurrentOwns, Given
  <2>. QED  BY <2>6, <2>7, <2>8 DEF Ownership
<1>. QED  BY <1>1, <1>2

(* Steps that leave the fields' files alone.                               *)
LEMMA SameFilesOwned ==
    ASSUME Ownership, Len(fields') = Len(fields),
           \A i \in 1..Len(fields) : /\ fields'[i].fd = fields[i].fd
                                     /\ fields'[i].tempfilename = fields[i].tempfilename,
           current' \in {0, current}, current # 0 => current \in 1..Len(fields),
           UNCHANGED <<descriptors, disk, orphans>>,
           phase # "ended", phase' # "ended", Given'
    PROVE  Ownership'
<1>1. Owners(fields)'
  BY DEF Ownership, Owners
<1>2. Owned(fields)'
  BY DEF Ownership, Owned
<1>3. CurrentOwns'
  BY DEF Ownership, CurrentOwns
<1>. QED  BY <1>1, <1>2, <1>3 DEF Ownership

LEMMA ChunkOwned == TypeOK /\ Ownership /\ element_chunk => Ownership'
<1> SUFFICES ASSUME TypeOK, Ownership, element_chunk PROVE Ownership'
  OBVIOUS
<1>1. /\ fields \in Seq(FieldType) /\ current \in 1..Len(fields)
      /\ Owners(fields) /\ Owned(fields) /\ phase = "multipart"
  BY TypeParts, FieldTyped DEF element_chunk, FormTyped, Ownership
<1>2. CASE GiveUp(fields)
  BY <1>1, <1>2, GiveUpOwned DEF GiveUp
<1>3. CASE ~GiveUp(fields)
  <2>1. PICK chunk \in Chunks(MaxBody - Len(fields[current].body)) :
          /\ Received(chunk)
          /\ UNCHANGED <<phase, current, descriptors, disk, orphans>>
    BY <1>3 DEF element_chunk, files
  <2>2. chunk \in Seq(Bytes)
    BY <2>1 DEF Chunks
  <2>3. fields' = Grown(fields, current, chunk)
    BY <2>1 DEF Received, Grown
  <2>4. /\ Len(fields') = Len(fields)
        /\ fields'[current].fd = fields[current].fd
        /\ fields'[current].tempfilename = fields[current].tempfilename
        /\ \A j \in 1..Len(fields) : j # current => fields'[j] = fields[j]
    BY <1>1, <2>2, <2>3, GrownFields
  <2>5. Given'
    BY <1>1, <2>1 DEF Given
  <2>. QED
    BY <1>1, <2>1, <2>4, <2>5, SameFilesOwned
<1>. QED  BY <1>2, <1>3

(* The end of a part closes its file and keeps its name.                   *)
LEMMA EndOwned == TypeOK /\ Ownership /\ element_end => Ownership'
<1> SUFFICES ASSUME TypeOK, Ownership, element_end PROVE Ownership'
  OBVIOUS
<1>1. /\ fields \in Seq(FieldType) /\ current \in 1..Len(fields)
      /\ fields[current] \in FieldType
      /\ Owners(fields) /\ Owned(fields) /\ CurrentOwns /\ phase = "multipart"
  BY TypeParts, FieldTyped DEF element_end, FormTyped, Ownership
<1>2. phase' = "multipart" /\ current' = 0 /\ UNCHANGED <<disk, orphans>>
  BY <1>1 DEF element_end
<1>3. Given' /\ CurrentOwns'
  BY <1>2 DEF Given, CurrentOwns
<1>4. CASE fields[current].fd = NoFile
  <2> DEFINE r == [[fields[current] EXCEPT !.data = gathered]
                                    EXCEPT !.data_len = Len(gathered)]
  <2>1. gathered \in Seq(Bytes) /\ Len(gathered) \in Nat
    BY <1>4, TypeParts, LenProperties DEF FormTyped, element_end
  <2>2. /\ r \in FieldType /\ r.fd = fields[current].fd
        /\ r.tempfilename = fields[current].tempfilename
    BY <1>1, <2>1 DEF FieldType
  <2>3. fields' = [fields EXCEPT ![current] = r] /\ descriptors' = descriptors
    BY <1>1, <1>4 DEF element_end
  <2> HIDE DEF r
  <2>4. /\ Len(fields') = Len(fields) /\ fields'[current] = r
        /\ \A j \in 1..Len(fields) : j # current => fields'[j] = fields[j]
    BY <1>1, <2>2, <2>3, Replaced
  <2>. QED
    BY <1>1, <1>2, <1>3, <2>2, <2>3, <2>4, SameFilesOwned
<1>5. CASE fields[current].fd # NoFile
  <2> DEFINE r == [fields[current] EXCEPT !.fd = NoFile]
             t == fields[current].tempfilename
  <2>1. /\ r \in FieldType /\ r.fd = NoFile
        /\ r.tempfilename = t
    BY <1>1 DEF FieldType
  <2>2. fields' = [fields EXCEPT ![current] = r]
    BY <1>1, <1>5 DEF element_end
  <2>3. fields[current].fd = t /\ t # NoFile /\ descriptors' = descriptors \ {t}
    BY <1>1, <1>5 DEF element_end, CurrentOwns
  <2> HIDE DEF r
  <2>4. /\ Len(fields') = Len(fields) /\ fields'[current] = r
        /\ \A j \in 1..Len(fields) : j # current => fields'[j] = fields[j]
    BY <1>1, <2>1, <2>2, Replaced
  <2>5. Owners(fields)'
    <3>1. \A j \in 1..Len(fields) : fields'[j].fd \in {NoFile, fields'[j].tempfilename}
      BY <1>1, <2>1, <2>4 DEF Owners
    <3>2. \A j \in 1..Len(fields) : fields'[j].tempfilename = fields[j].tempfilename
      BY <1>1, <2>1, <2>4
    <3>3. \A j \in 1..Len(fields) : fields'[j].fd # NoFile => fields'[j].fd \in descriptors'
      BY <1>1, <2>1, <2>3, <2>4 DEF Owners
    <3>. QED  BY <1>1, <1>2, <2>4, <3>1, <3>2, <3>3 DEF Owners
  <2>6. Owned(fields)'
    <3>1. \A d \in descriptors' : d \in orphans' \/ \E j \in 1..Len(fields) : fields'[j].fd = d
      BY <1>1, <1>2, <2>3, <2>4 DEF Owned
    <3>2. \A d \in disk' : d \in orphans' \/ \E j \in 1..Len(fields) : fields'[j].tempfilename = d
      BY <1>1, <1>2, <2>1, <2>4 DEF Owned
    <3>3. t \notin orphans
      BY <1>1 DEF Owners
    <3>. QED  BY <1>1, <1>2, <2>3, <2>4, <3>1, <3>2, <3>3 DEF Owned
  <2>. QED  BY <1>3, <2>5, <2>6 DEF Ownership
<1>. QED  BY <1>4, <1>5

LEMMA HeaderOwned ==
    TypeOK /\ Ownership /\ (header_with_name \/ header_with_filename_only
                            \/ header_type_without_name) => Ownership'
<1> SUFFICES ASSUME TypeOK, Ownership,
                    header_with_name \/ header_with_filename_only
                    \/ header_type_without_name
             PROVE  Ownership'
  OBVIOUS
<1>1. /\ fields \in Seq(FieldType) /\ Len(fields) \in Nat /\ phase = "multipart"
      /\ current \in 0..Len(fields)
      /\ Owners(fields) /\ Owned(fields) /\ CurrentOwns
  BY LenProperties DEF TypeOK, Ownership, header_with_name, header_with_filename_only,
                       header_type_without_name, BetweenBodies
<1>2. CASE header_with_name
  <2> DEFINE fs == Append(fields, NewField)
             n == Len(fields) + 1
  <2>1. fs \in Seq(FieldType) /\ Owners(fs) /\ Owned(fs)
    BY <1>1, NewFieldOwned
  <2>2. n \in 1..Len(fs) /\ Len(fs) = n
    BY <1>1, Appended
  <2>3. fs[n].fd = NoFile /\ fs[n].tempfilename = NoFile
    BY <1>1, Appended DEF NewField
  <2> HIDE DEF fs, n
  <2>4. CASE GiveUp(fields)
    BY <1>1, <2>4, GiveUpOwned DEF GiveUp
  <2>5. CASE SaveTo(fs, n)
    BY <1>1, <2>1, <2>2, <2>3, <2>5, SaveToOwned
  <2>6. CASE /\ fields' = fs /\ current' = n
             /\ UNCHANGED <<phase, gathered, inBody, files, reading>>
    <3>1. UNCHANGED <<phase, descriptors, disk, orphans>>
      BY <2>6 DEF files
    <3>2. Owners(fields)' /\ Owned(fields)'
      BY <2>1, <2>6, <3>1 DEF Owners, Owned
    <3>3. CurrentOwns' /\ Given'
      BY <1>1, <2>3, <2>6 DEF CurrentOwns, Given
    <3>. QED  BY <3>2, <3>3 DEF Ownership
  <2>. QED
    BY <1>2, <2>4, <2>5, <2>6 DEF header_with_name, fs, n
<1>3. CASE header_with_filename_only
  <2>1. current \in 1..Len(fields)
    BY <1>1, <1>3 DEF header_with_filename_only
  <2>. QED
    BY <1>1, <1>3, <2>1, SaveToOwned DEF header_with_filename_only, CurrentOwns
<1>4. CASE header_type_without_name
  BY <1>4 DEF header_type_without_name, Ownership, Given
<1>. QED
  BY <1>2, <1>3, <1>4

LEMMA OtherOwned ==
    TypeOK /\ Ownership /\ (formdecoder_decodefcgirequest \/ element_begin
            \/ stream_fails \/ stream_ends \/ Reads \/ formdecoder_dispose)
        => Ownership'
<1> SUFFICES ASSUME TypeOK, Ownership,
                    formdecoder_decodefcgirequest \/ element_begin
                    \/ stream_fails \/ stream_ends \/ Reads \/ formdecoder_dispose
             PROVE  Ownership'
  OBVIOUS
<1>1. /\ fields \in Seq(FieldType)
      /\ phase \in {"start", "multipart", "urlencoded", "done"}
      /\ Owners(fields) /\ Owned(fields) /\ CurrentOwns
  BY DEF TypeOK, Ownership, Reads, BetweenBodies, formdecoder_decodefcgirequest,
         element_begin, stream_fails, stream_ends, read_piece, read_buffer_full,
         read_ends, formdecoder_dispose
<1>2. CASE Disposed(fields) /\ phase' \in {"failed", "disposed"}
  BY <1>1, <1>2, GiveUpOwned
<1>3. CASE /\ UNCHANGED <<fields, current, descriptors, disk, orphans>>
           /\ \/ phase' \in {"multipart", "urlencoded", "done"}
              \/ phase = "start"
  <2>1. Owners(fields)' /\ Owned(fields)' /\ CurrentOwns'
    BY <1>1, <1>3 DEF Owners, Owned, CurrentOwns
  <2>2. Given'
    BY <1>3 DEF Ownership, Given
  <2>. QED  BY <2>1, <2>2 DEF Ownership
<1>4. formdecoder_decodefcgirequest \/ element_begin \/ stream_ends \/ read_piece
      => \/ UNCHANGED <<fields, current, descriptors, disk, orphans>>
            /\ (phase' \in {"multipart", "urlencoded", "done"} \/ phase = "start")
         \/ GiveUp(fields)
  BY DEF formdecoder_decodefcgirequest, element_begin, stream_ends, read_piece,
         BetweenBodies, form, files
<1>5. stream_fails \/ read_buffer_full \/ read_ends
      => \/ UNCHANGED <<fields, current, descriptors, disk, orphans>> /\ phase' = "done"
         \/ GiveUp(fields)
  BY DEF stream_fails, read_buffer_full, read_ends, form, files
<1>6. formdecoder_dispose => Disposed(fields) /\ phase' = "disposed"
  BY DEF formdecoder_dispose
<1>7. GiveUp(fields) => Disposed(fields) /\ phase' = "failed"
  BY DEF GiveUp
<1>. QED
  BY <1>2, <1>3, <1>4, <1>5, <1>6, <1>7 DEF Reads

LEMMA InitOwned == Init => Ownership
  BY DEF Init, Ownership, Given, Owners, Owned, CurrentOwns

LEMMA StepOwned == TypeOK /\ Ownership /\ [Next]_vars => Ownership'
<1> SUFFICES ASSUME TypeOK, Ownership, [Next]_vars PROVE Ownership'
  OBVIOUS
<1>1. CASE UNCHANGED vars
  BY <1>1 DEF Ownership, Given, Owners, Owned, CurrentOwns, vars, form, files, reading
<1>2. CASE Next
  BY <1>2, ChunkOwned, EndOwned, HeaderOwned, OtherOwned DEF Next, Reads
<1>. QED  BY <1>1, <1>2

LEMMA AlwaysOwned == Spec => [](TypeOK /\ Ownership)
<1>1. Init => TypeOK /\ Ownership
  BY InitTyped, InitOwned
<1>2. (TypeOK /\ Ownership) /\ [Next]_vars => (TypeOK /\ Ownership)'
  BY StepTyped, StepOwned
<1>. QED  BY <1>1, <1>2, PTL DEF Spec

(* However a form's decoding ends, but for the end of the process, its     *)
(* context leaves no temporary file and no descriptor behind, except those *)
(* of a part that was given a second file.                                 *)
THEOREM LeavesNothing == Spec => []NothingLeftBehind
<1>1. TypeOK /\ Ownership => NothingLeftBehind
  <2> SUFFICES ASSUME Ownership, phase \in {"failed", "disposed"}
               PROVE  descriptors = orphans /\ disk = orphans
    BY DEF NothingLeftBehind
  <2>1. fields = <<>> /\ Owned(fields)
    BY DEF Ownership, Given
  <2>2. \A i \in 1..Len(fields) : FALSE
    BY <2>1
  <2>. QED  BY <2>1, <2>2 DEF Owned
<1>. QED  BY <1>1, AlwaysOwned, PTL

(* No descriptor is closed by a field that does not own it: neither twice  *)
(* by one field nor by two.                                                *)
THEOREM ClosesItsOwn == Spec => []OwnsWhatItCloses
<1>1. TypeOK /\ Ownership => OwnsWhatItCloses
  <2> SUFFICES ASSUME TypeOK, Ownership PROVE OwnsWhatItCloses
    OBVIOUS
  <2>1. DOMAIN fields = 1..Len(fields)
    BY LenProperties DEF TypeOK
  <2>2. CASE phase = "ended"
    BY <2>2 DEF Ownership, Given, OwnsWhatItCloses
  <2>3. CASE phase # "ended"
    BY <2>1, <2>3 DEF Ownership, Owners, OwnsWhatItCloses
  <2>. QED  BY <2>2, <2>3
<1>. QED  BY <1>1, AlwaysOwned, PTL

-----------------------------------------------------------------------------
(* Where the body of a field is, at every moment: what was received so far *)
(* is counted, it is in the field's file, or gathered while it arrives and *)
(* the field's data after that, and nothing of it was received before the  *)
(* parser is inside it.                                                    *)
WholeField(i) ==
    LET field == fields[i]
    IN  /\ field.data_len = Len(field.body)
        /\ field.tempfilename # NoFile => content[field.tempfilename] = field.body
        /\ field.tempfilename = NoFile /\ i # current => field.data = field.body
        /\ field.tempfilename = NoFile /\ i = current /\ inBody => gathered = field.body
        /\ i = current /\ ~inBody => field.body = <<>> /\ field.data = NoData

WholeFields == \A i \in 1..Len(fields) : WholeField(i)

(* The urlencoded body that was read; and no form is handed over inside a  *)
(* part's body.                                                            *)
WholeRead ==
    /\ total # 0 => /\ phase \in {"urlencoded", "failed", "done", "disposed"}
                    /\ phase \in {"done", "disposed"} => total = size /\ total < MaxSize
    /\ inBody => phase = "multipart"

WholeInv == TypeOK /\ Ownership /\ WholeFields

(* A field that the parser is not at keeps its body.                       *)
LEMMA OtherFieldWhole ==
    ASSUME NEW i, WholeField(i), i # current, i # current', fields'[i] = fields[i],
           fields[i].tempfilename # NoFile =>
               content'[fields[i].tempfilename] = content[fields[i].tempfilename]
    PROVE  WholeField(i)'
  BY DEF WholeField

(* A step after which there are no fields.                                 *)
LEMMA NoFieldsWhole ==
    ASSUME fields' = <<>>
    PROVE  WholeFields'
  BY DEF WholeFields

LEMMA NewFieldWhole ==
    ASSUME NEW i, NEW fs, fs[i] = NewField, fields' = fs, current' = i, ~inBody'
    PROVE  WholeField(i)'
<1>1. /\ NewField.data_len = 0 /\ NewField.body = <<>> /\ NewField.data = NoData
      /\ NewField.tempfilename = NoFile
  BY DEF NewField
<1>. QED  BY <1>1 DEF WholeField

(* The field that becomes a file has no body yet, and its file is empty    *)
(* and nobody else's.                                                      *)
LEMMA SaveToWhole ==
    ASSUME TypeOK, NEW fs \in Seq(FieldType), NEW i \in 1..Len(fs),
           Owners(fs), phase = "multipart", ~inBody, SaveTo(fs, i),
           fs[i].body = <<>>, fs[i].data = NoData, fs[i].data_len = 0,
           \A j \in 1..Len(fs) : j # i => fs[j] = fields[j] /\ j # current /\ WholeField(j)
    PROVE  WholeFields'
<1>1. CASE GiveUp(fs)
  BY <1>1, NoFieldsWhole DEF GiveUp, Disposed
<1>2. CASE ~GiveUp(fs)
  <2>1. PICK f \in Files \ (disk \cup descriptors) :
          /\ fields' = ToFile(fs, i, f)
          /\ content' = [content EXCEPT ![f] = <<>>]
          /\ current' = i /\ inBody' = inBody
    BY <1>2 DEF SaveTo, ToFile
  <2>2. /\ Len(fields') = Len(fs)
        /\ fields'[i].tempfilename = f
        /\ \A j \in 1..Len(fs) : j # i => fields'[j] = fs[j]
    BY <2>1, ToFileFields
  <2>3. fields'[i].body = <<>> /\ fields'[i].data = NoData /\ fields'[i].data_len = 0
    <3>1. fs[i] \in FieldType
      BY ElementOfSeq
    <3>2. fields'[i] = [[fs[i] EXCEPT !.fd = f] EXCEPT !.tempfilename = f]
      BY <2>1, <3>1, LenProperties DEF ToFile
    <3>. QED  BY <3>1, <3>2 DEF FieldType
  <2>4. content \in [Files -> Seq(Bytes)]
    BY DEF TypeOK
  <2>5. content'[f] = <<>> /\ \A g \in Files : g # f => content'[g] = content[g]
    BY <2>1, <2>4
  <2>6. WholeField(i)'
    BY <2>1, <2>2, <2>3, <2>5, FilesAssumption DEF WholeField
  <2>7. ASSUME NEW j \in 1..Len(fs), j # i PROVE WholeField(j)'
    <3>1. fs[j].tempfilename # NoFile =>
              fs[j].tempfilename # f /\ fs[j].tempfilename \in Files
      BY <2>1 DEF Owners, TypeOK
    <3>. QED  BY <2>1, <2>2, <2>5, <2>7, <3>1, OtherFieldWhole
  <2>. QED  BY <2>2, <2>6, <2>7 DEF WholeFields
<1>. QED  BY <1>1, <1>2

LEMMA HeaderWhole ==
    WholeInv /\ (header_with_name \/ header_with_filename_only \/ header_type_without_name)
        => WholeFields'
<1> SUFFICES ASSUME WholeInv, header_with_name \/ header_with_filename_only
                              \/ header_type_without_name
             PROVE  WholeFields'
  OBVIOUS
<1>1. /\ TypeOK /\ fields \in Seq(FieldType) /\ Len(fields) \in Nat
      /\ current \in 0..Len(fields) /\ phase = "multipart" /\ ~inBody
      /\ Owners(fields) /\ Owned(fields) /\ WholeFields
  BY LenProperties DEF WholeInv, TypeOK, Ownership, header_with_name, BetweenBodies,
                       header_with_filename_only, header_type_without_name
<1>2. CASE header_with_name
  <2>. PICK fs, n : fs = Append(fields, NewField) /\ n = Len(fields) + 1
    OBVIOUS
  <2>1. fs \in Seq(FieldType) /\ Owners(fs)
    BY <1>1, NewFieldOwned
  <2>2. /\ n \in 1..Len(fs) /\ Len(fs) = n /\ fs[n] = NewField
        /\ \A j \in 1..Len(fields) : fs[j] = fields[j]
    BY <1>1, Appended
  <2>3. \A j \in 1..n : j # n => j \in 1..Len(fields)
    BY <1>1
  <2>4. CASE GiveUp(fields)
    BY <2>4, NoFieldsWhole DEF GiveUp, Disposed
  <2>5. CASE ~GiveUp(fields)
    <3>1. /\ current = 0
          /\ \/ SaveTo(fs, n)
             \/ /\ fields' = fs /\ current' = n
                /\ UNCHANGED <<phase, gathered, inBody, files, reading>>
      BY <1>2, <2>5 DEF header_with_name
    <3>2. \A j \in 1..Len(fs) :
             j # n => fs[j] = fields[j] /\ j # current /\ WholeField(j)
      BY <1>1, <2>2, <2>3, <3>1 DEF WholeFields
    <3>3. fs[n].body = <<>> /\ fs[n].data = NoData /\ fs[n].data_len = 0
      BY <2>2 DEF NewField
    <3>4. CASE SaveTo(fs, n)
      BY <1>1, <2>1, <2>2, <3>2, <3>3, <3>4, SaveToWhole
    <3>5. CASE /\ fields' = fs /\ current' = n
               /\ UNCHANGED <<phase, gathered, inBody, files, reading>>
      <4>1. WholeField(n)'
        BY <1>1, <2>2, <3>5, NewFieldWhole
      <4>2. content' = content
        BY <3>5 DEF files
      <4>3. ASSUME NEW j \in 1..Len(fs), j # n PROVE WholeField(j)'
        BY <3>2, <3>5, <4>2, <4>3, OtherFieldWhole
      <4>. QED  BY <2>2, <3>5, <4>1, <4>3 DEF WholeFields
    <3>. QED  BY <3>1, <3>4, <3>5
  <2>. QED  BY <2>4, <2>5
<1>3. CASE header_with_filename_only
  <2>1. current \in 1..Len(fields) /\ SaveTo(fields, current)
    BY <1>1, <1>3 DEF header_with_filename_only
  <2>2. /\ fields[current].body = <<>> /\ fields[current].data = NoData
        /\ fields[current].data_len = 0
    BY <1>1, <2>1 DEF WholeFields, WholeField
  <2>. QED  BY <1>1, <2>1, <2>2, SaveToWhole DEF WholeFields
<1>4. CASE header_type_without_name
  BY <1>4, NoFieldsWhole DEF header_type_without_name
<1>. QED  BY <1>2, <1>3, <1>4

LEMMA BeginWhole == WholeInv /\ element_begin => WholeFields'
<1> SUFFICES ASSUME WholeInv, element_begin PROVE WholeFields'
  OBVIOUS
<1>1. CASE GiveUp(fields)
  BY <1>1, NoFieldsWhole DEF GiveUp, Disposed
<1>2. CASE ~GiveUp(fields)
  <2>1. /\ gathered' = IF fields[current].fd = NoFile THEN <<>> ELSE NoData
        /\ inBody' = TRUE /\ ~inBody /\ current # 0 /\ phase = "multipart"
        /\ UNCHANGED <<fields, current, content>>
    BY <1>2 DEF element_begin, BetweenBodies, files
  <2>2. fields[current].fd = fields[current].tempfilename
    BY <2>1 DEF WholeInv, Ownership, CurrentOwns
  <2>. QED  BY <2>1, <2>2 DEF WholeInv, WholeFields, WholeField
<1>. QED  BY <1>1, <1>2

LEMMA ChunkWhole == WholeInv /\ element_chunk => WholeFields'
<1> SUFFICES ASSUME WholeInv, element_chunk PROVE WholeFields'
  OBVIOUS
<1>1. /\ fields \in Seq(FieldType) /\ current \in 1..Len(fields)
      /\ fields[current] \in FieldType /\ phase = "multipart" /\ inBody
      /\ Owners(fields) /\ WholeFields /\ content \in [Files -> Seq(Bytes)]
      /\ fields[current].fd = fields[current].tempfilename
  BY TypeParts, FieldTyped DEF WholeInv, element_chunk, FormTyped, Ownership, CurrentOwns,
                               FilesTyped
<1>2. CASE GiveUp(fields)
  BY <1>2, NoFieldsWhole DEF GiveUp, Disposed
<1>3. CASE ~GiveUp(fields)
  <2> DEFINE t == fields[current].tempfilename
  <2>1. PICK chunk \in Chunks(MaxBody - Len(fields[current].body)) :
          /\ Received(chunk)
          /\ UNCHANGED <<current, inBody>>
          /\ \/ t = NoFile /\ gathered' = gathered \o chunk /\ content' = content
             \/ /\ t # NoFile /\ gathered' = gathered
                /\ content' = [content EXCEPT ![t] = @ \o chunk]
    BY <1>1, <1>3 DEF element_chunk, files
  <2>2. chunk \in Seq(Bytes)
    BY <2>1 DEF Chunks
  <2>3. fields' = Grown(fields, current, chunk)
    BY <2>1 DEF Received, Grown
  <2>4. /\ Len(fields') = Len(fields)
        /\ fields'[current].tempfilename = t
        /\ fields'[current].data_len = fields[current].data_len + Len(chunk)
        /\ fields'[current].body = fields[current].body \o chunk
        /\ \A j \in 1..Len(fields) : j # current => fields'[j] = fields[j]
    BY <1>1, <2>2, <2>3, GrownFields
  <2>5. WholeField(current)
    BY <1>1 DEF WholeFields
  <2>6. fields'[current].data_len = Len(fields'[current].body)
    <3>1. fields[current].body \in Seq(Bytes)
      BY <1>1 DEF FieldType
    <3>2. Len(fields[current].body \o chunk) = Len(fields[current].body) + Len(chunk)
      BY <2>2, <3>1, ConcatProperties
    <3>. QED  BY <2>4, <2>5, <3>2 DEF WholeField
  <2>7. t # NoFile => /\ t \in Files /\ content'[t] = content[t] \o chunk
                      /\ \A g \in Files : g # t => content'[g] = content[g]
    BY <1>1, <2>1 DEF FieldType
  <2>8. WholeField(current)'
    BY <1>1, <2>1, <2>4, <2>5, <2>6, <2>7 DEF WholeField
  <2>9. ASSUME NEW j \in 1..Len(fields), j # current PROVE WholeField(j)'
    <3>1. fields[j].tempfilename # NoFile =>
              fields[j].tempfilename # t /\ fields[j].tempfilename \in Files
      <4>1. fields[j] \in FieldType
        BY <1>1, ElementOfSeq
      <4>2. fields[j].tempfilename # NoFile => fields[j].tempfilename # t
        BY <1>1, <2>9 DEF Owners
      <4>. QED  BY <4>1, <4>2 DEF FieldType
    <3>2. fields[j].tempfilename # NoFile =>
              content'[fields[j].tempfilename] = content[fields[j].tempfilename]
      BY <2>1, <2>7, <3>1
    <3>. QED  BY <1>1, <2>1, <2>4, <2>9, <3>2, OtherFieldWhole DEF WholeFields
  <2>. QED  BY <2>1, <2>4, <2>8, <2>9 DEF WholeFields
<1>. QED  BY <1>2, <1>3

LEMMA EndWhole == WholeInv /\ element_end => WholeFields'
<1> SUFFICES ASSUME WholeInv, element_end PROVE WholeFields'
  OBVIOUS
<1>1. /\ fields \in Seq(FieldType) /\ current \in 1..Len(fields)
      /\ fields[current] \in FieldType /\ phase = "multipart" /\ inBody
      /\ WholeFields /\ fields[current].fd = fields[current].tempfilename
  BY TypeParts, FieldTyped DEF WholeInv, element_end, FormTyped, Ownership, CurrentOwns
<1>2. content' = content /\ current' = 0
  BY DEF element_end
<1>3. \A j \in 1..Len(fields) : j # 0
  OBVIOUS
<1>4. WholeField(current)
  BY <1>1 DEF WholeFields
<1>5. /\ Len(fields') = Len(fields) /\ fields'[current].body = fields[current].body
      /\ fields'[current].tempfilename = fields[current].tempfilename
      /\ fields'[current].data_len = Len(fields[current].body)
      /\ fields[current].tempfilename = NoFile => fields'[current].data = fields[current].body
      /\ \A j \in 1..Len(fields) : j # current => fields'[j] = fields[j]
  <2>1. CASE fields[current].fd = NoFile
    <3> DEFINE r == [[fields[current] EXCEPT !.data = gathered]
                                      EXCEPT !.data_len = Len(gathered)]
    <3>1. gathered = fields[current].body /\ gathered \in Seq(Bytes) /\ Len(gathered) \in Nat
      BY <1>1, <1>4, <2>1, LenProperties DEF WholeField, FieldType
    <3>2. /\ r \in FieldType /\ r.tempfilename = fields[current].tempfilename
          /\ r.body = gathered /\ r.data = gathered /\ r.data_len = Len(gathered)
      BY <1>1, <3>1 DEF FieldType
    <3>3. fields' = [fields EXCEPT ![current] = r]
      BY <1>1, <2>1 DEF element_end
    <3> HIDE DEF r
    <3>. QED  BY <1>1, <3>1, <3>2, <3>3, Replaced
  <2>2. CASE fields[current].fd # NoFile
    <3> DEFINE r == [fields[current] EXCEPT !.fd = NoFile]
    <3>1. /\ r \in FieldType /\ r.tempfilename = fields[current].tempfilename
          /\ r.body = fields[current].body /\ r.data_len = fields[current].data_len
      BY <1>1 DEF FieldType
    <3>2. fields' = [fields EXCEPT ![current] = r]
      BY <1>1, <2>2 DEF element_end
    <3>3. fields[current].data_len = Len(fields[current].body)
      BY <1>4 DEF WholeField
    <3> HIDE DEF r
    <3>. QED  BY <1>1, <2>2, <3>1, <3>2, <3>3, Replaced
  <2>. QED  BY <2>1, <2>2
<1>6. ASSUME NEW j \in 1..Len(fields), j = current PROVE WholeField(j)'
  BY <1>1, <1>2, <1>3, <1>4, <1>5, <1>6 DEF WholeField
<1>7. ASSUME NEW j \in 1..Len(fields), j # current PROVE WholeField(j)'
  BY <1>1, <1>2, <1>3, <1>5, <1>7, OtherFieldWhole DEF WholeFields
<1>. QED  BY <1>5, <1>6, <1>7 DEF WholeFields

LEMMA FieldsWholeStep == WholeInv /\ [Next]_vars => WholeFields'
<1> SUFFICES ASSUME WholeInv, [Next]_vars PROVE WholeFields'
  OBVIOUS
<1>1. CASE Disposed(fields)
  BY <1>1, NoFieldsWhole DEF Disposed
<1>2. CASE UNCHANGED <<fields, current, gathered, inBody, content>>
  BY <1>2 DEF WholeInv, WholeFields, WholeField
<1>3. CASE formdecoder_decodefcgirequest \/ stream_fails \/ stream_ends \/ Reads
           \/ formdecoder_dispose \/ UNCHANGED vars
  <2>1. Disposed(fields) \/ UNCHANGED <<fields, current, gathered, inBody, content>>
    BY <1>3 DEF formdecoder_decodefcgirequest, stream_fails, stream_ends, Reads,
                read_piece, read_buffer_full, read_ends, formdecoder_dispose, GiveUp,
                vars, form, files
  <2>. QED  BY <1>1, <1>2, <2>1
<1>. QED
  BY <1>3, HeaderWhole, BeginWhole, ChunkWhole, EndWhole DEF Next, Reads

LEMMA ReadWholeStep == TypeOK /\ WholeRead /\ [Next]_vars => WholeRead'
<1> SUFFICES ASSUME TypeOK, WholeRead, [Next]_vars PROVE WholeRead'
  OBVIOUS
<1> USE DEF WholeRead, reading, form
<1>1. CASE header_with_name \/ header_with_filename_only \/ header_type_without_name
           \/ stream_fails \/ stream_ends
  <2>1. \A fs : GiveUp(fs) => UNCHANGED reading /\ ~inBody'
    BY DEF GiveUp, Disposed
  <2>2. ASSUME NEW fs, NEW i, ~inBody, SaveTo(fs, i) PROVE UNCHANGED reading /\ ~inBody'
    <3>1. CASE GiveUp(fs)
      BY <2>1, <3>1
    <3>2. CASE ~GiveUp(fs)
      <4>1. UNCHANGED <<phase, gathered, inBody, reading>>
        BY <2>2, <3>2, Zenon DEF SaveTo
      <4>. QED  BY <2>2, <4>1
    <3>. QED  BY <3>1, <3>2
  <2>3. phase = "multipart" /\ UNCHANGED reading /\ ~inBody'
    BY <1>1, <2>1, <2>2 DEF header_with_name, header_with_filename_only, BetweenBodies,
                            header_type_without_name, stream_fails, stream_ends
  <2>. QED  BY <2>3
<1>8. CASE element_begin \/ element_chunk \/ element_end
  <2>1. /\ phase = "multipart" /\ UNCHANGED reading
        /\ phase' = phase \/ ~inBody'
    BY <1>8 DEF element_begin, element_chunk, element_end, BetweenBodies, GiveUp, Disposed
  <2>. QED  BY <2>1
<1>2. CASE formdecoder_decodefcgirequest
  BY <1>2 DEF formdecoder_decodefcgirequest
<1>3. CASE read_piece
  BY <1>3 DEF read_piece
<1>4. CASE read_buffer_full
  BY <1>4 DEF read_buffer_full, GiveUp, Disposed
<1>5. CASE read_ends
  BY <1>5 DEF read_ends, GiveUp, Disposed
<1>6. CASE formdecoder_dispose
  BY <1>6 DEF formdecoder_dispose, Disposed
<1>7. CASE UNCHANGED vars
  BY <1>7 DEF vars
<1>. QED
  BY <1>1, <1>2, <1>3, <1>4, <1>5, <1>6, <1>7, <1>8 DEF Next

(* What formdecoder_decodefcgirequest hands to its caller is the whole     *)
(* form: every part's body, in memory or in its file, in whatever pieces   *)
(* the parser called back with, and an urlencoded body read to its end     *)
(* with room for a terminator.                                             *)
THEOREM HandsOverWholeForms == Spec => []FormsAreWhole
<1>1. Init => WholeFields /\ WholeRead
  BY DEF Init, WholeFields, WholeRead
<1>2. TypeOK /\ Ownership /\ (WholeFields /\ WholeRead) /\ [Next]_vars
          => (WholeFields /\ WholeRead)'
  BY FieldsWholeStep, ReadWholeStep DEF WholeInv
<1>3. TypeOK /\ WholeFields /\ WholeRead => FormsAreWhole
  <2> SUFFICES ASSUME TypeOK, WholeFields, WholeRead PROVE FormsAreWhole
    OBVIOUS
  <2>1. DOMAIN fields = 1..Len(fields)
    BY LenProperties DEF TypeOK
  <2>2. phase = "done" => ~inBody
    BY DEF WholeRead
  <2>. QED  BY <2>1, <2>2 DEF FormsAreWhole, WholeFields, WholeField, WholeRead
<1>. QED  BY <1>1, <1>2, <1>3, AlwaysOwned, PTL DEF Spec
=============================================================================
