----------------------------- MODULE FormDecoder -----------------------------
(***************************************************************************)
(* The decoding of one posted form, and what becomes of its temporary      *)
(* files: src/formdecoder_fastcgi.c reads the body of the request, and     *)
(* src/formdecoder.c takes what the MIME parser finds in it.               *)
(*                                                                         *)
(* The parser is external.  It calls back for every header of a part, at   *)
(* the beginning of the part's body, for every piece of it and at its end, *)
(* and stops at the first callback that does not return 0.                 *)
(***************************************************************************)
EXTENDS Naturals, Sequences, FiniteSets

CONSTANTS Bytes,      \* what bodies are made of
          Files,      \* temporary files, each with the descriptor it is
                      \* written through
          NoFile,     \* no name of a file, or -1 for a descriptor
          NoData,     \* the null pointer for a field's data
          MaxFields, MaxBody,  \* bounds: parts of a form, bytes of a part
          MaxSize     \* max_size, for an urlencoded body

ASSUME FilesAssumption == NoFile \notin Files
ASSUME NoDataAssumption == NoData \notin Seq(Bytes)
ASSUME BoundsAssumption == MaxFields \in Nat /\ MaxBody \in Nat /\ MaxSize \in Nat

VARIABLES phase,     \* "start", "multipart", "urlencoded", "done", "failed",
                     \* "disposed", or "ended" with the process
          fields,    \* the fields, in the order of their parts; body is a
                     \* history of what the parser has called back with
          current,   \* the index of current_field, 0 for null
          gathered,  \* current_field_data
          inBody,    \* the parser is inside the body of a part
          descriptors, \* the open descriptors of temporary files
          disk,      \* the temporary files there are
          content,   \* what was written to them
          orphans,   \* history: files whose field forgot them
          size, total  \* an urlencoded body, and bytes_read_total

form == <<fields, current, gathered, inBody>>
files == <<descriptors, disk, content, orphans>>
reading == <<size, total>>
vars == <<phase, form, files, reading>>

NewField == [fd |-> NoFile, tempfilename |-> NoFile, data |-> NoData,
             data_len |-> 0, body |-> <<>>]

ListOf(fs) == {fs[i] : i \in DOMAIN fs}

-----------------------------------------------------------------------------
Init == /\ phase = "start"
        /\ fields = <<>> /\ current = 0 /\ gathered = NoData /\ inBody = FALSE
        /\ descriptors = {} /\ disk = {} /\ orphans = {}
        /\ content = [f \in Files |-> <<>>]
        /\ size \in 0..(MaxSize + 1) /\ total = 0

(* formdecoder_dispose: every field's descriptor is closed, its file       *)
(* removed.                                                                *)
DisposedKeepsFiles(fs) ==
    /\ descriptors' = descriptors \ {fd.fd : fd \in ListOf(fs)}
    /\ fields' = <<>> /\ current' = 0 /\ gathered' = NoData /\ inBody' = FALSE
    /\ UNCHANGED <<disk, content, orphans, reading>>

Disposed(fs) ==
    /\ descriptors' = descriptors \ {fd.fd : fd \in ListOf(fs)}
    /\ disk' = disk \ {fd.tempfilename : fd \in ListOf(fs)}
    /\ fields' = <<>> /\ current' = 0 /\ gathered' = NoData /\ inBody' = FALSE
    /\ UNCHANGED <<content, orphans, reading>>

(* A callback returns -1, and the decoder gives up: error_rb, error_mi and *)
(* error_fd.                                                               *)
GiveUp(fs) == phase' = "failed" /\ Disposed(fs)

(* Method and content type.                                                *)
formdecoder_decodefcgirequest ==
    /\ phase = "start"
    /\ phase' \in {"multipart", "urlencoded", "failed"}
    /\ UNCHANGED <<form, files, reading>>

(***************************************************************************)
(* MIMED_EVENT_HEADER                                                      *)
(***************************************************************************)
BetweenBodies == phase = "multipart" /\ ~inBody

(* The file part of a Content-Disposition header, for field i of fs:       *)
(* mkstemp makes a file, or fails.                                         *)
SaveTo(fs, i) ==
    \/ \E f \in Files \ (disk \cup descriptors) :
          /\ fields' = [fs EXCEPT ![i].fd = f, ![i].tempfilename = f]
          /\ descriptors' = descriptors \cup {f}
          /\ disk' = disk \cup {f}
          /\ content' = [content EXCEPT ![f] = <<>>]
          /\ orphans' = orphans \cup ({fs[i].tempfilename} \ {NoFile})
          /\ current' = i
          /\ UNCHANGED <<phase, gathered, inBody, reading>>
    \/ GiveUp(fs)

(* Content-Disposition: form-data with a name, for a field or a file.      *)
header_with_name ==
    /\ BetweenBodies
    /\ IF current # 0 THEN GiveUp(fields)
       ELSE /\ Len(fields) < MaxFields
            /\ \/ SaveTo(Append(fields, NewField), Len(fields) + 1)
               \/ /\ fields' = Append(fields, NewField)
                  /\ current' = Len(fields) + 1
                  /\ UNCHANGED <<phase, gathered, inBody, files, reading>>

(* The same without a name but with a filename: it is the current field    *)
(* that becomes a file, or another file.                                   *)
header_with_filename_only ==
    /\ BetweenBodies /\ current # 0
    /\ SaveTo(fields, current)

(* Content-Type before any Content-Disposition goes through a null         *)
(* current_field, and the process ends there.  After one it only sets      *)
(* mime_type.                                                              *)
header_type_without_name ==
    /\ BetweenBodies /\ current = 0
    /\ phase' = "ended"
    /\ descriptors' = {} /\ fields' = <<>> /\ gathered' = NoData
    /\ UNCHANGED <<current, inBody, disk, content, orphans, reading>>

(***************************************************************************)
(* MIMED_EVENT_ELEMENT_BEGIN, _CHUNK and _END                              *)
(***************************************************************************)
element_begin_always_gathers ==
    /\ BetweenBodies
    /\ IF current = 0 \/ gathered # NoData THEN GiveUp(fields)
       ELSE /\ gathered' = <<>>
            /\ inBody' = TRUE
            /\ UNCHANGED <<phase, fields, current, files, reading>>

element_begin ==
    /\ BetweenBodies
    /\ IF current = 0 \/ gathered # NoData THEN GiveUp(fields)
       ELSE /\ gathered' = IF fields[current].fd = NoFile THEN <<>> ELSE NoData
            /\ inBody' = TRUE
            /\ UNCHANGED <<phase, fields, current, files, reading>>

Chunks(n) == UNION {[1..k -> Bytes] : k \in 1..n}

(* The field counts and keeps a piece of its body.                         *)
Received(chunk) ==
    fields' = [fields EXCEPT ![current].data_len = @ + Len(chunk),
                             ![current].body = @ \o chunk]

element_chunk_write_unchecked ==
    /\ phase = "multipart" /\ inBody
    /\ \E chunk \in Chunks(MaxBody - Len(fields[current].body)) :
          \/ /\ fields[current].fd = NoFile
             /\ gathered' = gathered \o chunk
             /\ Received(chunk)
             /\ UNCHANGED <<phase, current, inBody, files, reading>>
          \/ /\ fields[current].fd # NoFile
             /\ \E k \in 0..Len(chunk) :
                   content' = [content EXCEPT ![fields[current].fd] = @ \o SubSeq(chunk, 1, k)]
             /\ Received(chunk)
             /\ UNCHANGED <<phase, current, gathered, inBody, descriptors, disk, orphans, reading>>

element_chunk ==
    /\ phase = "multipart" /\ inBody
    /\ \E chunk \in Chunks(MaxBody - Len(fields[current].body)) :
          \/ /\ fields[current].fd = NoFile
             /\ gathered' = gathered \o chunk
             /\ Received(chunk)
             /\ UNCHANGED <<phase, current, inBody, files, reading>>
          \/ /\ fields[current].fd # NoFile
             /\ content' = [content EXCEPT ![fields[current].fd] = @ \o chunk]
             /\ Received(chunk)
             /\ UNCHANGED <<phase, current, gathered, inBody, descriptors, disk, orphans, reading>>
          \/ (* a short write *)
             fields[current].fd # NoFile /\ GiveUp(fields)

element_end_keeps_fd ==
    /\ phase = "multipart" /\ inBody
    /\ IF fields[current].fd = NoFile
       THEN /\ fields' = [fields EXCEPT ![current].data = gathered,
                                        ![current].data_len = Len(gathered)]
            /\ gathered' = NoData
            /\ UNCHANGED descriptors
       ELSE /\ descriptors' = descriptors \ {fields[current].fd}
            /\ UNCHANGED <<fields, gathered>>
    /\ current' = 0 /\ inBody' = FALSE
    /\ UNCHANGED <<phase, disk, content, orphans, reading>>

element_end ==
    /\ phase = "multipart" /\ inBody
    /\ IF fields[current].fd = NoFile
       THEN /\ fields' = [fields EXCEPT ![current].data = gathered,
                                        ![current].data_len = Len(gathered)]
            /\ gathered' = NoData
            /\ UNCHANGED descriptors
       ELSE /\ fields' = [fields EXCEPT ![current].fd = NoFile]
            /\ descriptors' = descriptors \ {fields[current].fd}
            /\ UNCHANGED gathered
    /\ current' = 0 /\ inBody' = FALSE
    /\ UNCHANGED <<phase, disk, content, orphans, reading>>

(* The body breaks off, is too large or is no MIME body, also in the       *)
(* opinion of mimedecoder_finalise.                                        *)
stream_fails == phase = "multipart" /\ GiveUp(fields)

(* mimedecoder_finalise returns 0 and the caller gets the fields.          *)
stream_ends == /\ BetweenBodies
               /\ phase' = "done"
               /\ UNCHANGED <<form, files, reading>>

(***************************************************************************)
(* formdecoder_decodefcgirequest_urlencoded                                *)
(***************************************************************************)
read_piece ==
    /\ phase = "urlencoded" /\ total < MaxSize /\ total < size
    /\ \E n \in 1..(MaxSize - total) : total + n <= size /\ total' = total + n
    /\ UNCHANGED <<phase, form, files, size>>

read_buffer_full == /\ phase = "urlencoded" /\ total = MaxSize
                    /\ GiveUp(fields)

(* FCGX_GetStr returns 0: the body is terminated in the buffer and         *)
(* decoded, which may fail.                                                *)
read_ends_unchecked == /\ phase = "urlencoded" /\ total = size
                       /\ \/ GiveUp(fields)
                          \/ phase' = "done" /\ UNCHANGED <<form, files, reading>>

read_ends == /\ phase = "urlencoded" /\ total < MaxSize /\ total = size
             /\ \/ GiveUp(fields)
                \/ phase' = "done" /\ UNCHANGED <<form, files, reading>>

(* The caller is done with the form.                                       *)
formdecoder_dispose == /\ phase = "done"
                       /\ phase' = "disposed"
                       /\ Disposed(fields)

Next == \/ formdecoder_decodefcgirequest
        \/ header_with_name \/ header_with_filename_only \/ header_type_without_name
        \/ element_begin \/ element_chunk \/ element_end
        \/ stream_fails \/ stream_ends
        \/ read_piece \/ read_buffer_full \/ read_ends
        \/ formdecoder_dispose

Spec == Init /\ [][Next]_vars

-----------------------------------------------------------------------------
FieldType == [fd : Files \cup {NoFile}, tempfilename : Files \cup {NoFile},
              data : Seq(Bytes) \cup {NoData}, data_len : Nat, body : Seq(Bytes)]

(* Type invariant.                                                         *)
TypeOK == /\ phase \in {"start", "multipart", "urlencoded", "done", "failed",
                        "disposed", "ended"}
          /\ fields \in Seq(FieldType)
          /\ current \in 0..Len(fields)
          /\ inBody \in BOOLEAN /\ (inBody => current # 0)
          /\ gathered \in Seq(Bytes) \cup {NoData}
          /\ inBody => (gathered = NoData <=> fields[current].fd # NoFile)
          /\ descriptors \subseteq Files /\ disk \subseteq Files /\ orphans \subseteq Files
          /\ content \in [Files -> Seq(Bytes)]
          /\ size \in 0..(MaxSize + 1) /\ total \in 0..MaxSize

(* Whatever a form looks like and wherever its decoding breaks off, when   *)
(* the context is gone its temporary files are closed and removed, but for *)
(* the file of a part that a second Content-Disposition header, with a     *)
(* filename and no name, made the field forget.                            *)
NothingLeftBehind ==
    phase \in {"failed", "disposed"} => descriptors = orphans /\ disk = orphans

(* A descriptor is closed once: a field that still names one owns it, and  *)
(* shares it with no other field, so that dispose cannot close a number    *)
(* that has meanwhile become another file's or connection's.               *)
OwnsWhatItCloses ==
    /\ \A i \in DOMAIN fields : fields[i].fd # NoFile => fields[i].fd \in descriptors
    /\ \A i, j \in DOMAIN fields :
          i # j /\ fields[i].tempfilename # NoFile =>
              fields[i].tempfilename # fields[j].tempfilename

(* A form that is handed to the caller is whole, whatever pieces it came   *)
(* in and whichever writes failed on the way: every field's body is in     *)
(* memory or in its file, and an urlencoded body was read to its end and   *)
(* leaves room in the buffer for the terminator that is written after it.  *)
FormsAreWhole ==
    /\ phase = "done" =>
          \A i \in DOMAIN fields :
             LET field == fields[i]
             IN  /\ field.data_len = Len(field.body)
                 /\ \/ field.tempfilename # NoFile /\ content[field.tempfilename] = field.body
                    \/ field.tempfilename = NoFile /\ field.data = field.body
                    \/ field.data = NoData /\ field.body = <<>>
    /\ phase \in {"done", "disposed"} /\ total # 0 => total = size /\ total < MaxSize
=============================================================================
