------------------------------ MODULE HttpClient ------------------------------
(***************************************************************************)
(* One POST and its answer: http_post, write_callback and                  *)
(* http_response_free in src/httpclient.c.                                 *)
(*                                                                         *)
(* libcurl is external.  It hands the body of the answer to write_callback *)
(* in pieces of any size and gives up when the callback does not take a    *)
(* piece whole.  The answer's length is known to it (a Content-Length, or  *)
(* chunks with an end), so it does not take a broken connection for the    *)
(* end of a body.                                                          *)
(***************************************************************************)
EXTENDS Naturals, Sequences

CONSTANTS Octets,       \* what bodies are made of
          MaxResponse   \* MAX_RESPONSE_SIZE

ASSUME MaxResponseAssumption == MaxResponse \in Nat

VARIABLES doing,    \* "idle", "performing", "returned" (0) or "failed" (-1)
          sent,     \* the body of the answer, as the server sends it
          taken,    \* how much of it write_callback has taken
          buffer,   \* ResponseBuffer, and then response->data
          held      \* what the latest call has allocated and nobody freed

httpVars == <<doing, sent, taken, buffer, held>>

-----------------------------------------------------------------------------
HttpInit == /\ doing = "idle"
            /\ sent = <<>> /\ taken = 0 /\ buffer = <<>>
            /\ held = {}

(* Everything up to curl_easy_perform; the server will answer with body.   *)
http_post(body) == /\ doing = "idle"
                   /\ doing' = "performing"
                   /\ sent' = body /\ taken' = 0 /\ buffer' = <<>>
                   /\ held' = {"curl", "headers", "text"}

(* No handle, or no list of headers: the text of the header stays behind.  *)
http_post_fails_early == /\ doing = "idle"
                         /\ doing' = "failed"
                         /\ sent' = <<>> /\ taken' = 0 /\ buffer' = <<>>
                         /\ held' \in {{}, {"text"}}

Pieces == {SubSeq(sent, taken + 1, taken + n) : n \in 1..(Len(sent) - taken)}

(* A piece arrives that fits, and realloc succeeds.                        *)
write_callback_truncates ==
    /\ doing = "performing"
    /\ \E piece \in Pieces : /\ buffer' = IF Len(buffer \o piece) <= MaxResponse
                                           THEN buffer \o piece
                                           ELSE SubSeq(buffer \o piece, 1, MaxResponse)
                             /\ taken' = taken + Len(piece)
    /\ held' = held \cup {"data"}
    /\ UNCHANGED <<doing, sent>>

write_callback_off_by_one ==
    /\ doing = "performing"
    /\ \E piece \in Pieces : /\ Len(piece) <= MaxResponse + 1 - Len(buffer)
                             /\ buffer' = buffer \o piece
                             /\ taken' = taken + Len(piece)
    /\ held' = held \cup {"data"}
    /\ UNCHANGED <<doing, sent>>

write_callback_counts_terminator ==
    /\ doing = "performing"
    /\ \E piece \in Pieces : /\ Len(piece) <= MaxResponse - Len(buffer)
                             /\ buffer' = buffer \o piece
                             /\ taken' = taken + Len(piece) + 1
    /\ held' = held \cup {"data"}
    /\ UNCHANGED <<doing, sent>>

write_callback ==
    /\ doing = "performing"
    /\ \E piece \in Pieces : /\ Len(piece) <= MaxResponse - Len(buffer)
                             /\ buffer' = buffer \o piece
                             /\ taken' = taken + Len(piece)
    /\ held' = held \cup {"data"}
    /\ UNCHANGED <<doing, sent>>

(* curl_easy_perform fails: a piece was not taken, as it did not fit or    *)
(* realloc failed, the connection broke, or the time was up.  Or it        *)
(* succeeds and there is no memory for the content type.  The list of      *)
(* headers stays behind.                                                   *)
perform_fails_keeps_data == /\ doing = "performing"
                            /\ doing' = "failed"
                            /\ buffer' = <<>>
                            /\ held' = held \ {"curl", "text"}
                            /\ UNCHANGED <<sent, taken>>

perform_fails == /\ doing = "performing"
                 /\ doing' = "failed"
                 /\ buffer' = <<>>
                 /\ held' = held \ {"curl", "text", "data"}
                 /\ UNCHANGED <<sent, taken>>

(* The whole body has been taken.  The content type is kept if the status  *)
(* is 200 and there is one, memory permitting.                             *)
perform_ends ==
    /\ doing = "performing" /\ taken = Len(sent)
    /\ doing' = "returned"
    /\ \E type \in {{}, {"type"}} : held' = (held \ {"curl", "text", "headers"}) \cup type
    /\ UNCHANGED <<sent, taken, buffer>>

(* The caller is done with the answer.                                     *)
http_response_free == /\ doing \in {"returned", "failed"}
                      /\ doing' = "idle"
                      /\ held' = held \ {"data", "type"}
                      /\ sent' = <<>> /\ taken' = 0 /\ buffer' = <<>>

-----------------------------------------------------------------------------
(* Type invariant.                                                         *)
HttpTypeOK == /\ doing \in {"idle", "performing", "returned", "failed"}
              /\ sent \in Seq(Octets) /\ buffer \in Seq(Octets)
              /\ taken \in 0..Len(sent)
              /\ held \subseteq {"curl", "headers", "text", "data", "type"}

(* What http_post returns 0 with is the body whole, in whatever pieces it  *)
(* came, and never more than MAX_RESPONSE_SIZE of it: an answer that is    *)
(* too large is refused and not cut off.  MAX_RESPONSE_SIZE - buf->length  *)
(* does not wrap around on the way.                                        *)
AnswersAreWhole == /\ Len(buffer) <= MaxResponse
                   /\ doing = "returned" => buffer = sent

(* Whichever step of a call fails, the handle and the body are freed, and  *)
(* a caller that frees the response it got has freed everything but the    *)
(* headers of a call that failed.                                          *)
OnlyHeadersLeak == /\ doing = "idle" => held \subseteq {"headers", "text"}
                   /\ doing = "failed" => held \subseteq {"headers", "text"}
                   /\ doing = "returned" => /\ held \subseteq {"data", "type"}
                                            /\ buffer # <<>> => "data" \in held
=============================================================================
