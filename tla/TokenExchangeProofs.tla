-------------------------- MODULE TokenExchangeProofs --------------------------
(***************************************************************************)
(* The code exchange over the HTTP client: it does what CodeCache says of  *)
(* an exchange, answers are whole, and so are the tokens that are kept,    *)
(* for any codes, bodies, limit of the answer's size and times.            *)
(***************************************************************************)
EXTENDS TokenExchange, CodeCacheProofs

USE MaxResponseAssumption, BodiesAssumption, NoCodeAssumption, TimesAssumption

(* The two ends of a beginning.                                            *)
LEMMA TakeMore ==
    ASSUME NEW S, NEW s \in Seq(S), NEW m \in 0..Len(s), NEW n \in 1..(Len(s) - m)
    PROVE  SubSeq(s, 1, m) \o SubSeq(s, m + 1, m + n) = SubSeq(s, 1, m + n)
<1> DEFINE a == SubSeq(s, 1, m)
           b == SubSeq(s, m + 1, m + n)
           c == SubSeq(s, 1, m + n)
<1>1. /\ a \in Seq(S) /\ Len(a) = m
      /\ \A i \in 1..m : a[i] = s[i]
  OBVIOUS
<1>2. /\ b \in Seq(S) /\ Len(b) = n
      /\ \A i \in 1..n : b[i] = s[m + i]
  OBVIOUS
<1>3. /\ c \in Seq(S) /\ Len(c) = m + n
      /\ \A i \in 1..(m + n) : c[i] = s[i]
  OBVIOUS
<1>4. /\ a \o b \in Seq(S) /\ Len(a \o b) = m + n
      /\ \A i \in 1..(m + n) : (a \o b)[i] = IF i <= m THEN a[i] ELSE b[i - m]
  BY <1>1, <1>2
<1>5. \A i \in 1..(m + n) : (a \o b)[i] = c[i]
  BY <1>1, <1>2, <1>3, <1>4
<1>. QED  BY <1>3, <1>4, <1>5

-----------------------------------------------------------------------------
(* Every step of the exchange is one of CodeCache's, or none of its        *)
(* business.                                                               *)
LEMMA ImplementsStep == [ExchangeNext]_exchangeVars => [CacheNext]_cacheVars
<1> SUFFICES ASSUME [ExchangeNext]_exchangeVars PROVE [CacheNext]_cacheVars
  OBVIOUS
<1>1. CASE UNCHANGED exchangeVars
  BY <1>1 DEF exchangeVars
<1>2. CASE Elsewhere
  BY <1>2 DEF Elsewhere, CacheNext
<1>3. CASE Hit
  BY <1>3 DEF Hit, CacheNext
<1>4. CASE Miss
  BY <1>4 DEF Miss, CacheNext
<1>5. CASE Performing
  BY <1>5 DEF Performing
<1>6. CASE TokenTaken \/ NoTokenTaken \/ NothingTaken
  BY <1>6 DEF TokenTaken, NoTokenTaken, NothingTaken, PostReturns, CacheNext
<1>7. CASE ExchangeCrash
  BY <1>7 DEF ExchangeCrash, CacheNext
<1>. QED  BY <1>1, <1>2, <1>3, <1>4, <1>5, <1>6, <1>7 DEF ExchangeNext

(* The exchange over the HTTP client implements the code cache: whatever   *)
(* http_post does in between, get_tokens_from_microsoft treats its cache   *)
(* as CodeCache says.                                                      *)
THEOREM ImplementsCodeCache == ExchangeSpec => CacheSpec
<1>1. ExchangeInit => CacheInit
  BY DEF ExchangeInit
<1>. QED  BY <1>1, ImplementsStep, PTL DEF ExchangeSpec, CacheSpec

LEMMA CacheInvStays == ExchangeSpec => []CacheInv
BY ImplementsCodeCache, CacheInvHolds, PTL

(* A call-back that is repeated within the life of its entry is answered   *)
(* from the cache, whatever the calls of http_post go through.             *)
THEOREM ExchangeReload == ExchangeSpec => []ReloadStillWorks
BY ImplementsCodeCache, Reload, PTL

(* A redeemed code is posted again only when its token is lost.            *)
THEOREM ExchangeRepeatedAfterLoss == ExchangeSpec => []RepeatedOnlyAfterLoss
BY ImplementsCodeCache, RepeatedAfterLoss, PTL

-----------------------------------------------------------------------------
LEMMA PiecesAre ==
    ASSUME HttpTypeOK, NEW piece \in Pieces
    PROVE  \E n \in 1..(Len(sent) - taken) :
              /\ piece = SubSeq(sent, taken + 1, taken + n)
              /\ piece \in Seq(Octets) /\ Len(piece) = n
<1>1. PICK n \in 1..(Len(sent) - taken) : piece = SubSeq(sent, taken + 1, taken + n)
  BY DEF Pieces
<1>2. SubSeq(sent, taken + 1, taken + n) \in Seq(Octets)
      /\ Len(SubSeq(sent, taken + 1, taken + n)) = n
  BY DEF HttpTypeOK
<1>. QED  BY <1>1, <1>2

LEMMA ExchangeTypeStep ==
    ExchangeTypeOK /\ [ExchangeNext]_exchangeVars => ExchangeTypeOK'
<1> SUFFICES ASSUME ExchangeTypeOK, [ExchangeNext]_exchangeVars PROVE ExchangeTypeOK'
  OBVIOUS
<1>0. CacheTypeOK'
  BY ImplementsStep, CacheTypeStep DEF ExchangeTypeOK
<1> USE DEF ExchangeTypeOK, HttpTypeOK, httpVars, cacheVars, historyVars
<1>1. CASE UNCHANGED exchangeVars
  BY <1>0, <1>1 DEF exchangeVars
<1>2. CASE Elsewhere
  BY <1>0, <1>2 DEF Elsewhere, CacheTick, IssueCode
<1>3. CASE Hit
  BY <1>0, <1>3 DEF Hit, get_tokens_hit
<1>4. CASE Miss
  <2>1. PICK c \in Codes :
           /\ get_tokens_miss(c)
           /\ \/ /\ \E body \in OtherBodies : http_post(body)
                 /\ UNCHANGED given
              \/ /\ codes[c] = "fresh"
                 /\ \E body \in TokenBodies : /\ http_post(body)
                                              /\ given' = [given EXCEPT ![c] = body]
              \/ http_post_fails_early /\ UNCHANGED given
           /\ UNCHANGED token
    BY <1>4 DEF Miss
  <2>2. posting' = c /\ c # NoCode
    BY <2>1 DEF get_tokens_miss
  <2>3. CASE \E body \in OtherBodies : http_post(body) /\ UNCHANGED given
    BY <1>0, <2>1, <2>2, <2>3 DEF http_post
  <2>4. CASE \E body \in TokenBodies : /\ http_post(body)
                                       /\ given' = [given EXCEPT ![c] = body]
    BY <1>0, <2>1, <2>2, <2>4 DEF http_post
  <2>5. CASE http_post_fails_early /\ UNCHANGED given
    BY <1>0, <2>1, <2>2, <2>5 DEF http_post_fails_early
  <2>. QED  BY <2>1, <2>3, <2>4, <2>5
<1>5. CASE Performing
  <2>1. CASE write_callback
    <3>1. PICK piece \in Pieces : buffer' = buffer \o piece /\ taken' = taken + Len(piece)
      BY <2>1 DEF write_callback
    <3>2. PICK n \in 1..(Len(sent) - taken) : piece \in Seq(Octets) /\ Len(piece) = n
      BY <3>1, PiecesAre
    <3>. QED  BY <1>0, <1>5, <2>1, <3>1, <3>2 DEF Performing, write_callback
  <2>2. CASE perform_ends
    <3>1. held' \subseteq held \cup {"type"}
      BY <2>2 DEF perform_ends
    <3>. QED  BY <1>0, <1>5, <2>2, <3>1 DEF Performing, perform_ends
  <2>3. CASE perform_fails
    <3>1. held' \subseteq held /\ buffer' = <<>>
      BY <2>3 DEF perform_fails
    <3>. QED  BY <1>0, <1>5, <2>3, <3>1 DEF Performing, perform_fails
  <2>. QED  BY <1>5, <2>1, <2>2, <2>3 DEF Performing
<1>6. CASE TokenTaken
  <2>1. posting \in Codes /\ buffer \in TokenBodies
    BY <1>6 DEF TokenTaken, get_tokens_token, CacheTypeOK
  <2>2. token' \in [Codes -> TokenBodies \cup {NoBody}]
    BY <1>6, <2>1 DEF TokenTaken
  <2>3. posting' = NoCode
    BY <1>6 DEF TokenTaken, get_tokens_token
  <2>. QED  BY <1>0, <1>6, <2>2, <2>3 DEF TokenTaken, http_response_free
<1>7. CASE NoTokenTaken
  BY <1>0, <1>7 DEF NoTokenTaken, get_tokens_no_token, http_response_free
<1>8. CASE NothingTaken
  BY <1>0, <1>8 DEF NothingTaken, get_tokens_fails, http_response_free
<1>9. CASE ExchangeCrash
  BY <1>0, <1>9 DEF ExchangeCrash, CacheCrash
<1>. QED  BY <1>1, <1>2, <1>3, <1>4, <1>5, <1>6, <1>7, <1>8, <1>9 DEF ExchangeNext

(* Every reachable state of the exchange is well typed, and a call of      *)
(* http_post is under way exactly for the code that is being exchanged.    *)
THEOREM ExchangeTypeCorrect == ExchangeSpec => []ExchangeTypeOK
<1>1. ExchangeInit => ExchangeTypeOK
  BY DEF ExchangeInit, ExchangeTypeOK, HttpInit, HttpTypeOK, CacheInit, CacheTypeOK
<1>. QED  BY <1>1, ExchangeTypeStep, PTL DEF ExchangeSpec

-----------------------------------------------------------------------------
(* What has been received is a beginning of what the server sends, and all *)
(* of it once the call has returned.                                       *)
Received == /\ doing \in {"performing", "returned"} => buffer = SubSeq(sent, 1, taken)
            /\ doing = "returned" => taken = Len(sent)
            /\ doing \in {"idle", "failed"} => buffer = <<>>

(* What a call has allocated at each point of it.                          *)
Allocated == /\ doing = "performing" => held \subseteq {"curl", "headers", "text", "data"}
             /\ doing = "performing" /\ buffer # <<>> => "data" \in held
             /\ OnlyHeadersLeak

(* A body that is a token's, and is on its way or here, is the one given   *)
(* for the code that is being exchanged; kept tokens stay what they were.  *)
TokensInOrder == /\ CachedTokensAreWhole
                 /\ doing \in {"performing", "returned"} /\ sent \in TokenBodies =>
                        given[posting] = sent

ExchangeInv == /\ ExchangeTypeOK /\ CacheInv
               /\ Received /\ Len(buffer) <= MaxResponse
               /\ Allocated /\ TokensInOrder

LEMMA ReceivedStep ==
    ExchangeInv /\ [ExchangeNext]_exchangeVars => Received' /\ (Len(buffer) <= MaxResponse)'
<1> SUFFICES ASSUME ExchangeInv, [ExchangeNext]_exchangeVars
             PROVE  Received' /\ (Len(buffer) <= MaxResponse)'
  OBVIOUS
<1> USE DEF ExchangeInv, Received, ExchangeTypeOK, HttpTypeOK, httpVars
<1>1. CASE UNCHANGED httpVars
  BY <1>1
<1>2. CASE write_callback
  <2>1. PICK piece \in Pieces : /\ buffer' = buffer \o piece /\ taken' = taken + Len(piece)
                                /\ Len(piece) <= MaxResponse - Len(buffer)
    BY <1>2 DEF write_callback
  <2>2. PICK n \in 1..(Len(sent) - taken) :
           /\ piece = SubSeq(sent, taken + 1, taken + n)
           /\ piece \in Seq(Octets) /\ Len(piece) = n
    BY <2>1, PiecesAre
  <2>3. doing = "performing" /\ UNCHANGED <<doing, sent>>
    BY <1>2 DEF write_callback
  <2>4. buffer' = SubSeq(sent, 1, taken + n)
    BY <2>1, <2>2, <2>3, TakeMore
  <2>5. Len(buffer') = Len(buffer) + n
    BY <2>1, <2>2
  <2>6. Received'
    BY <2>1, <2>2, <2>3, <2>4
  <2>7. Len(buffer') <= MaxResponse
    BY <2>1, <2>2, <2>5
  <2>. QED  BY <2>6, <2>7
<1>3. CASE perform_ends
  BY <1>3 DEF perform_ends
<1>4. CASE perform_fails
  BY <1>4 DEF perform_fails
<1>5. CASE http_response_free \/ (doing' = "idle" /\ buffer' = <<>>)
  BY <1>5 DEF http_response_free
<1>6. CASE http_post_fails_early \/ \E body \in TokenBodies \cup OtherBodies : http_post(body)
  <2>1. \A body \in TokenBodies \cup OtherBodies : body \in Seq(Octets) /\ SubSeq(body, 1, 0) = <<>>
    OBVIOUS
  <2>. QED  BY <1>6, <2>1 DEF http_post_fails_early, http_post
<1>. QED  BY <1>1, <1>2, <1>3, <1>4, <1>5, <1>6
          DEF ExchangeNext, exchangeVars, Elsewhere, Hit, Miss, Performing, TokenTaken,
              NoTokenTaken, NothingTaken, ExchangeCrash

LEMMA AllocatedStep == ExchangeInv /\ [ExchangeNext]_exchangeVars => Allocated'
<1> SUFFICES ASSUME ExchangeInv, [ExchangeNext]_exchangeVars PROVE Allocated'
  OBVIOUS
<1> USE DEF ExchangeInv, Allocated, OnlyHeadersLeak, ExchangeTypeOK, HttpTypeOK, httpVars
<1>1. CASE UNCHANGED httpVars
  BY <1>1
<1>2. CASE write_callback
  BY <1>2 DEF write_callback
<1>3. CASE perform_ends
  <2>1. PICK type \in {{}, {"type"}} : held' = (held \ {"curl", "text", "headers"}) \cup type
    BY <1>3 DEF perform_ends
  <2>. QED  BY <1>3, <2>1 DEF perform_ends
<1>4. CASE perform_fails
  BY <1>4 DEF perform_fails
<1>5. CASE http_response_free
  BY <1>5 DEF http_response_free
<1>6. CASE doing' = "idle" /\ held' = {}
  BY <1>6
<1>7. CASE http_post_fails_early \/ \E body \in TokenBodies \cup OtherBodies : http_post(body)
  BY <1>7 DEF http_post_fails_early, http_post
<1>. QED  BY <1>1, <1>2, <1>3, <1>4, <1>5, <1>6, <1>7
          DEF ExchangeNext, exchangeVars, Elsewhere, Hit, Miss, Performing, TokenTaken,
              NoTokenTaken, NothingTaken, ExchangeCrash

(* Tokens are only kept for the code that was posted, which had no entry   *)
(* and gets none from anybody else meanwhile.                              *)
LEMMA TokensInOrderStep == ExchangeInv /\ [ExchangeNext]_exchangeVars => TokensInOrder'
<1> SUFFICES ASSUME ExchangeInv, [ExchangeNext]_exchangeVars PROVE TokensInOrder'
  OBVIOUS
<1> USE DEF ExchangeInv, TokensInOrder, CachedTokensAreWhole, ExchangeTypeOK,
            CacheTypeOK, HttpTypeOK, httpVars, cacheVars
<1>1. CASE UNCHANGED exchangeVars
  BY <1>1 DEF exchangeVars
<1>2. CASE Elsewhere
  BY <1>2 DEF Elsewhere, CacheTick, IssueCode
<1>3. CASE Hit
  BY <1>3 DEF Hit, get_tokens_hit
<1>4. CASE Miss
  <2>1. PICK c \in Codes :
           /\ get_tokens_miss(c)
           /\ \/ /\ \E body \in OtherBodies : http_post(body)
                 /\ UNCHANGED given
              \/ /\ codes[c] = "fresh"
                 /\ \E body \in TokenBodies : /\ http_post(body)
                                              /\ given' = [given EXCEPT ![c] = body]
              \/ http_post_fails_early /\ UNCHANGED given
           /\ UNCHANGED token
    BY <1>4 DEF Miss
  <2>2. posting' = c /\ c \notin cache /\ cache' \subseteq cache
    BY <2>1 DEF get_tokens_miss, remove_expired
  <2>3. CASE \E body \in OtherBodies : http_post(body) /\ UNCHANGED given
    BY <2>1, <2>2, <2>3 DEF http_post
  <2>4. CASE \E body \in TokenBodies : /\ http_post(body)
                                       /\ given' = [given EXCEPT ![c] = body]
    BY <2>1, <2>2, <2>4 DEF http_post
  <2>5. CASE http_post_fails_early /\ UNCHANGED given
    BY <2>1, <2>2, <2>5 DEF http_post_fails_early
  <2>. QED  BY <2>1, <2>3, <2>4, <2>5
<1>5. CASE Performing
  BY <1>5 DEF Performing, write_callback, perform_ends, perform_fails
<1>6. CASE TokenTaken
  <2>1. posting \in Codes /\ cache' = cache \cup {posting}
    BY <1>6 DEF TokenTaken, get_tokens_token
  <2>2. buffer = sent /\ buffer \in TokenBodies
    BY <1>6 DEF TokenTaken, Received
  <2>3. given[posting] = buffer
    BY <1>6, <2>2 DEF TokenTaken
  <2>4. token' = [token EXCEPT ![posting] = buffer] /\ UNCHANGED given /\ doing' = "idle"
    BY <1>6 DEF TokenTaken, http_response_free
  <2>. QED  BY <2>1, <2>2, <2>3, <2>4
<1>7. CASE NoTokenTaken \/ NothingTaken
  BY <1>7 DEF NoTokenTaken, NothingTaken, get_tokens_no_token, get_tokens_fails,
              http_response_free
<1>8. CASE ExchangeCrash
  BY <1>8 DEF ExchangeCrash, CacheCrash
<1>. QED  BY <1>1, <1>2, <1>3, <1>4, <1>5, <1>6, <1>7, <1>8 DEF ExchangeNext

LEMMA ExchangeInvHolds == ExchangeSpec => []ExchangeInv
<1>1. ExchangeInit => ExchangeInv
  <2> SUFFICES ASSUME ExchangeInit PROVE ExchangeInv
    OBVIOUS
  <2>1. CacheInit /\ HttpInit
    BY DEF ExchangeInit
  <2>2. ExchangeTypeOK
    BY DEF ExchangeInit, ExchangeTypeOK, HttpInit, HttpTypeOK, CacheInit, CacheTypeOK
  <2>3. CacheInv
    BY <2>1 DEF CacheInit, CacheTypeOK, CacheInv, LifeMatchesAnswer, NoTokenVanishes
  <2>4. Received /\ Len(buffer) <= MaxResponse
    BY <2>1 DEF HttpInit, Received
  <2>5. Allocated
    BY <2>1 DEF HttpInit, Allocated, OnlyHeadersLeak
  <2>6. TokensInOrder
    BY <2>1 DEF HttpInit, CacheInit, TokensInOrder, CachedTokensAreWhole
  <2>. QED  BY <2>2, <2>3, <2>4, <2>5, <2>6 DEF ExchangeInv
<1>2. ExchangeInv /\ CacheInv' /\ [ExchangeNext]_exchangeVars => ExchangeInv'
  <2>1. ExchangeInv /\ [ExchangeNext]_exchangeVars => ExchangeTypeOK'
    BY ExchangeTypeStep DEF ExchangeInv
  <2>. QED  BY <2>1, ReceivedStep, AllocatedStep, TokensInOrderStep DEF ExchangeInv
<1>. QED  BY <1>1, <1>2, CacheInvStays, PTL DEF ExchangeSpec

(* http_post returns 0 with the whole body or not at all, in whatever      *)
(* pieces libcurl hands it to write_callback.                              *)
THEOREM AnswersWhole == ExchangeSpec => []AnswersAreWhole
<1>1. ExchangeInv => AnswersAreWhole
  BY DEF ExchangeInv, Received, ExchangeTypeOK, HttpTypeOK, AnswersAreWhole
<1>. QED  BY <1>1, ExchangeInvHolds, PTL

(* Every return of http_post leaves at most the headers' list behind.      *)
THEOREM HeadersLeak == ExchangeSpec => []OnlyHeadersLeak
<1>1. ExchangeInv => OnlyHeadersLeak
  BY DEF ExchangeInv, Allocated
<1>. QED  BY <1>1, ExchangeInvHolds, PTL

(* The tokens that g_codes_to_jwts answers with are the provider's for the *)
(* same code, whole.                                                       *)
THEOREM CachedTokensWhole == ExchangeSpec => []CachedTokensAreWhole
<1>1. ExchangeInv => CachedTokensAreWhole
  BY DEF ExchangeInv, TokensInOrder
<1>. QED  BY <1>1, ExchangeInvHolds, PTL
=============================================================================
