--------------------------- MODULE AuthServiceProofs ---------------------------
(***************************************************************************)
(* What the server's cookies are worth: the server sets an auth cookie to  *)
(* genuine tokens only.  And what becomes of its requests: a call-back     *)
(* that has signed a browser in does so again when it is repeated, one     *)
(* fails with 500 only for a reason, and every connection is accounted     *)
(* for.                                                                    *)
(***************************************************************************)
EXTENDS AuthService, CodeCacheProofs, TLAPS

USE TokensAssumption, ServiceAssumption, NoCodeAssumption
USE DEF KeyIds, Keys

(* The handlers that are done at once, with their effect on a request.     *)
ServedAtOnce == \/ process_login_page_post \/ process_debug_token_auth_request
                \/ process_logout_request \/ process_unrouted \/ process_bearer
                \/ process_token_without_key \/ process_code_response_refused

LEMMA AtOnce ==
    ASSUME ServedAtOnce
    PROVE  /\ StaysOut /\ pc = "idle" /\ pc' = "idle"
           /\ \E r \in Requests :
                 /\ req' = r
                 /\ r = [ep |-> r.ep, tok |-> r.tok, code |-> r.code, form |-> r.form]
                 /\ r.ep = "callback" => r.form # "good" /\ r.code \in Codes
<1> USE DEF Accept, FinishAtOnce, Requests, Request, MaybeToken
<1>1. CASE process_login_page_post
  BY <1>1 DEF process_login_page_post
<1>2. CASE process_debug_token_auth_request
  BY <1>2 DEF process_debug_token_auth_request
<1>3. CASE process_logout_request
  BY <1>3 DEF process_logout_request
<1>4. CASE process_unrouted
  BY <1>4 DEF process_unrouted
<1>5. CASE process_bearer
  BY <1>5 DEF process_bearer
<1>6. CASE process_token_without_key
  BY <1>6 DEF process_token_without_key, TokenEndpoints
<1>7. CASE process_code_response_refused
  BY <1>7 DEF process_code_response_refused
<1>. QED  BY <1>1, <1>2, <1>3, <1>4, <1>5, <1>6, <1>7 DEF ServedAtOnce

(* What the steps do to the keys.                                          *)
LEMMA KeyFrame ==
    ASSUME [Next]_vars
    PROVE  /\ everIssued \subseteq everIssued' /\ (torn => torn')
           /\ UNCHANGED ring \/ Start \/ Stop \/ VerifyReturns
<1>1. CASE UNCHANGED keyVars
  BY <1>1 DEF keyVars
<1>2. CASE ProviderIssuesKey \/ SaveTorn
  BY <1>2 DEF ProviderIssuesKey, SaveTorn, KR!Issue, KR!Tear
<1>3. CASE Start \/ Stop
  BY <1>3 DEF Start, Stop, KR!Start, KR!Stop
<1>4. CASE process_token_verify \/ process_code_response_hit \/ process_code_response_token
  BY <1>1, <1>4 DEF process_token_verify, process_code_response_hit,
                    process_code_response_token, KR!Ask
<1>5. CASE VerifyReturns
  BY <1>5 DEF VerifyReturns, login_get_verified, callback_verified, direct_verified,
              gate_verified, KeyAnswer, KR!Answer
<1>6. CASE ServedAtOnce
  BY <1>1, <1>6, AtOnce DEF StaysOut
<1>7. CASE \/ UNCHANGED vars \/ ProviderIssuesCode \/ Tick
           \/ process_code_response_miss \/ process_code_response_no_token
  BY <1>1, <1>7 DEF vars, ProviderIssuesCode, Tick, process_code_response_miss,
                    process_code_response_no_token
<1>. QED  BY <1>2, <1>3, <1>4, <1>5, <1>6, <1>7 DEF Next, ServedAtOnce, ExchangeReturns

LEMMA VerifyFrame ==
    ASSUME VerifyReturns
    PROVE  /\ KeyAnswer /\ pc = "verify" /\ pc' = "idle"
           /\ UNCHANGED <<cacheVars, tokenOf, req>>
BY DEF VerifyReturns, login_get_verified, callback_verified, direct_verified,
       gate_verified, FinishWaiting, KeyAnswer

-----------------------------------------------------------------------------
(* Every key of the ring was published, or is left of a published one.     *)
RingSources == \A k \in KeyIds : ring[k] # None => KR!HasSource(k, ring[k])

(* A verification is always about some token, and a cached code has one.   *)
TokensKnown == /\ tokenOf \in [Codes -> MaybeToken]
               /\ posting \in Codes \cup {NoCode}
               /\ \A c \in cache \cap Codes : tokenOf[c] \in Tokens
               /\ pc = "verify" => req.tok \in Tokens
               /\ pc = "exchange" => posting \in Codes
               /\ granted \subseteq Tokens
               /\ req = [ep |-> req.ep, tok |-> req.tok, code |-> req.code, form |-> req.form]

CookieInv == RingSources /\ TokensKnown /\ CookiesAreGenuine

(* A source stays a source.                                                *)
LEMMA SourceStays ==
    ASSUME [Next]_vars, NEW k, NEW m, KR!HasSource(k, m)
    PROVE  KR!HasSource(k, m)'
BY KeyFrame DEF KR!HasSource, KR!LeftOver, KR!Published

LEMMA RingSourcesStep == RingSources /\ [Next]_vars => RingSources'
<1> SUFFICES ASSUME RingSources, [Next]_vars, NEW k \in KeyIds, ring'[k] # None
             PROVE  KR!HasSource(k, ring[k])'
  BY DEF RingSources
<1>1. CASE ring'[k] = ring[k]
  BY <1>1, SourceStays DEF RingSources
<1>2. CASE Start
  <2>1. KR!HasSource(k, ring'[k]) /\ UNCHANGED <<everIssued, torn>>
    BY <1>2 DEF Start, KR!Start, KR!KeyIds
  <2>. QED  BY <2>1 DEF KR!HasSource, KR!LeftOver, KR!Published
<1>3. CASE VerifyReturns
  <2>1. KR!Grows /\ UNCHANGED everIssued
    BY <1>3, VerifyFrame DEF KeyAnswer, KR!Answer
  <2>2. ring'[k] = ring[k] \/ KR!Published(k, ring'[k])
    BY <2>1 DEF KR!Grows, KR!KeyIds
  <2>. QED  BY <1>1, <2>1, <2>2 DEF KR!HasSource, KR!Published
<1>4. ~Stop
  BY DEF Stop, KR!EmptyRing, KR!KeyIds
<1>. QED  BY <1>1, <1>2, <1>3, <1>4, KeyFrame

(* The cookies that a step sets.                                           *)
LEMMA GrantedFrame ==
    ASSUME [Next]_vars
    PROVE  UNCHANGED granted \/ (VerifyReturns /\ Verified /\ granted' = granted \cup {req.tok})
<1>1. CASE VerifyReturns
  BY <1>1 DEF VerifyReturns, login_get_verified, callback_verified, direct_verified,
              gate_verified, SetCookie, history
<1>2. CASE ServedAtOnce
  BY <1>2, AtOnce DEF StaysOut, history
<1>3. CASE UNCHANGED vars \/ ProviderIssuesKey \/ ProviderIssuesCode \/ Tick \/ Start \/ Stop
           \/ SaveTorn
  BY <1>3 DEF vars, serverVars, history, ProviderIssuesKey, ProviderIssuesCode, Tick, Start,
              Stop, SaveTorn
<1>4. CASE \/ process_token_verify \/ process_code_response_hit
           \/ process_code_response_miss \/ ExchangeReturns
  BY <1>4 DEF process_token_verify, process_code_response_hit, process_code_response_miss,
              ExchangeReturns, process_code_response_token, process_code_response_no_token,
              history
<1>. QED  BY <1>1, <1>2, <1>3, <1>4 DEF Next, ServedAtOnce

(* A positive verdict is given for a key that has a source.                *)
LEMMA CookiesStep == CookieInv /\ [Next]_vars => CookiesAreGenuine'
<1> SUFFICES ASSUME CookieInv, [Next]_vars, NEW t \in granted'
             PROVE  t.form = "full" /\ KR!HasSource(t.kid, t.mat)'
  BY DEF CookiesAreGenuine
<1>1. CASE t \in granted
  BY <1>1, SourceStays DEF CookieInv, CookiesAreGenuine
<1>2. CASE VerifyReturns /\ Verified /\ t = req.tok
  <2>1. t.kid \in KeyIds /\ t.mat \in Keys
    BY <1>2, VerifyFrame DEF CookieInv, TokensKnown, TokenType
  <2>2. ring'[t.kid] = t.mat
    BY <1>2, VerifyFrame DEF Verified, KeyAnswer, KR!Answer
  <2>3. RingSources'
    BY RingSourcesStep DEF CookieInv
  <2>4. KR!HasSource(t.kid, ring[t.kid])'
    BY <2>1, <2>2, <2>3 DEF RingSources
  <2>. QED  BY <1>2, <2>2, <2>4 DEF Verified, KR!HasSource, KR!LeftOver, KR!Published
<1>. QED  BY <1>1, <1>2, GrantedFrame

LEMMA TokensKnownStep == CookieInv /\ [Next]_vars => TokensKnown'
<1> SUFFICES ASSUME TokensKnown, [Next]_vars PROVE TokensKnown'
  BY DEF CookieInv
<1> USE DEF TokensKnown
<1>1. CASE UNCHANGED vars \/ ProviderIssuesKey \/ SaveTorn
  BY <1>1 DEF vars, ProviderIssuesKey, SaveTorn, cacheVars, serverVars, history
<1>2. CASE ProviderIssuesCode \/ Tick
  BY <1>2 DEF ProviderIssuesCode, IssueCode, Tick, CacheTick, serverVars, history
<1>3. CASE Start
  BY <1>3 DEF Start, cacheVars, history
<1>4. CASE Stop
  BY <1>4 DEF Stop, CacheCrash, NoRequest, Request
<1>5. CASE ServedAtOnce
  BY <1>5, AtOnce DEF StaysOut, cacheVars, history
<1>6. CASE process_token_verify
  BY <1>6 DEF process_token_verify, Accept, Hold, Request, cacheVars, history
<1>7. CASE process_code_response_hit
  <2>1. PICK c \in Codes : req' = Request("callback", tokenOf[c], c, "good") /\ get_tokens_hit(c)
    BY <1>7 DEF process_code_response_hit, Accept
  <2>. QED  BY <1>7, <2>1 DEF process_code_response_hit, get_tokens_hit, FinishAtOnce, Hold,
                              Request, history
<1>8. CASE process_code_response_miss
  BY <1>8 DEF process_code_response_miss, get_tokens_miss, remove_expired, Accept, Hold,
               Request, history
<1>9. CASE process_code_response_token
  <2>1. PICK t \in Tokens :
           /\ pc = "exchange"
           /\ tokenOf' = [tokenOf EXCEPT ![posting] = t]
           /\ get_tokens_token
           /\ req' = [req EXCEPT !.tok = t]
           /\ UNCHANGED history
    BY <1>9 DEF process_code_response_token
  <2>2. pc' \in {"verify", "idle"}
    BY <1>9 DEF process_code_response_token, FinishWaiting
  <2>3. /\ req'.tok = t
        /\ req' = [ep |-> req'.ep, tok |-> req'.tok, code |-> req'.code, form |-> req'.form]
    BY <2>1
  <2>. QED  BY <2>1, <2>2, <2>3 DEF get_tokens_token, MaybeToken, history
<1>10. CASE process_code_response_no_token
  BY <1>10 DEF process_code_response_no_token, get_tokens_no_token, get_tokens_fails,
               LoseToken, FinishWaiting, history
<1>11. CASE VerifyReturns
  BY <1>11, VerifyFrame, GrantedFrame DEF cacheVars
<1>. QED  BY <1>1, <1>2, <1>3, <1>4, <1>5, <1>6, <1>7, <1>8, <1>9, <1>10, <1>11
          DEF Next, ServedAtOnce, ExchangeReturns

THEOREM CookieInvHolds == Spec => []CookieInv
<1>1. Init => CookieInv
  BY DEF Init, CacheInit, NoRequest, Request, MaybeToken, CookieInv, RingSources, TokensKnown,
         CookiesAreGenuine, KR!EmptyRing, KR!KeyIds
<1>2. CookieInv /\ [Next]_vars => CookieInv'
  BY RingSourcesStep, TokensKnownStep, CookiesStep DEF CookieInv
<1>. QED  BY <1>1, <1>2, PTL DEF Spec

(* The server sets an auth cookie to genuine tokens only.                  *)
THEOREM GenuineCookies == Spec => []CookiesAreGenuine
BY CookieInvHolds, PTL DEF CookieInv

-----------------------------------------------------------------------------
(* All endpoints treat the cache of codes as CodeCache says.               *)
LEMMA ServiceStepsCache == [Next]_vars => [CacheNext]_cacheVars
<1> SUFFICES ASSUME [Next]_vars PROVE [CacheNext]_cacheVars
  OBVIOUS
<1>1. CASE UNCHANGED vars
  BY <1>1 DEF vars
<1>2. CASE ProviderIssuesKey \/ ProviderIssuesCode \/ Tick \/ Start \/ Stop \/ SaveTorn
  BY <1>2 DEF ProviderIssuesKey, ProviderIssuesCode, Tick, Start, Stop, SaveTorn, CacheNext
<1>3. CASE ServedAtOnce
  BY <1>3, AtOnce DEF StaysOut
<1>4. CASE process_token_verify
  BY <1>4 DEF process_token_verify
<1>5. CASE process_code_response_hit \/ process_code_response_miss
  BY <1>5 DEF process_code_response_hit, process_code_response_miss, CacheNext
<1>6. CASE ExchangeReturns
  BY <1>6 DEF ExchangeReturns, process_code_response_token, process_code_response_no_token,
              CacheNext, PostReturns
<1>7. CASE VerifyReturns
  BY <1>7, VerifyFrame
<1>. QED  BY <1>1, <1>2, <1>3, <1>4, <1>5, <1>6, <1>7 DEF Next, ServedAtOnce

LEMMA ServiceCacheInv == Spec => []CacheInv
<1>1. Init => CacheInit
  BY DEF Init
<1>2. Spec => CacheSpec
  BY <1>1, ServiceStepsCache, PTL DEF Spec, CacheSpec
<1>. QED  BY <1>2, CacheInvHolds, PTL

(* A request that waits for the provider is the call-back whose code is    *)
(* being exchanged, and no other request is.                               *)
Counts == /\ pc \in {"down", "idle", "exchange", "verify"}
          /\ dropped \in 0..MaxDropped
          /\ ConnectionsAccounted

ExchangeIsCallback ==
    /\ pc = "exchange" => req.ep = "callback" /\ req.code = posting /\ req.form = "good"
    /\ pc # "exchange" => posting = NoCode
    /\ req = [ep |-> req.ep, tok |-> req.tok, code |-> req.code, form |-> req.form]
    /\ req.ep = "callback" => req.code \in Codes
    /\ pc = "down" => req.ep = "none"

LEMMA CountsStep == Counts /\ [Next]_vars => Counts'
<1> SUFFICES ASSUME Counts, [Next]_vars PROVE Counts'
  OBVIOUS
<1> USE DEF Counts, ConnectionsAccounted, FinishAtOnce, FinishWaiting, Hold, serverVars
<1>1. CASE UNCHANGED vars
  BY <1>1 DEF vars
<1>2. CASE ProviderIssuesKey \/ ProviderIssuesCode \/ Tick \/ SaveTorn
  BY <1>2 DEF ProviderIssuesKey, ProviderIssuesCode, Tick, SaveTorn
<1>3. CASE Start
  BY <1>3 DEF Start
<1>4. CASE Stop
  BY <1>4 DEF Stop
<1>5. CASE ServedAtOnce
  BY <1>5 DEF ServedAtOnce, process_login_page_post, process_debug_token_auth_request,
              process_logout_request, process_unrouted, process_bearer,
              process_token_without_key, process_code_response_refused, Accept
<1>6. CASE process_token_verify \/ process_code_response_hit \/ process_code_response_miss
  BY <1>6 DEF process_token_verify, process_code_response_hit, process_code_response_miss,
              Accept
<1>7. CASE ExchangeReturns
  <2>1. CASE process_code_response_token
    BY <2>1 DEF process_code_response_token
  <2>2. CASE process_code_response_no_token
    BY <2>2 DEF process_code_response_no_token
  <2>. QED  BY <1>7, <2>1, <2>2 DEF ExchangeReturns
<1>8. CASE VerifyReturns
  BY <1>8 DEF VerifyReturns, login_get_verified, callback_verified, direct_verified,
              gate_verified, KeyAnswer
<1>. QED  BY <1>1, <1>2, <1>3, <1>4, <1>5, <1>6, <1>7, <1>8 DEF Next, ServedAtOnce

(* Every accepted connection is finished, but for login forms that could   *)
(* not be decoded: no handler leaves one open, nor finishes one twice.     *)
THEOREM Accounted == Spec => []ConnectionsAccounted
<1>1. Init => Counts
  BY DEF Init, Counts, ConnectionsAccounted
<1>2. Counts => ConnectionsAccounted
  BY DEF Counts
<1>. QED  BY <1>1, <1>2, CountsStep, PTL DEF Spec

-----------------------------------------------------------------------------
(* Codes that were redeemed stay so, and what is known of the loss of      *)
(* their tokens is not forgotten.                                          *)
LEMMA OnlyPostedIsSpent ==
    ASSUME CacheTypeOK, [CacheNext]_cacheVars
    PROVE  /\ mislaid \subseteq mislaid' /\ expired \subseteq expired'
           /\ \A c \in Codes : codes'[c] = "spent" => codes[c] = "spent" \/ c = posting
<1> USE DEF CacheTypeOK, historyVars
<1>1. CASE UNCHANGED cacheVars
  BY <1>1 DEF cacheVars
<1>2. CASE CacheTick \/ CacheCrash
  BY <1>2 DEF CacheTick, CacheCrash
<1>3. CASE PostReturns
  BY <1>3 DEF PostReturns, get_tokens_token, get_tokens_no_token, get_tokens_fails, LoseToken
<1>4. ASSUME NEW c \in Codes, IssueCode(c) \/ get_tokens_hit(c) \/ get_tokens_miss(c)
      PROVE  /\ mislaid \subseteq mislaid' /\ expired \subseteq expired'
             /\ \A d \in Codes : codes'[d] = "spent" => codes[d] = "spent" \/ d = posting
  BY <1>4 DEF IssueCode, get_tokens_hit, get_tokens_miss
<1>. QED  BY <1>1, <1>2, <1>3, <1>4 DEF CacheNext

CallbackInv == CacheInv /\ ExchangeIsCallback /\ CallbackFailsForReason
               /\ pc \in {"down", "idle", "exchange", "verify"}

LEMMA ExchangeIsCallbackStep == CallbackInv /\ [Next]_vars => ExchangeIsCallback'
<1> SUFFICES ASSUME CallbackInv, [Next]_vars PROVE ExchangeIsCallback'
  OBVIOUS
<1> USE DEF CallbackInv, ExchangeIsCallback, Accept, Request, Hold
<1>1. CASE UNCHANGED vars
  BY <1>1 DEF vars, cacheVars, serverVars
<1>2. CASE ProviderIssuesKey \/ ProviderIssuesCode \/ Tick \/ Start \/ Stop \/ SaveTorn
  BY <1>2 DEF ProviderIssuesKey, ProviderIssuesCode, Tick, Start, Stop, SaveTorn, cacheVars,
              serverVars,
              IssueCode, CacheTick, CacheCrash, NoRequest
<1>3. CASE ServedAtOnce
  BY <1>3, AtOnce DEF StaysOut, cacheVars
<1>4. CASE process_token_verify
  BY <1>4 DEF process_token_verify, TokenEndpoints, cacheVars
<1>5. CASE process_code_response_hit
  BY <1>5 DEF process_code_response_hit, get_tokens_hit, FinishAtOnce
<1>6. CASE process_code_response_miss
  BY <1>6 DEF process_code_response_miss, get_tokens_miss
<1>7. CASE process_code_response_token
  <2>1. PICK t \in Tokens : req' = [req EXCEPT !.tok = t]
    BY <1>7 DEF process_code_response_token
  <2>2. posting' = NoCode /\ pc' \in {"verify", "idle"}
    BY <1>7 DEF process_code_response_token, get_tokens_token, FinishWaiting
  <2>. QED  BY <1>7, <2>1, <2>2 DEF process_code_response_token
<1>8. CASE process_code_response_no_token
  BY <1>8 DEF process_code_response_no_token, get_tokens_no_token, get_tokens_fails,
              FinishWaiting
<1>9. CASE VerifyReturns
  <2>1. pc = "verify" /\ pc' = "idle" /\ UNCHANGED <<cacheVars, req>>
    BY <1>9, VerifyFrame
  <2>. QED  BY <2>1 DEF cacheVars
<1>. QED  BY <1>1, <1>2, <1>3, <1>4, <1>5, <1>6, <1>7, <1>8, <1>9
          DEF Next, ServedAtOnce, ExchangeReturns

LEMMA FailsForReasonStep == CallbackInv /\ [Next]_vars => CallbackFailsForReason'
<1> SUFFICES ASSUME CallbackInv, [Next]_vars,
                    pc' = "idle", req'.ep = "callback", replies' = << 500 >>,
                    codes'[req'.code] = "spent"
             PROVE  req'.code \in mislaid' \cup expired'
  BY DEF CallbackFailsForReason
<1> USE DEF CallbackInv, ExchangeIsCallback
<1>1. /\ mislaid \subseteq mislaid' /\ expired \subseteq expired'
      /\ \A c \in Codes : codes'[c] = "spent" => codes[c] = "spent" \/ c = posting
  BY ServiceStepsCache, OnlyPostedIsSpent DEF CacheInv
<1>2. CASE pc = "idle" /\ UNCHANGED <<req, replies>>
  BY <1>1, <1>2 DEF CallbackFailsForReason
<1>3. CASE process_code_response_no_token
  <2>1. req'.code = posting /\ posting \in Codes /\ posting \notin cache
    BY <1>3 DEF process_code_response_no_token, FinishWaiting, CacheInv, NoTokenVanishes
  <2>2. codes[posting] = "spent" => posting \in mislaid \cup expired
    BY <2>1 DEF CacheInv, NoTokenVanishes
  <2>3. codes[posting] = "spent" \/ posting \in mislaid'
    BY <1>3, <2>1 DEF process_code_response_no_token, get_tokens_no_token, get_tokens_fails,
                      LoseToken
  <2>. QED  BY <1>1, <2>1, <2>2, <2>3
<1>4. CASE UNCHANGED vars \/ ProviderIssuesKey \/ ProviderIssuesCode \/ Tick \/ SaveTorn
  BY <1>2, <1>4 DEF ProviderIssuesKey, ProviderIssuesCode, Tick, SaveTorn, vars, serverVars
<1>5. CASE Start \/ Stop
  BY <1>5 DEF Start, Stop
<1>6. CASE ServedAtOnce
  BY <1>6 DEF ServedAtOnce, process_login_page_post, process_debug_token_auth_request,
              process_logout_request, process_unrouted, process_bearer,
              process_token_without_key, process_code_response_refused, AnswerUnasked,
              TokenEndpoints, FinishAtOnce, Accept, Request
<1>7. CASE \/ process_token_verify \/ process_code_response_hit
           \/ process_code_response_miss \/ process_code_response_token
  BY <1>7 DEF process_token_verify, process_code_response_hit, process_code_response_miss,
              process_code_response_token, Hold, FinishAtOnce, FinishWaiting
<1>8. CASE VerifyReturns
  BY <1>8 DEF VerifyReturns, login_get_verified, callback_verified, direct_verified,
              gate_verified, FinishWaiting
<1>. QED  BY <1>3, <1>4, <1>5, <1>6, <1>7, <1>8 DEF Next, ServedAtOnce, ExchangeReturns

THEOREM CallbackInvHolds == Spec => []CallbackInv
<1>1. Init => CallbackInv
  <2>1. Init => CacheInv
    <3>1. CacheInit => CacheInv
      BY TimesAssumption DEF CacheInit, CacheInv, CacheTypeOK, LifeMatchesAnswer,
                             NoTokenVanishes
    <3>. QED  BY <3>1 DEF Init
  <2>. QED  BY <2>1 DEF Init, CacheInit, CallbackInv, ExchangeIsCallback,
                        CallbackFailsForReason, NoRequest, Request
<1>2. CallbackInv /\ CacheInv' /\ Counts' /\ [Next]_vars => CallbackInv'
  <2>1. Counts' => (pc \in {"down", "idle", "exchange", "verify"})'
    BY DEF Counts
  <2>. QED  BY <2>1, ExchangeIsCallbackStep, FailsForReasonStep DEF CallbackInv
<1>3. Init => Counts
  BY DEF Init, Counts, ConnectionsAccounted
<1>. QED  BY <1>1, <1>2, <1>3, CountsStep, ServiceCacheInv, PTL DEF Spec

(* A call-back for a code that was redeemed fails with 500 only if the     *)
(* token went missing, or nobody asked for it while its entry lived.       *)
THEOREM FailsForReason == Spec => []CallbackFailsForReason
BY CallbackInvHolds, PTL DEF CallbackInv

-----------------------------------------------------------------------------
(* A code that was answered with a cookie has an entry whose token the     *)
(* ring verifies, or the entry was dropped; the verification of a          *)
(* call-back is about the token cached for its code.                       *)
SignedInIsCached ==
    \A c \in signedIn \ expired :
        /\ c \in cache
        /\ tokenOf[c].form = "full" /\ ring[tokenOf[c].kid] = tokenOf[c].mat

CallbackVerifies ==
    pc = "verify" /\ req.ep = "callback" =>
        req.form = "good" /\ req.code \in cache /\ req.tok = tokenOf[req.code]

SignInv == /\ signedIn \subseteq Codes
           /\ pc = "down" => signedIn = {}
           /\ SignedInIsCached
           /\ CallbackVerifies
           /\ ReloadSignsInAgain

(* Codes enter signedIn at a verified call-back only.                      *)
LEMMA SignedInFrame ==
    ASSUME [Next]_vars
    PROVE  \/ UNCHANGED signedIn
           \/ Stop /\ signedIn' = {}
           \/ /\ callback_verified /\ Verified /\ replies' = <<302>>
              /\ signedIn' = signedIn \cup {req.code}
<1>1. CASE VerifyReturns
  BY <1>1 DEF VerifyReturns, login_get_verified, callback_verified, direct_verified,
              gate_verified, FinishWaiting, history
<1>2. CASE ServedAtOnce
  BY <1>2, AtOnce DEF StaysOut, history
<1>3. CASE UNCHANGED vars \/ ProviderIssuesKey \/ ProviderIssuesCode \/ Tick \/ Start \/ Stop
           \/ SaveTorn
  BY <1>3 DEF vars, serverVars, history, ProviderIssuesKey, ProviderIssuesCode, Tick, Start,
              Stop, SaveTorn
<1>4. CASE \/ process_token_verify \/ process_code_response_hit
           \/ process_code_response_miss \/ ExchangeReturns
  BY <1>4 DEF process_token_verify, process_code_response_hit, process_code_response_miss,
              ExchangeReturns, process_code_response_token, process_code_response_no_token,
              history
<1>. QED  BY <1>1, <1>2, <1>3, <1>4 DEF Next, ServedAtOnce

(* A key stays as long as the process; an entry of the cache goes with it  *)
(* or when it has expired; a cached token is not exchanged for another.    *)
LEMMA RingStays ==
    ASSUME [Next]_vars, ~Stop, pc # "down", NEW k \in KeyIds, ring[k] # None
    PROVE  ring'[k] = ring[k]
<1>1. CASE VerifyReturns
  BY <1>1, VerifyFrame DEF KeyAnswer, KR!Answer, KR!Grows, KR!KeyIds
<1>2. ~Start
  BY DEF Start
<1>. QED  BY <1>1, <1>2, KeyFrame

LEMMA EntryStays ==
    ASSUME CacheInv, [Next]_vars, ~Stop, NEW c \in Codes, c \in cache, c \notin expired'
    PROVE  c \in cache' /\ tokenOf'[c] = tokenOf[c]
<1> USE DEF CacheInv, CacheTypeOK
<1>1. CASE UNCHANGED <<cacheVars, tokenOf>>
  BY <1>1 DEF cacheVars
<1>2. CASE ProviderIssuesCode \/ Tick
  BY <1>2 DEF ProviderIssuesCode, IssueCode, Tick, CacheTick
<1>3. CASE process_code_response_hit
  BY <1>3 DEF process_code_response_hit, get_tokens_hit
<1>4. CASE process_code_response_miss
  BY <1>4 DEF process_code_response_miss, get_tokens_miss, remove_expired
<1>5. CASE process_code_response_token
  <2>1. posting # c
    BY DEF NoTokenVanishes
  <2>2. PICK t \in Tokens : tokenOf' = [tokenOf EXCEPT ![posting] = t] /\ get_tokens_token
    BY <1>5 DEF process_code_response_token
  <2>. QED  BY <2>1, <2>2 DEF get_tokens_token
<1>6. CASE process_code_response_no_token
  BY <1>6 DEF process_code_response_no_token, get_tokens_no_token, get_tokens_fails
<1>7. CASE ServedAtOnce
  BY <1>1, <1>7, AtOnce DEF StaysOut
<1>8. CASE UNCHANGED vars \/ ProviderIssuesKey \/ Start \/ SaveTorn \/ process_token_verify
  BY <1>1, <1>8 DEF vars, ProviderIssuesKey, Start, SaveTorn, process_token_verify
<1>9. CASE VerifyReturns
  BY <1>1, <1>9, VerifyFrame
<1>. QED  BY <1>2, <1>3, <1>4, <1>5, <1>6, <1>7, <1>8, <1>9
          DEF Next, ServedAtOnce, ExchangeReturns

LEMMA SignedInIsCachedStep ==
    SignInv /\ CallbackInv /\ CookieInv /\ [Next]_vars => SignedInIsCached'
<1> SUFFICES ASSUME SignInv, CallbackInv, CookieInv, [Next]_vars,
                    NEW c \in signedIn', c \notin expired'
             PROVE  /\ c \in cache'
                    /\ tokenOf'[c].form = "full" /\ ring'[tokenOf'[c].kid] = tokenOf'[c].mat
  BY DEF SignedInIsCached
<1>0. c \notin expired
  BY ServiceStepsCache, OnlyPostedIsSpent DEF CallbackInv, CacheInv
<1>1. ~Stop
  BY DEF Stop
<1>2. CASE c \in signedIn
  <2>1. /\ c \in Codes /\ c \in cache /\ pc # "down"
        /\ tokenOf[c].form = "full" /\ ring[tokenOf[c].kid] = tokenOf[c].mat
    BY <1>0, <1>2 DEF SignInv, SignedInIsCached
  <2>2. tokenOf[c] \in Tokens
    BY <2>1 DEF CookieInv, TokensKnown
  <2>3. tokenOf[c].kid \in KeyIds /\ tokenOf[c].mat \in Keys
    BY <2>2 DEF TokenType
  <2>4. ring'[tokenOf[c].kid] = ring[tokenOf[c].kid]
    BY <1>1, <2>1, <2>3, RingStays
  <2>5. c \in cache' /\ tokenOf'[c] = tokenOf[c]
    BY <1>1, <2>1, EntryStays DEF CallbackInv
  <2>. QED  BY <2>1, <2>4, <2>5
<1>3. CASE callback_verified /\ Verified /\ c = req.code
  <2>1. VerifyReturns
    BY <1>3 DEF VerifyReturns
  <2>2. KeyAnswer /\ pc = "verify" /\ UNCHANGED <<cacheVars, tokenOf, req>>
    BY <2>1, VerifyFrame
  <2>3. req.tok = tokenOf[c] /\ c \in cache
    BY <1>3, <2>2 DEF SignInv, CallbackVerifies, callback_verified
  <2>4. ring'[req.tok.kid] = req.tok.mat /\ req.tok.form = "full"
    BY <1>3, <2>2 DEF Verified, KeyAnswer, KR!Answer
  <2>. QED  BY <2>2, <2>3, <2>4 DEF cacheVars
<1>. QED  BY <1>1, <1>2, <1>3, SignedInFrame

LEMMA CallbackVerifiesStep ==
    SignInv /\ CallbackInv /\ CookieInv /\ [Next]_vars => CallbackVerifies'
<1> SUFFICES ASSUME SignInv, CallbackInv, CookieInv, [Next]_vars,
                    pc' = "verify", req'.ep = "callback"
             PROVE  req'.form = "good" /\ req'.code \in cache' /\ req'.tok = tokenOf'[req'.code]
  BY DEF CallbackVerifies
<1>1. CASE pc = "verify" /\ UNCHANGED <<cacheVars, tokenOf, req>>
  BY <1>1 DEF SignInv, CallbackVerifies, cacheVars
<1>2. CASE process_code_response_hit
  BY <1>2 DEF process_code_response_hit, get_tokens_hit, Accept, Request
<1>3. CASE process_code_response_token
  <2>1. PICK t \in Tokens : /\ req' = [req EXCEPT !.tok = t] /\ get_tokens_token
                            /\ tokenOf' = [tokenOf EXCEPT ![posting] = t]
    BY <1>3 DEF process_code_response_token
  <2>2. pc = "exchange" /\ posting \in Codes
    BY <1>3 DEF process_code_response_token, CookieInv, TokensKnown
  <2>3. req.form = "good" /\ req.code = posting
    BY <2>2 DEF CallbackInv, ExchangeIsCallback
  <2>4. req'.tok = t /\ req'.form = "good" /\ req'.code = posting
    BY <2>1, <2>3 DEF CallbackInv, ExchangeIsCallback
  <2>5. tokenOf'[posting] = t
    BY <2>1, <2>2 DEF CookieInv, TokensKnown
  <2>. QED  BY <2>1, <2>4, <2>5 DEF get_tokens_token
<1>4. CASE UNCHANGED vars \/ ProviderIssuesKey \/ SaveTorn
  BY <1>1, <1>4 DEF vars, ProviderIssuesKey, SaveTorn, serverVars
<1>5. CASE ProviderIssuesCode \/ Tick
  BY <1>5 DEF ProviderIssuesCode, IssueCode, Tick, CacheTick, serverVars, SignInv,
              CallbackVerifies
<1>6. CASE process_token_verify
  BY <1>6 DEF process_token_verify, TokenEndpoints, Accept, Request
<1>7. ~Start /\ ~Stop /\ ~ServedAtOnce /\ ~VerifyReturns
  BY AtOnce, VerifyFrame DEF Start, Stop
<1>8. ~process_code_response_miss /\ ~process_code_response_no_token
  BY DEF process_code_response_miss, process_code_response_no_token, Hold, FinishWaiting
<1>. QED  BY <1>2, <1>3, <1>4, <1>5, <1>6, <1>7, <1>8 DEF Next, ServedAtOnce, ExchangeReturns

LEMMA ReloadStep ==
    SignInv /\ CallbackInv /\ CookieInv /\ [Next]_vars => ReloadSignsInAgain'
<1> SUFFICES ASSUME SignInv, CallbackInv, CookieInv, [Next]_vars,
                    pc' = "idle", req'.ep = "callback", req'.form = "good",
                    req'.code \in signedIn', req'.code \notin expired'
             PROVE  replies' = <<302>>
  BY DEF ReloadSignsInAgain
<1>0. req'.code \notin expired
  BY ServiceStepsCache, OnlyPostedIsSpent DEF CallbackInv, CacheInv
<1>1. CASE pc = "idle" /\ UNCHANGED <<req, replies, signedIn>>
  BY <1>0, <1>1 DEF SignInv, ReloadSignsInAgain
<1>2. CASE VerifyReturns
  <2>1. KeyAnswer /\ pc = "verify" /\ UNCHANGED <<cacheVars, tokenOf, req>>
    BY <1>2, VerifyFrame
  <2>2. callback_verified
    BY <1>2, <2>1 DEF VerifyReturns, login_get_verified, direct_verified, gate_verified
  <2>3. CASE Verified
    BY <2>2, <2>3 DEF callback_verified, FinishWaiting
  <2>4. CASE ~Verified
    <3>1. UNCHANGED signedIn
      BY <2>2, <2>4 DEF callback_verified, history
    <3>2. /\ req.tok = tokenOf[req.code] /\ req.code \in Codes
          /\ req.tok.form = "full" /\ ring[req.tok.kid] = req.tok.mat
      BY <1>0, <2>1, <3>1 DEF SignInv, SignedInIsCached, CallbackVerifies
    <3>3. req.tok.kid \in KeyIds /\ req.tok.mat \in Keys
      BY <2>1 DEF CookieInv, TokensKnown, TokenType
    <3>4. ring[req.tok.kid] # None
      BY <3>2, <3>3
    <3>5. ring'[req.tok.kid] = req.tok.mat
      BY <2>1, <3>2, <3>3, <3>4 DEF KeyAnswer, KR!Answer, KR!Grows, KR!KeyIds
    <3>6. call'.verdict = "accepted"
      BY <2>1, <3>4, <3>5 DEF KeyAnswer, KR!Answer
    <3>. QED  BY <2>4, <3>2, <3>6 DEF Verified
  <2>. QED  BY <2>3, <2>4
<1>3. CASE process_code_response_hit
  <2>1. PICK c \in Codes :
           /\ req' = Request("callback", tokenOf[c], c, "good") /\ c \in cache
           /\ ~Asks(tokenOf[c]) /\ UNCHANGED signedIn
    BY <1>3 DEF process_code_response_hit, Accept, Hold, get_tokens_hit, history
  <2>2. tokenOf[c].form # "full"
    BY <2>1 DEF Asks, CookieInv, TokensKnown
  <2>3. req'.code = c
    BY <2>1 DEF Request
  <2>. QED  BY <1>0, <2>1, <2>2, <2>3 DEF SignInv, SignedInIsCached
<1>4. CASE ExchangeReturns
  <2>1. pc = "exchange" /\ UNCHANGED signedIn
    BY <1>4 DEF ExchangeReturns, process_code_response_token, process_code_response_no_token,
                history
  <2>2. req'.code = req.code
    BY <1>4 DEF ExchangeReturns, process_code_response_token, process_code_response_no_token,
                CallbackInv, ExchangeIsCallback
  <2>3. req.code \notin cache
    BY <2>1 DEF CallbackInv, ExchangeIsCallback, CacheInv, NoTokenVanishes
  <2>. QED  BY <1>0, <2>1, <2>2, <2>3 DEF SignInv, SignedInIsCached
<1>5. CASE UNCHANGED vars \/ ProviderIssuesKey \/ ProviderIssuesCode \/ Tick \/ SaveTorn
  BY <1>1, <1>5 DEF vars, ProviderIssuesKey, ProviderIssuesCode, Tick, SaveTorn, serverVars,
                    history
<1>6. CASE Start
  BY <1>6 DEF Start, history, SignInv
<1>7. ~Stop /\ ~ServedAtOnce
  BY AtOnce DEF Stop
<1>8. ~process_token_verify /\ ~process_code_response_miss
  BY DEF process_token_verify, process_code_response_miss, Hold
<1>. QED  BY <1>2, <1>3, <1>4, <1>5, <1>6, <1>7, <1>8 DEF Next, ServedAtOnce

LEMMA SignInvStep == SignInv /\ CallbackInv /\ CookieInv /\ [Next]_vars => SignInv'
<1> SUFFICES ASSUME SignInv, CallbackInv, CookieInv, [Next]_vars PROVE SignInv'
  OBVIOUS
<1>1. (signedIn \subseteq Codes)'
  BY SignedInFrame, VerifyFrame DEF SignInv, callback_verified, VerifyReturns, CallbackInv,
                                    ExchangeIsCallback
<1>2. (pc = "down" => signedIn = {})'
  <2>1. CASE callback_verified
    BY <2>1 DEF callback_verified, KeyAnswer
  <2>2. pc' = "down" => Stop \/ pc = "down" \/ callback_verified
    <3>1. CASE ServedAtOnce \/ VerifyReturns
      BY <3>1, AtOnce, VerifyFrame
    <3>. QED
      BY <3>1 DEF Next, ServedAtOnce, ExchangeReturns, vars, serverVars, ProviderIssuesKey,
             ProviderIssuesCode, Tick, Start, SaveTorn, process_token_verify,
             process_code_response_hit, process_code_response_miss,
             process_code_response_token, process_code_response_no_token, Hold,
             FinishAtOnce, FinishWaiting
  <2>. QED  BY <2>1, <2>2, SignedInFrame DEF SignInv, Stop
<1>. QED  BY <1>1, <1>2, SignedInIsCachedStep, CallbackVerifiesStep, ReloadStep DEF SignInv

THEOREM SignInvHolds == Spec => []SignInv
<1>1. Init => SignInv
  BY DEF Init, SignInv, SignedInIsCached, CallbackVerifies, ReloadSignsInAgain
<1>. QED  BY <1>1, SignInvStep, CallbackInvHolds, CookieInvHolds, PTL DEF Spec

(* A browser that repeats a call-back which signed it in is signed in      *)
(* again, as long as the process runs and the entry is not dropped.        *)
THEOREM SignsInAgain == Spec => []ReloadSignsInAgain
BY SignInvHolds, PTL DEF SignInv

-----------------------------------------------------------------------------
(* What the invariants above leave open of the type invariant.             *)
Statuses == {<<>>} \cup {<<s>> : s \in {200, 302, 400, 401, 403, 404, 500}}
                   \cup {<<302, 200>>}

KeysTyped == ring \in Rings /\ everIssued \subseteq Kids \X Materials /\ torn \in BOOLEAN

RequestTyped == /\ req.ep \in {r.ep : r \in Requests \cup {NoRequest}}
                /\ req.tok \in MaybeToken /\ req.code \in Codes \cup {NoCode}
                /\ replies \in Statuses

LEMMA KeysTypedStep == KeysTyped /\ [Next]_vars => KeysTyped'
<1> SUFFICES ASSUME KeysTyped, [Next]_vars PROVE KeysTyped'
  OBVIOUS
<1> USE DEF KeysTyped
<1>1. CASE UNCHANGED <<ring, everIssued, torn>>
  BY <1>1
<1>2. CASE ProviderIssuesKey \/ SaveTorn
  BY <1>2 DEF ProviderIssuesKey, SaveTorn, KR!Issue, KR!Tear
<1>3. CASE Start
  BY <1>3 DEF Start, KR!Start
<1>4. CASE Stop
  BY <1>4 DEF Stop, KR!Stop, KR!EmptyRing, KR!KeyIds, Rings
<1>5. CASE process_token_verify \/ process_code_response_hit \/ process_code_response_token
  BY <1>1, <1>5 DEF process_token_verify, process_code_response_hit,
                    process_code_response_token, KR!Ask, keyVars
<1>6. CASE VerifyReturns
  BY <1>6 DEF VerifyReturns, login_get_verified, callback_verified, direct_verified,
              gate_verified, KeyAnswer, KR!Answer
<1>7. CASE ServedAtOnce
  BY <1>1, <1>7, AtOnce DEF StaysOut, keyVars
<1>8. CASE \/ UNCHANGED vars \/ ProviderIssuesCode \/ Tick
           \/ process_code_response_miss \/ process_code_response_no_token
  BY <1>1, <1>8 DEF vars, keyVars, ProviderIssuesCode, Tick, process_code_response_miss,
                    process_code_response_no_token
<1>. QED  BY <1>2, <1>3, <1>4, <1>5, <1>6, <1>7, <1>8 DEF Next, ServedAtOnce, ExchangeReturns

LEMMA RequestTypedStep ==
    CookieInv /\ RequestTyped /\ [Next]_vars => RequestTyped'
<1> SUFFICES ASSUME CookieInv, RequestTyped, [Next]_vars PROVE RequestTyped'
  OBVIOUS
<1> USE DEF RequestTyped, Statuses
<1>1. CASE UNCHANGED <<req, replies>>
  BY <1>1
<1>2. ASSUME NEW r \in Requests, Accept(r), replies' \in Statuses
      PROVE  RequestTyped'
  BY <1>2 DEF Accept, Requests, Request, MaybeToken
<1>3. UNCHANGED req /\ replies' \in Statuses => RequestTyped'
  OBVIOUS
<1>4. CASE Stop
  BY <1>4 DEF Stop, NoRequest, Request, MaybeToken
<1>5. CASE process_login_page_post
  BY <1>2, <1>5 DEF process_login_page_post, FinishAtOnce, Requests
<1>6. CASE process_debug_token_auth_request
  BY <1>2, <1>6 DEF process_debug_token_auth_request, FinishAtOnce, Requests
<1>7. CASE process_logout_request \/ process_unrouted \/ process_bearer
  BY <1>2, <1>7 DEF process_logout_request, process_unrouted, process_bearer, FinishAtOnce,
                    Requests
<1>8. CASE process_token_without_key
  BY <1>2, <1>8 DEF process_token_without_key, FinishAtOnce, AnswerUnasked, TokenEndpoints,
                    Requests
<1>9. CASE process_code_response_refused \/ process_code_response_miss
  BY <1>2, <1>9 DEF process_code_response_refused, process_code_response_miss, FinishAtOnce,
                    Hold, Requests, CallbackForms
<1>10. CASE process_token_verify
  BY <1>2, <1>10 DEF process_token_verify, Hold, TokenEndpoints, Requests, MaybeToken
<1>11. CASE process_code_response_hit
  <2>1. PICK c \in Codes : /\ req' = Request("callback", tokenOf[c], c, "good")
                           /\ replies' \in Statuses
    BY <1>11 DEF process_code_response_hit, Accept, Hold, FinishAtOnce
  <2>2. tokenOf[c] \in MaybeToken
    BY DEF CookieInv, TokensKnown
  <2>3. "callback" \in {r.ep : r \in Requests}
    <3>1. Request("callback", None, c, "good") \in Requests
      BY DEF Requests, CallbackForms
    <3>. QED  BY <3>1 DEF Request
  <2>. QED  BY <2>1, <2>2, <2>3 DEF Request
<1>12. CASE process_code_response_token
  <2>1. PICK t \in Tokens : req' = [req EXCEPT !.tok = t] /\ replies' \in Statuses
    BY <1>12 DEF process_code_response_token, FinishWaiting
  <2>2. req'.ep = req.ep /\ req'.code = req.code /\ req'.tok = t
    BY <2>1 DEF CookieInv, TokensKnown
  <2>. QED  BY <2>1, <2>2 DEF MaybeToken
<1>13. CASE process_code_response_no_token \/ VerifyReturns
  BY <1>3, <1>13, VerifyFrame
     DEF process_code_response_no_token, VerifyReturns, login_get_verified,
         callback_verified, direct_verified, gate_verified, FinishWaiting
<1>14. CASE UNCHANGED vars \/ ProviderIssuesKey \/ ProviderIssuesCode \/ Tick \/ Start
             \/ SaveTorn
  BY <1>1, <1>14 DEF vars, serverVars, ProviderIssuesKey, ProviderIssuesCode, Tick, Start,
                     SaveTorn
<1>. QED  BY <1>4, <1>5, <1>6, <1>7, <1>8, <1>9, <1>10, <1>11, <1>12, <1>13, <1>14
          DEF Next, ExchangeReturns

(* Every reachable state of the server is well typed.                      *)
THEOREM ServiceTypeCorrect == Spec => []TypeOK
<1>1. Init => KeysTyped /\ RequestTyped /\ Counts
  <2>1. Init => KeysTyped
    BY DEF Init, KeysTyped, Rings, KR!EmptyRing, KR!KeyIds
  <2>2. Init => RequestTyped
    BY DEF Init, RequestTyped, Statuses, NoRequest, Request, MaybeToken
  <2>3. Init => Counts
    BY DEF Init, Counts, ConnectionsAccounted
  <2>. QED  BY <2>1, <2>2, <2>3
<1>2. KeysTyped /\ RequestTyped /\ Counts /\ CacheInv /\ CookieInv /\ SignInv => TypeOK
  <2> SUFFICES ASSUME KeysTyped, RequestTyped, Counts, CacheInv, CookieInv, SignInv PROVE TypeOK
    OBVIOUS
  <2>1. open \in Nat /\ dropped \in 0..MaxDropped /\ pc \in {"down", "idle", "exchange", "verify"}
    BY DEF Counts, ConnectionsAccounted
  <2>2. /\ tokenOf \in [Codes -> MaybeToken]
        /\ granted \subseteq Tokens /\ signedIn \subseteq Codes
    BY DEF CookieInv, TokensKnown, SignInv
  <2>. QED  BY <2>1, <2>2 DEF KeysTyped, RequestTyped, Statuses, CacheInv, TypeOK
<1>. QED  BY <1>1, <1>2, KeysTypedStep, RequestTypedStep, CountsStep, CookieInvHolds,
             SignInvHolds, ServiceCacheInv, PTL DEF Spec
=============================================================================
