----------------------------- MODULE AuthService -----------------------------
(***************************************************************************)
(* The authentication server as its clients see it: the accept loop of     *)
(* appsrc/auth.cpp, the router appauth_process_request, and every handler  *)
(* of src/appauth.cpp.  The key store appears as its abstract              *)
(* specification KeyRing (module JWKSStore implements it), the exchange of *)
(* authorisation codes as module CodeCache.                                *)
(*                                                                         *)
(* One thread serves one request at a time.  A handler that neither asks   *)
(* the provider nor the key store is one step; the others are cut there:   *)
(* pc is "exchange" while http_post waits for the provider and "verify"    *)
(* while the key store looks for a key, which may take a download.         *)
(***************************************************************************)
EXTENDS CodeCache, KeyNames, Sequences

CONSTANTS Tokens,        \* the tokens that can occur: records of TokenType
          HookPresent,   \* built with APPLICATION_AUTHORISATION_VERIFICATION
          MaxDropped     \* bound: connections left open by dropped forms

(* full        decodes, has every claim that is read, and names its user   *)
(* nouser      the same without an e-mail address or a name                *)
(* incomplete  decodes, but a claim that is read after the verification is *)
(*             missing (one that is read before it ends the process as the *)
(*             request arrives, which is a Stop)                           *)
(* malformed   does not decode                                             *)
Forms == {"full", "nouser", "incomplete", "malformed"}
TokenType == [kid : KeyIds, mat : Keys, form : Forms]

ASSUME TokensAssumption == Tokens \subseteq TokenType
ASSUME ServiceAssumption ==
    /\ None \notin KeyIds \cup Keys \cup Tokens
    /\ CutKey \notin Materials /\ CutKid \notin Kids
    /\ HookPresent \in BOOLEAN /\ MaxDropped \in Nat

VARIABLES ring, everIssued, torn, call,   \* the key store (see KeyRing)
          tokenOf,    \* the id token the provider gave for a code
          pc,         \* "down", "idle", "exchange" or "verify"
          req,        \* the request being served, or the latest one
          replies,    \* the Status: lines written for it so far
          open,       \* accepted connections not yet finished
          dropped,    \* history: forms dropped without an answer
          granted,    \* history: tokens sent in a Set-Cookie: auth=
          signedIn    \* history: codes that this process has answered with
                      \* such a cookie

KR == INSTANCE KeyRing WITH up <- pc # "down"

keyVars == <<ring, everIssued, torn, call>>
history == <<granted, signedIn>>
serverVars == <<pc, req, replies, open, dropped, history>>
vars == <<cacheVars, keyVars, tokenOf, serverVars>>

-----------------------------------------------------------------------------
(* Requests.  The endpoint stands for the method and PATH_INFO that the    *)
(* router compares; tok is the token the endpoint takes (of several auth   *)
(* cookies "verify" and "debug" take the first, the login page the last;   *)
(* "direct" takes an argument), code that of the call-back, form how the   *)
(* arguments fare: for the login form, whether it can be decoded and names *)
(* the provider; for the call-back, which arguments there are and whether  *)
(* the state argument verifies.  A "bearer" request asks "verify" with the *)
(* token in an Authorization header and no auth cookie; "bare" has no      *)
(* PATH_INFO, "other" one that no branch of the router names.              *)

Request(ep, tok, code, form) == [ep |-> ep, tok |-> tok, code |-> code, form |-> form]

NoRequest == Request("none", None, NoCode, "none")

MaybeToken == Tokens \cup {None}

LoginForms == {"microsoft", "other", "undecodable"}
CallbackForms == {"error", "incomplete", "forged", "good"}

Requests ==
    {Request(ep, t, NoCode, "none") : ep \in {"login_get", "verify", "direct", "debug"},
                                      t \in MaybeToken}
    \cup {Request("bearer", t, NoCode, "none") : t \in Tokens}
    \cup {Request(ep, None, NoCode, "none") : ep \in {"logout", "head", "bare", "other"}}
    \cup {Request("login_post", None, NoCode, f) : f \in LoginForms}
    \cup {Request("callback", None, c, f) : c \in Codes, f \in CallbackForms}

-----------------------------------------------------------------------------
Init == /\ CacheInit
        /\ ring = KR!EmptyRing
        /\ everIssued = {}
        /\ torn = FALSE
        /\ call = KR!NoCall
        /\ tokenOf = [c \in Codes |-> None]
        /\ pc = "down"
        /\ req = NoRequest
        /\ replies = <<>>
        /\ open = 0
        /\ dropped = 0
        /\ granted = {}
        /\ signedIn = {}

(***************************************************************************)
(* Outside the server                                                      *)
(***************************************************************************)
ProviderIssuesKey == /\ \E p \in Kids \X Materials : everIssued' = everIssued \cup {p}
                     /\ UNCHANGED <<cacheVars, tokenOf, serverVars>>
                     /\ KR!Issue

ProviderIssuesCode == /\ \E c \in Codes : IssueCode(c)
                      /\ UNCHANGED <<keyVars, tokenOf, serverVars>>

Tick == CacheTick /\ UNCHANGED <<keyVars, tokenOf, serverVars>>

(* The key store's backing file is written while a request waits for it.   *)
SaveTorn == /\ pc = "verify"
            /\ UNCHANGED <<cacheVars, tokenOf, serverVars>>
            /\ KR!Tear

Rings == [KeyIds -> Keys \cup {None}]

(* main, up to the accept loop.                                            *)
Start == /\ pc = "down" /\ pc' = "idle"
         /\ ring' \in Rings
         /\ KR!Start
         /\ UNCHANGED <<cacheVars, tokenOf, req, replies, open, dropped, history>>

(* The process ends: a signal, or an exception that nobody catches, as     *)
(* when a verified token lacks a claim.  Its connections are closed, the   *)
(* request it was serving is lost.                                         *)
Stop == /\ pc # "down" /\ pc' = "down"
        /\ ring' = KR!EmptyRing
        /\ KR!Stop
        /\ CacheCrash
        /\ open' = 0 /\ dropped' = 0
        /\ req' = NoRequest /\ replies' = <<>>
        /\ signedIn' = {}
        /\ UNCHANGED <<tokenOf, granted>>

(***************************************************************************)
(* Serving.  A request is accepted, and the handler goes on: it finishes,  *)
(* or waits for the provider or for the key store.                         *)
(***************************************************************************)
Accept(r) == /\ pc = "idle"
             /\ req' = r

(* FCGX_Finish_r after the given Status: lines.                            *)
FinishAtOnce(statuses) == /\ pc' = "idle"
                          /\ replies' = statuses
                          /\ UNCHANGED <<open, dropped>>

FinishWaiting(statuses) == /\ pc' = "idle"
                           /\ replies' = statuses
                           /\ open' = open - 1
                           /\ UNCHANGED dropped

(* The request is held open while the server waits.                        *)
Hold(where) == /\ pc' = where
               /\ replies' = <<>>
               /\ open' = open + 1
               /\ UNCHANGED dropped

(* verify_jwks_authentication_jwt asks the key store, if the token decodes *)
(* and has the claims that are read first.                                 *)
Asks(t) == t # None /\ t.form # "malformed"

StaysOut == UNCHANGED <<cacheVars, keyVars, tokenOf, history>>

(* The handlers that look at no token, or at one without verifying it.     *)
process_login_page_post ==
    \E form \in LoginForms :
        /\ Accept(Request("login_post", None, NoCode, form))
        /\ \/ form = "microsoft" /\ FinishAtOnce(<<302>>)
           \/ form = "other" /\ FinishAtOnce(<<400>>)
           \/ (* returns before FCGX_Finish_r: no answer, and the next     *)
              (* FCGX_InitRequest forgets the connection                   *)
              /\ form = "undecodable"
              /\ dropped < MaxDropped
              /\ pc' = "idle" /\ replies' = <<>>
              /\ open' = open + 1 /\ dropped' = dropped + 1
        /\ StaysOut

process_debug_never_finishes ==
    \E t \in MaybeToken : /\ Accept(Request("debug", t, NoCode, "none"))
                          /\ pc' = "idle" /\ replies' = <<200>>
                          /\ open' = open + 1
                          /\ UNCHANGED dropped
                          /\ StaysOut

process_debug_token_auth_request ==
    \E t \in MaybeToken : /\ Accept(Request("debug", t, NoCode, "none"))
                          /\ FinishAtOnce(<<200>>)
                          /\ StaysOut

process_logout_request == /\ Accept(Request("logout", None, NoCode, "none"))
                          /\ FinishAtOnce(<<200>>)
                          /\ StaysOut

process_unrouted == \E ep \in {"head", "bare", "other"} :
                        /\ Accept(Request(ep, None, NoCode, "none"))
                        /\ FinishAtOnce(IF ep = "head" THEN <<403>> ELSE <<404>>)
                        /\ StaysOut

(* The Authorization header is read from the environment but not parsed:   *)
(* without a cookie there is no token.                                     *)
process_bearer == \E t \in Tokens : /\ Accept(Request("bearer", t, NoCode, "none"))
                                    /\ FinishAtOnce(<<401>>)
                                    /\ StaysOut

(* The answers that need no key: no token, or one that does not decode.    *)
AnswerUnasked(ep) == CASE ep = "login_get" -> <<200>>
                       [] ep \in {"verify", "direct"} -> <<401>>

TokenEndpoints == {"login_get", "verify", "direct"}

process_token_without_key ==
    \E ep \in TokenEndpoints, t \in MaybeToken :
        /\ Accept(Request(ep, t, NoCode, "none"))
        /\ ~Asks(t)
        /\ FinishAtOnce(AnswerUnasked(ep))
        /\ StaysOut

process_token_verify ==
    \E ep \in TokenEndpoints, t \in Tokens :
        /\ Accept(Request(ep, t, NoCode, "none"))
        /\ Asks(t)
        /\ Hold("verify")
        /\ KR!Ask(t.kid, t.mat)
        /\ UNCHANGED <<cacheVars, tokenOf, history>>

(* process_code_response                                                   *)
process_code_response_falls_through ==
    \E c \in Codes, form \in CallbackForms \ {"good"} :
        /\ Accept(Request("callback", None, c, form))
        /\ FinishAtOnce(IF form = "error" THEN <<200, 400>> ELSE <<400>>)
        /\ StaysOut

process_code_response_refused ==
    \E c \in Codes, form \in CallbackForms \ {"good"} :
        /\ Accept(Request("callback", None, c, form))
        /\ FinishAtOnce(IF form = "error" THEN <<200>> ELSE <<400>>)
        /\ StaysOut

(* A token for the code is in the cache: whatever string the provider gave *)
(* for it.                                                                 *)
process_code_response_hit ==
    \E c \in Codes :
        /\ Accept(Request("callback", tokenOf[c], c, "good"))
        /\ get_tokens_hit(c)
        /\ \/ Asks(tokenOf[c]) /\ Hold("verify") /\ KR!Ask(tokenOf[c].kid, tokenOf[c].mat)
           \/ ~Asks(tokenOf[c]) /\ FinishAtOnce(<<401>>) /\ UNCHANGED keyVars
        /\ UNCHANGED <<tokenOf, history>>

process_code_response_miss ==
    \E c \in Codes :
        /\ Accept(Request("callback", None, c, "good"))
        /\ get_tokens_miss(c)
        /\ Hold("exchange")
        /\ UNCHANGED <<keyVars, tokenOf, history>>

(* The provider's answer brings a token, any string that it calls one.     *)
process_code_response_token ==
    \E t \in Tokens :
        /\ pc = "exchange"
        /\ tokenOf' = [tokenOf EXCEPT ![posting] = t]
        /\ get_tokens_token
        /\ req' = [req EXCEPT !.tok = t]
        /\ \/ /\ Asks(t) /\ pc' = "verify" /\ KR!Ask(t.kid, t.mat)
              /\ UNCHANGED <<replies, open, dropped>>
           \/ ~Asks(t) /\ FinishWaiting(<<401>>) /\ UNCHANGED keyVars
        /\ UNCHANGED history

process_code_response_no_token ==
    /\ pc = "exchange"
    /\ get_tokens_no_token \/ get_tokens_fails
    /\ FinishWaiting(<<500>>)
    /\ UNCHANGED <<keyVars, tokenOf, req, history>>

(***************************************************************************)
(* The key store answers, and the handler that asked goes on.              *)
(***************************************************************************)
(* The store's answer, over which the ring may have grown.                 *)
KeyAnswerFromNewKeysOnly ==
    /\ pc = "verify" /\ pc' = "idle"
    /\ ring' \in Rings
    /\ \A k \in KeyIds : ring'[k] = None \/ KR!Published(k, ring'[k])
    /\ call' = [call EXCEPT !.verdict = IF ring'[call.kid] = call.mat
                                       THEN "accepted" ELSE "rejected"]
    /\ UNCHANGED <<everIssued, torn, req>>

KeyAnswer == /\ pc = "verify" /\ pc' = "idle"
             /\ ring' \in Rings
             /\ KR!Answer(req.tok.kid, req.tok.mat)
             /\ UNCHANGED req

(* verify_jwks_authentication_jwt returns 0.                               *)
verifies_unsigned == req.tok.form = "full"

Verified == call'.verdict = "accepted" /\ req.tok.form = "full"

(* It does not return: the token verifies, but a claim that is read is     *)
(* missing, and nobody catches the std::out_of_range (a Stop follows).     *)
Unreturned == call'.verdict = "accepted" /\ req.tok.form = "incomplete"

SetCookie(t) == granted' = granted \cup {t}

login_get_verified ==
    /\ req.ep = "login_get" /\ KeyAnswer /\ ~Unreturned
    /\ IF Verified THEN FinishWaiting(<<302, 200>>) ELSE FinishWaiting(<<200>>)
    /\ UNCHANGED <<cacheVars, tokenOf, history>>

callback_verified ==
    /\ req.ep = "callback" /\ KeyAnswer /\ ~Unreturned
    /\ IF Verified THEN /\ FinishWaiting(<<302>>) /\ SetCookie(req.tok)
                        /\ signedIn' = signedIn \cup {req.code}
                   ELSE FinishWaiting(<<401>>) /\ UNCHANGED history
    /\ UNCHANGED <<cacheVars, tokenOf>>

direct_verified ==
    /\ req.ep = "direct" /\ KeyAnswer /\ ~Unreturned
    /\ IF Verified THEN FinishWaiting(<<200>>) /\ SetCookie(req.tok)
                   ELSE FinishWaiting(<<401>>) /\ UNCHANGED granted
    /\ UNCHANGED <<cacheVars, tokenOf, signedIn>>

(* process_verification_request looks at the user context only, which any  *)
(* token that names a user gives; the outcome of the verification is a     *)
(* field of the context that it does not read.                             *)
NamesUser(t) == t.form \in {"full", "incomplete"}

gate_verified ==
    /\ req.ep = "verify" /\ KeyAnswer /\ ~Unreturned
    /\ \/ NamesUser(req.tok) /\ FinishWaiting(<<200>>)
       \/ NamesUser(req.tok) /\ HookPresent /\ FinishWaiting(<<403>>)
       \/ ~NamesUser(req.tok) /\ FinishWaiting(<<401>>)
    /\ UNCHANGED <<cacheVars, tokenOf, history>>

VerifyReturns == \/ login_get_verified \/ callback_verified
                 \/ direct_verified \/ gate_verified

ExchangeReturns == process_code_response_token \/ process_code_response_no_token

Next == \/ ProviderIssuesKey \/ ProviderIssuesCode \/ Tick
        \/ Start \/ Stop \/ SaveTorn
        \/ process_login_page_post \/ process_debug_token_auth_request
        \/ process_logout_request \/ process_unrouted \/ process_bearer
        \/ process_token_without_key \/ process_token_verify
        \/ process_code_response_refused \/ process_code_response_hit
        \/ process_code_response_miss \/ ExchangeReturns \/ VerifyReturns

Spec == Init /\ [][Next]_vars

-----------------------------------------------------------------------------
(* Type invariant.                                                         *)
TypeOK == /\ CacheTypeOK
          /\ ring \in Rings
          /\ everIssued \subseteq Kids \X Materials
          /\ torn \in BOOLEAN
          /\ tokenOf \in [Codes -> MaybeToken]
          /\ pc \in {"down", "idle", "exchange", "verify"}
          /\ req.ep \in {r.ep : r \in Requests \cup {NoRequest}}
          /\ req.tok \in MaybeToken /\ req.code \in Codes \cup {NoCode}
          /\ replies \in {<<>>} \cup {<<s>> : s \in {200, 302, 400, 401, 403, 404, 500}}
                              \cup {<<302, 200>>}
          /\ open \in Nat /\ dropped \in 0..MaxDropped
          /\ granted \subseteq Tokens /\ signedIn \subseteq Codes

(* The server sets an auth cookie only to a token that names its user and  *)
(* was signed by a key the provider published under the token's key id     *)
(* (but for what a torn write left of such a key): through the cache of    *)
(* codes, repeated call-backs, key refreshes and restarts.                 *)
CookiesAreGenuine ==
    \A t \in granted : t.form = "full" /\ KR!HasSource(t.kid, t.mat)

(* A browser that repeats a call-back which has signed it in is signed in  *)
(* again, while the process runs and the cached token is not dropped: no   *)
(* refresh of the keys, none that fails and no change of keys at the       *)
(* provider makes the same token fail the second time.                     *)
ReloadSignsInAgain ==
    pc = "idle" /\ req.ep = "callback" /\ req.form = "good"
        /\ req.code \in signedIn \ expired
        => replies = <<302>>

(* Every accepted connection is finished, but for the login forms that     *)
(* could not be decoded.                                                   *)
ConnectionsAccounted ==
    open = dropped + (IF pc \in {"exchange", "verify"} THEN 1 ELSE 0)

(* The call-back fails with 500 for a code the provider has redeemed only  *)
(* if the token was lost, or nobody asked for it while its entry lived.    *)
CallbackFailsForReason ==
    pc = "idle" /\ req.ep = "callback" /\ replies = <<500>> /\ codes[req.code] = "spent"
        => req.code \in mislaid \cup expired

-----------------------------------------------------------------------------
(* What the documentation says of the server.                              *)

(* README.md: /private answers 401 "when there is no appropriate auth      *)
(* cookie set", the server being there to "verify JWTs": the gate answers  *)
(* 200 only for a token whose verification succeeded.                      *)
GateAdmitsVerifiedOnly ==
    pc = "idle" /\ req.ep = "verify" /\ replies = <<200>> => call.verdict = "accepted"

(* process_login_page_get: "If we are already authenticated and the token  *)
(* is valid then just follow the return argument immediately."             *)
AuthenticatedFollowReturn ==
    pc = "idle" /\ req.ep = "login_get" /\ req.tok # None /\ Asks(req.tok)
        /\ req.tok.form = "full" /\ call.verdict = "accepted"
        => replies = <<302>>

(* README.md: JWTs are presented "via a cookie or in an Authorization      *)
(* header": a trusted token in the header is not refused.                  *)
AuthorizationHeaderCounts ==
    pc = "idle" /\ req.ep = "bearer" /\ req.tok.form = "full"
        /\ ring[req.tok.kid] = req.tok.mat
        => replies # <<401>>
=============================================================================
