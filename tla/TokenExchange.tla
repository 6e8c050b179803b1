---------------------------- MODULE TokenExchange ----------------------------
(***************************************************************************)
(* get_tokens_from_microsoft (src/appauth.cpp) with the HTTP client it     *)
(* uses: the steps of CodeCache, in which an exchange is one POST whose    *)
(* answer just comes or does not, joined with those of HttpClient.         *)
(***************************************************************************)
EXTENDS CodeCache, HttpClient

CONSTANTS TokenBodies,   \* the bodies that parse as a document with an
                         \* id_token, each standing for its token
          OtherBodies,   \* other bodies that the provider sends
          NoBody         \* no token was ever cached for the code

ASSUME BodiesAssumption == /\ TokenBodies \subseteq Seq(Octets)
                           /\ OtherBodies \subseteq Seq(Octets) \ TokenBodies
                           /\ <<>> \notin TokenBodies
                           /\ NoBody \notin Seq(Octets)

VARIABLES token,    \* timed_token.value of the entry made for a code
          given     \* history: the token the provider gave for a code

exchangeVars == <<cacheVars, httpVars, token, given>>

-----------------------------------------------------------------------------
ExchangeInit == /\ CacheInit /\ HttpInit
                /\ token = [c \in Codes |-> NoBody]
                /\ given = [c \in Codes |-> NoBody]

Elsewhere == /\ \/ CacheTick
                \/ \E c \in Codes : IssueCode(c)
             /\ UNCHANGED <<httpVars, token, given>>

Hit == /\ \E c \in Codes : get_tokens_hit(c)
       /\ UNCHANGED <<httpVars, token, given>>

(* A miss.  The provider redeems a fresh code, unless it is in trouble.    *)
Miss == \E c \in Codes :
           /\ get_tokens_miss(c)
           /\ \/ /\ \E body \in OtherBodies : http_post(body)
                 /\ UNCHANGED given
              \/ /\ codes[c] = "fresh"
                 /\ \E body \in TokenBodies : /\ http_post(body)
                                              /\ given' = [given EXCEPT ![c] = body]
              \/ http_post_fails_early /\ UNCHANGED given
           /\ UNCHANGED token

(* Inside http_post.                                                       *)
Performing == /\ write_callback \/ perform_ends \/ perform_fails
              /\ UNCHANGED <<cacheVars, token, given>>

(* http_post has returned 0, and its answer is parsed, whatever its status *)
(* was; the entry is made with try_emplace.                                *)
TokenTaken == /\ doing = "returned" /\ buffer \in TokenBodies
              /\ get_tokens_token
              /\ token' = [token EXCEPT ![posting] = buffer]
              /\ http_response_free
              /\ UNCHANGED given

NoTokenTaken == /\ doing = "returned" /\ buffer \notin TokenBodies
                /\ get_tokens_no_token
                /\ http_response_free
                /\ UNCHANGED <<token, given>>

(* It has returned -1.  The code is spent if the provider had redeemed it. *)
NothingTaken == /\ doing = "failed"
                /\ get_tokens_fails
                /\ (codes'[posting] # codes[posting]) = (sent \in TokenBodies)
                /\ http_response_free
                /\ UNCHANGED <<token, given>>

(* The process ends.                                                       *)
ExchangeCrash == /\ CacheCrash
                 /\ posting # NoCode =>
                       (codes'[posting] # codes[posting]) = (sent \in TokenBodies)
                 /\ doing' = "idle" /\ held' = {}
                 /\ sent' = <<>> /\ taken' = 0 /\ buffer' = <<>>
                 /\ UNCHANGED <<token, given>>

ExchangeNext == \/ Elsewhere \/ Hit \/ Miss \/ Performing
                \/ TokenTaken \/ NoTokenTaken \/ NothingTaken
                \/ ExchangeCrash

ExchangeSpec == ExchangeInit /\ [][ExchangeNext]_exchangeVars

(* The clock runs, curl gives up at its timeout at the latest, and the     *)
(* server goes on when http_post has returned.                             *)
ExchangeFairness ==
    /\ WF_exchangeVars(CacheTick /\ UNCHANGED <<httpVars, token, given>>)
    /\ WF_exchangeVars(TimedOut /\ perform_fails /\ UNCHANGED <<cacheVars, token, given>>)
    /\ WF_exchangeVars(TokenTaken \/ NoTokenTaken \/ NothingTaken)

ExchangeLiveSpec == ExchangeSpec /\ ExchangeFairness

-----------------------------------------------------------------------------
(* Type invariant.  A call of http_post is under way for a code if and     *)
(* only if there is one that is being exchanged.                           *)
ExchangeTypeOK == /\ CacheTypeOK /\ HttpTypeOK
                  /\ token \in [Codes -> TokenBodies \cup {NoBody}]
                  /\ given \in [Codes -> TokenBodies \cup {NoBody}]
                  /\ doing = "idle" <=> posting = NoCode

(* The token that call-backs are answered with from the cache is the one   *)
(* the provider gave for that very code, whole, whatever the sizes of the  *)
(* answers, the pieces they came in and the exchanges that failed before.  *)
CachedTokensAreWhole == \A c \in cache : token[c] \in TokenBodies /\ token[c] = given[c]
=============================================================================
