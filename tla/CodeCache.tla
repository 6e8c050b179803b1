------------------------------ MODULE CodeCache ------------------------------
(***************************************************************************)
(* The exchange of an authorisation code for an id token, and the cache    *)
(* g_codes_to_jwts that lets a browser repeat the call-back request:       *)
(* get_tokens_from_microsoft and g_codes_to_jwts_remove_expired in         *)
(* src/appauth.cpp, with http_post (src/httpclient.c) underneath.          *)
(*                                                                         *)
(* The provider redeems a code once (external; it is why the cache         *)
(* exists).  A token is abstracted to the code it was given for.  Time is  *)
(* counted in steps of ten seconds: an entry lives EntryLife steps (30s),  *)
(* http_post gives up after PostTimeout steps (CURLOPT_TIMEOUT, 20s).      *)
(***************************************************************************)
EXTENDS Naturals

CONSTANTS Codes,        \* authorisation codes
          NoCode,       \* no exchange is under way
          EntryLife,    \* the 30s of timed_token.expires_at
          PostTimeout   \* the 20s of CURLOPT_TIMEOUT

ASSUME NoCodeAssumption == NoCode \notin Codes
ASSUME TimesAssumption == EntryLife \in Nat \ {0} /\ PostTimeout \in Nat \ {0}

VARIABLES codes,        \* the provider's side: "unused", "fresh" or "spent"
          cache,        \* the codes that have an entry in g_codes_to_jwts
          life,         \* steps until the entry's expires_at, 0 when past
          posting,      \* the code whose POST is under way, or NoCode
          postAge,      \* steps since that POST began
          sinceAnswer,  \* history: steps since this process last answered the
                        \* code with a token; EntryLife means that or never
          mislaid,      \* history: codes whose token went missing on the way
                        \* here, or with the process that held it
          expired       \* history: codes whose entry was dropped when past
                        \* its expires_at

historyVars == <<mislaid, expired>>
cacheVars == <<codes, cache, life, posting, postAge, sinceAnswer, historyVars>>

-----------------------------------------------------------------------------
CacheInit == /\ codes = [c \in Codes |-> "unused"]
             /\ cache = {}
             /\ life = [c \in Codes |-> 0]
             /\ posting = NoCode
             /\ postAge = 0
             /\ sinceAnswer = [c \in Codes |-> EntryLife]
             /\ mislaid = {}
             /\ expired = {}

(* The provider hands the user's browser a code (external).                *)
IssueCode(c) == /\ codes[c] = "unused"
                /\ codes' = [codes EXCEPT ![c] = "fresh"]
                /\ UNCHANGED <<cache, life, posting, postAge, sinceAnswer, historyVars>>

(* curl gives up on the POST.                                              *)
never_times_out == FALSE

TimedOut == posting # NoCode /\ postAge >= PostTimeout

(* Ten seconds pass.  A POST never outlasts its timeout.                   *)
CacheTick ==
    /\ ~TimedOut
    /\ life' = [c \in Codes |-> IF life[c] > 0 THEN life[c] - 1 ELSE 0]
    /\ sinceAnswer' = [c \in Codes |-> IF sinceAnswer[c] < EntryLife
                                       THEN sinceAnswer[c] + 1 ELSE EntryLife]
    /\ postAge' = IF posting # NoCode /\ postAge < PostTimeout THEN postAge + 1 ELSE postAge
    /\ UNCHANGED <<codes, cache, posting, historyVars>>

(* now >= expires_at: the entry goes.                                      *)
remove_expired == {c \in cache : life[c] > 0}

Answered(c) == sinceAnswer' = [sinceAnswer EXCEPT ![c] = 0]

(* There is an entry: it is served whether it has expired or not, and      *)
(* lives another EntryLife from now.                                       *)
get_tokens_hit_without_renewal(c) ==
    /\ posting = NoCode
    /\ c \in cache
    /\ Answered(c)
    /\ UNCHANGED <<codes, cache, life, posting, postAge, historyVars>>

get_tokens_hit(c) ==
    /\ posting = NoCode
    /\ c \in cache
    /\ life' = [life EXCEPT ![c] = EntryLife]
    /\ Answered(c)
    /\ UNCHANGED <<codes, cache, posting, postAge, historyVars>>

(* There is none: drop what has expired and ask the provider.              *)
get_tokens_miss(c) ==
    /\ posting = NoCode
    /\ c \notin cache
    /\ cache' = remove_expired
    /\ expired' = expired \cup {d \in cache : life[d] = 0}
    /\ posting' = c
    /\ postAge' = 0
    /\ UNCHANGED <<codes, life, sinceAnswer, mislaid>>

(* The provider redeems the code and its answer arrives.                   *)
get_tokens_not_cached ==
    /\ posting # NoCode
    /\ codes[posting] = "fresh"
    /\ codes' = [codes EXCEPT ![posting] = "spent"]
    /\ Answered(posting)
    /\ posting' = NoCode /\ postAge' = 0
    /\ UNCHANGED <<cache, life, historyVars>>

get_tokens_token ==
    /\ posting # NoCode
    /\ codes[posting] = "fresh"
    /\ codes' = [codes EXCEPT ![posting] = "spent"]
    /\ cache' = cache \cup {posting}
    /\ life' = [life EXCEPT ![posting] = EntryLife]
    /\ Answered(posting)
    /\ posting' = NoCode /\ postAge' = 0
    /\ UNCHANGED historyVars

(* A document without a usable id_token arrives, whatever the HTTP status: *)
(* the code was not fresh, or the provider is in trouble.  Return code -2. *)
(* (The look-up of a missing id_token reads past the end of the object;    *)
(* what it finds there is no string, or the process ends.)                 *)
get_tokens_no_token ==
    /\ posting # NoCode
    /\ posting' = NoCode /\ postAge' = 0
    /\ UNCHANGED <<codes, cache, life, sinceAnswer, historyVars>>

(* The transport fails or times out: return code -1.  The provider may     *)
(* have redeemed the code all the same.                                    *)
LoseToken(c) ==
    \/ UNCHANGED <<codes, mislaid>>
    \/ /\ codes[c] = "fresh"
       /\ codes' = [codes EXCEPT ![c] = "spent"]
       /\ mislaid' = mislaid \cup {c}

get_tokens_fails ==
    /\ posting # NoCode
    /\ LoseToken(posting)
    /\ posting' = NoCode /\ postAge' = 0
    /\ UNCHANGED <<cache, life, sinceAnswer, expired>>

(* The process ends, in the middle of a POST or not.  The cache is in      *)
(* memory only.                                                            *)
CacheCrash ==
    /\ cache' = {}
    /\ life' = [c \in Codes |-> 0]
    /\ sinceAnswer' = [c \in Codes |-> EntryLife]
    /\ posting' = NoCode /\ postAge' = 0
    /\ \/ mislaid' = mislaid \cup cache /\ UNCHANGED codes
       \/ /\ posting # NoCode /\ codes[posting] = "fresh"
          /\ codes' = [codes EXCEPT ![posting] = "spent"]
          /\ mislaid' = mislaid \cup cache \cup {posting}
    /\ UNCHANGED expired

PostReturns == get_tokens_token \/ get_tokens_no_token \/ get_tokens_fails

CacheNext == \/ CacheTick \/ CacheCrash \/ PostReturns
             \/ \E c \in Codes : IssueCode(c) \/ get_tokens_hit(c) \/ get_tokens_miss(c)

CacheSpec == CacheInit /\ [][CacheNext]_cacheVars

(* The clock runs and curl returns at its timeout at the latest.           *)
CacheFairness == /\ WF_cacheVars(CacheTick)
                 /\ WF_cacheVars(PostReturns /\ TimedOut)

CacheLiveSpec == CacheSpec /\ CacheFairness

-----------------------------------------------------------------------------
(* Type invariant.                                                         *)
CacheTypeOK == /\ codes \in [Codes -> {"unused", "fresh", "spent"}]
               /\ cache \subseteq Codes
               /\ life \in [Codes -> 0..EntryLife]
               /\ posting \in Codes \cup {NoCode}
               /\ postAge \in 0..PostTimeout
               /\ sinceAnswer \in [Codes -> 0..EntryLife]
               /\ mislaid \subseteq Codes /\ expired \subseteq Codes

(* A browser that repeats its call-back within EntryLife of an answer is   *)
(* answered again from the cache, whatever other exchanges, sweeps and     *)
(* timeouts come in between.                                               *)
ReloadStillWorks ==
    \A c \in Codes : sinceAnswer[c] < EntryLife => c \in cache

(* A code that has been redeemed is taken to the provider again, to be     *)
(* refused, only if its token never got here, was lost with the process,   *)
(* or was dropped when it had expired.                                     *)
RepeatedOnlyAfterLoss ==
    \A c \in Codes : posting = c /\ codes[c] = "spent" => c \in mislaid \cup expired

(* Every exchange ends.                                                    *)
ExchangeEnds == \A c \in Codes : posting = c ~> posting = NoCode
=============================================================================
