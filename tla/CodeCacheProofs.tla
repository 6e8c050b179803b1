---------------------------- MODULE CodeCacheProofs ----------------------------
(***************************************************************************)
(* The code cache's invariants, for any set of codes, any life of an entry *)
(* and any timeout of the POST.                                            *)
(***************************************************************************)
EXTENDS CodeCache, TLAPS

USE NoCodeAssumption, TimesAssumption

LEMMA CacheTypeStep == CacheTypeOK /\ [CacheNext]_cacheVars => CacheTypeOK'
<1> SUFFICES ASSUME CacheTypeOK, [CacheNext]_cacheVars PROVE CacheTypeOK'
  OBVIOUS
<1> USE DEF CacheTypeOK, historyVars
<1>1. CASE UNCHANGED cacheVars
  BY <1>1 DEF cacheVars
<1>2. CASE CacheTick
  <2>1. life' \in [Codes -> 0..EntryLife] /\ sinceAnswer' \in [Codes -> 0..EntryLife]
    BY <1>2 DEF CacheTick
  <2>. QED  BY <1>2, <2>1 DEF CacheTick
<1>3. CASE CacheCrash
  BY <1>3 DEF CacheCrash
<1>4. CASE PostReturns
  BY <1>4 DEF PostReturns, get_tokens_token, get_tokens_no_token, get_tokens_fails, LoseToken,
              Answered
<1>5. ASSUME NEW c \in Codes, IssueCode(c) PROVE CacheTypeOK'
  BY <1>5 DEF IssueCode
<1>6. ASSUME NEW c \in Codes, get_tokens_hit(c) PROVE CacheTypeOK'
  BY <1>6 DEF get_tokens_hit, Answered
<1>7. ASSUME NEW c \in Codes, get_tokens_miss(c) PROVE CacheTypeOK'
  BY <1>7 DEF get_tokens_miss, remove_expired
<1>. QED  BY <1>1, <1>2, <1>3, <1>4, <1>5, <1>6, <1>7 DEF CacheNext

(* Every reachable state of the code cache is well typed.                  *)
THEOREM CacheTypeCorrect == CacheSpec => []CacheTypeOK
<1>1. CacheInit => CacheTypeOK
  BY DEF CacheInit, CacheTypeOK
<1>. QED  BY <1>1, CacheTypeStep, PTL DEF CacheSpec

-----------------------------------------------------------------------------
(* A code answered less than EntryLife ago has an entry whose remaining    *)
(* life is the rest of that time: this is what a sweep looks at.           *)
LifeMatchesAnswer ==
    \A c \in Codes : sinceAnswer[c] < EntryLife =>
                        c \in cache /\ life[c] = EntryLife - sinceAnswer[c]

(* The token of a redeemed code is in the cache, or it is known how it     *)
(* went; and a code that is being exchanged has no entry.                  *)
NoTokenVanishes ==
    /\ \A c \in Codes : codes[c] = "spent" => c \in cache \cup mislaid \cup expired
    /\ posting \notin cache

CacheInv == CacheTypeOK /\ LifeMatchesAnswer /\ NoTokenVanishes

LEMMA CacheInvStep == CacheInv /\ [CacheNext]_cacheVars => CacheInv'
<1> SUFFICES ASSUME CacheInv, [CacheNext]_cacheVars
             PROVE  LifeMatchesAnswer' /\ NoTokenVanishes'
  BY CacheTypeStep DEF CacheInv
<1> USE DEF CacheInv, CacheTypeOK, historyVars
<1>1. CASE UNCHANGED cacheVars
  BY <1>1 DEF cacheVars, LifeMatchesAnswer, NoTokenVanishes
<1>2. CASE CacheTick
  <2>1. LifeMatchesAnswer'
    BY <1>2 DEF CacheTick, LifeMatchesAnswer
  <2>. QED  BY <1>2, <2>1 DEF CacheTick, NoTokenVanishes
<1>3. CASE CacheCrash
  <2>1. LifeMatchesAnswer'
    BY <1>3 DEF CacheCrash, LifeMatchesAnswer
  <2>. QED  BY <1>3, <2>1 DEF CacheCrash, NoTokenVanishes
<1>4. CASE get_tokens_token
  <2>1. LifeMatchesAnswer'
    BY <1>4 DEF get_tokens_token, Answered, LifeMatchesAnswer
  <2>. QED  BY <1>4, <2>1 DEF get_tokens_token, NoTokenVanishes
<1>5. CASE get_tokens_no_token
  BY <1>5 DEF get_tokens_no_token, LifeMatchesAnswer, NoTokenVanishes
<1>6. CASE get_tokens_fails
  BY <1>6 DEF get_tokens_fails, LoseToken, LifeMatchesAnswer, NoTokenVanishes
<1>7. ASSUME NEW c \in Codes, IssueCode(c) PROVE LifeMatchesAnswer' /\ NoTokenVanishes'
  BY <1>7 DEF IssueCode, LifeMatchesAnswer, NoTokenVanishes
<1>8. ASSUME NEW c \in Codes, get_tokens_hit(c) PROVE LifeMatchesAnswer' /\ NoTokenVanishes'
  BY <1>8 DEF get_tokens_hit, Answered, LifeMatchesAnswer, NoTokenVanishes
<1>9. ASSUME NEW c \in Codes, get_tokens_miss(c) PROVE LifeMatchesAnswer' /\ NoTokenVanishes'
  <2>1. LifeMatchesAnswer'
    BY <1>9 DEF get_tokens_miss, remove_expired, LifeMatchesAnswer
  <2>2. \A d \in cache : life[d] = 0 \/ life[d] > 0
    OBVIOUS
  <2>. QED  BY <1>9, <2>1, <2>2 DEF get_tokens_miss, remove_expired, NoTokenVanishes
<1>. QED  BY <1>1, <1>2, <1>3, <1>4, <1>5, <1>6, <1>7, <1>8, <1>9 DEF CacheNext, PostReturns

THEOREM CacheInvHolds == CacheSpec => []CacheInv
<1>1. CacheInit => CacheInv
  BY DEF CacheInit, CacheInv, CacheTypeOK, LifeMatchesAnswer, NoTokenVanishes
<1>. QED  BY <1>1, CacheInvStep, PTL DEF CacheSpec

(* A repeated call-back is answered from the cache for EntryLife.          *)
THEOREM Reload == CacheSpec => []ReloadStillWorks
<1>1. CacheInv => ReloadStillWorks
  BY DEF CacheInv, LifeMatchesAnswer, ReloadStillWorks
<1>. QED  BY <1>1, CacheInvHolds, PTL

(* A redeemed code is posted again only when its token is lost.            *)
THEOREM RepeatedAfterLoss == CacheSpec => []RepeatedOnlyAfterLoss
<1>1. CacheInv => RepeatedOnlyAfterLoss
  BY DEF CacheInv, NoTokenVanishes, RepeatedOnlyAfterLoss
<1>. QED  BY <1>1, CacheInvHolds, PTL
=============================================================================
