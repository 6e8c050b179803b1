------------------------------ MODULE JWKSStore ------------------------------
(***************************************************************************)
(* The "microsoft" key store of the authentication server: the map         *)
(* verifiers_ from key id to verifier, its backing file on disk, and the   *)
(* refresh that find_verifier runs when a token names an unknown key id    *)
(* (src/JWKSVerifierStore.cpp), with the start-up code that loads the      *)
(* backing file (appsrc/auth.cpp).                                         *)
(*                                                                         *)
(* The server handles one request at a time.  A refresh is cut where the   *)
(* outside world can act: while the download runs, while the backing file  *)
(* is written, and before the keys are added.                              *)
(*                                                                         *)
(* A JWKS document is abstracted to the way the parser takes it and the    *)
(* keys it yields:                                                         *)
(*   jwks     "keys" is an array of objects, or the document is something  *)
(*            else that is taken without complaint and yields no key       *)
(*   throws   "keys" is an array with a non-object entry after `keys'      *)
(*   missing  (backing file only) there is no file                         *)
(* An object without "keys" is of the first kind, or the process ends as   *)
(* it reads past the end of the object: this is undefined.                 *)
(* Time is counted in hours and every age saturates at RefetchHours, which *)
(* stands for "at least that old".                                         *)
(***************************************************************************)
EXTENDS Naturals, KeyNames

CONSTANT RefetchHours   \* std::chrono::hours(24) in find_verifier

ASSUME ConstantsAssumption ==
    /\ None \notin Keys /\ CutKey \notin Materials /\ CutKid \notin Kids
ASSUME RefetchHoursAssumption == RefetchHours \in Nat \ {0}

VARIABLES
    issued,       \* what the provider publishes now: key id -> key
    everIssued,   \* history: every pair it ever published
    verifiers,    \* JWKSStore::verifiers_
    fetchAge,     \* hours since JWKSStore::last_fetch_time_
    backingFile,  \* ./conf/microsoft.jwks.json
    fileAge,      \* hours since the file's st_mtime
    torn,         \* history: a save left part of an entry in the file
    pc,           \* where the server is
    body,         \* the downloaded document, while a refresh is under way
    call          \* the verification in progress, or the latest one

store == <<verifiers, fetchAge>>
disk == <<backingFile, fileAge, torn>>
provider == <<issued, everIssued>>
vars == <<provider, store, disk, pc, body, call>>

-----------------------------------------------------------------------------
(* Documents and key sets                                                  *)

KeySets == [KeyIds -> Keys \cup {None}]
PublishedKeys == {ks \in KeySets : ks[CutKid] = None /\ \A k \in Kids : ks[k] # CutKey}

NoKeys == [k \in KeyIds |-> None]

Document(kind, keys) == [kind |-> kind, keys |-> keys]

Bodies == [kind : {"jwks", "throws"}, keys : KeySets]
Files == [kind : {"jwks", "throws", "missing"}, keys : KeySets]

KeysOf(ks) == {<<k, ks[k]>> : k \in {j \in Kids : ks[j] # None}}

(* What is left of a document's keys when some of its entries are gone.    *)
Parts(ks) ==
    {[k \in KeyIds |-> IF k \in S THEN ks[k] ELSE None] : S \in SUBSET Kids}

(* The same, but that one entry, the last, is not gone: its key or, if the *)
(* fields of an entry end with it, its key id was cut short.  Nothing      *)
(* notices: any text of a key yields a verifier, for another key.          *)
CutParts(ks) ==
    LET Last == {k \in Kids : ks[k] # None}
    IN  {[r EXCEPT ![last] = CutKey] : r \in Parts(ks), last \in Last}
        \cup {[r EXCEPT ![last] = None, ![CutKid] = ks[last]] :
                  r \in Parts(ks), last \in Last}

(* What the parser can make of a document of which only a beginning was    *)
(* written: picojson keeps what it had built when it met the end of the    *)
(* text, and the result of the parse is ignored.                           *)
Torn(doc) == [kind : {"jwks", "throws"}, keys : Parts(doc.keys)]
             \cup [kind : {"jwks"}, keys : CutParts(doc.keys)]

(* try_emplace keeps the verifier that a key id already has.               *)
AddKeysReplaces(v, ks) == [k \in KeyIds |-> IF ks[k] # None THEN ks[k] ELSE v[k]]

AddKeysFirstEntry(v, ks) ==
    [k \in KeyIds |-> IF v[k] # None \/ ks[k] = None THEN v[k]
                      ELSE ks[CHOOSE j \in KeyIds : ks[j] # None]]

AddKeys(v, ks) == [k \in KeyIds |-> IF v[k] # None THEN v[k] ELSE ks[k]]

Older(age) == IF age < RefetchHours THEN age + 1 ELSE age

-----------------------------------------------------------------------------
(* Calls.  A token is abstracted to the key id in its header and the key   *)
(* that signed it.                                                         *)

Verdicts == {"none", "pending", "accepted", "rejected", "error"}
Calls == [kid : KeyIds \cup {None}, mat : Keys \cup {None}, verdict : Verdicts]

NoCall == [kid |-> None, mat |-> None, verdict |-> "none"]
NoBody == Document("jwks", NoKeys)

Pending(k, m) == [kid |-> k, mat |-> m, verdict |-> "pending"]

(* token_verifier->verify(jwt): the signature must be that of the key      *)
(* stored under the key id.  With no key, or another key, the call fails.  *)
VerifyUnsigned(v, k, m) ==
    [kid |-> k, mat |-> m, verdict |-> IF v[k] # None THEN "accepted" ELSE "rejected"]

verify_jwt(v, k, m) ==
    [kid |-> k, mat |-> m, verdict |-> IF v[k] = m THEN "accepted" ELSE "rejected"]

-----------------------------------------------------------------------------
Init == /\ issued \in PublishedKeys
        /\ everIssued = KeysOf(issued)
        /\ verifiers = NoKeys
        /\ fetchAge = RefetchHours
        /\ backingFile = Document("missing", NoKeys)
        /\ fileAge = RefetchHours
        /\ torn = FALSE
        /\ pc = "down"
        /\ body = NoBody
        /\ call = NoCall

(***************************************************************************)
(* The world outside the process                                           *)
(***************************************************************************)
Tick == /\ fetchAge < RefetchHours \/ fileAge < RefetchHours
        /\ fetchAge' = Older(fetchAge)
        /\ fileAge' = Older(fileAge)
        /\ UNCHANGED <<provider, verifiers, backingFile, torn, pc, body, call>>

(* The provider adds, retires or replaces keys.                            *)
RotateKeys == \E ks \in PublishedKeys :
                 /\ issued' = ks
                 /\ everIssued' = everIssued \cup KeysOf(ks)
                 /\ UNCHANGED <<store, disk, pc, body, call>>

(* Somebody installs a fresh copy of the provider's document before the    *)
(* server is started.                                                      *)
InstallBackingFile == /\ pc = "down"
                      /\ backingFile' = Document("jwks", issued)
                      /\ fileAge' = 0
                      /\ UNCHANGED <<provider, store, torn, pc, body, call>>

(***************************************************************************)
(* main: load the backing file and take its modification time as the time  *)
(* of the last fetch.  A missing file and a document that throws end the   *)
(* process before it serves anything, which leaves it down.                *)
(***************************************************************************)
main_age_rounded_up ==
    /\ pc = "down"
    /\ backingFile.kind = "jwks"
    /\ verifiers' = AddKeys(NoKeys, backingFile.keys)
    /\ fetchAge' = fileAge + 1
    /\ pc' = "idle"
    /\ UNCHANGED <<provider, disk, body, call>>

main_stamped_now ==
    /\ pc = "down"
    /\ backingFile.kind = "jwks"
    /\ verifiers' = AddKeys(NoKeys, backingFile.keys)
    /\ fetchAge' = 0
    /\ pc' = "idle"
    /\ UNCHANGED <<provider, disk, body, call>>

main == /\ pc = "down"
        /\ backingFile.kind = "jwks"
        /\ verifiers' = AddKeys(NoKeys, backingFile.keys)
        /\ fetchAge' = fileAge
        /\ pc' = "idle"
        /\ UNCHANGED <<provider, disk, body, call>>

(***************************************************************************)
(* find_verifier, called by verify_jwt                                     *)
(***************************************************************************)

(* The key id is known: no clock, no network.                              *)
find_verifier_known(k, m) ==
    /\ pc = "idle"
    /\ verifiers[k] # None
    /\ call' = verify_jwt(verifiers, k, m)
    /\ UNCHANGED <<provider, store, disk, pc, body>>

(* Unknown, and the last fetch is less than RefetchHours old.              *)
find_verifier_too_soon_restarts_clock(k, m) ==
    /\ pc = "idle"
    /\ verifiers[k] = None
    /\ fetchAge < RefetchHours
    /\ fetchAge' = 0
    /\ call' = verify_jwt(verifiers, k, m)
    /\ UNCHANGED <<provider, verifiers, disk, pc, body>>

find_verifier_too_soon(k, m) ==
    /\ pc = "idle"
    /\ verifiers[k] = None
    /\ fetchAge < RefetchHours
    /\ call' = verify_jwt(verifiers, k, m)
    /\ UNCHANGED <<provider, store, disk, pc, body>>

(* Unknown, and a fetch is due.                                            *)
find_verifier_refresh(k, m) ==
    /\ pc = "idle"
    /\ verifiers[k] = None
    /\ fetchAge >= RefetchHours
    /\ pc' = "fetch"
    /\ call' = Pending(k, m)
    /\ UNCHANGED <<provider, store, disk, body>>

(* The provider answers 200: with its keys, or with something else.        *)
fetch_jwks_json_served ==
    /\ pc = "fetch"
    /\ body' = Document("jwks", issued)
    /\ pc' = "save"
    /\ UNCHANGED <<provider, store, disk, call>>

fetch_jwks_json_faulty ==
    /\ pc = "fetch"
    /\ body' \in {NoBody} \cup [kind : {"throws"}, keys : Parts(issued)]
    /\ pc' = "save"
    /\ UNCHANGED <<provider, store, disk, call>>

(* A transport error or another status throws; verify_jwks_authentication  *)
(* _jwt catches it and the token is refused.  Nothing is stored.           *)
fetch_jwks_json_throws ==
    /\ pc = "fetch"
    /\ pc' = "idle"
    /\ call' = [call EXCEPT !.verdict = "error"]
    /\ UNCHANGED <<provider, store, disk, body>>

(* The body goes to the backing file as it is, before anybody parsed it.   *)
save_backing_file ==
    /\ pc = "save"
    /\ backingFile' = body
    /\ fileAge' = 0
    /\ pc' = "add"
    /\ UNCHANGED <<provider, store, torn, body, call>>

(* The write is cut short somewhere.                                       *)
TornSave == /\ backingFile' \in Torn(body)
            /\ fileAge' = 0
            /\ torn' = (torn \/ backingFile'.keys \in CutParts(body.keys))

(* A failed save is logged only: the file is as before, or torn.           *)
save_backing_file_fails ==
    /\ pc = "save"
    /\ UNCHANGED disk \/ TornSave
    /\ pc' = "add"
    /\ UNCHANGED <<provider, store, body, call>>

(* add_jwks_verifiers_from_string returns, with or without having added    *)
(* keys.  last_write_time is still 0, as a download does not set it: the   *)
(* last fetch becomes the epoch, older than any bound.                     *)
add_without_second_find ==
    /\ pc = "add"
    /\ body.kind # "throws"
    /\ verifiers' = AddKeys(verifiers, body.keys)
    /\ fetchAge' = RefetchHours
    /\ call' = verify_jwt(verifiers, call.kid, call.mat)
    /\ pc' = "idle"
    /\ body' = NoBody
    /\ UNCHANGED <<provider, disk>>

add_jwks_verifiers_from_string ==
    /\ pc = "add"
    /\ body.kind # "throws"
    /\ verifiers' = AddKeys(verifiers, body.keys)
    /\ fetchAge' = RefetchHours
    /\ call' = verify_jwt(AddKeys(verifiers, body.keys), call.kid, call.mat)
    /\ pc' = "idle"
    /\ body' = NoBody
    /\ UNCHANGED <<provider, disk>>

(* get<picojson::object>() throws at a non-object entry: the entries       *)
(* before it stay, last_fetch_time_ is not assigned.                       *)
add_throws_adds_nothing ==
    /\ pc = "add"
    /\ body.kind = "throws"
    /\ call' = [call EXCEPT !.verdict = "error"]
    /\ pc' = "idle"
    /\ body' = NoBody
    /\ UNCHANGED <<provider, store, disk>>

add_jwks_verifiers_from_string_throws ==
    /\ pc = "add"
    /\ body.kind = "throws"
    /\ verifiers' = AddKeys(verifiers, body.keys)
    /\ call' = [call EXCEPT !.verdict = "error"]
    /\ pc' = "idle"
    /\ body' = NoBody
    /\ UNCHANGED <<provider, fetchAge, disk>>

(* The process ends at any moment: an exception nobody catches, the        *)
(* undefined read of a missing "keys", a signal.  During the save the file *)
(* may be old, torn or complete.                                           *)
Crash ==
    /\ pc # "down"
    /\ pc' = "down"
    /\ verifiers' = NoKeys
    /\ fetchAge' = RefetchHours
    /\ body' = NoBody
    /\ call' = NoCall
    /\ \/ UNCHANGED disk
       \/ pc = "save" /\ TornSave
       \/ pc = "save" /\ backingFile' = body /\ fileAge' = 0 /\ UNCHANGED torn
    /\ UNCHANGED provider

Request(k, m) == \/ find_verifier_known(k, m)
                 \/ find_verifier_too_soon(k, m)
                 \/ find_verifier_refresh(k, m)

FetchReturns == \/ fetch_jwks_json_served
                \/ fetch_jwks_json_faulty
                \/ fetch_jwks_json_throws

Save == save_backing_file \/ save_backing_file_fails

Add == add_jwks_verifiers_from_string \/ add_jwks_verifiers_from_string_throws

Server == \/ main \/ Crash
          \/ \E k \in KeyIds, m \in Keys : Request(k, m)
          \/ FetchReturns \/ Save \/ Add

Next == Tick \/ RotateKeys \/ InstallBackingFile \/ Server

Spec == Init /\ [][Next]_vars

(***************************************************************************)
(* Fairness, for the liveness property only.  The server's own steps and   *)
(* the clock go on; a download ends one way or another (the code sets no   *)
(* timeout on it: this is an assumption on the network); the provider's    *)
(* document arrives intact again and again if it is asked for again and    *)
(* again; users keep presenting tokens under every key id.                 *)
(***************************************************************************)
Fairness == /\ WF_vars(Tick) /\ WF_vars(Save) /\ WF_vars(Add)
            /\ WF_vars(FetchReturns)
            /\ SF_vars(fetch_jwks_json_served)
            /\ \A k \in Kids : SF_vars(\E m \in Keys : Request(k, m))

LiveSpec == Spec /\ Fairness

-----------------------------------------------------------------------------
(* Type invariant.                                                         *)
TypeOK == /\ issued \in PublishedKeys
          /\ everIssued \in SUBSET (Kids \X Materials)
          /\ verifiers \in KeySets
          /\ fetchAge \in 0..RefetchHours
          /\ backingFile \in Files
          /\ fileAge \in 0..RefetchHours
          /\ torn \in BOOLEAN
          /\ pc \in {"down", "idle", "fetch", "save", "add"}
          /\ body \in Bodies
          /\ call \in Calls

KR == INSTANCE KeyRing WITH up <- pc # "down", ring <- verifiers

WerePublished(ks) == \A k \in KeyIds : ks[k] # None => KR!Published(k, ks[k])
HaveSource(ks) == \A k \in KeyIds : ks[k] # None => KR!HasSource(k, ks[k])

(* Where a trusted key can come from.  A document on its way through       *)
(* find_verifier holds keys the provider published under their key ids.    *)
(* So do the backing file and the map, through failed saves, crashes and   *)
(* restarts, unless a save was cut short inside an entry: then there can   *)
(* be a published key under a cut key id, or a cut key under a published   *)
(* key id, and nothing else.                                               *)
Provenance == /\ WerePublished(issued)
              /\ WerePublished(body.keys)
              /\ HaveSource(verifiers)
              /\ HaveSource(backingFile.keys)

(* verify_jwt returns true only for a token signed by a key that the       *)
(* provider has published under the key id the token names, as long as no  *)
(* save was cut short inside an entry; after that it may also be what is   *)
(* left of an entry that the token names or that signed it.                *)
AcceptedTokensWereIssued ==
    call.verdict = "accepted" => KR!HasSource(call.kid, call.mat)

(* Whatever the backing file is left with, the running server knows the    *)
(* provider's key ids in it: except between the save and the parse of a    *)
(* refresh, a restart never learns a key id of the provider that the       *)
(* process it replaces had to refuse.                                      *)
MemoryCoversFile ==
    pc \in {"idle", "fetch"} =>
        \A k \in Kids : backingFile.keys[k] # None => verifiers[k] # None

(* The throttle of find_verifier is measured from the file's modification  *)
(* time or is off: after a refused refresh, a failed save or any number of *)
(* refreshes, an unknown key id is refused without asking the provider     *)
(* only while the backing file itself is younger than RefetchHours.        *)
FetchClockFollowsFile ==
    pc # "down" => fetchAge = RefetchHours \/ fetchAge = fileAge

(* While the process runs no key is replaced or forgotten, not even when   *)
(* the provider publishes another key under the same key id (try_emplace). *)
KnownKeysStable ==
    [][pc # "down" /\ pc' # "down" =>
         \A k \in KeyIds : verifiers[k] # None => verifiers'[k] = verifiers[k]]_vars

(* The store implements the key ring: what its callers may rely on.        *)
ImplementsKeyRing == KR!Spec

(* A lockout ends: if the server stays up and the provider goes on         *)
(* publishing some key under a key id, the server comes to know that key   *)
(* id for good, whatever broken documents, failed downloads and failed     *)
(* saves come before.                                                      *)
LockoutEnds ==
    \A k \in Kids :
        (<>[](pc # "down") /\ <>[](issued[k] # None)) => <>[](verifiers[k] # None)
=============================================================================
