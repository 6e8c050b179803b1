--------------------------- MODULE JWKSStoreProofs ---------------------------
(***************************************************************************)
(* The key store's invariants, and that it implements the key ring, for    *)
(* any sets of key ids and keys and any refetch bound.                     *)
(***************************************************************************)
EXTENDS JWKSStore, TLAPS

USE ConstantsAssumption, RefetchHoursAssumption
USE DEF KeyIds, Keys

LEMMA NoKeysType == NoKeys \in KeySets
BY DEF NoKeys, KeySets

LEMMA PublishedKeysType == PublishedKeys \subseteq KeySets
BY DEF PublishedKeys, KeySets

LEMMA KeysOfType ==
    ASSUME NEW ks \in PublishedKeys
    PROVE  KeysOf(ks) \in SUBSET (Kids \X Materials)
<1>1. \A k \in Kids : ks[k] # None => ks[k] \in Materials
  BY DEF PublishedKeys, KeySets
<1>. QED  BY <1>1 DEF KeysOf

(* What is left of a document after a torn save is a document.  Each key   *)
(* in it is a key of the document, but that the last entry may be cut.     *)
KeyCut(r, ks, last) ==
    r[last] = CutKey /\ \A k \in KeyIds \ {last} : r[k] \in {ks[k], None}
KidCut(r, ks, last) ==
    r[CutKid] = ks[last] /\ \A k \in Kids : r[k] \in {ks[k], None}

LEMMA PartsAre ==
    ASSUME NEW ks \in KeySets, NEW r \in Parts(ks)
    PROVE  r \in KeySets /\ \A k \in KeyIds : r[k] \in {ks[k], None}
BY DEF Parts, KeySets

LEMMA CutPartsAre ==
    ASSUME NEW ks \in KeySets, NEW r \in CutParts(ks)
    PROVE  /\ r \in KeySets
           /\ \E last \in Kids : ks[last] # None /\ (KeyCut(r, ks, last) \/ KidCut(r, ks, last))
<1>1. PICK whole \in Parts(ks), last \in Kids :
         /\ ks[last] # None
         /\ \/ r = [whole EXCEPT ![last] = CutKey]
            \/ r = [whole EXCEPT ![last] = None, ![CutKid] = ks[last]]
  BY DEF CutParts
<1>2. whole \in KeySets /\ \A k \in KeyIds : whole[k] \in {ks[k], None}
  BY PartsAre
<1>3. r \in KeySets
  BY <1>1, <1>2 DEF KeySets
<1>4. CASE r = [whole EXCEPT ![last] = CutKey]
  <2>1. r[last] = CutKey /\ \A k \in KeyIds \ {last} : r[k] = whole[k]
    BY <1>2, <1>4 DEF KeySets
  <2>. QED  BY <1>1, <1>2, <1>3, <2>1 DEF KeyCut
<1>5. CASE r = [whole EXCEPT ![last] = None, ![CutKid] = ks[last]]
  <2>1. r[CutKid] = ks[last] /\ \A k \in Kids : r[k] \in {whole[k], None}
    BY <1>2, <1>5 DEF KeySets
  <2>. QED  BY <1>1, <1>2, <1>3, <2>1 DEF KidCut
<1>. QED  BY <1>1, <1>4, <1>5

LEMMA TornType ==
    ASSUME NEW doc \in Bodies, NEW t \in Torn(doc)
    PROVE  t \in Bodies
BY PartsAre, CutPartsAre DEF Torn, Bodies

LEMMA TornCovers ==
    ASSUME NEW doc \in Bodies, NEW t \in Torn(doc), NEW k \in Kids, t.keys[k] # None
    PROVE  doc.keys[k] # None
<1>1. doc.keys \in KeySets
  BY DEF Bodies
<1>2. CASE t.keys \in Parts(doc.keys)
  BY <1>1, <1>2, PartsAre
<1>3. CASE t.keys \in CutParts(doc.keys)
  BY <1>1, <1>3, CutPartsAre DEF KeyCut, KidCut
<1>. QED  BY <1>2, <1>3 DEF Torn

LEMMA AddKeysType ==
    ASSUME NEW v \in KeySets, NEW ks \in KeySets
    PROVE  AddKeys(v, ks) \in KeySets
BY DEF AddKeys, KeySets

LEMMA VerifyType ==
    ASSUME NEW v \in KeySets, NEW k \in KeyIds \cup {None}, NEW m \in Keys \cup {None}
    PROVE  verify_jwt(v, k, m) \in Calls
BY DEF verify_jwt, Calls, Verdicts

LEMMA OlderType ==
    ASSUME NEW age \in 0..RefetchHours
    PROVE  Older(age) \in 0..RefetchHours
BY DEF Older
-----------------------------------------------------------------------------
(* Type correctness is inductive as it stands.                             *)
LEMMA TypeInit == Init => TypeOK
<1> SUFFICES ASSUME Init PROVE TypeOK
  OBVIOUS
<1>1. KeysOf(issued) \in SUBSET (Kids \X Materials)
  BY KeysOfType DEF Init
<1>2. NoBody \in Bodies /\ Document("missing", NoKeys) \in Files
  BY NoKeysType DEF NoBody, Document, Bodies, Files
<1>3. NoCall \in Calls
  BY DEF NoCall, Calls, Verdicts
<1>4. RefetchHours \in 0..RefetchHours
  OBVIOUS
<1>. QED  BY <1>1, <1>2, <1>3, <1>4, NoKeysType DEF Init, TypeOK

LEMMA TypeStep == TypeOK /\ [Next]_vars => TypeOK'
<1> SUFFICES ASSUME TypeOK, [Next]_vars PROVE TypeOK'
  OBVIOUS
<1> USE DEF TypeOK
<1>1. CASE UNCHANGED vars
  BY <1>1 DEF vars, provider, store, disk
<1>2. CASE Tick
  BY <1>2, OlderType DEF Tick, provider
<1>3. CASE RotateKeys
  BY <1>3, KeysOfType DEF RotateKeys, store, disk
<1>4. CASE InstallBackingFile
  BY <1>4, PublishedKeysType DEF InstallBackingFile, Document, Files, provider, store
<1>5. CASE main
  BY <1>5, NoKeysType, AddKeysType DEF main, Files, provider, disk
<1>6. CASE Crash
  <2>1. backingFile' \in Files /\ fileAge' \in 0..RefetchHours
    <3>1. CASE UNCHANGED disk
      BY <3>1 DEF disk
    <3>2. CASE (TornSave \/ backingFile' = body) /\ fileAge' = 0
      <4>1. backingFile' \in Bodies
        BY <3>2, TornType DEF TornSave
      <4>. QED  BY <3>2, <4>1 DEF Bodies, Files, TornSave
    <3>. QED  BY <1>6, <3>1, <3>2 DEF Crash, TornSave
  <2>2. torn' \in BOOLEAN
    BY <1>6 DEF Crash, TornSave, disk
  <2>. QED  BY <1>6, <2>1, <2>2, NoKeysType
            DEF Crash, NoBody, Document, Bodies, NoCall, Calls, Verdicts, provider
<1>7. ASSUME NEW k \in KeyIds, NEW m \in Keys, Request(k, m) PROVE TypeOK'
  <2>1. verify_jwt(verifiers, k, m) \in Calls
    BY VerifyType
  <2>2. Pending(k, m) \in Calls
    BY DEF Pending, Calls, Verdicts
  <2>. QED  BY <1>7, <2>1, <2>2
            DEF Request, find_verifier_known, find_verifier_too_soon, find_verifier_refresh,
                provider, store, disk
<1>8. CASE fetch_jwks_json_served
  BY <1>8, PublishedKeysType DEF fetch_jwks_json_served, Document, Bodies, provider, store, disk
<1>9. CASE fetch_jwks_json_faulty
  <2>1. body' \in Bodies
    BY <1>9, NoKeysType, PublishedKeysType, PartsAre
       DEF fetch_jwks_json_faulty, NoBody, Document, Bodies
  <2>. QED  BY <1>9, <2>1 DEF fetch_jwks_json_faulty, provider, store, disk
<1>10. CASE fetch_jwks_json_throws
  BY <1>10 DEF fetch_jwks_json_throws, Calls, Verdicts, provider, store, disk
<1>11. CASE save_backing_file
  BY <1>11 DEF save_backing_file, Bodies, Files, provider, store
<1>12. CASE save_backing_file_fails
  <2>1. backingFile' \in Files /\ fileAge' \in 0..RefetchHours
    <3>1. CASE UNCHANGED disk
      BY <3>1 DEF disk
    <3>2. CASE TornSave
      <4>1. backingFile' \in Bodies
        BY <3>2, TornType DEF TornSave
      <4>. QED  BY <3>2, <4>1 DEF Bodies, Files, TornSave
    <3>. QED  BY <1>12, <3>1, <3>2 DEF save_backing_file_fails
  <2>2. torn' \in BOOLEAN
    BY <1>12 DEF save_backing_file_fails, TornSave, disk
  <2>. QED  BY <1>12, <2>1, <2>2 DEF save_backing_file_fails, provider, store
<1>13. CASE Add
  <2>1. AddKeys(verifiers, body.keys) \in KeySets
    BY AddKeysType DEF Bodies
  <2>2. verify_jwt(AddKeys(verifiers, body.keys), call.kid, call.mat) \in Calls
    BY <2>1, VerifyType DEF Calls
  <2>3. [call EXCEPT !.verdict = "error"] \in Calls
    BY DEF Calls, Verdicts
  <2>4. NoBody \in Bodies
    BY NoKeysType DEF NoBody, Document, Bodies
  <2>. QED  BY <1>13, <2>1, <2>2, <2>3, <2>4
            DEF Add, add_jwks_verifiers_from_string, add_jwks_verifiers_from_string_throws,
                provider, disk
<1>. QED  BY <1>1, <1>2, <1>3, <1>4, <1>5, <1>6, <1>7, <1>8, <1>9, <1>10, <1>11, <1>12, <1>13
          DEF Next, Server, FetchReturns, Save

(* Every reachable state of the key store is well typed.                   *)
THEOREM TypeCorrect == Spec => []TypeOK
BY TypeInit, TypeStep, PTL DEF Spec
-----------------------------------------------------------------------------
(* A call is pending exactly while a refresh is under way, and then it is  *)
(* a call for some token, whose key id is unknown.                         *)
CallInFlight ==
    /\ call.verdict = "pending" <=> pc \in {"fetch", "save", "add"}
    /\ call.verdict = "pending" => verifiers[call.kid] = None
    /\ call.verdict # "none" => call.kid \in KeyIds /\ call.mat \in Keys

(* A process that is down remembers nothing.                               *)
DownIsEmpty == pc = "down" => verifiers = NoKeys /\ call = NoCall

(* MemoryCoversFile through the steps of a refresh: until the save, the    *)
(* map covers the file; after it, the map and the document to be added.    *)
FileIsCovered ==
    /\ pc \in {"idle", "fetch", "save"} =>
          \A k \in Kids : backingFile.keys[k] # None => verifiers[k] # None
    /\ pc = "add" =>
          \A k \in Kids : backingFile.keys[k] # None =>
                          verifiers[k] # None \/ body.keys[k] # None

(* FetchClockFollowsFile, and that a refresh only runs when it is due.     *)
ClockFollows ==
    /\ FetchClockFollowsFile
    /\ pc \in {"fetch", "save", "add"} => fetchAge = RefetchHours

IInv == /\ TypeOK
        /\ Provenance
        /\ AcceptedTokensWereIssued
        /\ CallInFlight
        /\ DownIsEmpty
        /\ FileIsCovered
        /\ ClockFollows
LEMMA IInvInit == Init => IInv
<1> SUFFICES ASSUME Init PROVE IInv
  OBVIOUS
<1>1. TypeOK
  BY TypeInit
<1>2. Provenance
  <2>1. \A k \in KeyIds : NoKeys[k] = None
    BY DEF NoKeys
  <2>2. WerePublished(issued)
    BY DEF Init, WerePublished, KR!Published, KeysOf, PublishedKeys
  <2>3. verifiers = NoKeys /\ backingFile.keys = NoKeys /\ body.keys = NoKeys
    BY DEF Init, NoBody, Document
  <2>. QED  BY <2>1, <2>2, <2>3 DEF Provenance, WerePublished, HaveSource
<1>3. AcceptedTokensWereIssued /\ CallInFlight /\ DownIsEmpty
  BY DEF Init, AcceptedTokensWereIssued, CallInFlight, DownIsEmpty, NoCall
<1>4. FileIsCovered /\ ClockFollows
  BY DEF Init, FileIsCovered, ClockFollows, FetchClockFollowsFile
<1>. QED  BY <1>1, <1>2, <1>3, <1>4 DEF IInv

(* A source stays a source.                                                *)
LEMMA SourceKept ==
    ASSUME everIssued \subseteq everIssued', torn => torn',
           NEW k, NEW m, KR!HasSource(k, m)
    PROVE  KR!HasSource(k, m)'
BY DEF KR!HasSource, KR!LeftOver, KR!Published

(* A torn file holds published keys and at most one cut entry, of which    *)
(* the history variable knows.                                             *)
LEMMA TornSource ==
    ASSUME TypeOK, WerePublished(body.keys), TornSave, UNCHANGED everIssued
    PROVE  HaveSource(backingFile.keys)'
<1> DEFINE ks == body.keys
           r == backingFile'.keys
<1>1. ks \in KeySets /\ \A k \in KeyIds : ks[k] # None => KR!Published(k, ks[k])
  BY DEF TypeOK, Bodies, WerePublished
<1>2. CASE r \in Parts(ks)
  <2>1. \A k \in KeyIds : r[k] # None => KR!Published(k, r[k])
    BY <1>1, <1>2, PartsAre
  <2>. QED  BY <2>1 DEF HaveSource, KR!HasSource, KR!Published
<1>3. CASE r \in CutParts(ks)
  <2>1. torn'
    BY <1>3 DEF TornSave
  <2>2. PICK last \in Kids : ks[last] # None /\ (KeyCut(r, ks, last) \/ KidCut(r, ks, last))
    BY <1>1, <1>3, CutPartsAre
  <2>3. <<last, ks[last]>> \in everIssued'
    BY <1>1, <2>2 DEF KR!Published
  <2>4. ks[last] \in Materials
    BY <2>3 DEF TypeOK
  <2>5. \A k \in KeyIds : ks[k] # None => <<k, ks[k]>> \in everIssued'
    BY <1>1 DEF KR!Published
  <2>6. CASE KeyCut(r, ks, last)
    BY <2>1, <2>2, <2>3, <2>4, <2>5, <2>6
       DEF KeyCut, HaveSource, KR!HasSource, KR!LeftOver, KR!Published
  <2>7. CASE KidCut(r, ks, last)
    BY <2>1, <2>2, <2>3, <2>4, <2>5, <2>7
       DEF KidCut, HaveSource, KR!HasSource, KR!LeftOver, KR!Published
  <2>. QED  BY <2>2, <2>6, <2>7
<1>. QED  BY <1>2, <1>3 DEF TornSave, Torn

(* Which actions touch which part of the state.                            *)
LEMMA Frame ==
    ASSUME [Next]_vars
    PROVE  /\ UNCHANGED provider \/ RotateKeys
           /\ UNCHANGED body \/ fetch_jwks_json_served \/ fetch_jwks_json_faulty \/ Add \/ Crash
           /\ UNCHANGED verifiers \/ main \/ Add \/ Crash
           /\ \/ UNCHANGED <<backingFile, torn>> \/ InstallBackingFile
              \/ save_backing_file \/ save_backing_file_fails \/ Crash
           /\ \/ UNCHANGED call \/ fetch_jwks_json_throws \/ Add \/ Crash
              \/ \E k \in KeyIds, m \in Keys : Request(k, m)
<1>1. CASE UNCHANGED vars
  BY <1>1 DEF vars, provider, store, disk
<1>2. CASE Tick \/ RotateKeys \/ InstallBackingFile
  BY <1>2 DEF Tick, RotateKeys, InstallBackingFile, store, disk, provider
<1>3. CASE main \/ Crash \/ Add
  BY <1>3 DEF main, Crash, Add, add_jwks_verifiers_from_string,
              add_jwks_verifiers_from_string_throws, disk, provider
<1>4. CASE FetchReturns \/ Save
  BY <1>4 DEF FetchReturns, fetch_jwks_json_served, fetch_jwks_json_faulty,
              fetch_jwks_json_throws, Save, save_backing_file, save_backing_file_fails,
              store, disk, provider
<1>5. CASE \E k \in KeyIds, m \in Keys : Request(k, m)
  BY <1>5 DEF Request, find_verifier_known, find_verifier_too_soon, find_verifier_refresh,
              store, disk, provider
<1>. QED  BY <1>1, <1>2, <1>3, <1>4, <1>5 DEF Next, Server

LEMMA ProvenanceStep == IInv /\ [Next]_vars => Provenance'
<1> SUFFICES ASSUME IInv, [Next]_vars PROVE Provenance'
  OBVIOUS
<1>0. TypeOK /\ Provenance
  BY DEF IInv
<1>1. everIssued \subseteq everIssued' /\ (torn => torn')
  <2>1. everIssued \subseteq everIssued'
    BY Frame DEF provider, RotateKeys
  <2>2. torn => torn'
    BY Frame DEF InstallBackingFile, save_backing_file, save_backing_file_fails, Crash,
                 TornSave, disk
  <2>. QED  BY <2>1, <2>2
<1>2. WerePublished(issued)'
  <2>1. CASE RotateKeys
    BY <2>1 DEF RotateKeys, WerePublished, KR!Published, KeysOf, PublishedKeys
  <2>2. CASE UNCHANGED provider
    BY <1>0, <2>2 DEF provider, Provenance, WerePublished, KR!Published
  <2>. QED  BY <2>1, <2>2, Frame
<1>3. WerePublished(body.keys)'
  <2>1. CASE UNCHANGED body
    BY <1>0, <1>1, <2>1 DEF Provenance, WerePublished, KR!Published
  <2>2. CASE Add \/ Crash
    BY <2>2 DEF Add, add_jwks_verifiers_from_string, add_jwks_verifiers_from_string_throws,
                Crash, NoBody, Document, NoKeys, WerePublished
  <2>3. CASE fetch_jwks_json_served
    BY <1>0, <1>1, <2>3
       DEF fetch_jwks_json_served, Document, Provenance, WerePublished, KR!Published
  <2>4. CASE fetch_jwks_json_faulty
    <3>1. issued \in KeySets
      BY <1>0, PublishedKeysType DEF TypeOK
    <3>2. body' = NoBody \/ body'.keys \in Parts(issued)
      BY <2>4 DEF fetch_jwks_json_faulty
    <3>3. \A k \in KeyIds : body'.keys[k] \in {issued[k], None}
      BY <3>1, <3>2, PartsAre DEF NoBody, Document, NoKeys
    <3>. QED  BY <1>0, <1>1, <3>3 DEF Provenance, WerePublished, KR!Published
  <2>. QED  BY <2>1, <2>2, <2>3, <2>4, Frame
<1>4. \A k, m : KR!HasSource(k, m) => KR!HasSource(k, m)'
  BY <1>1, SourceKept
<1>5. HaveSource(verifiers)'
  <2>1. CASE UNCHANGED verifiers
    BY <1>0, <1>4, <2>1 DEF Provenance, HaveSource
  <2>2. CASE main
    BY <1>0, <1>4, <2>2 DEF main, AddKeys, NoKeys, Provenance, HaveSource
  <2>3. CASE Crash
    BY <2>3 DEF Crash, NoKeys, HaveSource
  <2>4. CASE Add
    <3>1. verifiers' = AddKeys(verifiers, body.keys)
      BY <2>4 DEF Add, add_jwks_verifiers_from_string, add_jwks_verifiers_from_string_throws
    <3>2. \A k \in KeyIds : body.keys[k] # None => KR!HasSource(k, body.keys[k])
      BY <1>0 DEF Provenance, WerePublished, KR!HasSource
    <3>. QED  BY <1>0, <1>4, <3>1, <3>2 DEF AddKeys, Provenance, HaveSource
  <2>. QED  BY <2>1, <2>2, <2>3, <2>4, Frame
<1>6. HaveSource(backingFile.keys)'
  <2>1. CASE UNCHANGED backingFile
    BY <1>0, <1>4, <2>1 DEF Provenance, HaveSource
  <2>2. CASE InstallBackingFile
    BY <1>0, <1>1, <2>2 DEF InstallBackingFile, Document, Provenance, WerePublished, HaveSource,
                            KR!HasSource, KR!Published
  <2>3. CASE backingFile' = body
    BY <1>0, <1>1, <2>3 DEF Provenance, WerePublished, HaveSource, KR!HasSource, KR!Published
  <2>4. CASE TornSave /\ UNCHANGED everIssued
    BY <1>0, <2>4, TornSource DEF Provenance
  <2>5. save_backing_file_fails \/ Crash => UNCHANGED everIssued
    BY DEF save_backing_file_fails, Crash, provider
  <2>. QED  BY <2>1, <2>2, <2>3, <2>4, <2>5, Frame
            DEF save_backing_file, save_backing_file_fails, Crash, disk
<1>. QED  BY <1>2, <1>3, <1>5, <1>6 DEF Provenance

LEMMA AcceptedStep == IInv /\ [Next]_vars => AcceptedTokensWereIssued'
<1> SUFFICES ASSUME IInv, [Next]_vars, call'.verdict = "accepted"
             PROVE  KR!HasSource(call.kid, call.mat)'
  BY DEF AcceptedTokensWereIssued
<1>1. HaveSource(verifiers)'
  BY ProvenanceStep DEF Provenance
<1>2. CASE UNCHANGED call
  <2>1. everIssued \subseteq everIssued'
    BY Frame DEF provider, RotateKeys
  <2>2. torn => torn'
    BY Frame DEF InstallBackingFile, save_backing_file, save_backing_file_fails, Crash,
                 TornSave, disk
  <2>3. KR!HasSource(call.kid, call.mat)
    BY <1>2 DEF IInv, AcceptedTokensWereIssued
  <2>. QED  BY <1>2, <2>1, <2>2, <2>3, SourceKept
<1>3. CASE \E k \in KeyIds, m \in Keys : call' = verify_jwt(verifiers', k, m)
  <2>1. PICK k \in KeyIds, m \in Keys : call' = verify_jwt(verifiers', k, m)
    BY <1>3
  <2>2. call'.kid = k /\ call'.mat = m /\ verifiers'[k] = m
    BY <2>1 DEF verify_jwt
  <2>3. KR!HasSource(k, m)'
    BY <1>1, <2>2 DEF HaveSource
  <2>. QED  BY <2>2, <2>3 DEF KR!HasSource, KR!LeftOver, KR!Published
<1>4. CASE Add
  <2>1. add_jwks_verifiers_from_string
    BY <1>4 DEF Add, add_jwks_verifiers_from_string_throws, IInv, TypeOK, Calls
  <2>2. call.kid \in KeyIds /\ call.mat \in Keys
    BY <2>1 DEF add_jwks_verifiers_from_string, IInv, CallInFlight
  <2>. QED  BY <1>3, <2>1, <2>2 DEF add_jwks_verifiers_from_string
<1>5. CASE \E k \in KeyIds, m \in Keys : Request(k, m)
  BY <1>3, <1>5 DEF Request, find_verifier_known, find_verifier_too_soon, find_verifier_refresh,
                    Pending, store
<1>6. ~fetch_jwks_json_throws /\ ~Crash
  BY DEF fetch_jwks_json_throws, Crash, NoCall, IInv, TypeOK, Calls
<1>. QED  BY <1>2, <1>4, <1>5, <1>6, Frame

LEMMA IInvStep == IInv /\ [Next]_vars => IInv'
<1> SUFFICES ASSUME IInv, [Next]_vars PROVE IInv'
  OBVIOUS
<1>0. TypeOK /\ TypeOK' /\ Provenance' /\ AcceptedTokensWereIssued'
  BY TypeStep, ProvenanceStep, AcceptedStep DEF IInv
<1> SUFFICES CallInFlight' /\ DownIsEmpty' /\ FileIsCovered' /\ ClockFollows'
  BY <1>0 DEF IInv
<1> USE DEF IInv
<1>1. CASE UNCHANGED vars
  BY <1>1 DEF vars, provider, store, disk, CallInFlight, DownIsEmpty, FileIsCovered,
              ClockFollows, FetchClockFollowsFile
<1>2. CASE Tick
  <2>1. ClockFollows'
    BY <1>0, <1>2 DEF Tick, Older, ClockFollows, FetchClockFollowsFile, TypeOK
  <2>. QED  BY <1>2, <2>1 DEF Tick, CallInFlight, DownIsEmpty, FileIsCovered
<1>3. CASE RotateKeys
  BY <1>3 DEF RotateKeys, store, disk, CallInFlight, DownIsEmpty, FileIsCovered,
              ClockFollows, FetchClockFollowsFile
<1>4. CASE InstallBackingFile
  BY <1>4 DEF InstallBackingFile, store, CallInFlight, DownIsEmpty, FileIsCovered,
              ClockFollows, FetchClockFollowsFile
<1>5. CASE main
  <2>1. FileIsCovered'
    BY <1>5 DEF main, disk, FileIsCovered, AddKeys, NoKeys
  <2>. QED
    BY <1>5, <2>1 DEF main, disk, CallInFlight, DownIsEmpty, NoCall, ClockFollows,
                      FetchClockFollowsFile
<1>6. CASE Crash
  BY <1>6 DEF Crash, NoCall, CallInFlight, DownIsEmpty, FileIsCovered, ClockFollows,
              FetchClockFollowsFile
<1>7. ASSUME NEW k \in KeyIds, NEW m \in Keys, Request(k, m)
      PROVE  CallInFlight' /\ DownIsEmpty' /\ FileIsCovered' /\ ClockFollows'
  <2> USE DEF Request, find_verifier_known, find_verifier_too_soon, find_verifier_refresh,
              provider, store, disk
  <2>1. DownIsEmpty' /\ FileIsCovered'
    BY <1>7 DEF DownIsEmpty, FileIsCovered
  <2>2. CallInFlight'
    BY <1>7 DEF verify_jwt, Pending, CallInFlight
  <2>3. ClockFollows'
    BY <1>0, <1>7 DEF ClockFollows, FetchClockFollowsFile, TypeOK
  <2>. QED  BY <2>1, <2>2, <2>3
<1>8. CASE fetch_jwks_json_served \/ fetch_jwks_json_faulty
  BY <1>8 DEF fetch_jwks_json_served, fetch_jwks_json_faulty, provider, store, disk,
              CallInFlight, DownIsEmpty, FileIsCovered, ClockFollows, FetchClockFollowsFile
<1>9. CASE fetch_jwks_json_throws
  <2>1. call.kid' = call.kid /\ call.mat' = call.mat /\ call.verdict' = "error"
    BY <1>0, <1>9 DEF fetch_jwks_json_throws, TypeOK, Calls
  <2>. QED
    BY <1>9, <2>1 DEF fetch_jwks_json_throws, provider, store, disk, CallInFlight, DownIsEmpty,
                      FileIsCovered, ClockFollows, FetchClockFollowsFile
<1>10. CASE save_backing_file
  BY <1>10 DEF save_backing_file, provider, store, CallInFlight, DownIsEmpty, FileIsCovered,
               ClockFollows, FetchClockFollowsFile
<1>11. CASE save_backing_file_fails
  <2>1. FileIsCovered'
    BY <1>0, <1>11, TornCovers
       DEF save_backing_file_fails, TornSave, disk, store, FileIsCovered, TypeOK
  <2>. QED
    BY <1>11, <2>1 DEF save_backing_file_fails, provider, store, CallInFlight, DownIsEmpty,
                       ClockFollows, FetchClockFollowsFile
<1>12. CASE add_jwks_verifiers_from_string
  <2> USE DEF add_jwks_verifiers_from_string, provider, disk
  <2>1. CallInFlight'
    BY <1>12 DEF verify_jwt, CallInFlight
  <2>2. FileIsCovered'
    BY <1>12 DEF FileIsCovered, AddKeys
  <2>. QED  BY <1>12, <2>1, <2>2 DEF DownIsEmpty, ClockFollows, FetchClockFollowsFile
<1>13. CASE add_jwks_verifiers_from_string_throws
  <2> USE DEF add_jwks_verifiers_from_string_throws, provider, disk
  <2>1. call.kid' = call.kid /\ call.mat' = call.mat /\ call.verdict' = "error"
    BY <1>0, <1>13 DEF TypeOK, Calls
  <2>2. CallInFlight'
    BY <1>13, <2>1 DEF CallInFlight
  <2>3. FileIsCovered'
    BY <1>13 DEF FileIsCovered, AddKeys
  <2>. QED  BY <1>13, <2>2, <2>3 DEF DownIsEmpty, ClockFollows, FetchClockFollowsFile
<1>. QED  BY <1>1, <1>2, <1>3, <1>4, <1>5, <1>6, <1>7, <1>8, <1>9, <1>10, <1>11, <1>12, <1>13
          DEF Next, Server, FetchReturns, Save, Add

THEOREM IInvHolds == Spec => []IInv
BY IInvInit, IInvStep, PTL DEF Spec
(* verify_jwt accepts only tokens signed by a key the provider published   *)
(* under the token's key id, but for what a torn save left of one entry:   *)
(* through rotations, broken documents, torn files and restarts.           *)
THEOREM AcceptedIssued == Spec => []AcceptedTokensWereIssued
BY IInvHolds, PTL DEF IInv

(* Every key in the map or the backing file was published under its key    *)
(* id, or is what a torn save left of a published entry.                   *)
THEOREM KeysHaveProvenance == Spec => []Provenance
BY IInvHolds, PTL DEF IInv

(* The running server knows every key id of the provider that its backing  *)
(* file holds.                                                             *)
THEOREM MemoryCovers == Spec => []MemoryCoversFile
<1>1. IInv => MemoryCoversFile
  BY DEF IInv, FileIsCovered, MemoryCoversFile
<1>. QED  BY <1>1, IInvHolds, PTL

(* The refetch throttle is off or measured from the file's age.            *)
THEOREM ClockFollowsFile == Spec => []FetchClockFollowsFile
BY IInvHolds, PTL DEF IInv, ClockFollows

-----------------------------------------------------------------------------
(* No step of a running server replaces or forgets a key.                  *)
THEOREM KeysStable == Spec => KnownKeysStable
<1>1. IInv /\ [Next]_vars =>
        [pc # "down" /\ pc' # "down" =>
           \A k \in KeyIds : verifiers[k] # None => verifiers'[k] = verifiers[k]]_vars
  <2> SUFFICES ASSUME IInv, Next, pc # "down", pc' # "down",
                      NEW k \in KeyIds, verifiers[k] # None
               PROVE  verifiers'[k] = verifiers[k]
    OBVIOUS
  <2>1. CASE Add
    BY <2>1 DEF Add, add_jwks_verifiers_from_string, add_jwks_verifiers_from_string_throws, AddKeys
  <2>2. CASE main \/ Crash
    BY <2>2 DEF main, Crash
  <2>. QED  BY <2>1, <2>2, Frame
<1>. QED  BY <1>1, IInvHolds, PTL DEF Spec, KnownKeysStable

-----------------------------------------------------------------------------
(* The store implements the key ring.                                      *)
LEMMA RingInit == Init => KR!Init
<1>1. ASSUME Init PROVE KeysOf(issued) \in SUBSET (Kids \X Materials)
  BY KeysOfType, <1>1 DEF Init
<1>. QED  BY <1>1 DEF Init, KR!Init, KR!EmptyRing, KR!KeyIds, NoKeys, NoCall, KR!NoCall

LEMMA RingGrows ==
    ASSUME IInv, verifiers' = AddKeys(verifiers, body.keys), UNCHANGED everIssued
    PROVE  KR!Grows
BY DEF IInv, AddKeys, Provenance, WerePublished, KR!Grows, KR!KeyIds

LEMMA RingStep == IInv /\ IInv' /\ [Next]_vars => [KR!Next]_(KR!vars)
<1> SUFFICES ASSUME IInv, IInv', [Next]_vars PROVE KR!Next \/ UNCHANGED KR!vars
  OBVIOUS
<1> USE DEF KR!vars
<1>1. CASE UNCHANGED vars \/ Tick \/ InstallBackingFile
  BY <1>1 DEF vars, provider, store, disk, Tick, InstallBackingFile
<1>2. CASE RotateKeys
  <2>1. KR!Issue
    BY <1>2 DEF RotateKeys, store, disk, KR!Issue
  <2>. QED  BY <2>1 DEF KR!Next
<1>3. CASE main
  <2>1. \A k \in KeyIds : verifiers'[k] = None \/ KR!HasSource(k, verifiers'[k])
    BY <1>3 DEF main, AddKeys, NoKeys, IInv, Provenance, HaveSource
  <2>2. KR!Start
    BY <1>3, <2>1 DEF main, provider, disk, KR!Start, KR!KeyIds
  <2>. QED  BY <2>2 DEF KR!Next, KR!KeyIds, KR!Keys
<1>4. CASE Crash
  <2>1. KR!Stop
    BY <1>4 DEF Crash, TornSave, provider, disk, KR!Stop, KR!EmptyRing, KR!KeyIds, NoKeys,
                NoCall, KR!NoCall, IInv, TypeOK, CallInFlight
  <2>. QED  BY <2>1 DEF KR!Next
<1>5. ASSUME NEW k \in KeyIds, NEW m \in Keys, Request(k, m) PROVE KR!Next
  <2>1. CASE find_verifier_refresh(k, m)
    <3>1. KR!Ask(k, m)
      BY <2>1 DEF find_verifier_refresh, KR!Ask, Pending, provider, store, disk, IInv, CallInFlight
    <3>. QED  BY <3>1 DEF KR!Next, KR!KeyIds, KR!Keys
  <2>2. CASE find_verifier_known(k, m) \/ find_verifier_too_soon(k, m)
    <3>1. KR!Grows
      BY <2>2 DEF find_verifier_known, find_verifier_too_soon, store, KR!Grows
    <3>2. KR!Answer(k, m)
      BY <2>2, <3>1 DEF find_verifier_known, find_verifier_too_soon, KR!Answer, verify_jwt,
                        provider, store, disk, IInv, CallInFlight
    <3>. QED  BY <3>2 DEF KR!Next, KR!KeyIds, KR!Keys
  <2>. QED  BY <1>5, <2>1, <2>2 DEF Request
<1>6. CASE fetch_jwks_json_served \/ fetch_jwks_json_faulty \/ save_backing_file
  BY <1>6 DEF fetch_jwks_json_served, fetch_jwks_json_faulty, save_backing_file,
              provider, store, disk
<1>9. CASE save_backing_file_fails
  <2>1. KR!Tear \/ UNCHANGED KR!vars
    BY <1>9 DEF save_backing_file_fails, TornSave, KR!Tear, provider, store, disk,
                IInv, TypeOK, CallInFlight
  <2>. QED  BY <2>1 DEF KR!Next
<1>7. CASE fetch_jwks_json_throws
  <2>1. call' = [kid |-> call.kid, mat |-> call.mat, verdict |-> "error"]
    BY <1>7 DEF fetch_jwks_json_throws, IInv, TypeOK, Calls
  <2>2. KR!Answer(call.kid, call.mat)
    BY <1>7, <2>1 DEF fetch_jwks_json_throws, KR!Answer, KR!Grows, provider, store, disk,
                            IInv, CallInFlight
  <2>3. call.kid \in KeyIds /\ call.mat \in Keys
    BY <1>7 DEF fetch_jwks_json_throws, IInv, CallInFlight
  <2>. QED  BY <2>2, <2>3 DEF KR!Next, KR!KeyIds, KR!Keys
<1>8. CASE Add
  <2>1. KR!Grows
    BY <1>8, RingGrows DEF Add, add_jwks_verifiers_from_string,
                           add_jwks_verifiers_from_string_throws, provider
  <2>2. call.kid \in KeyIds /\ call.mat \in Keys
    BY <1>8 DEF Add, add_jwks_verifiers_from_string, add_jwks_verifiers_from_string_throws,
                IInv, CallInFlight
  <2>3. CASE add_jwks_verifiers_from_string
    <3>1. KR!Answer(call.kid, call.mat)
      BY <2>1, <2>3 DEF add_jwks_verifiers_from_string, verify_jwt, provider, disk, KR!Answer
    <3>. QED  BY <2>2, <3>1 DEF KR!Next, KR!KeyIds, KR!Keys
  <2>4. CASE add_jwks_verifiers_from_string_throws
    <3>1. call' = [kid |-> call.kid, mat |-> call.mat, verdict |-> "error"]
      BY <2>4 DEF add_jwks_verifiers_from_string_throws, IInv, TypeOK, Calls
    <3>2. KR!Answer(call.kid, call.mat)
      BY <2>1, <2>4, <3>1 DEF add_jwks_verifiers_from_string_throws, provider, disk, KR!Answer,
                              IInv, CallInFlight
    <3>. QED  BY <2>2, <3>2 DEF KR!Next, KR!KeyIds, KR!Keys
  <2>. QED  BY <1>8, <2>3, <2>4 DEF Add
<1>. QED  BY <1>1, <1>2, <1>3, <1>4, <1>5, <1>6, <1>7, <1>8, <1>9
          DEF Next, Server, FetchReturns, Save, KR!KeyIds, KR!Keys

(* Every behaviour of the store is a behaviour of the key ring.            *)
THEOREM Implementation == Spec => ImplementsKeyRing
<1>1. Init => KR!Init
  BY RingInit
<1>2. IInv /\ IInv' /\ [Next]_vars => [KR!Next]_(KR!vars)
  BY RingStep
<1>. QED  BY <1>1, <1>2, IInvHolds, PTL DEF Spec, ImplementsKeyRing, KR!Spec
=============================================================================
