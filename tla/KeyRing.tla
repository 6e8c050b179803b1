------------------------------- MODULE KeyRing -------------------------------
(***************************************************************************)
(* What the key store promises to its callers, with nothing about files,   *)
(* downloads or clocks.  A running service holds a ring: at most one key   *)
(* per key id.  It starts with published keys, or with what a torn write   *)
(* left of one; while it runs, the ring only gains entries, and these were *)
(* published, whole.  It is emptied when the process stops.  A token is    *)
(* accepted exactly when the ring holds, under the key id it names, the    *)
(* key that signed it; the service fails to answer only for a key id that  *)
(* it does not know.                                                       *)
(***************************************************************************)
EXTENDS KeyNames

VARIABLES up,         \* the process is running
          ring,       \* the key trusted for each key id
          everIssued, \* the pairs <<kid, key>> the provider ever published
          torn,       \* history: a write left part of an entry
          call        \* the latest verification: its key id, signer, verdict

vars == <<up, ring, everIssued, torn, call>>

EmptyRing == [k \in KeyIds |-> None]

NoCall == [kid |-> None, mat |-> None, verdict |-> "none"]

Init == /\ up = FALSE
        /\ ring = EmptyRing
        /\ everIssued \in SUBSET (Kids \X Materials)
        /\ torn = FALSE
        /\ call = NoCall

Published(k, m) == <<k, m>> \in everIssued

(* A published key under a cut key id, or a cut key under a published one. *)
LeftOver(k, m) ==
    /\ torn
    /\ \/ k = CutKid /\ \E j \in Kids : Published(j, m)
       \/ m = CutKey /\ \E whole \in Materials : Published(k, whole)

HasSource(k, m) == Published(k, m) \/ LeftOver(k, m)

(* The ring keeps every entry it has; a new entry was published.           *)
Grows ==
    \A k \in KeyIds : \/ ring'[k] = ring[k]
                      \/ ring[k] = None /\ Published(k, ring'[k])

Issue == /\ everIssued \subseteq everIssued'
         /\ UNCHANGED <<up, ring, torn, call>>

Start == /\ ~up /\ up'
         /\ \A k \in KeyIds : ring'[k] = None \/ HasSource(k, ring'[k])
         /\ UNCHANGED <<everIssued, torn, call>>

(* A call that is under way may write, and the process may end over it.    *)
Stop == /\ up /\ ~up'
        /\ ring' = EmptyRing
        /\ torn' \in IF call.verdict = "pending" THEN {torn, TRUE} ELSE {torn}
        /\ call' = NoCall
        /\ UNCHANGED everIssued

Tear == /\ call.verdict = "pending"
        /\ torn' = TRUE
        /\ UNCHANGED <<up, ring, everIssued, call>>

Ask(k, m) == /\ up
             /\ call.verdict # "pending"
             /\ call' = [kid |-> k, mat |-> m, verdict |-> "pending"]
             /\ UNCHANGED <<up, ring, everIssued, torn>>

(* A verdict: a pending call is the one that is answered, and the ring may *)
(* have grown on the way.                                                  *)
Answer(k, m) ==
    /\ up
    /\ call.verdict = "pending" => call.kid = k /\ call.mat = m
    /\ Grows
    /\ \/ call' = [kid |-> k, mat |-> m, verdict |-> "accepted"] /\ ring'[k] = m
       \/ call' = [kid |-> k, mat |-> m, verdict |-> "rejected"] /\ ring'[k] # m
       \/ call' = [kid |-> k, mat |-> m, verdict |-> "error"] /\ ring[k] = None
    /\ UNCHANGED <<up, everIssued, torn>>

Next == \/ Issue \/ Start \/ Stop \/ Tear
        \/ \E k \in KeyIds, m \in Keys : Ask(k, m) \/ Answer(k, m)

Spec == Init /\ [][Next]_vars
=============================================================================
