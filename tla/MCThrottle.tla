----------------------------- MODULE MCThrottle -----------------------------
(***************************************************************************)
(* The key store with one more history variable: the hours since the       *)
(* running process last completed a refresh.                               *)
(***************************************************************************)
EXTENDS JWKSStore

VARIABLE refreshAge

MCInit == Init /\ refreshAge = RefetchHours

(* An hour passes, also when the ages of the store are at their bound.     *)
Hour == /\ Tick \/ UNCHANGED vars
        /\ refreshAge' = Older(refreshAge)

Step == /\ RotateKeys \/ InstallBackingFile \/ Server
        /\ refreshAge' = CASE pc = "add" /\ pc' = "idle" -> 0
                           [] pc' = "down" -> RefetchHours
                           [] OTHER -> refreshAge

MCNext == Hour \/ Step

MCSpec == MCInit /\ [][MCNext]_<<vars, refreshAge>>

(* find_verifier says it refreshes "after 24 hours" and otherwise answers  *)
(* "Cannot fetch, too soon": a download starts no sooner than RefetchHours *)
(* after the latest refresh of this process.                               *)
RefreshesADayApart ==
    [][pc = "idle" /\ pc' = "fetch" => refreshAge >= RefetchHours]_<<vars, refreshAge>>
=============================================================================
