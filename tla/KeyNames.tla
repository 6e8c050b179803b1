------------------------------ MODULE KeyNames ------------------------------
(***************************************************************************)
(* Key ids and keys.  The provider publishes keys of Materials under key   *)
(* ids of Kids.  A write of its document that is cut short inside the last *)
(* entry can leave two more things, which the parser of the key store      *)
(* takes like any other: the beginning of a key id, which is the key id of *)
(* nobody (no key id of the provider is the beginning of another), and the *)
(* beginning of a key's text, which is the text of another key.  Tokens    *)
(* may name such a key id and be signed by such a key.                     *)
(***************************************************************************)
CONSTANTS Kids,       \* the key ids that the provider uses
          Materials,  \* the public keys that it publishes, each standing for
                      \* its private half too
          None,       \* no key under this key id
          CutKid,     \* the beginning of a key id
          CutKey      \* the key that the beginning of a key's text says

KeyIds == Kids \cup {CutKid}
Keys == Materials \cup {CutKey}
=============================================================================
