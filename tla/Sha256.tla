------------------------------- MODULE Sha256 -------------------------------
(***************************************************************************)
(* How SHA-256 cuts its message into blocks: SHA256_Init, SHA256_Update    *)
(* and SHA256_Final in src/minisha256.c.  The compression function         *)
(* sha256_transform is a function of the blocks it is given, so it is      *)
(* modelled by the sequence of them, laid end to end.                      *)
(*                                                                         *)
(* The code's block has 64 bytes, the last 8 of which hold the length.     *)
(***************************************************************************)
EXTENDS Naturals, Sequences

CONSTANTS BlockLength,    \* 64
          LengthBytes,    \* 8
          OldBytes,       \* what a byte of uninitialised memory may hold
          MessageBytes,   \* the bytes that messages are made of
          MaxMessage      \* no message is longer

Bytes == 0..255

Front56 == BlockLength - LengthBytes

ASSUME BlockAssumption ==
    /\ BlockLength \in Nat /\ LengthBytes \in Nat \ {0}
    /\ LengthBytes < BlockLength
ASSUME MemoryAssumption == OldBytes \subseteq Bytes
ASSUME MessageAssumption == MessageBytes \subseteq Bytes /\ MaxMessage \in Nat

VARIABLES data,      \* ctx->data
          datalen,   \* ctx->datalen
          bitlen,    \* ctx->bitlen
          hashed,    \* what sha256_transform was given so far
          message,   \* history: the bytes given to SHA256_Update
          stage      \* "update" or "final"

shaVars == <<data, datalen, bitlen, hashed, message, stage>>

-----------------------------------------------------------------------------
(* The context is a local variable: each byte of its data is whatever was  *)
(* there.                                                                  *)
SHA256_Init == /\ data \in [1..BlockLength -> OldBytes]
               /\ datalen = 0 /\ bitlen = 0
               /\ hashed = <<>>
               /\ message = <<>>
               /\ stage = "update"

(* One turn of the loop.  data[i] of the code is data[i + 1] here.         *)
SHA256_Update(byte) ==
    LET filled == [data EXCEPT ![datalen + 1] = byte]
    IN  /\ stage = "update" /\ Len(message) < MaxMessage
        /\ data' = filled
        /\ message' = Append(message, byte)
        /\ IF datalen + 1 = BlockLength
           THEN hashed' = hashed \o filled /\ datalen' = 0 /\ bitlen' = bitlen + 8 * BlockLength
           ELSE datalen' = datalen + 1 /\ UNCHANGED <<hashed, bitlen>>
        /\ UNCHANGED stage

(* 0x80 after the message and zeros from there up to an index.             *)
Padded(upto) == [i \in 1..BlockLength |->
                    IF i <= datalen THEN data[i]
                    ELSE IF i = datalen + 1 THEN 128
                    ELSE IF i <= upto THEN 0 ELSE data[i]]

Zeroed == [i \in 1..Front56 |-> 0]

(* The bytes of the length, the most significant one first.                *)
BigEndian(n) == [i \in 1..LengthBytes |-> (n \div (256 ^ (LengthBytes - i))) % 256]

Length == BigEndian(bitlen + 8 * datalen)

Finish(blocks) == /\ stage = "update"
                  /\ hashed' = hashed \o blocks
                  /\ stage' = "final"
                  /\ data' = [i \in 1..BlockLength |-> 0] /\ datalen' = 0 /\ bitlen' = 0
                  /\ UNCHANGED message

(* The context is cleared at the end.                                      *)
final_off_by_one ==
    Finish(IF datalen <= Front56
           THEN SubSeq(Padded(Front56), 1, Front56) \o Length
           ELSE Padded(BlockLength) \o Zeroed \o Length)

SHA256_Final ==
    Finish(IF datalen < Front56
           THEN SubSeq(Padded(Front56), 1, Front56) \o Length
           ELSE Padded(BlockLength) \o Zeroed \o Length)

ShaNext == SHA256_Final \/ \E byte \in MessageBytes : SHA256_Update(byte)

ShaSpec == SHA256_Init /\ [][ShaNext]_shaVars

-----------------------------------------------------------------------------
(* Type invariant.                                                         *)
ShaTypeOK == /\ data \in [1..BlockLength -> Bytes]
             /\ datalen \in 0..(BlockLength - 1)
             /\ bitlen \in Nat
             /\ hashed \in Seq(Bytes)
             /\ message \in Seq(MessageBytes)
             /\ stage \in {"update", "final"}

(* What is compressed is the message, the bit after it, the least number   *)
(* of zeros that makes whole blocks, and the message's length, as FIPS     *)
(* 180-4 has it, for a message of any length, at the edges of a block too, *)
(* and whatever was in the context's memory before.                        *)
PaddingExact ==
    stage = "final" =>
        LET zeros == Len(hashed) - Len(message) - 1 - LengthBytes
        IN  /\ \E blocks \in 1..Len(hashed) : Len(hashed) = blocks * BlockLength
            /\ zeros \in 0..(BlockLength - 1)
            /\ hashed = message \o <<128>> \o [i \in 1..zeros |-> 0]
                        \o BigEndian(8 * Len(message))
=============================================================================
