----------------------------- MODULE PayloadCipher -----------------------------
(***************************************************************************)
(* What is encrypted: flags | payload size | payload | padding [signature].*)
(* Bytes are numbers, but a signature is what it was made of, once for     *)
(* each of its bytes.  The ciphers are taken to be perfect.                *)
(***************************************************************************)
EXTENDS Integers, Sequences, SequencesExt

PaddingTarget   == 256
SignatureLength == 65
IsSignedMask    == 4
FlagMask        == 3
NoKey           == "no key"

\* From 2^24 bytes on the size, 4, would be taken for the signature's flag; a message
\* has at most a megabyte.
PayloadSizeField(n) ==
    IF n < 256 THEN 1 ELSE IF n < 65536 THEN 2 ELSE IF n < 16777216 THEN 3 ELSE 4

\* The powers of 256.
Weight == <<1, 256, 65536, 16777216>>

LittleEndian(n, size) == [i \in 1 .. size |-> (n \div Weight[i]) % 256]

\* There is always padding, whose bytes are random.
PreCipher(payload, signer) ==
    LET size     == PayloadSizeField(Len(payload))
        signed   == signer # NoKey
        rawSize  == 1 + size + Len(payload) + (IF signed THEN SignatureLength ELSE 0)
        pad      == [i \in 1 .. PaddingTarget - (rawSize % PaddingTarget) |-> 0]
        flags    == size + (IF signed THEN IsSignedMask ELSE 0)
        envelope == <<flags>> \o LittleEndian(Len(payload), size) \o payload \o pad
        sign     == [key |-> signer, hash |-> envelope]
    IN IF signed THEN envelope \o [i \in 1 .. SignatureLength |-> sign] ELSE envelope

GetPayloadSize(message, size) ==
    LET upTo[i \in 0 .. size] == IF i = 0 THEN 0 ELSE upTo[i - 1] + message[i + 1] * Weight[i]
    IN upTo[size]

\* The key with which the rest of the message was signed.
RecoverKey(message) ==
    LET sign == Last(message)
    IN IF sign.hash = SubSeq(message, 1, Len(message) - SignatureLength) THEN sign.key ELSE NoKey

\* Nothing, or the payload and the key of the signature.
PostCipher(message) ==
    LET size   == message[1] % (FlagMask + 1)
        signed == (message[1] \div IsSignedMask) % 2 = 1
        start  == 1 + size
    IN IF size = 0 THEN {}
       ELSE {[payload |-> SubSeq(message, start + 1, start + GetPayloadSize(message, size)),
              signer  |-> IF signed THEN RecoverKey(message) ELSE NoKey]}

\* What the ciphers do: only the key opens them.
Encrypt(key, message) == << [key |-> key, message |-> message] >>
Decrypt(key, cipher)  == {c.message : c \in {c \in ToSet(cipher) : c.key = key}}
=============================================================================
