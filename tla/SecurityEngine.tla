--------------------------- MODULE SecurityEngine ---------------------------
(***************************************************************************)
(* security::SecurityEngine, with AES-256-GCM taken symbolically.  A byte  *)
(* vector is its length and the value it stands for.  A ciphertext stands  *)
(* for the key, the IV and the plaintext it was made from; a tag for the   *)
(* key, the IV and the ciphertext it authenticates.  Opening succeeds for  *)
(* exactly the tag that sealing would have produced.                       *)
(***************************************************************************)
EXTENDS Integers, Sequences

CONSTANT DecryptOrder   \* which of its two parameter orders decrypt_aes_gcm has

\* The header declares decrypt_aes_gcm with one order of its four inputs and
\* the source file defines it with another.  All four have the same type, so
\* that callers compiled against the header reach the definition.
Formals == [declared |-> <<"ciphertext", "tag", "key", "iv">>,
            defined  |-> <<"ciphertext", "key", "iv", "tag">>]

ASSUME SecurityAssumption == DecryptOrder \in DOMAIN Formals

Bytes(len, val) == [len |-> len, val |-> val]

\* RAND_bytes fills the buffer with value; its result is not looked at.
generate_secure_random_bytes(length, value) == Bytes(length, value)

\* What EVP_EncryptFinal_ex and EVP_CTRL_GCM_GET_TAG leave, for one message.
Sealed(key, iv, plaintext) == <<key.val, iv.val, plaintext>>
TagOf(key, iv, ciphertext) == <<key.val, iv.val, ciphertext.val>>

\* FALSE, or the ciphertext, as long as the plaintext, and the tag.
encrypt_aes_gcm(plaintext, key, iv) ==
    IF key.len # 32 \/ iv.len # 12
    THEN [ok |-> FALSE]
    ELSE LET ciphertext == Bytes(plaintext.len, Sealed(key, iv, plaintext.val))
         IN [ok |-> TRUE, ciphertext |-> ciphertext,
             tag |-> Bytes(16, TagOf(key, iv, ciphertext))]

\* The arguments of a call, bound by position to the parameters of DecryptOrder.
Bound(args) ==
    LET formals == Formals[DecryptOrder]
    IN [f \in {formals[i] : i \in DOMAIN formals} |->
           args[CHOOSE i \in DOMAIN formals : formals[i] = f]]

\* Mutant: the result of EVP_DecryptFinal_ex is not looked at.
decrypt_unverified(args) ==
    LET arg == Bound(args)
    IN IF arg.key.len # 32 \/ arg.iv.len # 12 \/ arg.tag.len # 16
       THEN [ok |-> FALSE]
       ELSE [ok |-> TRUE, plaintext |-> arg.ciphertext.val[3]]

\* FALSE, or the plaintext when the tag is the one of this ciphertext.
decrypt_aes_gcm(args) ==
    LET arg == Bound(args)
    IN IF arg.key.len # 32 \/ arg.iv.len # 12 \/ arg.tag.len # 16
       THEN [ok |-> FALSE]
       ELSE IF arg.tag.val = TagOf(arg.key, arg.iv, arg.ciphertext)
       THEN [ok |-> TRUE, plaintext |-> arg.ciphertext.val[3]]
       ELSE [ok |-> FALSE]

\* A stub: every packet is within its limit.
check_rate_limit(client_id, max_requests_per_second, burst_capacity) == TRUE
=============================================================================
