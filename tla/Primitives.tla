------------------------------- MODULE Primitives -------------------------------
(***************************************************************************)
(* The cryptographic primitives of backend/crypto and the key schedule of  *)
(* backend/protocol, as free (hence injective) terms.                       *)
(*                                                                          *)
(* A term is a tuple that begins with a tag; two terms are equal exactly    *)
(* when they were built in the same way, which is what collision resistance *)
(* and unforgeability of the real primitives amount to.  The value of a     *)
(* random draw is named after the endpoint that draws it.  A TEF and the    *)
(* blinding nonce r drawn and revealed with it are one term.                *)
(***************************************************************************)

None    == <<>>                 \* Python's None
Garbled == <<"garbled">>        \* a field whose bytes were changed in transit

\* os.urandom(16), kem.generate_keypair, shm.generate_tef, int(time.time()).
Sid(e) == <<"sid", e>>
Pk(e)  == <<"pk", e>>
Sk(e)  == <<"sk", e>>
Tef(e) == <<"tef", e>>
Timestamp == <<"ts">>

\* ML-KEM: the ciphertext and the shared secret of one encapsulation, and
\* implicit rejection: decapsulating a ciphertext made for another key, or a
\* damaged one, returns a secret nobody else can compute, never an error.
Ciphertext(c, pk)   == <<"ct", c, pk>>
SharedSecret(c, pk) == <<"ss", c, pk>>
Decapsulate(sk, ct) ==
  IF ct # Garbled /\ ct[3] = Pk(sk[2]) THEN SharedSecret(ct[2], ct[3])
                                       ELSE <<"reject", sk, ct>>

\* attestation.build_quote and sign_quote.
Quote(pk, sid)       == <<"quote", pk, sid>>
Signature(key, quote) == <<"sig", key, quote>>

Commit(tef, sid) == <<"commit", tef, sid>>

\* key_schedule.py and fusion.py.
DeriveTK(ss)             == <<"TK", ss>>
DeriveKwrapC(ss)         == <<"KwrapC", ss>>
DeriveKwrapS(ss)         == <<"KwrapS", ss>>
Fusion(tefc, tefs, sid)  == <<"fusion", tefc, tefs, sid>>
DeriveSessionKey(ss, fusion) == <<"SessionKey", ss, fusion>>

\* hmac_util.compute and aead.encrypt; a ciphertext opens only under the key
\* and the associated data it was made with.
Hmac(key, label, th)      == <<"hmac", key, label, th>>
Encrypt(key, text, ad)    == <<"aead", key, text, ad>>
\* Faulty variant of Opens: the associated data is not authenticated.
OpensAnyAD(key, cipher, ad) == cipher # Garbled /\ cipher[2] = key
Opens(key, cipher, ad)    == cipher # Garbled /\ cipher[2] = key /\ cipher[4] = ad
Plaintext(cipher)         == cipher[3]

\* transcript.py: TH0 and one link of the hash chain.
TH0(sid)     == <<"th0", sid>>
Ext(th, msg) == <<"th", th, msg>>
=============================================================================
