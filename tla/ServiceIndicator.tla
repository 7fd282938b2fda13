-------------------------- MODULE ServiceIndicator --------------------------
(***************************************************************************)
(* The FIPS service indicator of one thread, crypto/fipsmodule/            *)
(* service_indicator: a counter that approved services raise, and the      *)
(* nested lock with which a service keeps the services it calls from       *)
(* raising it.  Every function of the module that takes the lock, or that  *)
(* raises the counter, is a short program: its locks, its calls, the       *)
(* places where it can fail and where it goes then, its loops and its own  *)
(* approval check.  Behaviours run these programs on a call stack, with    *)
(* every choice of failing step, in the FIPS build.                        *)
(***************************************************************************)
EXTENDS Integers, Sequences, SequencesExt

CONSTANTS
    Called,         \* the services an application calls in this instance, and those
    Unapproved,     \* it calls only with what their approval check does not accept
    MaxRise         \* bound: increments counted within one call

VARIABLES
    lock_state,     \* the fields of the thread's fips_service_indicator_state; the
    counter,        \* counter is what it has risen by since the application read it
    stack,          \* the functions running, innermost last
    args,           \* what the service was called with
    last,           \* the call that has just ended, <<>> before and during one
    aborted         \* why the process has stopped, "" while it runs

vars == <<lock_state, counter, stack, args, last, aborted>>

-----------------------------------------------------------------------------
(* Digests stand for a class each: sha256 for SHA-384 and SHA-512 as well,  *)
(* sha512_256 for SHA-512/224, sha3 for the four SHA-3 functions, none for  *)
(* a signature scheme that hashes by itself.                                *)
Digests == {"md5", "md5_sha1", "sha1", "sha224", "sha256", "sha512_256", "sha3", "none"}
HmacDigests == {"md5", "sha1", "sha224", "sha256", "sha512_256"}
Keys == {"rsa2048", "rsa1024", "p256", "secp256k1", "hmac", "x25519"}

(* What the verify functions accept.  fine: the remaining inputs are those  *)
(* the function asks for, such as lengths, a label or an approved cipher.   *)
KdfDigests == {"sha1", "sha224", "sha256"}
SigningDigests == {"sha224", "sha256", "sha512_256", "sha3"}

ApprovedCurve(a) == a.key = "p256"

SignatureApproves(a, digests, keys) ==
    /\ a.md \in digests
    /\ a.key \in keys
    /\ a.key # "p256" => a.fine

Approves(f, a) ==
    CASE f \in {"HMAC", "HMAC_Final", "SSKDF_hmac", "KBKDF_ctr_hmac"} ->
            a.md \in HmacDigests \ {"md5"}
      [] f = "HKDF" -> a.md \in KdfDigests /\ a.fine
      [] f \in {"HKDF_expand", "SSHKDF"} -> a.md \in KdfDigests
      [] f = "PKCS5_PBKDF2_HMAC" -> a.md \in KdfDigests /\ a.fine
      [] f = "CRYPTO_tls1_prf" -> a.md = "md5_sha1" \/ (a.md = "sha256" /\ a.fine)
      [] f = "SSKDF_digest" -> a.md \in Digests \ {"md5", "md5_sha1"}
      [] f \in {"EVP_DigestSign", "EVP_DigestSignFinal"} ->
            SignatureApproves(a, SigningDigests, {"rsa2048", "p256"})
      [] f \in {"EVP_DigestVerify", "EVP_DigestVerifyFinal"} ->
            SignatureApproves(a, SigningDigests \cup {"sha1"}, {"rsa1024", "rsa2048", "p256"})
      [] f \in {"EC_KEY_check_fips", "EC_KEY_generate_key_fips", "ECDH_compute_key_fips",
                "pkey_ec_derive"} -> ApprovedCurve(a)
      [] f = "EVP_PKEY_keygen" -> ApprovedCurve(a) \/ a.key = "rsa2048"
      [] f = "md_final" -> a.md # "md5"
      [] f \in {"EVP_Cipher", "EVP_CipherFinal_ex", "CMAC_Final", "AES_CMAC",
                "aead_aes_gcm_seal_scatter_randnonce", "aead_aes_gcm_open_gather",
                "aead_aes_gcm_tls_seal_scatter", "aead_aes_ccm"} -> a.fine
      [] OTHER -> TRUE

-----------------------------------------------------------------------------
(* The steps of a program.  A step that can fail names the label it fails   *)
(* to; "fail" leaves the function with 0, "done" with what ret holds, and   *)
(* "abort" stops the process.  CallWith passes inputs of the caller's own.  *)
Lock == <<"lock">>
Unlock == <<"unlock">>
Ok == <<"ok">>                           \* ret = 1
Verify == <<"verify">>                   \* the function's approval check
VerifyIfOk == <<"verify_if_ok">>         \* the check under if (ret)
Label(l) == <<"label", l>>
Goto(l) == <<"goto", l>>
Try(l) == <<"branch", l>>                \* something here may fail
Branch(l) == <<"branch", l>>             \* a condition, a loop left or taken
Call(f, l) == <<"call", f, l, "">>
CallWith(f, l, md) == <<"call", f, l, md>>
IfMd(S, l) == <<"if_md", S, l>>
IfKey(S, l) == <<"if_key", S, l>>
AbortUnlessOk == <<"abort_unless_ok">>

(* The two usual shapes.                                                    *)
Guarded(body) == <<Lock>> \o body \o <<Ok, Label("end"), Unlock>>
Service(body) == Guarded(body) \o <<VerifyIfOk>>
Leaf == <<Try("fail"), Verify, Ok>>
Repeat(body) == <<Label("loop"), Branch("left")>> \o body \o <<Goto("loop"), Label("left")>>
Hmac(l) == <<Call("HMAC_Init_ex", l), Try(l), Call("HMAC_Final", l)>>

-----------------------------------------------------------------------------
(* Digests and HMAC.                                                        *)
md_final == Leaf
SHA1 == Service(<<CallWith("md_final", "end", "sha1")>>)
SHA256 == Service(<<CallWith("md_final", "end", "sha256")>>)
SHA512 == Service(<<CallWith("md_final", "end", "sha256")>>)
SHA3 == Service(<<CallWith("md_final", "end", "sha3")>>)

HMAC_Init_ex ==
    <<Branch("same"), IfMd(Digests \ HmacDigests, "fail"), Lock,
      Branch("short key"), Call("md_final", "end"), Label("short key"),
      Try("end"), Ok, Label("end"), Unlock, Goto("done"), Label("same"), Ok>>

HMAC_Init_from_precomputed_key ==
    <<Branch("same"), Try("fail")>> \o Guarded(<<Try("end")>>) \o
    <<Goto("done"), Label("same"), Ok>>

HMAC_Final ==
    <<Try("fail")>> \o Service(<<Call("md_final", "end"), Try("end"), Call("md_final", "end")>>)

HMAC == <<Try("fail")>> \o Service(Hmac("end"))

HMAC_with_precompute ==
    Guarded(<<Call("HMAC_Init_ex", "end"), Try("end"),
              Call("HMAC_Init_from_precomputed_key", "end"), Try("end"),
              Call("HMAC_Final", "end")>>)

-----------------------------------------------------------------------------
(* Key derivation.                                                          *)
HKDF_extract == Guarded(<<Call("HMAC", "end")>>)

HKDF_expand ==
    <<Try("fail")>> \o
    Guarded(<<Call("HMAC_Init_ex", "end")>> \o
            Repeat(<<Branch("first"), Call("HMAC_Init_ex", "end"), Label("first"),
                              Try("end"), Call("HMAC_Final", "end")>>)) \o <<Verify>>

HKDF == Guarded(<<Call("HKDF_extract", "end"), Call("HKDF_expand", "end")>>) \o <<Verify>>

PKCS5_PBKDF2_HMAC ==
    Service(<<Call("HMAC_Init_ex", "end")>> \o Repeat(Hmac("end")) \o <<Try("end")>>)

tls1_P_hash ==
    Hmac("fail") \o
    <<Label("chunk"), Try("fail"), Call("HMAC_Final", "fail"), Branch("written"),
      Call("HMAC_Final", "fail"), Goto("chunk"), Label("written"), Ok>>

CRYPTO_tls1_prf ==
    Service(<<Branch("none asked"), IfMd(Digests \ {"md5_sha1"}, "one digest"),
              CallWith("tls1_P_hash", "end", "md5"), CallWith("tls1_P_hash", "end", "sha1"),
              Goto("none asked"), Label("one digest"), Call("tls1_P_hash", "end"),
              Label("none asked")>>)

KBKDF_ctr_hmac ==
    Service(<<Try("end"), Call("HMAC_Init_ex", "end"), Try("end")>> \o
            Repeat(Hmac("end") \o <<Try("end")>>))

SSKDF(block) == <<Try("fail")>> \o Repeat(block \o <<Try("fail")>>) \o <<Ok>>
SSKDF_with_digest == SSKDF(<<Call("md_final", "fail")>>)
SSKDF_with_hmac == SSKDF(Hmac("fail"))

SSKDF_digest ==
    <<Lock, Try("early")>> \o
    <<Call("SSKDF_with_digest", "end"), Ok, Label("end"), Unlock, VerifyIfOk, Goto("done"),
      Label("early"), Unlock>>

SSKDF_hmac_Early ==
    <<Lock, Try("fail"), Call("HMAC_Init_ex", "fail")>> \o
    <<Call("SSKDF_with_hmac", "end"), Ok, Label("end"), Unlock, VerifyIfOk>>

SSKDF_hmac ==
    <<Lock, Try("early"), Call("HMAC_Init_ex", "early")>> \o
    <<Call("SSKDF_with_hmac", "end"), Ok, Label("end"), Unlock, VerifyIfOk, Goto("done"),
      Label("early"), Unlock>>

SSHKDF ==
    <<Try("fail")>> \o
    Service(<<Try("end"), Label("block"), Try("end"), Call("md_final", "end"), Branch("block")>>)

-----------------------------------------------------------------------------
(* Ciphers, key wrap and CMAC.  fine: an approved cipher and key length.    *)
EVP_Cipher ==
    <<Branch("custom"), Try("fail"), Verify, Ok, Goto("done"),
      Label("custom"), Call("aes_wrap_cipher", "fail"), Ok>>
EVP_CipherFinal_ex == Leaf
AES_encrypt_modes == <<Verify, Ok>>

CMAC_Init == Guarded(<<Try("end"), Call("EVP_Cipher", "end"), Try("end")>>)
CMAC_Update == Guarded(Repeat(<<Call("EVP_Cipher", "end")>>))
CMAC_Final == Service(<<Branch("length only"), Call("EVP_Cipher", "end"), Label("length only")>>)
AES_CMAC ==
    <<Try("fail")>> \o
    Service(<<Call("CMAC_Init", "end"), Call("CMAC_Update", "end"), Call("CMAC_Final", "end")>>)

AES_wrap_key == Leaf
AES_unwrap_key == Leaf
AES_unwrap_key_padded == Leaf
AES_wrap_key_padded ==
    Service(<<Try("end"), Branch("one block"), Try("end"), Call("AES_wrap_key", "end"),
              Label("one block")>>)
aes_wrap_cipher ==
    <<Try("fail")>> \o
    Guarded(<<Branch("unwrap"), Call("AES_wrap_key", "end"), Goto("wrapped"),
              Label("unwrap"), Call("AES_unwrap_key", "end"), Label("wrapped")>>)

aead_aes_gcm_seal_scatter_randnonce ==
    <<Try("fail"), Lock, Call("RAND_bytes", "fail"), Unlock, Try("fail"), Verify, Ok>>
aead_aes_gcm_open_gather == Leaf
aead_aes_gcm_tls_seal_scatter == Leaf
aead_aes_ccm == Leaf
aes_gcm_set_iv_fixed ==
    <<Branch("restored"), Try("fail"), Lock, Branch("decrypt"), Call("RAND_bytes", "early"),
      Label("decrypt"), Unlock, Ok, Goto("done"), Label("early"), Unlock, Goto("done"),
      Label("restored"), Ok>>

-----------------------------------------------------------------------------
(* Random numbers.                                                          *)
CTR_DRBG_generate == Leaf
RAND_bytes ==
    <<Branch("empty"), Label("more"), Call("CTR_DRBG_generate", "abort"), Branch("more"),
      Label("empty"), Ok>>
BN_rand == <<Try("fail"), Lock, Call("RAND_bytes", "fail"), Unlock, Ok>>
bn_rand_range_words ==
    Guarded(<<Try("end"), Label("again"), Try("end"), Call("RAND_bytes", "end"), Branch("again")>>)
bn_rand_secret_range == Guarded(<<Try("end"), Call("RAND_bytes", "end")>>)

-----------------------------------------------------------------------------
(* Elliptic curves.                                                         *)
PairwiseTest ==
    <<Try("fail"), CallWith("EVP_DigestSign", "fail", "sha256"), Try("fail"),
      CallWith("EVP_DigestSign", "fail", "sha256"), CallWith("EVP_DigestVerify", "fail", "sha256"),
      Ok>>
EVP_EC_KEY_check_fips == PairwiseTest

EC_KEY_generate_key == <<Try("fail"), Call("bn_rand_range_words", "fail"), Try("fail"), Ok>>

EC_KEY_check_fips ==
    Service(<<Try("end"), Branch("public"), Call("EVP_EC_KEY_check_fips", "end"), Label("public")>>)

EC_KEY_generate_key_fips ==
    <<Lock, Label("again"), Call("EC_KEY_generate_key", "checked anyway"),
      Call("EC_KEY_check_fips", "retry"), Ok, Goto("end"),
      Label("checked anyway"), Call("EC_KEY_check_fips", "retry"),
      Label("retry"), Branch("again"), Label("end"), Unlock, VerifyIfOk, AbortUnlessOk>>

ECDH_compute_shared_secret ==
    <<Try("fail")>> \o Guarded(<<Try("end"), Call("EC_KEY_check_fips", "end"), Try("end")>>)

ECDH_compute_key_fips ==
    Service(<<Call("ECDH_compute_shared_secret", "end"), Try("end"), Branch("sha384 or sha512"),
              Call("SHA256", "hashed"), Goto("hashed"), Label("sha384 or sha512"),
              Call("SHA512", "hashed"), Label("hashed")>>)

pkey_ec_derive ==
    <<Try("fail"), Branch("length only"), Call("ECDH_compute_shared_secret", "fail"), Verify,
      Label("length only"), Ok>>

pkey_ec_keygen == <<Try("fail")>> \o Guarded(<<Try("end"), Call("EC_KEY_generate_key_fips", "end")>>)

ECDSA_do_sign ==
    <<Try("fail"), Lock, CallWith("md_final", "hashed", "sha256"), Label("hashed"), Unlock,
      Label("again"), Call("bn_rand_range_words", "fail"), Branch("again"), Try("fail"), Ok>>

-----------------------------------------------------------------------------
(* RSA and Diffie-Hellman.                                                  *)
PKCS1_MGF1 == Guarded(Repeat(<<Try("end"), Call("md_final", "end")>>))
RSA_verify_PKCS1_PSS_mgf1 ==
    Guarded(<<Try("end"), Call("PKCS1_MGF1", "end"), Try("end"), Call("md_final", "end"), Try("end")>>)
RSA_padding_add_PKCS1_PSS_mgf1 ==
    Guarded(<<Try("end"), Branch("no salt"), Call("RAND_bytes", "end"), Label("no salt"),
              Call("md_final", "end"), Call("PKCS1_MGF1", "end")>>)

RSA_check_fips ==
    <<Try("fail"), Call("bn_rand_range_words", "fail"), Try("fail"), Branch("public"),
      Call("rsa_pairwise_test", "fail"), Label("public"), Ok>>
rsa_pairwise_test == PairwiseTest

RSA_generate_key_ex_maybe_fips ==
    <<Label("again"), Call("BN_rand", "failed"), Try("failed"), Call("RSA_check_fips", "failed"),
      Ok, Goto("done"), Label("failed"), Branch("again"), AbortUnlessOk>>

RSA_generate_key_fips ==
    <<IfKey(Keys \ {"rsa2048"}, "fail"), Try("fail"),
      Call("RSA_generate_key_ex_maybe_fips", "fail"), Verify, Ok>>

pkey_rsa_keygen ==
    <<Try("fail"), Lock, Call("RSA_generate_key_fips", "early"), Try("early"), Unlock,
      Try("fail"), Ok, Goto("done"), Label("early"), Unlock>>

DH_compute_key_hashed == <<Try("fail")>> \o Guarded(<<Try("end"), Call("md_final", "end")>>)

-----------------------------------------------------------------------------
(* EVP: signing with any key, key generation.                               *)
EVP_PKEY_sign ==
    <<Branch("length only"), IfKey({"rsa2048", "rsa1024"}, "rsa"), Call("ECDSA_do_sign", "fail"),
      Goto("length only"), Label("rsa"), Branch("pkcs1"),
      Call("RSA_padding_add_PKCS1_PSS_mgf1", "fail"), Label("pkcs1"),
      Call("bn_rand_range_words", "fail"), Try("fail"), Label("length only"), Ok>>
EVP_PKEY_verify ==
    <<Branch("not pss"), Call("RSA_verify_PKCS1_PSS_mgf1", "fail"), Label("not pss"), Try("fail"), Ok>>

EVP_DigestSignFinal ==
    <<IfMd({"none"}, "fail"), Branch("length only"), Lock, Try("end"), IfKey({"hmac"}, "hmac"),
      Call("md_final", "end"), Call("EVP_PKEY_sign", "end"), Goto("signed"),
      Label("hmac"), Try("end"), Call("HMAC_Final", "end"), Label("signed"), Ok,
      Label("end"), Unlock, VerifyIfOk, Goto("done"),
      Label("length only"), Try("fail"), Ok>>

EVP_DigestVerifyFinal ==
    <<IfMd({"none"}, "fail"), IfKey({"hmac"}, "fail")>> \o
    Service(<<Try("end"), Call("md_final", "end"), Call("EVP_PKEY_verify", "end")>>)

EVP_DigestSign ==
    <<Lock, IfMd({"none"}, "message"), Try("end"), Call("EVP_DigestSignFinal", "end"), Ok,
      Goto("end"), Label("message"), Try("end"), Call("SHA512", "end"), Try("end"), Ok,
      Label("end"), Unlock, VerifyIfOk>>

EVP_DigestVerify ==
    <<Lock, IfMd({"none"}, "message"), IfKey({"hmac"}, "end"), Try("end"),
      Call("EVP_DigestVerifyFinal", "end"), Ok, Goto("end"),
      Label("message"), Try("end"), Call("SHA512", "end"), Try("end"), Ok,
      Label("end"), Unlock, VerifyIfOk>>

X25519_keypair == <<Call("RAND_bytes", "fail"), Ok>>

EVP_PKEY_keygen ==
    Service(<<Try("end"), IfKey({"hmac"}, "end"), IfKey({"rsa2048", "rsa1024"}, "rsa"),
              IfKey({"x25519"}, "x25519"), Call("pkey_ec_keygen", "end"), Goto("made"),
              Label("rsa"), Call("pkey_rsa_keygen", "end"), Goto("made"),
              Label("x25519"), Call("X25519_keypair", "end"), Label("made")>>)

-----------------------------------------------------------------------------
Code == [
    md_final |-> md_final, SHA1 |-> SHA1, SHA256 |-> SHA256, SHA512 |-> SHA512, SHA3 |-> SHA3,
    HMAC_Init_ex |-> HMAC_Init_ex, HMAC_Final |-> HMAC_Final, HMAC |-> HMAC,
    HMAC_Init_from_precomputed_key |-> HMAC_Init_from_precomputed_key,
    HMAC_with_precompute |-> HMAC_with_precompute,
    HKDF |-> HKDF, HKDF_extract |-> HKDF_extract, HKDF_expand |-> HKDF_expand,
    PKCS5_PBKDF2_HMAC |-> PKCS5_PBKDF2_HMAC, tls1_P_hash |-> tls1_P_hash,
    CRYPTO_tls1_prf |-> CRYPTO_tls1_prf, KBKDF_ctr_hmac |-> KBKDF_ctr_hmac,
    SSKDF_with_digest |-> SSKDF_with_digest, SSKDF_with_hmac |-> SSKDF_with_hmac,
    SSKDF_digest |-> SSKDF_digest, SSKDF_hmac |-> SSKDF_hmac, SSHKDF |-> SSHKDF,
    EVP_Cipher |-> EVP_Cipher, EVP_CipherFinal_ex |-> EVP_CipherFinal_ex,
    AES_encrypt_modes |-> AES_encrypt_modes,
    CMAC_Init |-> CMAC_Init, CMAC_Update |-> CMAC_Update, CMAC_Final |-> CMAC_Final,
    AES_CMAC |-> AES_CMAC, AES_wrap_key |-> AES_wrap_key, AES_unwrap_key |-> AES_unwrap_key,
    AES_wrap_key_padded |-> AES_wrap_key_padded, AES_unwrap_key_padded |-> AES_unwrap_key_padded,
    aes_wrap_cipher |-> aes_wrap_cipher,
    aead_aes_gcm_seal_scatter_randnonce |-> aead_aes_gcm_seal_scatter_randnonce,
    aead_aes_gcm_open_gather |-> aead_aes_gcm_open_gather,
    aead_aes_gcm_tls_seal_scatter |-> aead_aes_gcm_tls_seal_scatter,
    aead_aes_ccm |-> aead_aes_ccm, aes_gcm_set_iv_fixed |-> aes_gcm_set_iv_fixed,
    CTR_DRBG_generate |-> CTR_DRBG_generate, RAND_bytes |-> RAND_bytes, BN_rand |-> BN_rand,
    bn_rand_range_words |-> bn_rand_range_words, bn_rand_secret_range |-> bn_rand_secret_range,
    EVP_EC_KEY_check_fips |-> EVP_EC_KEY_check_fips, EC_KEY_generate_key |-> EC_KEY_generate_key,
    EC_KEY_check_fips |-> EC_KEY_check_fips, EC_KEY_generate_key_fips |-> EC_KEY_generate_key_fips,
    ECDH_compute_shared_secret |-> ECDH_compute_shared_secret,
    ECDH_compute_key_fips |-> ECDH_compute_key_fips, pkey_ec_derive |-> pkey_ec_derive,
    pkey_ec_keygen |-> pkey_ec_keygen, ECDSA_do_sign |-> ECDSA_do_sign,
    PKCS1_MGF1 |-> PKCS1_MGF1, RSA_verify_PKCS1_PSS_mgf1 |-> RSA_verify_PKCS1_PSS_mgf1,
    RSA_padding_add_PKCS1_PSS_mgf1 |-> RSA_padding_add_PKCS1_PSS_mgf1,
    RSA_check_fips |-> RSA_check_fips, rsa_pairwise_test |-> rsa_pairwise_test,
    RSA_generate_key_ex_maybe_fips |-> RSA_generate_key_ex_maybe_fips,
    RSA_generate_key_fips |-> RSA_generate_key_fips, pkey_rsa_keygen |-> pkey_rsa_keygen,
    DH_compute_key_hashed |-> DH_compute_key_hashed,
    EVP_PKEY_sign |-> EVP_PKEY_sign, EVP_PKEY_verify |-> EVP_PKEY_verify,
    EVP_DigestSignFinal |-> EVP_DigestSignFinal, EVP_DigestVerifyFinal |-> EVP_DigestVerifyFinal,
    EVP_DigestSign |-> EVP_DigestSign, EVP_DigestVerify |-> EVP_DigestVerify,
    X25519_keypair |-> X25519_keypair, EVP_PKEY_keygen |-> EVP_PKEY_keygen]

ASSUME ConstantsAssumption ==
    /\ Called \subseteq DOMAIN Code /\ Unapproved \subseteq DOMAIN Code
    /\ MaxRise \in Nat \ {0}

-----------------------------------------------------------------------------
Top == Last(stack)
Instr == Code[Top.fn][Top.pc]
AtEnd == Top.pc > Len(Code[Top.fn])
At(op) == stack # <<>> /\ aborted = "" /\ ~AtEnd /\ Instr[1] = op

Frame(f, a, lock0) ==
    [fn |-> f, pc |-> 1, ret |-> FALSE, md |-> a.md, fine |-> a.fine, lock0 |-> lock0, own |-> 0]

(* Where a jump of frame t to label l leaves it.                            *)
Jump(t, l) ==
    LET end == Len(Code[t.fn]) + 1
    IN  CASE l = "fail" -> [t EXCEPT !.pc = end, !.ret = FALSE]
          [] l = "done" -> [t EXCEPT !.pc = end]
          [] OTHER -> [t EXCEPT !.pc = CHOOSE i \in 1 .. end - 1 :
                          /\ Code[t.fn][i][1] = "label"
                          /\ Code[t.fn][i][2] = l]

Next_(t) == [t EXCEPT !.pc = @ + 1]
Becomes(t) == stack' = Front(stack) \o <<t>>

Init ==
    /\ lock_state = 0
    /\ counter = 0
    /\ stack = <<>>
    /\ args = <<>>
    /\ last = <<>>
    /\ aborted = ""

(* The inputs that make a difference to f.                                  *)
OnDigest == {"HMAC", "HMAC_Init_ex", "HMAC_Final", "HMAC_Init_from_precomputed_key",
             "HMAC_with_precompute", "HKDF", "HKDF_extract", "HKDF_expand", "PKCS5_PBKDF2_HMAC",
             "CRYPTO_tls1_prf", "KBKDF_ctr_hmac", "SSKDF_digest", "SSKDF_hmac", "SSHKDF",
             "md_final", "PKCS1_MGF1", "DH_compute_key_hashed"}
OnSignature == {"EVP_DigestSign", "EVP_DigestSignFinal", "EVP_DigestVerify", "EVP_DigestVerifyFinal"}
OnKey == {"EC_KEY_check_fips", "EC_KEY_generate_key_fips", "ECDH_compute_shared_secret",
          "ECDH_compute_key_fips", "pkey_ec_derive"}
OnRsaKey == {"RSA_check_fips", "RSA_generate_key_fips"}

Arguments(f) ==
    {a \in [md : Digests, key : Keys, fine : BOOLEAN] :
        /\ (a.md = "none") <=> (f \in OnSignature /\ a.key = "x25519")
        /\ f \in OnSignature \/ a.md = "sha256" \/ (f \in OnDigest /\ a.key = "p256")
        /\ f \in OnKey => a.key \in {"p256", "secp256k1"}
        /\ f \in OnRsaKey => a.key \in {"rsa2048", "rsa1024"}
        /\ f \in OnKey \cup OnRsaKey \cup OnSignature \cup {"EVP_PKEY_keygen"} \/ a.key = "p256"
        /\ f \in OnSignature /\ a.key = "hmac" => a.md \in HmacDigests
        /\ f \in Unapproved => ~Approves(f, a)}

(* FIPS_service_indicator_before_call, and the call of service f.           *)
Start(f, a) ==
    /\ stack = <<>>
    /\ aborted = ""
    /\ stack' = <<Frame(f, a, lock_state)>>
    /\ args' = a
    /\ counter' = 0
    /\ last' = <<>>
    /\ UNCHANGED <<lock_state, aborted>>

FIPS_service_indicator_lock_state ==
    /\ At("lock")
    /\ lock_state' = lock_state + 1
    /\ Becomes(Next_(Top))
    /\ UNCHANGED <<counter, args, last, aborted>>

FIPS_service_indicator_unlock_state ==
    /\ At("unlock")
    /\ IF lock_state = 0
          THEN aborted' = "unlock" /\ UNCHANGED <<lock_state, stack>>
          ELSE /\ lock_state' = lock_state - 1
               /\ Becomes(Next_(Top))
               /\ UNCHANGED aborted
    /\ UNCHANGED <<counter, args, last>>

(* The function's approval check and FIPS_service_indicator_update_state.   *)
FIPS_service_indicator_update_state ==
    /\ At("verify") \/ At("verify_if_ok")
    /\ LET approved == /\ Instr[1] = "verify_if_ok" => Top.ret
                       /\ Approves(Top.fn, [md |-> Top.md, key |-> args.key, fine |-> Top.fine])
       IN  IF approved
             THEN /\ counter < MaxRise
                  /\ counter' = IF lock_state = 0 THEN counter + 1 ELSE counter
                  /\ Becomes([Next_(Top) EXCEPT !.own = 1])
             ELSE UNCHANGED counter /\ Becomes(Next_(Top))
    /\ UNCHANGED <<lock_state, args, last, aborted>>

Advance ==
    /\ \/ At("label") /\ Becomes(Next_(Top))
       \/ At("ok") /\ Becomes([Next_(Top) EXCEPT !.ret = TRUE])
       \/ At("goto") /\ Becomes(Jump(Top, Instr[2]))
       \/ At("branch") /\ \E t \in {Next_(Top), Jump(Top, Instr[2])} : Becomes(t)
       \/ At("if_md") /\ Becomes(IF Top.md \in Instr[2] THEN Jump(Top, Instr[3]) ELSE Next_(Top))
       \/ At("if_key") /\ Becomes(IF args.key \in Instr[2] THEN Jump(Top, Instr[3]) ELSE Next_(Top))
       \/ At("call") /\ stack' = Append(stack,
              Frame(Instr[2], IF Instr[4] = "" THEN Top ELSE [md |-> Instr[4], fine |-> TRUE],
                    lock_state))
    /\ UNCHANGED <<lock_state, counter, args, last, aborted>>

(* BORINGSSL_FIPS_abort after a failed generation.                          *)
FipsAbort ==
    /\ At("abort_unless_ok")
    /\ IF Top.ret THEN Becomes(Next_(Top)) /\ UNCHANGED aborted
                  ELSE aborted' = "fips" /\ UNCHANGED stack
    /\ UNCHANGED <<lock_state, counter, args, last>>

Returning == stack # <<>> /\ aborted = "" /\ AtEnd

ReturnToCaller ==
    /\ Returning
    /\ Len(stack) > 1
    /\ LET caller == stack[Len(stack) - 1]
           onfail == Code[caller.fn][caller.pc][3]
           resumed == IF Top.ret THEN Next_(caller) ELSE Jump(caller, onfail)
       IN  IF ~Top.ret /\ onfail = "abort"
             THEN aborted' = "drbg" /\ UNCHANGED stack
             ELSE stack' = Front(Front(stack)) \o <<resumed>> /\ UNCHANGED aborted
    /\ UNCHANGED <<lock_state, counter, args, last>>

(* The service returns; FIPS_service_indicator_after_call.                  *)
Finish ==
    /\ Returning
    /\ Len(stack) = 1
    /\ last' = <<[fn |-> Top.fn, ok |-> Top.ret, own |-> Top.own]>>
    /\ stack' = <<>>
    /\ args' = <<>>
    /\ UNCHANGED <<lock_state, counter, aborted>>

Next ==
    \/ stack = <<>> /\ \E f \in Called : \E a \in Arguments(f) : Start(f, a)
    \/ FIPS_service_indicator_lock_state
    \/ FIPS_service_indicator_unlock_state
    \/ FIPS_service_indicator_update_state
    \/ Advance
    \/ FipsAbort
    \/ ReturnToCaller
    \/ Finish

Spec == Init /\ [][Next]_vars

-----------------------------------------------------------------------------
(* Services that reach another service's check with the indicator unlocked, *)
(* so that it is the inner one that counts.                                 *)
PassThrough == {"RAND_bytes", "X25519_keypair", "RSA_check_fips", "RSA_generate_key_fips"}

(* Whichever step of a function fails, its early returns included, it       *)
(* leaves the indicator locked as often as it found it, and no unlock finds *)
(* it unlocked, which would abort the process.  A service raises the        *)
(* counter by its own approval check alone, once, and not if it fails       *)
(* ("incremented when an approved service completes", service_indicator.c); *)
(* the services it calls, however deep, leave the counter as it is.         *)
IndicatorExact ==
    /\ Returning => lock_state = Top.lock0
    /\ stack = <<>> => lock_state = 0
    /\ aborted # "unlock"
    /\ \A c \in ToSet(last) :
          /\ c.fn \notin PassThrough => counter = c.own
          /\ ~c.ok /\ c.fn \notin PassThrough => counter = 0
=============================================================================
