------------------------------- MODULE MCFips -------------------------------
(***************************************************************************)
(* Instances of ServiceIndicator and of Rand, two mechanisms of the FIPS   *)
(* module.  They share no state, so one run asks about both: a behaviour   *)
(* is one of the indicator, with every service of the module called one    *)
(* after another; or one of the generators on a machine whose kernel wipes *)
(* a page on fork and counts snapshots; on one that has no SysGenID device *)
(* and wipes the page; or on one that does not wipe it, with a device that *)
(* cannot be read.                                                         *)
(***************************************************************************)
EXTENDS ServiceIndicator, Rand, TLC

CONSTANTS
    p1, p2, p3, t1,
    Parts       \* the parts this instance is about

VARIABLE part       \* what this behaviour is about

Plain == INSTANCE Rand WITH Snapsafe <- "unsupported"
Old == INSTANCE Rand WITH WipeOnFork <- FALSE, Snapsafe <- "failed"

Services == DOMAIN Code \ {"tls1_P_hash", "SSKDF_with_digest", "SSKDF_with_hmac", "aes_wrap_cipher",
                           "EVP_EC_KEY_check_fips", "RSA_generate_key_ex_maybe_fips",
                           "rsa_pairwise_test", "pkey_ec_keygen", "pkey_rsa_keygen",
                           "CTR_DRBG_generate"}

\* HKDF and HKDF_expand make their approval check whatever HMAC returned: what
\* becomes of it is a run of its own (MCFipsHkdf.cfg).
Hkdf == {"HKDF", "HKDF_expand"}

MCInit ==
    /\ part \in Parts
    /\ Init
    /\ CASE part = "plain" -> Plain!RandInit
         [] part = "old" -> Old!RandInit
         [] OTHER -> RandInit

MCNext ==
    \/ part = "indicator" /\ Next /\ UNCHANGED <<part, rand_vars>>
    \/ part = "new" /\ RandNext /\ UNCHANGED <<part, vars>>
    \/ part = "plain" /\ Plain!RandNext /\ UNCHANGED <<part, vars>>
    \/ part = "old" /\ Old!RandNext /\ UNCHANGED <<part, vars>>

MCSpec == MCInit /\ [][MCNext]_<<part, vars, rand_vars>>

Symmetry == Permutations(Procs \ {Origin})
=============================================================================
