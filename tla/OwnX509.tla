------------------------------- MODULE OwnX509 -------------------------------
(* Ownership in the rest of crypto/x509: certificates, requests, CRLs, names, *)
(* attributes, stores, verification parameters, policies and lookups.         *)
EXTENDS Ownership

-----------------------------------------------------------------------------
(* a_digest.c, a_sign.c, a_verify.c                                           *)
ASN1_digest == Temporary("str")
ASN1_item_digest == Temporary("str")

(* ASN1_item_sign_ctx cleans the context up, whatever happens.                *)
ASN1_item_sign ==
    <<Try("out"), Own("ctx"), Try("no init"), Given("ctx", "lent"), Done,
      Label("no init"), Free({"ctx"}), Label("out"), Done>>

ASN1_item_sign_ctx ==
    <<Own("ctx"), Try("err"), New("in", "err"), Try("err"), New("out", "err"), Try("err"),
      Given("out", "lent"), Null("out"), Label("err"), Free({"ctx", "in", "out"}), Done>>

ASN1_item_verify ==
    <<Try("fail"), Own("ctx"), Try("err"), New("buf_in", "err"), Use("buf_in"),
      Label("err"), Free({"buf_in", "ctx"}), Label("fail"), Done>>

-----------------------------------------------------------------------------
(* by_dir.c, by_file.c                                                        *)
add_cert_dir ==
    <<Try("out"), Label("dir"), Branch("out"), Holds("dirs")>> \o
    <<IfNull("dirs", "make"), Goto("entry"), Label("make"), New("dirs", "out"),
      Given("dirs", "held"), Label("entry"), New("ent", "out")>> \o
    Field("hashes", "ent", "no hashes") \o Field("name", "ent", "no name") \o
    <<IfNull("name", "bad"), IfNull("hashes", "bad"), Give("ent", "bad"), Null("hashes"),
      Null("name"), Goto("dir"), Label("bad"), Free({"ent"}), Label("out"), Done>>

(* The lock of the hashes is let go on the error paths too.                   *)
get_cert_by_subject ==
    <<Try("out"), Try("finish"), New("b", "finish"), Label("entry"), Branch("finish"), Use("b"),
      Try("finish"), Branch("not a CRL"), Own("lock"), Param("hent"), Branch("known"), Null("hent"),
      Label("known"), Free({"lock"}), Null("lock"), Goto("load"), Label("not a CRL"), Null("hent"),
      Label("load"), Use("b"), Branch("loaded"), Goto("load"), Label("loaded"),
      Own("objs_lock"), Free({"objs_lock"}), Branch("no suffix"), Own("lock"),
      IfNull("hent", "new hash"), Goto("set"), Label("new hash"), New("hent", "no hent"),
      Give("hent", "not pushed"), Label("set"), Use("hent"), Free({"lock"}), Null("lock"),
      Label("no suffix"), Branch("finish"), Goto("entry"),
      Label("not pushed"), Free({"lock"}), Free({"hent"}), Goto("finish"),
      Label("no hent"), Free({"lock"}), Label("finish"), Free({"b"}), Label("out"), Done>>

(* Each object read is added to the store, which takes a reference of its own. *)
LoadFile(x) ==
    <<New("in", "err"), Try("err"), Branch("asn1"), Label("next"), New(x, "err"), Try("err"),
      Free({x}), Null(x), Goto("next"), Label("asn1"), Branch("err"), New(x, "err"), Try("err"),
      Label("err"), Free({x, "in"}), Done>>
X509_load_cert_file == LoadFile("x")
X509_load_crl_file == LoadFile("x")

X509_load_cert_crl_file ==
    <<Branch("fail"), New("in", "fail"), New("inf", "no inf"), Label("no inf"), Free({"in"}),
      IfNull("inf", "fail"), Label("next"), Branch("err"), Try("err"), Try("err"), Goto("next"),
      Label("err"), Free({"inf"}), Label("fail"), Done>>

-----------------------------------------------------------------------------
(* rsa_pss.c, x_algor.c, x_all.c, x_attrib.c                                  *)
rsa_pss_decode ==
    <<Try("fail"), New("pss", "fail"), New("maskHash", "no hash"), Given("maskHash", "lent"),
      Label("no hash"), Return("pss"), Label("fail"), Done>>

rsa_md_to_algor == <<Branch("sha1"), New("alg", "sha1"), Given("alg", "lent"), Label("sha1"), Done>>

rsa_md_to_mgf1 ==
    <<Branch("out"), New("algtmp", "err"), New("stmp", "err"), New("palg", "err"),
      Put("stmp", "palg", "err"), Null("stmp"),
      Label("err"), Free({"stmp", "algtmp"}), IfNull("palg", "out"), Given("palg", "lent"),
      Label("out"), Done>>

x509_rsa_ctx_to_pss ==
    <<Try("out"), Try("out"), New("pss", "err"), Branch("salt 20"), New("saltLength", "err"),
      Given("saltLength", "pss"), Try("err"), Label("salt 20"), New("hashAlgorithm", "err"),
      Given("hashAlgorithm", "pss"), New("maskGenAlgorithm", "err"),
      Given("maskGenAlgorithm", "pss"), New("os", "err"), Give("os", "err"), Null("os"),
      Label("err"), Free({"pss"}), Free({"os"}), Label("out"), Done>>

x509_rsa_pss_to_ctx ==
    <<New("pss", "err"), New("maskHash", "sha1"), Label("sha1"), Use("pss"), Try("err"),
      Label("err"), Free({"pss", "maskHash"}), Done>>
x509_print_rsa_pss_params == x509_rsa_pss_to_ctx

(* The parameter is made before the algorithm is replaced.                    *)
X509_ALGOR_set0 ==
    <<Try("fail"), Holds("parameter"), Holds("algorithm"), Branch("no parameter"),
      IfNull("parameter", "make"), Goto("made"), Label("make"), New("parameter", "fail"),
      Given("parameter", "held"), Label("made")>> \o FreeField("algorithm", "set") \o
    <<Null("algorithm"), Use("parameter"), Done, Label("no parameter")>> \o
    FreeField("algorithm", "cleared") \o <<Null("algorithm")>> \o
    FreeField("parameter", "unset") \o <<Null("parameter"), Label("fail"), Done>>

i2d_PKCS8PrivateKeyInfo_fp == Temporary("p8inf")
i2d_PKCS8PrivateKeyInfo_bio == Temporary("p8inf")

X509_ATTRIBUTE_create ==
    <<Try("fail"), New("ret", "no ret"), Label("no ret"), New("val", "err"), IfNull("ret", "err"),
      Put("val", "ret", "err"), Return("ret"), Label("err"), Free({"ret"}), Free({"val"}),
      Label("fail"), Done>>

-----------------------------------------------------------------------------
(* x_crl.c, x_name.c, x_pubkey.c, x_x509.c, x_x509a.c                         *)
crl_parse_entry_extensions ==
    <<Label("entry"), Branch("out"), New("reason", "no reason"), Free({"reason"}), Goto("entry"),
      Label("no reason"), Branch("entry"), Label("out"), Done>>

(* A CRL that is parsed into again, as d2i_X509_CRL allows, still holds what  *)
(* the last parse left in idp and akid: only a new CRL has them set to NULL.  *)
crl_cb ==
    <<Branch("not new"), Null("idp"), Null("akid"), Done, Label("not new"), Holds("idp"),
      Holds("akid"), Branch("free"), Try("out"), New("idp", "no idp"), Given("idp", "held"),
      Try("out"), Goto("akid"), Label("no idp"), Branch("out"), Label("akid"),
      New("akid", "no akid"), Given("akid", "held"), Goto("entries"), Label("no akid"),
      Branch("out"), Label("entries"), Try("out"), Label("out"), Done, Label("free")>> \o
    FreeField("akid", "no key") \o FreeField("idp", "no point") \o <<Done>>

x509_name_ex_new ==
    <<New("ret", "memerr"), New("entries", "memerr"), New("bytes", "memerr"),
      Given("entries", "ret"), Given("bytes", "ret"), Given("ret", "lent"), Done,
      Label("memerr"), IfNull("ret", "none"), Free({"entries"}), Free({"ret"}), Label("none"),
      Done>>

x509_name_ex_free ==
    <<MayParam("a"), IfNull("a", "none"), Take("a"), Own("bytes"), Own("entries"), Holds("canon"),
      Free({"bytes"}), Free({"entries"})>> \o FreeField("canon", "no canon") \o
    <<Free({"a"}), Label("none"), Done>>

(* An entry is in the list of its RDN or in the name, never in both: its      *)
(* place in the first is cleared when the second has it.                      *)
x509_name_ex_d2i ==
    <<Holds("val"), New("intname", "fail"), Own("entry"), Given("entry", "intname")>> \o
    FreeField("val", "no val") \o
    <<New("nm", "err"), Try("err"), Take("entry"), Put("entry", "nm", "not moved"), Try("err"),
      Free({"intname"})>> \o Store("nm", "val") \o
    <<Done, Label("not moved"), Given("entry", "intname"),
      Label("err"), Free({"nm"}), Free({"intname"}), Label("fail"), Done>>

(* The lists of the RDNs hold the entries of the name without owning them.    *)
x509_name_encode ==
    <<New("intname", "err"), Label("entry"), Branch("all"), Branch("same set"),
      New("entries", "err"), Put("entries", "intname", "bad"), Label("same set"), Try("err"),
      Goto("entry"), Label("all"), Try("err"), Free({"intname"}), Done,
      Label("bad"), Free({"entries"}), Label("err"), Free({"intname"}), Done>>

x509_name_canon ==
    <<Holds("canon_enc")>> \o FreeField("canon_enc", "no canon") \o
    <<Null("canon_enc"), Branch("out"), New("intname", "err"), Label("entry"), Branch("all"),
      Branch("same set"), New("entries", "err"), Put("entries", "intname", "bad"), Label("same set"),
      New("tmpentry", "err"), Try("err"), Put("tmpentry", "intname", "err"), Null("tmpentry"),
      Goto("entry"), Label("all"), Try("err"), New("p", "err")>> \o
    Store("p", "canon_enc") \o
    <<Goto("err"), Label("bad"), Free({"entries"}), Label("err"), Free({"tmpentry"}),
      Free({"intname"}), Label("out"), Done>>

X509_NAME_set == Replace("xn", "name")

x509_pubkey_changed ==
    <<Holds("old")>> \o FreeField("old", "no old") \o
    <<Null("old"), New("spki", "err"), New("pkey", "no key"), Try("no key")>> \o
    Store("pkey", "old") \o
    <<Goto("err"), Label("no key"), Free({"pkey"}), Label("err"), Free({"spki"}), Done>>

X509_PUBKEY_set ==
    <<Try("out"), New("cbb", "no cbb"), Try("no cbb")>> \o Finish("cbb", "spki", "no cbb") \o
    <<Try("no cbb"), New("pk", "error"), Try("error"), Free({"spki"}), Holds("x")>> \o
    FreeField("x", "no x") \o Store("pk", "x") \o
    <<Done, Label("no cbb"), Free({"cbb"}), Label("error"), Free({"pk"}),
      Free({"spki"}), Label("out"), Done>>

(* The certificate's own fields are freed with it.                            *)
x509_cb ==
    <<Holds("buf"), Branch("free"), Branch("no parse")>> \o FreeField("buf", "no buf") \o
    <<Null("buf"), Label("no parse"), Try("out"), Label("out"), Done, Label("free"),
      Own("ex_data"), Own("aux"), Own("skid"), Own("akid"), Own("crldp"), Own("altname"),
      Own("nc"), Free({"ex_data"}), Free({"aux", "skid", "akid", "crldp", "altname", "nc"})>> \o
    FreeField("buf", "nothing") \o <<Done>>

(* d2i_X509 frees the certificate it was given when it fails.                 *)
X509_parse_from_buffer ==
    <<Try("fail"), New("x509", "fail"), Try("not parsed"), Try("trailing"), Own("ref"),
      Given("ref", "x509"), Return("x509"), Label("not parsed"), Free({"x509"}), Null("x509"),
      Label("trailing"), Free({"x509"}), Label("fail"), Done>>

d2i_X509_AUX ==
    InOut("ret") \o Make("ret", "fail", "make", "made") \o <<Branch("no aux"), Try("err"),
      Label("no aux")>> \o ReturnMade("ret") \o <<Label("err")>> \o DropMade("ret") \o
    <<Label("fail"), Done>>

i2d_X509_AUX ==
    <<Branch("out"), Try("out"), New("pp", "out"), Use("pp"), Try("bad"), Given("pp", "lent"), Done,
      Label("bad"), Free({"pp"}), Label("out"), Done>>

(* The algorithm stands in two places, and both copies are made first.        *)
TwoCopies ==
    <<New("copy1", "no copy"), Label("no copy"), New("copy2", "fail"), IfNull("copy1", "fail"),
      Holds("old1"), Holds("old2")>> \o FreeField("old1", "no old 1") \o
    Store("copy1", "old1") \o FreeField("old2", "no old 2") \o Store("copy2", "old2") \o
    <<Done, Label("fail"), Free({"copy1"}), Free({"copy2"}), Done>>
X509_set1_signature_algo == TwoCopies

(* A string of the auxiliary data is set, or dropped.                         *)
AuxString(v) ==
    <<Holds(v), Branch("drop"), Try("out"), IfNull(v, "make"), Goto("set"), Label("make"),
      New(v, "out"), Given(v, "held"), Label("set"), Use(v), Done, Label("drop")>> \o
    FreeField(v, "none") \o <<Null(v), Label("out"), Done>>
X509_alias_set1 == AuxString("alias")
X509_keyid_set1 == AuxString("keyid")

-----------------------------------------------------------------------------
(* x509_att.c, x509_v3.c, x509_req.c, x509name.c, x509_obj.c                  *)
X509_ATTRIBUTE_create_by_OBJ == SetUp("ret")
X509_EXTENSION_create_by_OBJ == SetUp("ret")
X509_NAME_ENTRY_create_by_OBJ == SetUp("ret")
X509_ATTRIBUTE_create_by_txt == MadeFrom("obj", "nattr")
X509_NAME_ENTRY_create_by_txt == MadeFrom("obj", "nentry")
X509_ATTRIBUTE_set1_object == FreeThenSet("object", "copy")
X509_EXTENSION_set_object == FreeThenSet("object", "copy")
X509_NAME_ENTRY_set_object == FreeThenSet("object", "copy")

X509_ATTRIBUTE_set1_data ==
    <<Try("out"), New("typ", "out"), Branch("not text"), New("str", "err"), Given("str", "typ"),
      Goto("push"), Label("not text"), Branch("a value"), New("str", "err"), Try("bad"),
      Given("str", "typ"), Goto("push"), Label("a value"), Try("err"), Label("push"),
      Give("typ", "err"), Done, Label("bad"), Free({"str"}), Label("err"), Free({"typ"}),
      Label("out"), Done>>

(* The stack that was made for the extension goes with it when it fails.      *)
X509v3_add_ext ==
    InOut("sk") \o Make("sk", "err", "make", "made") \o
    <<New("new_ex", "err"), Put("new_ex", "sk", "err")>> \o ReturnMade("sk") \o
    <<Label("err"), Free({"new_ex"})>> \o DropMade("sk")

X509_REQ_add_extensions_nid == Temporary("ext")
X509_REQ_add1_attr == AddNew("new_attr")
X509_REQ_add1_attr_by_OBJ == AddNew("attr")
X509_REQ_add1_attr_by_NID == AddNew("attr")
X509_REQ_add1_attr_by_txt == AddNew("attr")
X509_NAME_add_entry_by_OBJ == Temporary("ne")
X509_NAME_add_entry_by_NID == Temporary("ne")
X509_NAME_add_entry_by_txt == Temporary("ne")
X509_NAME_add_entry == <<Try("fail")>> \o AddNew("new_name")

X509_NAME_get_text_by_OBJ ==
    <<Try("fail"), New("text", "out"), Try("out"), Try("out"), Label("out"), Free({"text"}),
      Label("fail"), Done>>

(* b->data outlives b: only the structure around it is freed.                 *)
X509_NAME_oneline ==
    <<Branch("caller's buffer"), New("b", "err"), New("data", "err"), Given("data", "b"),
      Label("caller's buffer"), Branch("no name"), Label("entry"), Branch("all"), Try("err"),
      Goto("entry"), Label("no name"), Label("all"), IfNull("b", "in place"), Take("data"),
      Free({"b"}), Return("data"), Label("in place"), Done, Label("err"), Free({"b"}), Done>>

-----------------------------------------------------------------------------
(* x509_lu.c, x509_set.c, x509_vpm.c, x509cset.c, x509rset.c, x509spki.c      *)
X509_LOOKUP_new ==
    <<New("ret", "fail"), Try("bad"), Return("ret"), Label("bad"), Free({"ret"}), Label("fail"),
      Done>>

X509_LOOKUP_free ==
    <<MayParam("ctx"), IfNull("ctx", "none"), Take("ctx"), Own("item"), Free({"item"}),
      Free({"ctx"}), Label("none"), Done>>

X509_STORE_new ==
    <<New("ret", "fail")>> \o Field("objs", "ret", "no objs") \o
    Field("get_cert_methods", "ret", "no methods") \o Field("param", "ret", "no param") \o
    <<IfNull("objs", "bad"), IfNull("get_cert_methods", "bad"), IfNull("param", "bad"),
      Return("ret"), Label("bad"), Free({"ret"}), Label("fail"), Done>>

X509_STORE_free ==
    <<MayParam("vfy"), IfNull("vfy", "none"), Branch("none"), Take("vfy"), Own("ex_data"),
      Own("get_cert_methods"), Own("objs"), Own("param"), Free({"ex_data"}),
      Free({"get_cert_methods"}), Free({"objs"}), Free({"param"}), Free({"vfy"}), Label("none"),
      Done>>

X509_STORE_add_lookup == <<Branch("fail")>> \o AddNew("lu")

(* The store already holds the object, or it takes it, or the push fails.     *)
x509_store_add ==
    <<Try("fail"), New("obj", "fail"), Own("ref"), Given("ref", "obj"), Branch("not added"),
      Give("obj", "not added"), Done, Label("not added"), Free({"obj"}), Label("fail"), Done>>

(* A certificate is pushed before its reference is taken, a CRL after; the    *)
(* lock of the store is let go on every way out.                              *)
X509_STORE_CTX_get1_certs ==
    <<New("sk", "fail"), Own("lock"), Branch("found"), Free({"lock"}), New("xobj", "drop"),
      Free({"xobj"}), Own("lock"), Branch("found"), Free({"lock"}), Label("drop"), Free({"sk"}),
      Done, Label("found"), Branch("all"), Try("bad"), Own("x"), Given("x", "sk"), Goto("found"),
      Label("bad"), Free({"lock"}), Free({"sk"}), Done,
      Label("all"), Free({"lock"}), Return("sk"), Label("fail"), Done>>

X509_STORE_CTX_get1_crls ==
    <<New("sk", "fail"), New("xobj", "drop"), Free({"xobj"}), Own("lock"), Branch("found"),
      Free({"lock"}), Label("drop"), Free({"sk"}), Done,
      Label("found"), Branch("all"), Own("x"), Put("x", "sk", "bad"), Goto("found"),
      Label("bad"), Free({"lock"}), Free({"x"}), Free({"sk"}), Done,
      Label("all"), Free({"lock"}), Return("sk"), Label("fail"), Done>>

(* The version is left out when it is the default, and made when it is not.   *)
SetVersion ==
    <<Try("out"), Holds("version"), Branch("default"), IfNull("version", "make"), Goto("set"),
      Label("make"), New("version", "out"), Given("version", "held"), Label("set"), Use("version"),
      Done, Label("default")>> \o FreeField("version", "none") \o
    <<Null("version"), Label("out"), Done>>
X509_set_version == SetVersion
X509_CRL_set_version == SetVersion

X509_set_serialNumber == <<Try("same")>> \o Replace("serialNumber", "in")
X509_set1_notBefore == <<Try("same")>> \o Replace("notBefore", "in")
X509_set1_notAfter == <<Try("same")>> \o Replace("notAfter", "in")
X509_CRL_set1_lastUpdate == <<Try("same")>> \o Replace("lastUpdate", "in")
X509_CRL_set1_nextUpdate == <<Try("same")>> \o Replace("nextUpdate", "in")
X509_REVOKED_set_revocationDate == <<Try("same")>> \o Replace("revocationDate", "in")
X509_REVOKED_set_serialNumber == <<Try("same")>> \o Replace("serialNumber", "in")
X509_REQ_set1_signature_algo == Replace("sig_alg", "copy")
X509_CRL_set1_signature_algo == TwoCopies

int_x509_param_set_hosts ==
    <<Holds("hosts"), Try("fail"), Branch("add")>> \o FreeField("hosts", "no hosts") \o
    <<Null("hosts"), Label("add"), Branch("fail"), New("copy", "fail"), IfNull("hosts", "make"),
      Goto("push"), Label("make"), New("hosts", "not made"), Given("hosts", "held"),
      Label("push"), Give("copy", "not pushed"), Done,
      Label("not pushed"), Free({"copy"}), Branch("fail"), Take("hosts"), Free({"hosts"}),
      Null("hosts"), Done,
      Label("not made"), Free({"copy"}), Label("fail"), Done>>

X509_VERIFY_PARAM_free ==
    <<MayParam("param"), IfNull("param", "none"), Take("param"), Own("policies"), Own("hosts"),
      Own("email"), Own("ip"), Free({"policies", "hosts", "email", "ip"}), Free({"param"}),
      Label("none"), Done>>

x509_verify_param_copy ==
    <<Holds("hosts"), Branch("out"), Try("out"), Branch("kept")>> \o
    FreeField("hosts", "no hosts") \o
    <<Null("hosts"), Branch("kept"), New("hosts", "out"), Given("hosts", "held"), Label("kept"),
      Try("out"), Try("out"), Label("out"), Done>>

int_x509_param_set1_email ==
    <<Holds("dest"), Branch("cleared"), New("tmp", "fail"), Label("cleared")>> \o
    FreeField("dest", "no dest") \o <<Null("dest")>> \o
    GivenIfAny("tmp", "lent", "no tmp") \o <<Label("fail"), Done>>
int_x509_param_set1_ip == <<Try("same")>> \o Replace("dest", "tmp")
X509_VERIFY_PARAM_set1_policies ==
    <<Try("fail"), Holds("policies")>> \o FreeField("policies", "none") \o
    <<Null("policies"), Branch("fail"), New("copy", "fail")>> \o Store("copy", "policies") \o
    <<Label("fail"), Done>>

NETSCAPE_SPKI_b64_decode ==
    <<Try("fail"), New("spki_der", "fail"), Try("bad"), New("spki", "none"), Label("none"),
      Free({"spki_der"}), Return("spki"), Label("bad"), Free({"spki_der"}), Label("fail"), Done>>
NETSCAPE_SPKI_b64_encode ==
    <<Try("fail"), New("der_spki", "fail"), New("b64_str", "bad"), Free({"der_spki"}),
      Return("b64_str"), Label("bad"), Free({"der_spki"}), Label("fail"), Done>>

-----------------------------------------------------------------------------
(* t_crl.c, t_req.c, t_x509.c, name_print.c, asn1_gen.c                       *)
X509_CRL_print_fp == Temporary("b")
X509_REQ_print_fp == Temporary("bio")
X509_print_ex_fp == Temporary("b")
X509_NAME_print_ex_fp ==
    <<Branch("no file"), New("bio", "fail"), Label("no file"), Free({"bio"}), Label("fail"), Done>>

X509_CRL_print ==
    <<Try("out"), New("issuer", "no issuer"), Label("no issuer"), Free({"issuer"}), Try("out"),
      Label("out"), Done>>

X509_NAME_print ==
    <<New("b", "fail"), Branch("empty"), Try("err"), Label("err"), Free({"b"}), Done,
      Label("empty"), Free({"b"}), Label("fail"), Done>>

(* The extensions are not freed when writing one of them fails.               *)
X509_REQ_print_ex ==
    <<Try("err"), Branch("no exts"), New("exts", "no exts"), Label("ext"), Branch("all"),
      Try("err"), Goto("ext"), Label("all"), Free({"exts"}), Label("no exts"), Try("err"), Done,
      Label("err"), Done>>

ASN1_generate_v3 ==
    <<New("cbb", "bad"), Try("bad"), Try("bad"), New("ret", "none"), Label("none"), Free({"cbb"}),
      Return("ret"), Label("bad"), Free({"cbb"}), Done>>

(* Every type of value makes at most one object, encodes it and frees it.     *)
generate_v3 ==
    <<Try("out"), Branch("an object"), Try("out"), Done, Label("an object"), New("obj", "out"),
      Branch("encode"), Try("bad list"), Label("encode"), Use("obj"), Free({"obj"}), Done,
      Label("bad list"), Free({"obj"}), Label("out"), Done>>

-----------------------------------------------------------------------------
(* policy.c                                                                   *)
x509_policy_node_new ==
    <<New("node", "fail")>> \o Field("policy", "node", "no policy") \o
    Field("parents", "node", "no parents") \o
    <<IfNull("policy", "bad"), IfNull("parents", "bad"), Return("node"), Label("bad"),
      Free({"node"}), Label("fail"), Done>>

x509_policy_level_new ==
    <<New("level", "fail"), New("nodes", "bad"), Given("nodes", "level"), Return("level"),
      Label("bad"), Free({"level"}), Label("fail"), Done>>

(* x509_policy_level_add_nodes moves the nodes to the level or leaves them.   *)
NewNodes(next) ==
    <<New("new_nodes", "err"), Label("policy"), Branch("added"), Branch("policy"),
      New("node", "not pushed"), Put("node", "new_nodes", "not pushed"), Use("node"),
      Goto("policy"), Label("added"), Try("err"), Goto(next),
      Label("not pushed"), Free({"node"}), Goto("err")>>

process_certificate_policies ==
    <<New("policies", "out"), Try("err"), Branch("done")>> \o NewNodes("done") \o
    <<Label("done"), Label("err"), Free({"new_nodes"}), Free({"policies"}), Label("out"), Done>>

process_policy_mappings ==
    <<New("mappings", "none"), Try("err"), Branch("not allowed")>> \o NewNodes("mapped") \o
    <<Label("not allowed"), Free({"mappings"}), Null("mappings"), Goto("mapped"),
      Label("none"), Try("err"), Label("mapped"), IfNull("mappings", "make"), Goto("made"),
      Label("make"), New("mappings", "err"), Label("made"), Branch("complete"),
      New("mapping", "err"), Try("no mapping"), Put("mapping", "mappings", "no mapping"),
      Goto("made"), Label("no mapping"), Free({"mapping"}), Goto("err"),
      Label("complete"), New("next", "err"), Null("node"), Label("subject"), Branch("built"),
      Branch("same"), New("last_node", "no node"), Put("last_node", "next", "no node"),
      Label("same"), IfNull("last_node", "subject"), Use("last_node"), Try("failed"),
      Goto("subject"), Label("built"), Free({"mappings"}), Free({"new_nodes"}), Return("next"),
      Label("no node"), Free({"last_node"}), Label("failed"), Label("err"), Free({"next"}),
      Free({"mappings"}), Free({"new_nodes"}), Done>>

process_policy_constraints ==
    <<New("constraints", "none"), Try("bad"), Try("bad"), Free({"constraints"}),
      Label("none"), Try("out"), New("any", "no any"), Label("no any"), Free({"any"}), Done,
      Label("bad"), Free({"constraints"}), Label("out"), Done>>

X509_policy_check ==
    <<Branch("out"), New("levels", "err"), Label("cert"), Branch("all"), Try("err"),
      IfNull("level", "first"), Goto("process"), Label("first"), New("level", "err"),
      Label("process"), Use("level"), Try("err"), Put("level", "levels", "err"), Null("level"),
      Branch("last"), New("level", "err"), Try("err"), Goto("cert"), Label("last"), Try("err"),
      Label("all"), Branch("err"), New("sorted", "err"), Try("err"),
      Label("err"), Free({"level"}), Free({"sorted"}), Free({"levels"}), Label("out"), Done>>

-----------------------------------------------------------------------------
(* x509_vfy.c                                                                 *)
lookup_cert_match ==
    <<New("certs", "out"), Branch("none"), Own("xtmp"), Label("none"), Free({"certs"}),
      Return("xtmp"), Label("out"), Done>>

(* A self-signed certificate is only at the end of the chain the other side   *)
(* sent, so it is taken off once, in the first round.                         *)
X509_verify_cert ==
    <<Try("out"), New("chain", "end"), Given("chain", "lent"), Try("end"),
      Own("cert"), Given("cert", "lent"), Branch("no untrusted"), New("sktmp", "end"),
      Label("no untrusted"), Label("issuer"), Branch("built"), Try("end"), Branch("untrusted"),
      Try("end"), New("xtmp", "untrusted"), Free({"xtmp"}), Null("xtmp"), Goto("built"),
      Label("untrusted"), IfNull("sktmp", "built"), Branch("built"), Try("end"),
      Own("cert"), Given("cert", "lent"), Goto("issuer"), Label("built"),
      Label("round"), Try("end"), Branch("trusted"), IfNull("retried", "first round"),
      Goto("trusted"), Label("first round"), Branch("several"), New("xtmp", "no issuer"),
      Branch("differs"), Take("cert"), Free({"cert"}), Given("xtmp", "lent"), Goto("trusted"),
      Label("differs"), Free({"xtmp"}), Label("no issuer"), Try("end"), Goto("trusted"),
      Label("several"), Take("cert"), Move("chain_ss", "cert"), Param("cert"),
      Label("trusted"), Branch("checked"), Try("end"), Branch("checked"),
      New("xtmp", "checked"), Give("xtmp", "not pushed"), Goto("trusted"),
      Label("checked"), Try("end"), Branch("settled"), Label("alternative"), Branch("settled"),
      Try("end"), Null("xtmp"), New("xtmp", "alternative"), Free({"xtmp"}),
      Label("pop"), Branch("popped"), Own("xtmp"), Free({"xtmp"}), Goto("pop"),
      Label("popped"), Mark("retried"), Goto("round"),
      Label("settled"), Branch("fine"), IfNull("chain_ss", "unable"), Branch("unable"),
      Give("chain_ss", "end"), Null("chain_ss"), Label("unable"), Try("end"),
      Label("fine"), Try("end"), Goto("end"),
      Label("not pushed"), Free({"xtmp"}), Label("end"), Free({"sktmp"}), Free({"chain_ss"}),
      Label("out"), Done>>

(* The match from the store takes the place of the certificate in the chain.  *)
check_trust ==
    <<Param("x"), Branch("out"), Branch("out"), New("mx", "out"), Take("x"), Given("mx", "lent"),
      Free({"x"}), Label("out"), Done>>

reject_dns_name_in_common_name ==
    <<Label("next"), Branch("out"), New("idval", "out"), Use("idval"), Free({"idval"}),
      Branch("out"), Goto("next"), Label("out"), Done>>

check_cert ==
    <<New("crl", "err"), Try("err"), Try("err"), Label("err"), Free({"crl"}), Done>>

(* A better CRL takes the place of the one found so far, which is freed.      *)
get_crl ==
    <<New("crl", "in store"), Branch("done"), Label("in store"), New("skcrl", "no list"),
      Label("search"), Branch("kept"), Free({"crl"}), Own("crl"), Label("kept"), Free({"skcrl"}),
      Goto("done"), Label("no list"), IfNull("crl", "search"), Goto("done"),
      Label("done"), IfNull("crl", "none"), Given("crl", "lent"), Label("none"), Done>>

X509_STORE_CTX_init ==
    <<Own("ex_data"), Try("err"), New("param", "err"), Try("err"), Given("ex_data", "lent"),
      Given("param", "lent"), Done, Label("err"), Free({"ex_data"}), Free({"param"}), Done>>

-----------------------------------------------------------------------------
(* The functions whose every path is as it should be.                         *)
X509Code == [
    ASN1_digest |-> ASN1_digest, ASN1_item_digest |-> ASN1_item_digest,
    ASN1_item_sign |-> ASN1_item_sign, ASN1_item_sign_ctx |-> ASN1_item_sign_ctx,
    ASN1_item_verify |-> ASN1_item_verify, add_cert_dir |-> add_cert_dir,
    get_cert_by_subject |-> get_cert_by_subject, X509_load_cert_file |-> X509_load_cert_file,
    X509_load_crl_file |-> X509_load_crl_file, X509_load_cert_crl_file |-> X509_load_cert_crl_file,
    rsa_pss_decode |-> rsa_pss_decode, rsa_md_to_algor |-> rsa_md_to_algor,
    rsa_md_to_mgf1 |-> rsa_md_to_mgf1, x509_rsa_ctx_to_pss |-> x509_rsa_ctx_to_pss,
    x509_rsa_pss_to_ctx |-> x509_rsa_pss_to_ctx,
    x509_print_rsa_pss_params |-> x509_print_rsa_pss_params, X509_ALGOR_set0 |-> X509_ALGOR_set0,
    i2d_PKCS8PrivateKeyInfo_fp |-> i2d_PKCS8PrivateKeyInfo_fp,
    i2d_PKCS8PrivateKeyInfo_bio |-> i2d_PKCS8PrivateKeyInfo_bio,
    X509_ATTRIBUTE_create |-> X509_ATTRIBUTE_create,
    crl_parse_entry_extensions |-> crl_parse_entry_extensions,
    x509_name_ex_new |-> x509_name_ex_new, x509_name_ex_free |-> x509_name_ex_free,
    x509_name_ex_d2i |-> x509_name_ex_d2i, x509_name_encode |-> x509_name_encode,
    x509_name_canon |-> x509_name_canon, X509_NAME_set |-> X509_NAME_set,
    x509_pubkey_changed |-> x509_pubkey_changed, X509_PUBKEY_set |-> X509_PUBKEY_set,
    x509_cb |-> x509_cb, X509_parse_from_buffer |-> X509_parse_from_buffer,
    d2i_X509_AUX |-> d2i_X509_AUX, i2d_X509_AUX |-> i2d_X509_AUX,
    X509_set1_signature_algo |-> X509_set1_signature_algo, X509_alias_set1 |-> X509_alias_set1,
    X509_keyid_set1 |-> X509_keyid_set1,
    X509_ATTRIBUTE_create_by_OBJ |-> X509_ATTRIBUTE_create_by_OBJ,
    X509_EXTENSION_create_by_OBJ |-> X509_EXTENSION_create_by_OBJ,
    X509_NAME_ENTRY_create_by_OBJ |-> X509_NAME_ENTRY_create_by_OBJ,
    X509_ATTRIBUTE_create_by_txt |-> X509_ATTRIBUTE_create_by_txt,
    X509_NAME_ENTRY_create_by_txt |-> X509_NAME_ENTRY_create_by_txt,
    X509_ATTRIBUTE_set1_object |-> X509_ATTRIBUTE_set1_object,
    X509_EXTENSION_set_object |-> X509_EXTENSION_set_object,
    X509_NAME_ENTRY_set_object |-> X509_NAME_ENTRY_set_object,
    X509_ATTRIBUTE_set1_data |-> X509_ATTRIBUTE_set1_data, X509v3_add_ext |-> X509v3_add_ext,
    X509_REQ_add_extensions_nid |-> X509_REQ_add_extensions_nid,
    X509_REQ_add1_attr |-> X509_REQ_add1_attr,
    X509_REQ_add1_attr_by_OBJ |-> X509_REQ_add1_attr_by_OBJ,
    X509_REQ_add1_attr_by_NID |-> X509_REQ_add1_attr_by_NID,
    X509_REQ_add1_attr_by_txt |-> X509_REQ_add1_attr_by_txt,
    X509_NAME_add_entry_by_OBJ |-> X509_NAME_add_entry_by_OBJ,
    X509_NAME_add_entry_by_NID |-> X509_NAME_add_entry_by_NID,
    X509_NAME_add_entry_by_txt |-> X509_NAME_add_entry_by_txt,
    X509_NAME_add_entry |-> X509_NAME_add_entry,
    X509_NAME_get_text_by_OBJ |-> X509_NAME_get_text_by_OBJ,
    X509_NAME_oneline |-> X509_NAME_oneline, X509_LOOKUP_new |-> X509_LOOKUP_new,
    X509_LOOKUP_free |-> X509_LOOKUP_free, X509_STORE_new |-> X509_STORE_new,
    X509_STORE_free |-> X509_STORE_free, X509_STORE_add_lookup |-> X509_STORE_add_lookup,
    x509_store_add |-> x509_store_add, X509_STORE_CTX_get1_certs |-> X509_STORE_CTX_get1_certs,
    X509_STORE_CTX_get1_crls |-> X509_STORE_CTX_get1_crls, X509_set_version |-> X509_set_version,
    X509_CRL_set_version |-> X509_CRL_set_version, X509_set_serialNumber |-> X509_set_serialNumber,
    X509_set1_notBefore |-> X509_set1_notBefore, X509_set1_notAfter |-> X509_set1_notAfter,
    X509_CRL_set1_lastUpdate |-> X509_CRL_set1_lastUpdate,
    X509_CRL_set1_nextUpdate |-> X509_CRL_set1_nextUpdate,
    X509_REVOKED_set_revocationDate |-> X509_REVOKED_set_revocationDate,
    X509_REVOKED_set_serialNumber |-> X509_REVOKED_set_serialNumber,
    X509_REQ_set1_signature_algo |-> X509_REQ_set1_signature_algo,
    X509_CRL_set1_signature_algo |-> X509_CRL_set1_signature_algo,
    int_x509_param_set_hosts |-> int_x509_param_set_hosts,
    X509_VERIFY_PARAM_free |-> X509_VERIFY_PARAM_free,
    x509_verify_param_copy |-> x509_verify_param_copy,
    int_x509_param_set1_email |-> int_x509_param_set1_email,
    int_x509_param_set1_ip |-> int_x509_param_set1_ip,
    X509_VERIFY_PARAM_set1_policies |-> X509_VERIFY_PARAM_set1_policies,
    NETSCAPE_SPKI_b64_decode |-> NETSCAPE_SPKI_b64_decode,
    NETSCAPE_SPKI_b64_encode |-> NETSCAPE_SPKI_b64_encode, X509_CRL_print_fp |-> X509_CRL_print_fp,
    X509_REQ_print_fp |-> X509_REQ_print_fp, X509_print_ex_fp |-> X509_print_ex_fp,
    X509_NAME_print_ex_fp |-> X509_NAME_print_ex_fp, X509_CRL_print |-> X509_CRL_print,
    X509_NAME_print |-> X509_NAME_print, ASN1_generate_v3 |-> ASN1_generate_v3,
    generate_v3 |-> generate_v3, x509_policy_node_new |-> x509_policy_node_new,
    x509_policy_level_new |-> x509_policy_level_new,
    process_certificate_policies |-> process_certificate_policies,
    process_policy_mappings |-> process_policy_mappings,
    process_policy_constraints |-> process_policy_constraints,
    X509_policy_check |-> X509_policy_check, lookup_cert_match |-> lookup_cert_match,
    X509_verify_cert |-> X509_verify_cert, check_trust |-> check_trust,
    reject_dns_name_in_common_name |-> reject_dns_name_in_common_name, check_cert |-> check_cert,
    get_crl |-> get_crl, X509_STORE_CTX_init |-> X509_STORE_CTX_init]

(* The functions that leave an object behind.                                 *)
X509LeakCode == [
    crl_cb |-> crl_cb, X509_REQ_print_ex |-> X509_REQ_print_ex]

=============================================================================
