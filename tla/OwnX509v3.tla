------------------------------ MODULE OwnX509v3 ------------------------------
(* Ownership in crypto/x509/v3_*.c: the functions that build an extension    *)
(* from a configuration, or print and search one, with memory of their own.  *)
(* A list of CONF_VALUE or GENERAL_NAME owns its entries.  What a call adds  *)
(* to a list that may be NULL makes the list first (Make).                   *)
EXTENDS Ownership

(* X509V3_add_value and its kin add to the list v, and make it when it is    *)
(* NULL; when they fail a list they made is gone again.                      *)
AddValue(v, l, make, made) == <<Try(l)>> \o Make(v, l, make, made)

(* An object v filled in from one line after another, then checked.          *)
FilledFrom(v, check) ==
    <<New(v, "fail"), Label("line"), Branch("all"), Try("err"), Goto("line"), Label("all")>> \o
    check \o <<Return(v), Label("err"), Free({v}), Label("fail"), Done>>

(* A stack v of entries e made from one line after another; other is what a  *)
(* line of another kind does instead.                                        *)
StackOf(v, e, other) ==
    <<New(v, "fail"), Label("line"), Branch("all")>> \o other \o
    <<New(e, "err"), Put(e, v, "bad"), Goto("line"), Label("all"), Return(v),
      Label("bad"), Free({e}), Label("err"), Free({v}), Label("fail"), Done>>
Copied == <<Branch("parse"), Try("err"), Goto("line"), Label("parse")>>

-----------------------------------------------------------------------------
(* v3_akey.c, v3_alt.c                                                       *)
i2v_AUTHORITY_KEYID ==
    InOut("extlist") \o <<Branch("no keyid"), New("tmp", "err")>> \o
    AddValue("extlist", "bad keyid", "make 1", "made 1") \o
    <<Free({"tmp"}), Goto("no keyid"), Label("bad keyid"), Free({"tmp"}), Goto("err"),
      Label("no keyid"), Branch("no issuer")>> \o AddValue("extlist", "err", "make 2", "made 2") \o
    <<Label("no issuer"), Branch("no serial")>> \o AddValue("extlist", "err", "make 3", "made 3") \o
    <<Label("no serial")>> \o ReturnMade("extlist") \o <<Label("err")>> \o DropMade("extlist")

(* No error path of this one frees akeyid, gens or gen.                      *)
v2i_AUTHORITY_KEYID ==
    <<Try("fail"), Branch("issuer"), Try("fail"), New("akeyid", "fail"), Return("akeyid"),
      Label("issuer"), Branch("no keyid"), New("ikeyid", "no ikeyid"), Goto("no keyid"),
      Label("no ikeyid"), Branch("fail"), Label("no keyid"), Branch("keyid only"),
      New("isname", "no name"), Label("no name"), New("serial", "err"), IfNull("isname", "err"),
      Label("keyid only"), New("akeyid", "err"), IfNull("isname", "no issuer"),
      New("gens", "err"), New("gen", "err"), Put("gen", "gens", "err"), Given("isname", "gen"),
      Given("gens", "akeyid"), Label("no issuer")>> \o
    GivenIfAny("serial", "akeyid", "no serial") \o GivenIfAny("ikeyid", "akeyid", "no key") \o
    <<Return("akeyid"), Label("err"), Free({"isname", "serial", "ikeyid"}), Label("fail"), Done>>

i2v_GENERAL_NAMES ==
    InOut("ret") \o <<Label("name"), Branch("all")>> \o AddValue("ret", "err", "make", "made") \o
    <<Goto("name"), Label("all"), IfNull("ret", "empty")>> \o ReturnMade("ret") \o
    <<Label("empty"), New("ret", "none"), Label("none"), Return("ret"), Label("err")>> \o
    DropMade("ret")

v2i_issuer_alt == StackOf("gens", "gen", Copied)
v2i_subject_alt == StackOf("gens", "gen", Copied)
v2i_GENERAL_NAMES == StackOf("gens", "gen", <<>>)

(* Each name is pushed to the caller's stack and its place in ialt cleared.  *)
copy_issuer ==
    <<Param("gens"), Branch("out"), Try("out"), New("ialt", "err"), Label("name"), Branch("err"),
      Own("gen"), Given("gen", "ialt"), Try("err"), Take("gen"), Given("gen", "lent"),
      Goto("name"), Label("err"), Free({"ialt"}), Label("out"), Done>>

copy_email ==
    <<Param("gens"), Branch("out"), Try("err"), Label("entry"), Branch("out"), Param("ne"),
      Use("ne"), New("email", "no email"), Label("no email"),
      Branch("kept"), Take("ne"), Free({"ne"}), Label("kept"),
      IfNull("email", "err"), New("gen", "err"), Given("email", "gen"), Null("email"),
      Give("gen", "err"), Null("gen"), Goto("entry"), Label("out"), Done,
      Label("err"), Free({"gen", "email"}), Done>>

(* A name of the caller's is fresh: its callers make it just before.         *)
a2i_GENERAL_NAME ==
    <<Try("fail"), MayParam("out"), IfNull("out", "new"), Goto("set"),
      Label("new"), New("gen", "fail"),
      Label("set"), Branch("not text"), New("str", "err"), Try("bad text"), Given("str", "gen"),
      Return("gen"), Label("not text"), Branch("built"), New("value", "err"),
      Given("value", "gen"), Return("gen"), Label("built"), Try("err"), Return("gen"),
      Label("bad text"), Free({"str"}), Label("err"), Free({"gen"}), Label("fail"), Done>>

do_othername ==
    <<Param("gen"), Try("fail"), New("name", "fail"), Own("value"), Given("value", "name"),
      New("objtmp", "err"), New("type_id", "no type"), Given("type_id", "name"), Free({"objtmp"}),
      Take("value"), Free({"value"}), New("value", "err"), Given("value", "name"),
      Given("name", "lent"), Done, Label("no type"), Free({"objtmp"}),
      Label("err"), Free({"name"}), Label("fail"), Done>>

do_dirname ==
    <<Param("gen"), New("nm", "err"), Try("err"), Try("err"), Given("nm", "lent"), Done,
      Label("err"), Free({"nm"}), Done>>

-----------------------------------------------------------------------------
(* v3_bcons.c, v3_bitst.c, v3_pcons.c, v3_pmaps.c, v3_extku.c                *)
v2i_BASIC_CONSTRAINTS == FilledFrom("bcons", <<>>)
v2i_ASN1_BIT_STRING == FilledFrom("bs", <<>>)
v2i_POLICY_CONSTRAINTS == FilledFrom("pcons", <<Try("err")>>)
v2i_EXTENDED_KEY_USAGE == StackOf("extku", "obj", <<>>)

v2i_POLICY_MAPPINGS ==
    <<New("pmaps", "fail"), Label("line"), Branch("all"), Try("err"), New("pmap", "err"),
      Put("pmap", "pmaps", "bad"),
      New("issuerDomainPolicy", "no issuer"), Given("issuerDomainPolicy", "pmap"),
      Label("no issuer"), New("subjectDomainPolicy", "err"), Given("subjectDomainPolicy", "pmap"),
      IfNull("issuerDomainPolicy", "err"), Goto("line"), Label("all"), Return("pmaps"),
      Label("bad"), Free({"pmap"}), Label("err"), Free({"pmaps"}), Label("fail"), Done>>

-----------------------------------------------------------------------------
(* v3_conf.c                                                                 *)
do_ext_nconf ==
    <<Try("fail"), Branch("not v2i"), Branch("section"), New("nval_owned", "fail"), Goto("list"),
      Label("section"), Try("fail"), Label("list"), Try("no list"),
      New("ext_struc", "no list"), Free({"nval_owned"}), Goto("encode"),
      Label("no list"), Free({"nval_owned"}), Goto("fail"),
      Label("not v2i"), Try("fail"), New("ext_struc", "fail"),
      Label("encode"), New("ext", "not encoded"), Label("not encoded"), Free({"ext_struc"}),
      Return("ext"), Label("fail"), Done>>

do_ext_i2d ==
    <<Try("fail"), New("ext_der", "fail"), New("ext_oct", "no oct"), Given("ext_der", "ext_oct"),
      New("ext", "no ext"), Label("no ext"), Free({"ext_oct"}), Return("ext"),
      Label("no oct"), Free({"ext_der"}), Label("fail"), Done>>

v3_generic_extension ==
    <<New("obj", "err"), New("ext_der", "err"), Try("err"), New("oct", "err"),
      Given("ext_der", "oct"), Null("ext_der"), New("extension", "err"),
      Label("err"), Free({"obj", "oct"}), Free({"ext_der"}), Return("extension")>>

generic_asn1 ==
    <<New("typ", "fail"), New("ext_der", "no der"), Label("no der"), Free({"typ"}),
      Return("ext_der"), Label("fail"), Done>>

X509V3_EXT_add_nconf_sk ==
    <<Try("out"), Label("line"), Branch("out"), New("ext", "out"), Try("bad"), Free({"ext"}),
      Goto("line"), Label("bad"), Free({"ext"}), Label("out"), Done>>

(* A failure after some extensions were added leaves extlist behind.         *)
X509V3_EXT_REQ_add_nconf ==
    <<MayParam("req"), Label("line"), Branch("all"), Try("out"), IfNull("req", "line")>> \o
    Make("extlist", "out", "make", "made") \o
    <<Goto("line"), Label("all"), IfNull("req", "out"), Try("added"), Label("added"),
      Free({"extlist"}), Label("out"), Done>>

-----------------------------------------------------------------------------
(* v3_cpols.c                                                                *)
r2i_certpol ==
    <<New("pols", "fail"), New("vals", "err"), Label("line"), Branch("all"), Try("err"),
      Branch("line"), Branch("section"), New("pobj", "err"), New("pol", "no pol"),
      Given("pobj", "pol"), Goto("push"), Label("no pol"), Free({"pobj"}), Goto("err"),
      Label("section"), Try("err"), New("pol", "err"),
      Label("push"), Put("pol", "pols", "bad"), Goto("line"),
      Label("all"), Free({"vals"}), Return("pols"),
      Label("bad"), Free({"pol"}), Label("err"), Free({"vals", "pols"}), Label("fail"), Done>>

(* The qualifier is not freed when the push fails, and a second              *)
(* policyIdentifier is assigned over the first.                              *)
policy_section ==
    <<New("pol", "err"), Label("line"), Branch("all"), Branch("qualifier"),
      IfNull("pobj", "first"), Take("pobj"), Label("first"), New("pobj", "err"),
      Given("pobj", "pol"), Goto("line"),
      Label("qualifier"), Try("err"), New("qual", "err"), Put("qual", "pol", "err"),
      Try("err"), Goto("line"), Label("all"), Try("err"), Return("pol"),
      Label("err"), Free({"pol"}), Done>>

(* A second explicitText is assigned over the first.                         *)
notice_section ==
    <<New("qual", "err"), Try("err"), New("notice", "err"), Given("notice", "qual"),
      Label("line"), Branch("all"), Branch("reference"),
      IfNull("exptext", "first"), Take("exptext"), Label("first"), New("exptext", "err"),
      Given("exptext", "notice"), Try("err"), Goto("line"),
      Label("reference"), IfNull("nref", "no nref"), Goto("has nref"),
      Label("no nref"), New("nref", "err"), Given("nref", "notice"), Label("has nref"), Use("nref"),
      Branch("numbers"), Try("err"), Goto("line"),
      Label("numbers"), New("nos", "err"), Try("bad"), Free({"nos"}), Goto("line"),
      Label("bad"), Free({"nos"}), Goto("err"),
      Label("all"), Try("err"), Return("qual"), Label("err"), Free({"qual"}), Done>>

nref_nos ==
    <<Param("nnums"), Label("number"), Branch("out"), New("aint", "out"), Give("aint", "bad"),
      Goto("number"), Label("bad"), Free({"aint"}), Label("out"), Done>>

-----------------------------------------------------------------------------
(* v3_crld.c                                                                 *)
gnames_from_sectname ==
    <<Branch("list"), Try("fail"), Goto("names"), Label("list"), New("gnsect_owned", "fail"),
      Label("names"), New("gens", "no names"), Label("no names"), Free({"gnsect_owned"}),
      Return("gens"), Label("fail"), Done>>

set_dist_point_name ==
    <<Holds("pdp"), Branch("relative"), Try("fail"), New("fnm", "err"), Goto("named"),
      Label("relative"), Branch("fail"), Try("fail"), New("nm", "fail"), Own("rnm"),
      Given("rnm", "nm"), Take("rnm"), Free({"nm"}), Try("err"),
      Label("named"), IfNull("pdp", "not set"), Goto("err"),
      Label("not set"), New("pdp", "err")>> \o
    GivenIfAny("fnm", "pdp", "no fullname") \o GivenIfAny("rnm", "pdp", "no relativename") \o
    <<Given("pdp", "held"), Done, Label("err"), Free({"fnm", "rnm"}), Label("fail"), Done>>

set_reasons ==
    <<Holds("preas"), IfNull("preas", "not set"), Done, Label("not set"), New("rsk", "fail"),
      Label("reason"), Branch("err"), IfNull("preas", "first"), Goto("bit"),
      Label("first"), New("preas", "err"), Given("preas", "held"), Label("bit"), Use("preas"),
      Try("err"), Goto("reason"), Label("err"), Free({"rsk"}), Label("fail"), Done>>

crldp_from_section ==
    <<New("point", "err"), Label("line"), Branch("all"), Branch("not a name"), Try("err"),
      Goto("line"), Label("not a name"), Branch("issuer"), Try("err"), Goto("line"),
      Label("issuer"), Branch("line"), IfNull("CRLissuer", "no issuer"), Take("CRLissuer"),
      Label("no issuer"), Free({"CRLissuer"}), New("CRLissuer", "err"),
      Given("CRLissuer", "point"), Goto("line"),
      Label("all"), Return("point"), Label("err"), Free({"point"}), Done>>

v2i_crld ==
    <<New("crld", "err"), Label("line"), Branch("all"), Branch("name"), Try("err"),
      New("point", "err"), Put("point", "crld", "bad"), Goto("line"),
      Label("name"), New("gen", "err"), New("gens", "err"), Put("gen", "gens", "err"), Null("gen"),
      New("point", "err"), Put("point", "crld", "bad"), New("distpoint", "err"),
      Given("distpoint", "point"), Given("gens", "distpoint"), Null("gens"), Goto("line"),
      Label("all"), Return("crld"), Label("bad"), Free({"point"}),
      Label("err"), Free({"gen", "gens", "crld"}), Done>>

v2i_idp == FilledFrom("idp", <<>>)

(* The point has just been parsed (setup_idp, setup_dp), and has no dpname.  *)
DIST_POINT_set_dpname ==
    <<Param("dpn"), Branch("out"), New("dpname", "out"), Label("entry"), Branch("all"), Try("err"),
      Goto("entry"), Label("all"), Try("err"), Given("dpname", "lent"), Done,
      Label("err"), Free({"dpname"}), Null("dpname"), Label("out"), Done>>

-----------------------------------------------------------------------------
(* v3_ia5.c, v3_info.c, v3_lib.c, v3_ncons.c, v3_ocsp.c, v3_prn.c, v3_skey.c *)
s2i_ASN1_IA5STRING ==
    <<Try("fail"), New("ia5", "fail"), Try("err"), Return("ia5"), Label("err"), Free({"ia5"}),
      Label("fail"), Done>>

i2v_AUTHORITY_INFO_ACCESS ==
    InOut("tret") \o <<Label("line"), Branch("all")>> \o AddValue("tret", "err", "make", "made") \o
    <<Own("name"), Given("name", "tret"), New("ntmp", "err"), Take("name"), Free({"name"}),
      Given("ntmp", "tret"), Goto("line"), Label("all"), IfNull("tret", "empty")>> \o
    ReturnMade("tret") \o
    <<Label("empty"), New("tret", "none"), Label("none"), Return("tret"), Label("err")>> \o
    DropMade("tret")

(* An acc that could not be pushed is not freed.                             *)
v2i_AUTHORITY_INFO_ACCESS ==
    <<New("ainfo", "fail"), Label("line"), Branch("all"), New("acc", "err"),
      Put("acc", "ainfo", "err"), Try("err"), Try("err"), New("objtmp", "err"),
      New("method", "no method"), Given("method", "acc"), Free({"objtmp"}), Goto("line"),
      Label("no method"), Free({"objtmp"}), Goto("err"), Label("all"), Return("ainfo"),
      Label("err"), Free({"ainfo"}), Label("fail"), Done>>

X509V3_EXT_add_alias ==
    <<Try("fail"), New("tmpext", "fail"), Give("tmpext", "err"), Done, Label("err"),
      Free({"tmpext"}), Label("fail"), Done>>

X509V3_EXT_d2i ==
    <<Try("fail"), New("ret", "fail"), Try("err"), Return("ret"), Label("err"), Free({"ret"}),
      Label("fail"), Done>>

X509V3_add1_i2d ==
    <<Holds("x"), IfNull("x", "absent"), Branch("absent"), Mark("found"), Branch("out"),
      Branch("make"), Own("prev_ext"), Free({"prev_ext"}), Goto("out"),
      Label("absent"), Try("out"), Label("make"), New("ext", "out"),
      IfNull("found", "append"), Own("extmp"), Free({"extmp"}), Given("ext", "lent"), Done,
      Label("append"), IfNull("x", "no stack"), Goto("push"), Label("no stack"),
      New("ret", "m_fail"), Label("push"), Give("ext", "m_fail"),
      IfNull("ret", "same stack")>> \o Store("ret", "x") \o
    <<Label("same stack"), Done, Label("m_fail"), Free({"ret", "ext"}), Label("out"), Done>>

d2i_ocsp_nonce ==
    <<MayParam("pos"), IfNull("pos", "new"), Goto("set"), Label("new"), New("os", "err"),
      Label("set"), Try("err"), Return("os"), Label("err"), Free({"os"}), Done>>

X509V3_EXT_print ==
    <<Try("out"), New("ext_str", "out"), Branch("list"), New("value", "err"), Goto("err"),
      Label("list"), Branch("raw"), New("nval", "err"), Goto("err"), Label("raw"), Try("err"),
      Label("err"), Free({"nval", "value", "ext_str"}), Label("out"), Done>>

X509V3_EXT_print_fp ==
    <<New("bio_tmp", "fail"), Try("printed"), Label("printed"), Free({"bio_tmp"}), Label("fail"),
      Done>>

s2i_ASN1_OCTET_STRING ==
    <<New("data", "fail"), Try("err"), New("oct", "err"), Given("data", "oct"), Return("oct"),
      Label("err"), Free({"data"}), Label("fail"), Done>>

s2i_skey_id ==
    <<Branch("hash"), New("oct", "fail"), Return("oct"), Label("hash"), New("oct", "fail"),
      Branch("set"), Return("oct"), Label("set"), Try("err"), Return("oct"),
      Label("err"), Free({"oct"}), Label("fail"), Done>>

(* The name must be empty, as x509.h says.                                   *)
GENERAL_NAME_set0_othername ==
    <<Param("gen"), New("oth", "fail"), Own("value"), Given("value", "oth"), Take("value"),
      Free({"value"}), Given("oth", "lent"), Label("fail"), Done>>

-----------------------------------------------------------------------------
(* v3_utl.c                                                                  *)
x509V3_add_len_value ==
    InOut("extlist") \o
    <<Branch("no name"), New("tname", "err"), Label("no name"), Branch("no value"), Try("err"),
      New("tvalue", "err"), Label("no value"), New("vtmp", "err")>> \o
    Make("extlist", "err", "make", "made") \o <<Put("vtmp", "extlist", "err")>> \o
    GivenIfAny("tname", "vtmp", "unnamed") \o GivenIfAny("tvalue", "vtmp", "no string") \o
    PassBack("extlist") \o
    <<Label("err"), Free({"vtmp", "tname", "tvalue"})>> \o DropMade("extlist")

bignum_to_string ==
    <<Branch("hex"), New("ret", "out"), Label("out"), Return("ret"), Label("hex"),
      New("tmp", "out"), New("ret", "no ret"), Label("no ret"), Free({"tmp"}), Return("ret")>>

i2s_ASN1_ENUMERATED ==
    <<Try("out"), New("bntmp", "out"), New("strtmp", "out"), Label("out"), Free({"bntmp"}),
      Return("strtmp")>>
i2s_ASN1_INTEGER ==
    <<Try("out"), New("bntmp", "out"), New("strtmp", "out"), Label("out"), Free({"bntmp"}),
      Return("strtmp")>>

(* BN_hex2bn and BN_dec2bn make the number when BN_new has failed.           *)
s2i_ASN1_INTEGER ==
    <<Try("fail"), New("bn", "no bn"), Label("no bn"), Try("bad")>> \o
    Make("bn", "bad", "make", "made") \o
    <<Try("bad"), New("aint", "no aint"), Label("no aint"), Free({"bn"}), Return("aint"),
      Label("bad"), Free({"bn"}), Label("fail"), Done>>

X509V3_add_value_int ==
    <<Branch("out"), New("strtmp", "out"), Try("added"), Label("added"), Free({"strtmp"}),
      Label("out"), Done>>

X509V3_get_value_int ==
    <<Holds("aint"), New("itmp", "fail")>> \o FreeField("aint", "first") \o
    Store("itmp", "aint") \o <<Label("fail"), Done>>

(* What X509V3_add_value answers is not looked at.                           *)
X509V3_parse_list ==
    <<New("linebuf", "err"), Label("char"), Branch("end"), Try("err")>> \o
    AddValue("values", "char", "make 1", "made 1") \o <<Goto("char"), Label("end"), Try("err")>> \o
    AddValue("values", "out", "make 2", "made 2") \o
    <<Label("out"), Free({"linebuf"}), Return("values"),
      Label("err"), Free({"linebuf", "values"}), Done>>

x509v3_bytes_to_hex ==
    <<New("cbb", "err"), Label("byte"), Branch("all"), Try("err"), Goto("byte"), Label("all"),
      Try("err")>> \o Finish("cbb", "ret", "err") \o
    <<Return("ret"), Label("err"), Free({"cbb"}), Done>>

x509v3_hex_to_bytes ==
    <<Try("fail"), New("hexbuf", "fail"), Label("digit"), Branch("all"), Try("bad"), Goto("digit"),
      Label("all"), Return("hexbuf"), Label("bad"), Free({"hexbuf"}), Label("fail"), Done>>

X509_get1_email ==
    <<New("gens", "no names"), Label("no names"), New("ret", "out"), Label("out"), Free({"gens"}),
      Return("ret")>>
X509_REQ_get1_email ==
    <<New("exts", "no exts"), Label("no exts"), New("gens", "no names"), Label("no names"),
      New("ret", "out"), Label("out"), Free({"gens", "exts"}), Return("ret")>>

(* append_ia5 makes the list, adds to it, or fails and frees it.             *)
AppendIa5(v, l, make, made, added) ==
    Make(v, l, make, made) \o <<Branch(added), Free({v}), Null(v), Goto(l), Label(added)>>

X509_get1_ocsp ==
    <<New("info", "fail"), Label("line"), Branch("all"), Branch("line")>> \o
    AppendIa5("ret", "all", "make", "made", "added") \o
    <<Goto("line"), Label("all"), Free({"info"}), Return("ret"), Label("fail"), Done>>

get_email ==
    <<Label("entry"), Branch("names")>> \o
    AppendIa5("ret", "fail", "make 1", "made 1", "added 1") \o
    <<Goto("entry"), Label("names"), Branch("all")>> \o
    AppendIa5("ret", "fail", "make 2", "made 2", "added 2") \o
    <<Goto("names"), Label("all"), Return("ret"), Label("fail"), Done>>

append_ia5 ==
    <<Holds("sk"), Branch("out"), IfNull("sk", "make"), Goto("copy"),
      Label("make"), New("sk", "err"), Given("sk", "held"), Label("copy"), New("emtmp", "err"),
      Branch("push"), Free({"emtmp"}), Done, Label("push"), Give("emtmp", "err"), Done,
      Label("err"), Free({"emtmp"}), IfNull("sk", "out"), Take("sk"), Free({"sk"}), Null("sk"),
      Label("out"), Done>>

(* astr is left behind when the peer's name cannot be copied.                *)
do_check_string ==
    <<Try("out"), Branch("utf8"), Try("out"), New("peername", "out"), Given("peername", "lent"),
      Done, Label("utf8"), New("astr", "out"), Branch("compared"), New("peername", "out"),
      Given("peername", "lent"), Label("compared"), Free({"astr"}), Label("out"), Done>>

do_x509_check ==
    <<New("gens", "subject"), Label("name"), Branch("all"), Use("gens"), Branch("all"),
      Goto("name"), Label("all"), Free({"gens"}), Done,
      Label("subject"), Branch("out"), Label("entry"), Branch("out"), Goto("entry"), Label("out"),
      Done>>

a2i_IPADDRESS ==
    <<Try("fail"), New("ret", "fail"), Try("err"), Return("ret"), Label("err"), Free({"ret"}),
      Label("fail"), Done>>

a2i_IPADDRESS_NC ==
    <<Try("fail"), New("iptmp", "fail"), Try("err"), Free({"iptmp"}), Null("iptmp"), Try("err"),
      New("ret", "err"), Try("err"), Return("ret"), Label("err"), Free({"iptmp", "ret"}),
      Label("fail"), Done>>

-----------------------------------------------------------------------------
V3Code == [
    i2v_AUTHORITY_KEYID |-> i2v_AUTHORITY_KEYID, i2v_GENERAL_NAMES |-> i2v_GENERAL_NAMES,
    v2i_issuer_alt |-> v2i_issuer_alt, v2i_subject_alt |-> v2i_subject_alt,
    v2i_GENERAL_NAMES |-> v2i_GENERAL_NAMES, copy_issuer |-> copy_issuer,
    copy_email |-> copy_email, a2i_GENERAL_NAME |-> a2i_GENERAL_NAME,
    do_othername |-> do_othername, do_dirname |-> do_dirname,
    v2i_BASIC_CONSTRAINTS |-> v2i_BASIC_CONSTRAINTS,
    v2i_ASN1_BIT_STRING |-> v2i_ASN1_BIT_STRING,
    v2i_POLICY_CONSTRAINTS |-> v2i_POLICY_CONSTRAINTS,
    v2i_EXTENDED_KEY_USAGE |-> v2i_EXTENDED_KEY_USAGE,
    v2i_POLICY_MAPPINGS |-> v2i_POLICY_MAPPINGS, do_ext_nconf |-> do_ext_nconf,
    do_ext_i2d |-> do_ext_i2d, v3_generic_extension |-> v3_generic_extension,
    generic_asn1 |-> generic_asn1, X509V3_EXT_add_nconf_sk |-> X509V3_EXT_add_nconf_sk,
    r2i_certpol |-> r2i_certpol, nref_nos |-> nref_nos,
    gnames_from_sectname |-> gnames_from_sectname, set_dist_point_name |-> set_dist_point_name,
    set_reasons |-> set_reasons, crldp_from_section |-> crldp_from_section,
    v2i_crld |-> v2i_crld, v2i_idp |-> v2i_idp,
    DIST_POINT_set_dpname |-> DIST_POINT_set_dpname, s2i_ASN1_IA5STRING |-> s2i_ASN1_IA5STRING,
    i2v_AUTHORITY_INFO_ACCESS |-> i2v_AUTHORITY_INFO_ACCESS,
    X509V3_EXT_add_alias |-> X509V3_EXT_add_alias, X509V3_EXT_d2i |-> X509V3_EXT_d2i,
    X509V3_add1_i2d |-> X509V3_add1_i2d, d2i_ocsp_nonce |-> d2i_ocsp_nonce,
    X509V3_EXT_print |-> X509V3_EXT_print, X509V3_EXT_print_fp |-> X509V3_EXT_print_fp,
    s2i_ASN1_OCTET_STRING |-> s2i_ASN1_OCTET_STRING, s2i_skey_id |-> s2i_skey_id,
    GENERAL_NAME_set0_othername |-> GENERAL_NAME_set0_othername,
    x509V3_add_len_value |-> x509V3_add_len_value, bignum_to_string |-> bignum_to_string,
    i2s_ASN1_ENUMERATED |-> i2s_ASN1_ENUMERATED, i2s_ASN1_INTEGER |-> i2s_ASN1_INTEGER,
    s2i_ASN1_INTEGER |-> s2i_ASN1_INTEGER, X509V3_add_value_int |-> X509V3_add_value_int,
    X509V3_get_value_int |-> X509V3_get_value_int, X509V3_parse_list |-> X509V3_parse_list,
    x509v3_bytes_to_hex |-> x509v3_bytes_to_hex, x509v3_hex_to_bytes |-> x509v3_hex_to_bytes,
    X509_get1_email |-> X509_get1_email, X509_REQ_get1_email |-> X509_REQ_get1_email,
    X509_get1_ocsp |-> X509_get1_ocsp, get_email |-> get_email, append_ia5 |-> append_ia5,
    do_x509_check |-> do_x509_check, a2i_IPADDRESS |-> a2i_IPADDRESS,
    a2i_IPADDRESS_NC |-> a2i_IPADDRESS_NC]

(* The functions whose clean-up misses something they own.                   *)
V3LeakCode == [
    v2i_AUTHORITY_KEYID |-> v2i_AUTHORITY_KEYID,
    X509V3_EXT_REQ_add_nconf |-> X509V3_EXT_REQ_add_nconf, policy_section |-> policy_section,
    notice_section |-> notice_section, v2i_AUTHORITY_INFO_ACCESS |-> v2i_AUTHORITY_INFO_ACCESS,
    do_check_string |-> do_check_string]

=============================================================================
