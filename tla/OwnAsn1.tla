------------------------------- MODULE OwnAsn1 -------------------------------
(* Ownership in crypto/asn1, without the template engine, and in crypto/pem.  *)
EXTENDS Ownership

(* The result replaces what the caller's pointer holds, or is only returned.  *)
StoreOrReturn(ret) ==
    <<Branch("alone"), Holds("old")>> \o FreeField("old", "no old") \o Store(ret, "old") \o
    <<Done, Label("alone"), Return(ret)>>

(* A CBB is written and CBB_finish_i2d takes it over.                         *)
WriteCbb == <<New("cbb", "bad"), Try("bad"), Given("cbb", "lent"), Done, Label("bad"),
              Free({"cbb"}), Done>>

-----------------------------------------------------------------------------
(* crypto/asn1                                                                *)
c2i_ASN1_BIT_STRING ==
    <<Try("fail")>> \o InOut("ret") \o Make("ret", "fail", "make", "made") \o
    <<Try("err"), Branch("no bits"), New("s", "err"), Label("no bits"),
      IfNull("was_null", "given"), Goto("set"), Label("given"), Holds("data")>> \o
    FreeField("data", "set") \o <<Null("data")>> \o GivenIfAny("s", "ret", "no s") \o
    ReturnMade("ret") \o
    <<Label("err")>> \o DropMade("ret") \o <<Label("fail"), Done>>

i2d_ASN1_BOOLEAN == WriteCbb
i2d_ASN1_OBJECT == <<Try("bad")>> \o WriteCbb

CBB_finish_i2d ==
    <<Own("cbb")>> \o Finish("cbb", "der", "no finish") \o
    <<Try("free der"), Branch("free der"), Given("der", "lent"), Null("der"),
      Label("free der"), Free({"der"}), Done, Label("no finish"), Free({"cbb"}), Done>>

ASN1_item_d2i_bio == MadeFrom("data", "ret")
ASN1_item_d2i_fp == MadeFrom("b", "ret")
ASN1_dup == <<Try("fail")>> \o MadeFrom("buf", "ret")
ASN1_item_dup == <<Try("fail")>> \o MadeFrom("b", "ret")

ASN1_GENERALIZEDTIME_adj == <<Try("fail")>> \o SetUp("s")
ASN1_UTCTIME_adj == <<Try("fail")>> \o SetUp("s")
ASN1_TIME_to_generalizedtime == <<Try("fail")>> \o SetUp("ret")
c2i_ASN1_INTEGER == <<Try("fail")>> \o SetUp("ret")
bn_to_asn1_string == SetUp("ret")

ASN1_i2d_bio ==
    <<Try("fail"), New("buffer", "fail"), Try("bad"), Use("buffer"), Label("bad"),
      Free({"buffer"}), Label("fail"), Done>>
ASN1_item_i2d_fp == Temporary("b")
ASN1_item_i2d_bio == Temporary("b")
ASN1_item_i2d == <<Branch("fail"), Try("fail")>> \o AddNew("buf")

ASN1_mbstring_ncopy ==
    <<Try("fail"), Branch("fail")>> \o InOut("dest") \o Make("dest", "fail", "make", "made") \o
    <<Branch("convert"), Try("err"), Goto("set"), Label("convert"), New("cbb", "err"),
      Label("char"), Try("err"), Branch("char")>> \o Finish("cbb", "data", "err") \o
    <<Try("bad data"), IfNull("was_null", "given"), Goto("store"), Label("given"),
      Holds("old")>> \o FreeField("old", "store") \o
    <<Null("old"), Given("data", "dest"), Label("set")>> \o PassBack("dest") \o
    <<Label("bad data"), Free({"data"}), Label("err"), IfNull("was_null", "kept"), Free({"dest"}),
      Label("kept"), Free({"cbb"}), Label("fail"), Done>>

i2a_ASN1_OBJECT ==
    <<Branch("short"), New("allocated", "fail"), Label("short"), Free({"allocated"}),
      Label("fail"), Done>>

c2i_ASN1_OBJECT ==
    <<Try("fail"), New("ret", "fail")>> \o StoreOrReturn("ret") \o <<Label("fail"), Done>>

(* The flags say which parts are the object's own.                            *)
ASN1_OBJECT_free ==
    <<Branch("out"), Branch("static strings"), Own("sn"), Own("ln"), Free({"sn"}), Free({"ln"}),
      Label("static strings"), Branch("static data"), Own("data"), Free({"data"}),
      Label("static data"), Branch("out"), Own("a"), Free({"a"}), Label("out"), Done>>

do_dump == <<Try("fail"), Branch("fail")>> \o Temporary("der_buf")

ASN1_STRING_print_ex_fp ==
    <<Branch("no fp"), New("bio", "fail"), Label("no fp"), Free({"bio"}), Label("fail"), Done>>

(* The table is locked from the check to the insertion.                       *)
ASN1_STRING_TABLE_add ==
    <<Try("out"), Own("lock"), Holds("string_tables"), IfNull("string_tables", "make"),
      Try("err"), Goto("entry"), Label("make"), New("string_tables", "err"),
      Given("string_tables", "held"), Label("entry"), New("tbl", "err"), Give("tbl", "bad"),
      Goto("err"), Label("bad"), Free({"tbl"}), Label("err"), Free({"lock"}), Label("out"), Done>>

(* A value of type NULL or BOOLEAN is not a pointer.                          *)
asn1_type_cleanup ==
    <<Branch("none"), Holds("value")>> \o FreeField("value", "none") \o <<Null("value"), Done>>
ASN1_TYPE_set ==
    <<Branch("none"), Holds("value")>> \o FreeField("value", "none") \o
    <<Null("value"), Branch("no pointer"), Own("new")>> \o Store("new", "value") \o
    <<Label("no pointer"), Done>>

ASN1_STRING_dup == <<Try("fail")>> \o MakeAndFill("ret")

(* OPENSSL_realloc that fails leaves the data where it is.                    *)
ASN1_STRING_set ==
    <<Try("out"), Branch("out"), Holds("data"), IfNull("data", "malloc"), Try("out"),
      Take("data"), Free({"data"}), Own("data"), Goto("keep"), Label("malloc"),
      New("data", "out"), Label("keep"), Given("data", "held"), Label("out"), Done>>

ASN1_STRING_set0 ==
    <<Holds("old"), Own("data")>> \o FreeField("old", "no old") \o Store("data", "old") \o
    <<Done>>

ASN1_item_pack ==
    <<New("new_data", "fail")>> \o InOut("ret") \o Make("ret", "no ret", "make", "made") \o
    <<IfNull("was_null", "given"), Goto("set"), Label("given"), Holds("old")>> \o
    FreeField("old", "set") \o <<Null("old"), Given("new_data", "ret")>> \o ReturnMade("ret") \o
    <<Label("no ret"), Free({"new_data"}), Label("fail"), Done>>

ASN1_item_unpack == MakeAndFill("ret")

(* The saved encoding is the object's own, or points into the input.          *)
asn1_enc_save ==
    <<Branch("out"), Branch("alias"), Holds("enc")>> \o FreeField("enc", "alias") \o
    <<Branch("out"), New("enc", "out"), Given("enc", "held"), Label("out"), Done>>
asn1_encoding_clear ==
    <<Branch("alias"), Holds("enc")>> \o FreeField("enc", "alias") \o <<Null("enc"), Done>>

asn1_set_seq_out ==
    <<Branch("out"), New("buf", "no buf"), Label("no buf"), New("encoded", "err"),
      IfNull("buf", "err"), Use("buf"), Try("err"), Use("encoded"),
      Label("err"), Free({"encoded"}), Free({"buf"}), Label("out"), Done>>

-----------------------------------------------------------------------------
(* crypto/pem                                                                 *)

(* The key of a kind is taken out of an EVP_PKEY, which is freed.             *)
KeyOf(tmp) ==
    <<Branch("none"), Own("key"), New(tmp, "no key"), Label("no key"), Free({"key"}),
      IfNull(tmp, "none")>> \o StoreOrReturn(tmp) \o <<Label("none"), Done>>
pkey_get_rsa == KeyOf("rtmp")
pkey_get_dsa == KeyOf("dtmp")
pkey_get_eckey == KeyOf("dtmp")

PEM_read_bio_ECPKParameters == MadeFrom("data", "ret")
PEM_write_bio_ECPKParameters ==
    <<New("data", "err"), Use("data"), Label("err"), Free({"data"}), Done>>

X509_PKEY_free ==
    <<Branch("out"), Own("x"), Own("dec_pkey"), Free({"dec_pkey"}), Free({"x"}), Label("out"), Done>>
X509_INFO_free ==
    <<Branch("out"), Own("x"), Own("x509"), Own("crl"), Own("x_pkey"), Own("enc_data"),
      Free({"x509"}), Free({"crl"}), Free({"x_pkey"}), Free({"enc_data"}), Free({"x"}),
      Label("out"), Done>>

(* The three buffers of a block come together.                                *)
ReadBlock(none) == <<New("name", none), Own("header"), Own("data")>>

(* The entry goes to the list and the next one is made.                       *)
NextEntry ==
    <<Put("info", "ret", "err"), Move("pushed", "info"), New("info", "err"),
      Null("x_pkey"), Null("enc_data")>>

(* On failure only the entries pushed here are popped from the list.          *)
InfoEnd ==
    <<Label("end"), Branch("err"), Branch("empty"), Put("info", "ret", "err"),
      Move("pushed", "info"), Label("empty"), Free({"info"}), Free({"name", "header", "data"})>> \o
    ReturnMade("ret") \o
    <<Label("err"), Free({"info"}), IfNull("pushed", "none pushed"), Take("pushed"),
      Free({"pushed"}), Label("none pushed"), IfNull("was_null", "kept"), Free({"ret"}),
      Label("kept"), Free({"name", "header", "data"}), Label("fail"), Done>>

InfoStart ==
    InOut("ret") \o Make("ret", "fail", "make", "made") \o
    <<New("info", "err"), Label("block")>> \o ReadBlock("end") \o
    <<Branch("encrypted"), Branch("next"), Try("err"), Branch("parsed")>> \o NextEntry \o
    <<Try("err"), Label("parsed"), Branch("next"), IfNull("x_pkey", "keep key"), Goto("next"),
      Label("keep key"), New("x_pkey", "err"), Given("x_pkey", "info"), Goto("next"),
      Label("encrypted"), IfNull("x_pkey", "fresh")>> \o NextEntry \o
    <<Label("fresh"), New("x_pkey", "err"), Given("x_pkey", "info"), Try("err"),
      Move("enc_data", "data"), Given("enc_data", "info"),
      Label("next"), Free({"name", "header", "data"})>>

PEM_X509_INFO_read_bio ==
    InfoStart \o <<Null("name"), Null("header"), Null("data"), Goto("block")>> \o InfoEnd
PEM_X509_INFO_read == MadeFrom("b", "ret")

PEM_bytes_read_bio ==
    <<Label("block")>> \o ReadBlock("out") \o
    <<Branch("found"), Free({"name", "header", "data"}), Goto("block"),
      Label("found"), Try("err"), Given("data", "lent"), Branch("no name"), Given("name", "lent"),
      Free({"header"}), Done, Label("no name"), Free({"name"}), Free({"header"}), Done,
      Label("err"), Free({"name"}), Free({"header"}), Free({"data"}), Label("out"), Done>>

PEM_ASN1_read == MadeFrom("b", "ret")
PEM_ASN1_read_bio == MadeFrom("data", "ret")
PEM_ASN1_write == Temporary("b")
PEM_read == Temporary("b")
PEM_write == Temporary("b")
PEM_read_PrivateKey == MadeFrom("b", "ret")
PEM_write_PrivateKey == Temporary("b")
do_pk8pkey_fp == Temporary("bp")
d2i_PKCS8PrivateKey_fp == MadeFrom("bp", "ret")

PEM_ASN1_write_bio ==
    <<Try("err"), New("data", "err"), Branch("plain"), Try("err"), Own("ctx"), Use("data"),
      Free({"ctx"}), Try("err"), Label("plain"), Use("data"),
      Label("err"), Free({"data"}), Done>>

PEM_do_header == <<Try("out"), Own("ctx"), Free({"ctx"}), Label("out"), Done>>

PEM_write_bio ==
    <<Try("err"), New("buf", "err"), Label("piece"), Branch("final"), Use("buf"), Try("err"),
      Goto("piece"), Label("final"), Use("buf"), Try("err"), Free({"buf"}), Null("buf"), Try("err"),
      Done, Label("err"), Free({"buf"}), Done>>

(* A block without a header was read into the header's buffer.  What the     *)
(* buffers hold is handed over, and only the buffers' own structs are freed. *)
PEM_read_bio ==
    <<New("nameB", "no name"), Label("no name"), New("headerB", "no header"), Label("no header"),
      New("dataB", "err"), IfNull("nameB", "err"), IfNull("headerB", "err"), Try("err"),
      New("name", "err"), Given("name", "nameB"), New("header", "err"), Given("header", "headerB"),
      Label("line"), Branch("lines"), Use("header"), Try("err"), Goto("line"), Label("lines"),
      New("data", "err"), Given("data", "dataB"), Try("err"), Branch("swap"), Goto("check"),
      Label("swap"), Move("tmpB", "headerB"), Move("headerB", "dataB"), Move("dataB", "tmpB"),
      Label("check"), Use("dataB"), Try("err"), Take("name"), Given("name", "lent"),
      Take("header"), Given("header", "lent"), Take("data"), Given("data", "lent"),
      Free({"nameB"}), Free({"headerB"}), Free({"dataB"}), Done,
      Label("err"), Free({"nameB"}), Free({"headerB"}), Free({"dataB"}), Done>>

(* A failed PKCS8_encrypt leaves p8 NULL, which the encoders refuse.         *)
do_pk8pkey ==
    <<New("p8inf", "fail"), Branch("plain"), Try("no password"), New("p8", "no p8"),
      Label("no p8"), Free({"p8inf"}), Free({"p8"}), Done, Label("plain"), Use("p8inf"),
      Label("no password"), Free({"p8inf"}), Label("fail"), Done>>

d2i_PKCS8PrivateKey_bio ==
    <<New("p8", "fail"), Try("no password"), New("p8inf", "no info"), Label("no info"),
      Free({"p8"}), IfNull("p8inf", "fail"), Use("p8inf"), New("ret", "no key"), Label("no key"),
      Free({"p8inf"}), IfNull("ret", "fail")>> \o StoreOrReturn("ret") \o
    <<Label("no password"), Free({"p8"}), Label("fail"), Done>>

(* The caller's key is freed and overwritten even when there is no new one.   *)
PEM_read_bio_PrivateKey ==
    <<New("nm", "fail"), Own("data"), Branch("encrypted"), Branch("traditional"),
      New("p8inf", "p8err"), Label("convert"), Use("p8inf"), New("ret", "no key"), Label("no key"),
      Branch("alone"), Holds("old")>> \o FreeField("old", "no old") \o <<Null("old")>> \o
    GivenIfAny("ret", "lent", "no new") \o
    <<Null("ret"), Label("alone"), Free({"p8inf"}), Goto("p8err"),
      Label("encrypted"), New("p8", "p8err"), Try("no password"), New("p8inf", "no info"),
      Label("no info"), Free({"p8"}), IfNull("p8inf", "p8err"), Goto("convert"),
      Label("no password"), Free({"p8"}), Goto("p8err"), Label("traditional"), New("ret", "p8err"),
      Label("p8err"), Free({"nm"}), Free({"data"}), Return("ret"), Label("fail"), Done>>

-----------------------------------------------------------------------------
Asn1Code == [
    c2i_ASN1_BIT_STRING |-> c2i_ASN1_BIT_STRING, i2d_ASN1_BOOLEAN |-> i2d_ASN1_BOOLEAN,
    i2d_ASN1_OBJECT |-> i2d_ASN1_OBJECT, CBB_finish_i2d |-> CBB_finish_i2d, ASN1_item_d2i_bio
    |-> ASN1_item_d2i_bio, ASN1_item_d2i_fp |-> ASN1_item_d2i_fp, ASN1_dup |-> ASN1_dup,
    ASN1_item_dup |-> ASN1_item_dup, ASN1_GENERALIZEDTIME_adj |-> ASN1_GENERALIZEDTIME_adj,
    ASN1_UTCTIME_adj |-> ASN1_UTCTIME_adj, ASN1_TIME_to_generalizedtime
    |-> ASN1_TIME_to_generalizedtime, c2i_ASN1_INTEGER |-> c2i_ASN1_INTEGER, bn_to_asn1_string
    |-> bn_to_asn1_string, ASN1_i2d_bio |-> ASN1_i2d_bio, ASN1_item_i2d_fp |-> ASN1_item_i2d_fp,
    ASN1_item_i2d_bio |-> ASN1_item_i2d_bio, ASN1_item_i2d |-> ASN1_item_i2d, ASN1_mbstring_ncopy
    |-> ASN1_mbstring_ncopy, i2a_ASN1_OBJECT |-> i2a_ASN1_OBJECT, c2i_ASN1_OBJECT
    |-> c2i_ASN1_OBJECT, ASN1_OBJECT_free |-> ASN1_OBJECT_free, do_dump |-> do_dump,
    ASN1_STRING_print_ex_fp |-> ASN1_STRING_print_ex_fp, ASN1_STRING_TABLE_add
    |-> ASN1_STRING_TABLE_add, asn1_type_cleanup |-> asn1_type_cleanup, ASN1_TYPE_set
    |-> ASN1_TYPE_set, ASN1_STRING_dup |-> ASN1_STRING_dup, ASN1_STRING_set |-> ASN1_STRING_set,
    ASN1_STRING_set0 |-> ASN1_STRING_set0, ASN1_item_pack |-> ASN1_item_pack, ASN1_item_unpack
    |-> ASN1_item_unpack, asn1_enc_save |-> asn1_enc_save, asn1_encoding_clear
    |-> asn1_encoding_clear, asn1_set_seq_out |-> asn1_set_seq_out, pkey_get_rsa |-> pkey_get_rsa,
    pkey_get_dsa |-> pkey_get_dsa, pkey_get_eckey |-> pkey_get_eckey, PEM_read_bio_ECPKParameters
    |-> PEM_read_bio_ECPKParameters, PEM_write_bio_ECPKParameters |-> PEM_write_bio_ECPKParameters,
    X509_PKEY_free |-> X509_PKEY_free, X509_INFO_free |-> X509_INFO_free, PEM_X509_INFO_read_bio
    |-> PEM_X509_INFO_read_bio, PEM_X509_INFO_read |-> PEM_X509_INFO_read, PEM_bytes_read_bio
    |-> PEM_bytes_read_bio, PEM_ASN1_read |-> PEM_ASN1_read, PEM_ASN1_read_bio
    |-> PEM_ASN1_read_bio, PEM_ASN1_write |-> PEM_ASN1_write, PEM_read |-> PEM_read, PEM_write
    |-> PEM_write, PEM_read_PrivateKey |-> PEM_read_PrivateKey, PEM_write_PrivateKey
    |-> PEM_write_PrivateKey, do_pk8pkey_fp |-> do_pk8pkey_fp, d2i_PKCS8PrivateKey_fp
    |-> d2i_PKCS8PrivateKey_fp, PEM_ASN1_write_bio |-> PEM_ASN1_write_bio, PEM_do_header
    |-> PEM_do_header, PEM_write_bio |-> PEM_write_bio, PEM_read_bio |-> PEM_read_bio, do_pk8pkey
    |-> do_pk8pkey, d2i_PKCS8PrivateKey_bio |-> d2i_PKCS8PrivateKey_bio, PEM_read_bio_PrivateKey
    |-> PEM_read_bio_PrivateKey]
=============================================================================
