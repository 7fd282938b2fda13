------------------------------- MODULE OwnPkcs -------------------------------
(* Ownership in crypto/pkcs8 and crypto/pkcs7: the programs of the functions *)
(* that hold memory while a later step can fail.  A CBB and a cipher or      *)
(* digest context are pointers to what they own inside.  What a call has     *)
(* added to a list of the caller's is one object, which it takes back when   *)
(* it fails.                                                                 *)
EXTENDS Ownership

(* CBS_asn1_ber_to_der makes a copy only when the input is not DER already.  *)
ToDer(v, l) == <<Try(l), Branch("der already"), Own(v), Label("der already")>>

(* What is added to a list of the caller's stays there, or is all removed.   *)
GiveAdded == <<Label("kept"), Given("added", "lent"), Done>>
DropAdded == <<Label("dropped"), Free({"added"}), Done>>

-----------------------------------------------------------------------------
(* crypto/pkcs8/pkcs8.c                                                      *)
pkcs12_encode_password ==
    <<New("cbb", "fail"), Label("char"), Branch("all"), Try("err"), Goto("char"), Label("all"),
      Try("err")>> \o Finish("cbb", "out", "err") \o
    <<Return("out"), Label("err"), Free({"cbb"}), Label("fail"), Done>>

pkcs12_key_gen ==
    <<Try("fail"), Own("ctx"), Branch("no password"), New("pass_raw", "err"), Label("no password"),
      Try("err"), Branch("empty"), New("I", "err"), Label("empty"),
      Label("block"), Branch("all"), Try("err"), Goto("block"), Label("all"),
      Label("err"), Free({"I", "pass_raw", "ctx"}), Label("fail"), Done>>

pkcs8_pbe_decrypt ==
    <<Own("ctx"), Try("err"), New("buf", "err"), Try("err"), Move("out", "buf"),
      Label("err"), Free({"buf", "ctx"}), Return("out")>>

PKCS8_parse_encrypted_private_key ==
    <<Try("fail"), New("out", "fail"), New("ret", "parsed"), Label("parsed"), Free({"out"}),
      Return("ret"), Label("fail"), Done>>

PKCS8_marshal_encrypted_private_key ==
    <<Own("ctx"), Branch("salt given"), New("salt_buf", "err"), Try("err"), Label("salt given"),
      New("plaintext_cbb", "no plaintext"), Try("no plaintext")>> \o
    Finish("plaintext_cbb", "plaintext", "no plaintext") \o
    <<Try("err"), Goto("err"), Label("no plaintext"), Free({"plaintext_cbb"}),
      Label("err"), Free({"plaintext", "salt_buf", "ctx"}), Done>>

-----------------------------------------------------------------------------
(* crypto/pkcs8/pkcs8_x509.c                                                 *)
EVP_PKCS82PKEY ==
    <<New("der", "fail"), New("ret", "bad"), Try("bad"), Free({"der"}), Return("ret"),
      Label("bad"), Free({"ret", "der"}), Label("fail"), Done>>

EVP_PKEY2PKCS8 ==
    <<New("cbb", "no der"), Try("no der")>> \o Finish("cbb", "der", "no der") \o
    <<Try("no der"), New("p8", "bad"), Try("bad"), Free({"der"}), Return("p8"),
      Label("bad"), Free({"p8"}), Goto("err"),
      Label("no der"), Free({"cbb"}), Label("err"), Free({"der"}), Done>>

PKCS8_decrypt ==
    <<New("in", "err"), New("pkey", "err"), Try("err"), New("ret", "err"),
      Label("err"), Free({"in", "pkey"}), Return("ret")>>

PKCS8_encrypt ==
    <<New("pkey", "fail"), New("cbb", "no der"), Try("no der")>> \o Finish("cbb", "der", "no der") \o
    <<New("ret", "bad"), Try("bad"), Goto("err"), Label("bad"), Free({"ret"}), Null("ret"),
      Goto("err"), Label("no der"), Free({"cbb"}),
      Label("err"), Free({"der", "pkey"}), Return("ret"), Label("fail"), Done>>

PKCS12_handle_sequence ==
    ToDer("storage", "fail") \o
    <<Try("err"), Label("element"), Branch("err"), Try("err"), Goto("element"),
      Label("err"), Free({"storage"}), Label("fail"), Done>>

parse_bag_attributes ==
    <<Label("attr"), Branch("all"), Try("err"), Branch("attr"),
      IfNull("name", "first"), Goto("err"), Label("first"), Try("err"),
      New("cbb", "err"), Label("char"), Branch("converted"), Try("no cbb"), Goto("char"),
      Label("converted")>> \o Finish("cbb", "name", "no cbb") \o
    <<Goto("attr"), Label("all"), Return("name"),
      Label("no cbb"), Free({"cbb"}), Label("err"), Free({"name"}), Null("name"), Done>>

PKCS12_handle_safe_bag ==
    <<Param("certs"), Holds("out_key"), Try("fail"), Branch("not a key"),
      IfNull("out_key", "first key"), Goto("fail"), Label("first key"),
      New("pkey", "fail"), Try("bad key")>> \o Store("pkey", "out_key") \o
    <<Done, Label("bad key"), Free({"pkey"}), Goto("fail"),
      Label("not a key"), Branch("fail"), Try("fail"), New("x509", "fail"), Try("bad cert"),
      Branch("unnamed"), New("friendly_name", "bad cert"), Try("no alias"),
      Label("unnamed"), Free({"friendly_name"}),
      Put("x509", "certs", "bad cert"), Done,
      Label("no alias"), Free({"friendly_name"}), Label("bad cert"), Free({"x509"}),
      Label("fail"), Done>>

PKCS12_handle_content_info ==
    <<Try("err"), Branch("plain")>> \o ToDer("storage", "err") \o
    <<Try("err"), New("out", "err"), Free({"out"}),
      Label("plain"), Label("err"), Free({"storage"}), Done>>

PKCS12_get_key_and_certs ==
    ToDer("storage", "fail") \o
    <<Own("added"), Try("err"), Label("bag"), Branch("parsed"), Branch("a certificate"),
      IfNull("key", "first key"), Goto("err"), Label("first key"), New("key", "err"),
      Label("a certificate"), Goto("bag"),
      Label("parsed"), Free({"storage"}), Given("added", "lent"), Return("key"),
      Label("err"), Free({"storage"}), Free({"key"}), Null("key"), Goto("dropped")>> \o
    DropAdded \o <<Label("fail"), Done>>

d2i_PKCS12 ==
    <<Holds("out_p12"), New("p12", "fail"), New("ber_bytes", "bad"), Given("ber_bytes", "p12"),
      IfNull("out_p12", "returned"), Take("out_p12"), Free({"out_p12"}), Null("out_p12"),
      Label("returned"), Return("p12"), Label("bad"), Free({"p12"}), Label("fail"), Done>>

d2i_PKCS12_bio ==
    <<New("buf", "fail"), Try("out"), Label("read"), Branch("all"), Try("out"), Use("buf"),
      Goto("read"), Label("all"), New("ret", "out"), Label("out"), Free({"buf"}), Return("ret"),
      Label("fail"), Done>>

d2i_PKCS12_fp ==
    <<New("bio", "fail"), New("ret", "read"), Label("read"), Free({"bio"}), Return("ret"),
      Label("fail"), Done>>

i2d_PKCS12_fp == <<New("bio", "fail"), Free({"bio"}), Label("fail"), Done>>

i2d_PKCS12 ==
    <<Try("fail"), MayParam("out"), IfNull("out", "fresh"), Done, Label("fresh"), New("out", "fail"),
      Return("out"), Label("fail"), Done>>

PKCS12_parse ==
    <<Holds("ca_certs"), IfNull("ca_certs", "no list"), Goto("list"),
      Label("no list"), New("ca_certs", "fail"), Mark("ca_certs_alloced"),
      Label("list"), Try("bad"), Own("cert"), Given("cert", "ca_certs"),
      Own("pkey"), Given("pkey", "lent"),
      Branch("no match"), Use("cert"), Take("cert"), Given("cert", "lent"), Label("no match"),
      IfNull("ca_certs_alloced", "fail"), Branch("unwanted"), Given("ca_certs", "lent"), Done,
      Label("unwanted"), Free({"ca_certs"}), Done,
      Label("bad"), IfNull("ca_certs_alloced", "fail"), Free({"ca_certs"}), Label("fail"), Done>>

PKCS12_verify_mac ==
    <<Try("fail"), New("pkey", "no key"), Label("no key"), New("cert", "no cert"), Label("no cert"),
      Free({"pkey", "cert"}), Label("fail"), Done>>

add_encrypted_data ==
    <<Try("fail"), Own("ctx"), Try("err"), Label("err"), Free({"ctx"}), Label("fail"), Done>>

PKCS12_create ==
    <<Try("fail"), New("cbb", "err"), Try("err"), Branch("no certs"), Branch("plain"),
      New("plaintext_cbb", "not added"), Try("not added"), Free({"plaintext_cbb"}), Goto("no certs"),
      Label("not added"), Free({"plaintext_cbb"}), Goto("err"),
      Label("plain"), Try("err"), Label("no certs"), Try("err"),
      New("ret", "not made"), Try("not made"), Move("ber_bytes", "cbb"),
      Given("ber_bytes", "ret"), Goto("err"),
      Label("not made"), Free({"ret"}), Null("ret"),
      Label("err"), Free({"cbb"}), Return("ret"), Label("fail"), Done>>

-----------------------------------------------------------------------------
(* crypto/pkcs7/pkcs7.c                                                      *)
pkcs7_parse_header ==
    ToDer("der_bytes", "err") \o
    <<Try("err"), Return("der_bytes"),
      Label("err"), Free({"der_bytes"}), Null("der_bytes"), Done>>

PKCS7_get_raw_certificates ==
    <<Own("added"), New("der_bytes", "err"), Try("err"),
      Label("cert"), Branch("all"), Try("err"), New("buf", "bad"), Put("buf", "added", "bad"),
      Goto("cert"), Label("bad"), Free({"buf"}), Label("err"), Free({"der_bytes"}), Goto("dropped"),
      Label("all"), Free({"der_bytes"}), Goto("kept")>> \o GiveAdded \o DropAdded

PKCS7_set_type ==
    <<Try("fail"), Holds("d")>> \o FreeField("d", "unset") \o
    <<New("d", "fail"), Given("d", "held"), Try("undo"), Done,
      Label("undo"), Take("d"), Free({"d"}), Null("d"), Label("fail"), Done>>

PKCS7_set_content ==
    <<Own("p7_data"), Holds("contents"), Try("fail")>> \o FreeField("contents", "unset") \o
    Store("p7_data", "contents") \o <<Done, Label("fail"), Given("p7_data", "lent"), Done>>

PKCS7_content_new ==
    <<New("ret", "err"), Try("err"), Give("ret", "err"), Done, Label("err"), Free({"ret"}), Done>>

PKCS7_add_signer ==
    <<Try("fail"), Branch("found"), New("alg", "no alg"), New("parameter", "no alg"),
      Given("parameter", "alg"), New("algorithm", "no alg"), Given("algorithm", "alg"),
      Give("alg", "no alg"), Label("found"), Try("fail"), Done,
      Label("no alg"), Free({"alg"}), Label("fail"), Done>>

PKCS7_SIGNER_INFO_set_KeyNotFreed ==
    <<Try("fail"), Holds("serial"), Holds("pkey")>> \o FreeField("serial", "no serial") \o
    <<New("serial", "fail"), Given("serial", "held"), Own("pkey"), Given("pkey", "held"),
      Try("fail"), Label("fail"), Done>>

PKCS7_SIGNER_INFO_set ==
    <<Try("fail"), Holds("serial"), Holds("pkey")>> \o FreeField("serial", "no serial") \o
    <<New("serial", "fail"), Given("serial", "held")>> \o FreeField("pkey", "unset") \o
    <<Own("pkey"), Given("pkey", "held"), Try("fail"), Label("fail"), Done>>

PKCS7_RECIP_INFO_set ==
    <<Try("fail"), Holds("serial"), Holds("cert")>> \o FreeField("serial", "no serial") \o
    <<New("serial", "fail"), Given("serial", "held"), Try("fail")>> \o FreeField("cert", "unset") \o
    <<Own("cert"), Given("cert", "held"), Label("fail"), Done>>

-----------------------------------------------------------------------------
(* crypto/pkcs7/pkcs7_x509.c                                                 *)
PKCS7_get_certificates ==
    <<Own("added"), New("raw", "err"), Try("err"),
      Label("cert"), Branch("all"), Use("raw"), New("x509", "bad"), Put("x509", "added", "bad"),
      Goto("cert"), Label("bad"), Free({"x509"}), Label("err"), Free({"raw"}), Goto("dropped"),
      Label("all"), Free({"raw"}), Goto("kept")>> \o GiveAdded \o DropAdded

PKCS7_get_CRLs ==
    <<Own("added"), New("der_bytes", "err"), Try("err"),
      Label("crl"), Branch("all"), Try("err"), New("crl", "err"), Put("crl", "added", "bad"),
      Goto("crl"), Label("bad"), Free({"crl"}), Label("err"), Free({"der_bytes"}), Goto("dropped"),
      Label("all"), Free({"der_bytes"}), Goto("kept")>> \o GiveAdded \o DropAdded

PKCS7_get_PEM == <<New("data", "fail"), Free({"data"}), Label("fail"), Done>>

sign_sha256 ==
    <<New("buffer", "fail"), Own("ctx"), Try("out"), Label("read"), Branch("all"), Try("out"),
      Goto("read"), Label("all"), Try("out"), Label("out"), Free({"ctx", "buffer"}),
      Label("fail"), Done>>

write_signer_info ==
    <<New("subject_bytes", "no subject"), Label("no subject"), New("serial_bytes", "out"),
      IfNull("subject_bytes", "out"), Use("subject_bytes"), Use("serial_bytes"), Try("out"),
      Label("out"), Free({"subject_bytes", "serial_bytes"}), Done>>

PKCS7_sign ==
    <<New("cbb", "fail"), Branch("bundle"), Try("out"), New("signature", "unsigned"),
      Try("unsigned"), Free({"signature"}), Goto("signed"),
      Label("unsigned"), Free({"signature"}), Goto("out"),
      Label("bundle"), Try("out"), Label("signed")>> \o Finish("cbb", "der", "out") \o
    <<New("ret", "out"), Label("out"), Free({"cbb", "der"}), Return("ret"), Label("fail"), Done>>

(* PKCS7_add_certificate and PKCS7_add_crl take their reference only once    *)
(* the push has worked.                                                      *)
PKCS7_add_certificate ==
    <<Try("fail"), Holds("sk"), IfNull("sk", "no list"), Goto("push"),
      Label("no list"), New("sk", "fail"), Given("sk", "held"), Label("push"),
      Try("fail"), Own("x509"), Given("x509", "sk"), Label("fail"), Done>>
PKCS7_add_crl ==
    <<Try("fail"), Holds("sk"), IfNull("sk", "no list"), Goto("push"),
      Label("no list"), New("sk", "fail"), Given("sk", "held"), Label("push"),
      Try("fail"), Own("crl"), Given("crl", "sk"), Label("fail"), Done>>

-----------------------------------------------------------------------------
PkcsCode == [
    pkcs12_encode_password |-> pkcs12_encode_password, pkcs12_key_gen |-> pkcs12_key_gen,
    pkcs8_pbe_decrypt |-> pkcs8_pbe_decrypt,
    PKCS8_parse_encrypted_private_key |-> PKCS8_parse_encrypted_private_key,
    PKCS8_marshal_encrypted_private_key |-> PKCS8_marshal_encrypted_private_key,
    EVP_PKCS82PKEY |-> EVP_PKCS82PKEY, EVP_PKEY2PKCS8 |-> EVP_PKEY2PKCS8,
    PKCS8_decrypt |-> PKCS8_decrypt, PKCS8_encrypt |-> PKCS8_encrypt,
    PKCS12_handle_sequence |-> PKCS12_handle_sequence,
    parse_bag_attributes |-> parse_bag_attributes,
    PKCS12_handle_safe_bag |-> PKCS12_handle_safe_bag,
    PKCS12_handle_content_info |-> PKCS12_handle_content_info,
    PKCS12_get_key_and_certs |-> PKCS12_get_key_and_certs, d2i_PKCS12 |-> d2i_PKCS12,
    d2i_PKCS12_bio |-> d2i_PKCS12_bio, d2i_PKCS12_fp |-> d2i_PKCS12_fp,
    i2d_PKCS12_fp |-> i2d_PKCS12_fp, i2d_PKCS12 |-> i2d_PKCS12,
    add_encrypted_data |-> add_encrypted_data, PKCS12_parse |-> PKCS12_parse,
    PKCS12_verify_mac |-> PKCS12_verify_mac, PKCS12_create |-> PKCS12_create,
    pkcs7_parse_header |-> pkcs7_parse_header,
    PKCS7_get_raw_certificates |-> PKCS7_get_raw_certificates,
    PKCS7_set_type |-> PKCS7_set_type, PKCS7_set_content |-> PKCS7_set_content,
    PKCS7_content_new |-> PKCS7_content_new, PKCS7_add_signer |-> PKCS7_add_signer,
    PKCS7_SIGNER_INFO_set |-> PKCS7_SIGNER_INFO_set,
    PKCS7_RECIP_INFO_set |-> PKCS7_RECIP_INFO_set,
    PKCS7_get_certificates |-> PKCS7_get_certificates, PKCS7_get_CRLs |-> PKCS7_get_CRLs,
    PKCS7_get_PEM |-> PKCS7_get_PEM, sign_sha256 |-> sign_sha256,
    write_signer_info |-> write_signer_info, PKCS7_sign |-> PKCS7_sign,
    PKCS7_add_certificate |-> PKCS7_add_certificate, PKCS7_add_crl |-> PKCS7_add_crl]
=============================================================================
