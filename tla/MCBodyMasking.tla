--------------------------- MODULE MCBodyMasking ---------------------------
EXTENDS BodyMasking

\* {"a": "..", "b": {"c": ".."}}
PlainFields == << << <<"a">> >>, << <<"b">>, <<"c">> >> >>
\* {"a.b": "..", "a": {"b": ".."}}
DottedFields == << << <<"a", "b">> >>, << <<"a">>, <<"b">> >> >>

TwoAndOne == <<2, 1>>
\* The plain body is one the theorems are about, the dotted one is not.
ASSUME OnlyDottedMisleads == PathsLeadBack <=> Fields # DottedFields

MCLetters == <<"b">>
MCKind == [v \in Values |->
    CASE v = "phone" -> "encrypts" [] v = "email" -> "small"
      [] v = "iban" -> "fails" [] OTHER -> "token"]
MCAttachments == {{}, {"inline"}, {"remote"}, {"audio"}, {"inline", "audio"}}
=============================================================================
