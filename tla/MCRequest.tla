----------------------------- MODULE MCRequest -----------------------------
(* Instances of Request for TLC: all short values made of pieces of a      *)
(* boundary, and longer ones that come close to it.                        *)
EXTENDS Request

MCBoundary == <<"b", "c">>

MCByte ==
  {"CR", "LF", "NUL", "-", "b", "c", "x", "k", "v", "&", "=", "%", " ", "+", "?",
   "2", "3", "5", "6", "B", "D", "F", "Content", "Length", "filename", "type",
   "{", "first", "second", "GET", "POST", "FOO", "api", ""}
    \cup Kinds \cup UNION {Range(r.uri) : r \in Range(Routes)}

Close == {<<"CR", "LF", "-", "-", "b">>, <<"CR", "LF", "-", "-", "CR", "LF">>,
          <<"CR", "CR", "LF", "-", "b", "c">>, <<"-", "-", "b", "c", "CR">>,
          <<"CR", "LF", "-", "-", "b", "b", "c">>}
Values == BoundedSeq({"CR", "LF", "-", "b"}, 3) \cup Close

Request0 == [method |-> "GET", url |-> <<"api", "set">>, query |-> <<>>,
             kind |-> "get", form |-> <<>>, nul |-> {}, parts |-> <<>>,
             body |-> <<>>, refused |-> 0]

Urls == {r.uri : r \in Range(Routes)}
          \cup {<<"api", "get", "x">>, <<"", "x">>, <<"api">>, <<"update", "x">>,
                <<"api", "get", "?">>, <<"%", "&", "=", "+">>}

Item(n, v, sign, plain) == [name |-> n, value |-> v, sign |-> sign, plain |-> plain]

(* All texts of three bytes at most without "&" that begin with one "k" at *)
(* most, and the items of a form with signs in its values.                 *)
Texts ==
  {Item(n, <<>>, FALSE, TRUE) : n \in {<<>>, <<"k">>, <<"{", "k">>}}
  \cup {Item(n, v, TRUE, TRUE) : n \in {<<>>, <<"k">>}, v \in BoundedSeq({"k", "="}, 1)}
  \cup {Item(<<"{">>, <<"k">>, TRUE, TRUE)}

Fields ==
  {Item(<<"k">>, v, TRUE, FALSE) :
     v \in BoundedSeq({"v", "&", "=", "%", " ", "+"}, 1) \cup {<<"%", "2">>}}
  \cup {Item(<<"&", "=">>, <<>>, FALSE, FALSE)}

PartsOf(v, file) ==
  <<[name |-> "first", file |-> file, value |-> v],
    [name |-> "second", file |-> ~file, value |-> <<"CR", "x">>]>>

TwoFiles(v) == [i \in 1..2 |-> [PartsOf(v, TRUE)[i] EXCEPT !.file = TRUE]]

Asking(s) == [Request0 EXCEPT !.query = s]
Form(s) == [Request0 EXCEPT !.query = <<Item(<<"k">>, <<>>, FALSE, TRUE)>>, !.form = s]

(* A form as it is, as text, and with its last two items apart by NUL.     *)
Forms(s) ==
  LET last == {i \in DOMAIN FormText(Form(s)) : FormText(Form(s))[i] = "&"}
      nul == IF last = {} THEN {} ELSE {Max(last)}
  IN {[Form(s) EXCEPT !.kind = k, !.nul = n] : k \in {"form", "text"}, n \in {{}, nul}}

Upload(p) ==
  {[Request0 EXCEPT !.kind = "multipart", !.parts = p, !.refused = n] :
     n \in {0} \cup {i \in DOMAIN p : p[i].file}}

MCRequests ==
  {Asking(s) : s \in BoundedSeq(Texts, 3) \cup BoundedSeq(Fields, 2)}
  \cup {[Request0 EXCEPT !.url = u, !.method = m] :
          u \in Urls, m \in {"GET", "POST", "FOO"}}
  \cup UNION {Forms(s) : s \in BoundedSeq(Texts, 3) \cup BoundedSeq(Fields, 2)}
  \cup {[Request0 EXCEPT !.kind = "raw", !.body = s] :
          s \in BoundedSeq({"k", "LF"}, 3) \ {<<>>}}
  \cup UNION {Upload(PartsOf(v, file)) : v \in Values, file \in BOOLEAN}
  \cup UNION {Upload(TwoFiles(v)) : v \in Close}
=============================================================================
