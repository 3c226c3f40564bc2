---------------------------- MODULE MCPaymentFlow ----------------------------
(***************************************************************************)
(* Vocabularies of the gateway for PaymentFlow.                            *)
(***************************************************************************)
EXTENDS PaymentFlow

\* A body whose text is t, of a call that went well; or with no returnStatus.
Well(t) ==
  [ paymentStatus |-> Str(t),
    returnStatus  |-> Obj([statusMsg |-> Str("success"), statusCode |-> Str("000")]) ]
Bare(key, t) == (key :> Str(t))

\* A body with no text of the payment, only how the call went: an answer is
\* normalized from that, a notification is not.
Textless == ("returnStatus" :> Obj([statusMsg |-> Str("success"), statusCode |-> Str("000")]))

\* A text of its own for each phase, and some that PySIBS does not know.
Distinct ==
  [ created            |-> {Well("created"), Bare("status", "zorp"), NoFields},
    pending            |-> {Well("pending"), Bare("state", "in_progress"), Bare("status", " ")},
    challenge          |-> {Well("partial"), Well("zorp")},
    authorized         |-> {Well("authorized")},
    captured           |-> {Well("captured"), Bare("transactionStatus", "paid"), Textless},
    declined           |-> {Bare("status", "declined")},
    canceled           |-> {Well("voided")},
    refunded           |-> {Well("refunded")},
    partially_refunded |-> {Well("partially_refunded")},
    expired            |-> {Bare("state", "timeout")} ]

\* The texts docs/internal-notes.md gives for card payments: an authorization
\* that went well is a "Success" like any other.
CardTexts ==
  [Distinct EXCEPT !.authorized = {Well("success")}, !.captured = {Well("success")}]

\* Answers to create_payment: with id and signature under either name, with a
\* blank signature, with neither, with a reference.
Signed1 == [transactionID |-> Str("tx"), transactionSignature |-> Str("sig")]
Signed2 == [id |-> Num(7), transactionSignature |-> Null, signature |-> Str("sig")]
Unsigned == [transactionID |-> Str("tx"), transactionSignature |-> Str(" ")]
WithReference(currency) ==
  ("paymentReference" :> Obj([ entity |-> Num(11683), reference |-> Str("999"),
                               amount |-> Obj([value |-> Str("n/a"), currency |-> currency]) ]))
Creates == {Signed1, Signed2 @@ WithReference(Str("EUR")), Unsigned, NoFields}

\* Answers the parsers reject: a numeric signature, a numeric currency code.
BadSignature == [transactionID |-> Str("tx"), transactionSignature |-> Num(5)]
CreatesAndBad == Creates \cup {BadSignature, Signed1 @@ WithReference(Num(978))}
OnlySigned == {Signed1}
OnlyBad == {Signed1, BadSignature}

\* Challenges: a whole actionResponse, one without id, one without url, under
\* the other key, none; and one whose type is a number.
Whole == ("actionResponse" :> Obj([ id |-> Str("a"), type |-> Str("THREEDS_CHALLENGE"),
                                    data |-> Obj([url |-> Str("acs")]) ]))
NoId == ("actionResponse" :> Obj([url |-> Str("acs")]))
NoUrl == ("action" :> Obj([data |-> Obj([id |-> Num(3)])]))
BadType == ("actionResponse" :> Obj([id |-> Str("a"), type |-> Num(1)]))
AllChallenges == {Whole, NoId, NoUrl, BadType, NoFields}
OnlyWhole == {Whole}

\* What else a card answer holds: nothing, or a token whose card number is a
\* number.
Plain == {NoFields}
BadToken ==
  ("tokenList" :> Arr(<<Obj([value |-> Str("tok"), maskedPAN |-> Num(1234)])>>))
Tokens == {("token" :> Str("tok")), BadToken}

\* All the values that occur in them.
RECURSIVE Inside(_)
Inside(v) ==
  {v} \cup CASE IsObj(v)         -> UNION {Inside(v.fields[k]) : k \in DOMAIN v.fields}
             [] v.json = "array" -> UNION {Inside(v.items[i]) : i \in DOMAIN v.items}
             [] OTHER            -> {}

Occurring ==
  {Null} \cup UNION {Inside(Obj(f)) :
    f \in (UNION {Bodies[p] : p \in DOMAIN Bodies}) \cup Creations \cup Challenges \cup Cards}
=============================================================================
