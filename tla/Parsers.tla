-------------------------------- MODULE Parsers --------------------------------
(***************************************************************************)
(* From the body of an answer or a notification to the object the merchant *)
(* is given (pysibs/_payloads.py, webhooks.py, models.py).  A field of a   *)
(* type its model does not declare makes pydantic raise a ValidationError, *)
(* which no caller translates: then there is no object (Rejected).  Of an  *)
(* object, only what a merchant acts on is kept.                           *)
(***************************************************************************)
EXTENDS Json, StatusNormalization

Rejected == [error |-> "ValidationError"]

\* Plausible bug: the outcome of the call preferred to that of the payment.
ExtractStatusReturnFirst(data) ==
  LET ret == Fields(Get(data, "returnStatus"))
      raw == Or(FirstTruthy(ret, <<"statusMsg", "statusCode">>), FirstOf(data, <<"paymentStatus">>))
  IN  [raw |-> StrOrNone(raw), code |-> StrOrNone(Get(ret, "statusCode"))]

ExtractStatus(data) ==
  LET text == FirstOf(data, <<"paymentStatus", "status", "transactionStatus", "state">>)
      ret  == Fields(Get(data, "returnStatus"))
      raw  == IF text = Null THEN FirstTruthy(ret, <<"statusMsg", "statusCode">>) ELSE text
  IN  [raw |-> StrOrNone(raw), code |-> StrOrNone(Get(ret, "statusCode"))]

\* The status of a response: the text, or else the numeric return code.
ResponseStatus(data) ==
  LET s == ExtractStatus(data)
  IN  NormalizePaymentStatus(IF s.raw \in {None, ""} THEN s.code ELSE s.raw)

ExtractId(data) == StrOrNone(FirstOf(data, <<"transactionID", "transactionId", "id", "paymentId">>))

\* The first key with a text that is not empty.
FirstText(f, keys) ==
  LET texts == SelectSeq(keys, LAMBDA k : IsStr(Get(f, k)) /\ Get(f, k) # Str(""))
  IN  IF texts = <<>> THEN Null ELSE Get(f, Head(texts))

ExtractRedirectUrl(data) ==
  StrOrNone(Or(FirstText(data, <<"redirectUrl", "redirect_url", "url", "returnUrl">>),
               FirstText(Fields(Get(data, "action")), <<"url", "redirectUrl">>)))

(***************************************************************************)
(* A MULTIBANCO reference: entity and reference are made texts, an amount  *)
(* that is no number is dropped; a currency or a date that is no text, and *)
(* an amount that is not finite, are rejected.                             *)
(***************************************************************************)
\* Texts that Decimal reads as no finite amount; in JSON they are NaN or Infinity
\* (which str() writes as nan or inf) or a string.
NotFinite == { sign \o text : sign \in {"", "-"},
               text \in {"nan", "NaN", "sNaN", "inf", "Infinity"} }
NoReference == [entity |-> None, reference |-> None]

ExtractPaymentReference(data) ==
  LET ref    == Fields(Get(data, "paymentReference"))
      amount == Fields(Get(ref, "amount"))
      dates  == <<"expireDate", "expirationDate", "expiryDate">>
  IN  IF DOMAIN ref = {} THEN NoReference
      ELSE IF \/ StrOrNone(Get(amount, "value")) \in NotFinite
              \/ ~ FitsStr(Get(amount, "currency"))
              \/ ~ FitsStr(FirstTruthy(ref, dates))
        THEN Rejected
      ELSE [ entity    |-> StrOrNone(Get(ref, "entity")),
             reference |-> StrOrNone(Get(ref, "reference")) ]

ParseCreatePaymentResponse(data) ==
  LET signature == FirstTruthy(data, <<"transactionSignature", "signature">>)
      reference == ExtractPaymentReference(data)
  IN  IF ~ FitsStr(signature) \/ reference = Rejected THEN Rejected
      ELSE [ id        |-> ExtractId(data),
             status    |-> ResponseStatus(data),
             url       |-> ExtractRedirectUrl(data),
             signature |-> StrOrNone(signature),
             reference |-> reference ]

ParseStatusResponse(data) ==
  LET reference == ExtractPaymentReference(data)
  IN  IF reference = Rejected THEN Rejected
      ELSE [status |-> ResponseStatus(data), reference |-> reference]

\* Refunds, captures, cancellations and MB WAY purchases.
ParseOperationResponse(data) == [status |-> ResponseStatus(data)]

NoAction == [id |-> None, url |-> None, type |-> "absent"]

ExtractActionResponse(data) ==
  LET act    == Fields(FirstTruthy(data, <<"actionResponse", "action">>))
      inner  == Fields(Get(act, "data"))
      id     == Or(FirstTruthy(act, <<"id", "actionId">>), Get(inner, "id"))
      type   == FirstTruthy(act, <<"type", "actionType">>)
      url    == Or(Get(inner, "url"), Get(act, "url"))
  IN  IF DOMAIN act = {} THEN NoAction
      ELSE IF ~ FitsStr(type) \/ ~ FitsStr(url) THEN Rejected
      ELSE [id |-> StrOrNone(id), url |-> StrOrNone(url), type |-> StrOrNone(type)]

(***************************************************************************)
(* A stored card: a text or an object "token", else the first of tokenList *)
(* when that is an object, else the first such object under another key.   *)
(***************************************************************************)
FirstObject(f, keys) ==
  LET objects == SelectSeq(keys, LAMBDA k : IsObj(Get(f, k)))
  IN  IF objects = <<>> THEN Null ELSE Get(f, Head(objects))

TokenObject(data) ==
  LET list == Get(data, "tokenList")
  IN  IF IsObj(Get(data, "token")) THEN data.token
      ELSE IF list.json = "array" /\ list # Arr(<<>>) /\ IsObj(Head(list.items))
        THEN Head(list.items)
      ELSE FirstObject(data, <<"tokenisation", "tokenInfo", "tokenisationResponse">>)

ExtractCardToken(data) ==
  LET token  == Fields(TokenObject(data))
      value  == FirstTruthy(token, <<"value", "token", "tokenValue", "id">>)
      expiry == FirstTruthy(token, <<"expiry", "expireDate", "expirationDate">>)
      pan    == FirstTruthy(token, <<"maskedPan", "maskedPAN", "cardMasked">>)
  IN  IF IsStr(Get(data, "token")) THEN [value |-> data.token.text]
      ELSE IF \A v \in {value, expiry, pan} : FitsStr(v) THEN [value |-> StrOrNone(value)]
      ELSE Rejected

ParseCardResponse(data) ==
  LET act    == ExtractActionResponse(data)
      token  == ExtractCardToken(data)
  IN  IF Rejected \in {act, token} THEN Rejected
      ELSE [ status |-> ResponseStatus(data),
             action |-> act,
             token  |-> token.value ]

(***************************************************************************)
(* A notification: returnStatus is not looked at, and a numeric id is not  *)
(* made a text.                                                            *)
(***************************************************************************)
MerchantTransactionId(data) ==
  LET nested == FirstTruthy(Fields(Get(data, "merchant")), <<"transactionId", "merchantTransactionId">>)
  IN  IF nested # Null THEN nested
      ELSE FirstOf(data, <<"merchantTransactionId", "merchant_transaction_id">>)

ParseWebhook(data) ==
  LET raw  == FirstOf(data, <<"paymentStatus", "status", "transactionStatus", "state">>)
      type == FirstOf(data, <<"notificationType", "eventType", "type">>)
      nid  == FirstOf(data, <<"notificationID", "notificationId">>)
      pid  == FirstOf(data, <<"transactionID", "transactionId", "paymentId", "id">>)
      how  == FirstOf(data, <<"paymentMethod", "payment_method">>)
  IN  IF \/ \E v \in {type, nid, pid, how} : ~ FitsStr(v)
         \/ ExtractPaymentReference(data) = Rejected
        THEN Rejected
      ELSE [ notification_id         |-> StrOrNone(nid),
             payment_id              |-> StrOrNone(pid),
             merchant_transaction_id |-> StrOrNone(MerchantTransactionId(data)),
             status                  |-> NormalizePaymentStatus(StrOrNone(raw)) ]
=============================================================================
