-------------------------- MODULE MCWebhookReceiver --------------------------
(***************************************************************************)
(* Small instances of WebhookReceiver for TLC.                             *)
(***************************************************************************)
EXTENDS WebhookReceiver

CONSTANTS n1, n2

\* A request that is well formed, with the fields of its notification.
Sound(data) ==
  [encoding |-> "base64", nonce |-> "fits", tag |-> "fits", plain |-> "object", data |-> data]
Paid(id) == [paymentStatus |-> Str("success"), notificationID |-> id]

\* Two notifications that are processed.
BothGood == (n1 :> {Sound(Paid(Str("i1")))} @@ n2 :> {Sound(Paid(Str("i2")))})
TwoEach == (n1 :> 2 @@ n2 :> 2)

\* One that is processed and may be delivered twice at once, and beside it any
\* other: processed too, without id, with a numeric id or currency, tampered
\* with, badly encoded, or decrypted to something else than an object.
Bad(field, value) == [Sound(NoFields) EXCEPT ![field] = value]
Others ==
  { Sound([notificationID |-> Null, notificationId |-> Str("i2"), state |-> Str("paid")]),
    Sound([status |-> Null]), Sound(Paid(Num(2))),
    Sound([paymentReference |-> Obj([amount |-> Obj([currency |-> Num(978)])])]),
    Bad("encoding", "broken"), Bad("nonce", "short"), Bad("tag", "tampered"),
    Bad("plain", "json"), Bad("plain", "text"), Bad("plain", "bytes") }
GoodAndOther == (n1 :> {Sound(Paid(Str("i1")))} @@ n2 :> Others)
TwoAndOne == (n1 :> 2 @@ n2 :> 1)
=============================================================================
