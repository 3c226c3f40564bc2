------------------------------ MODULE Webhooks ------------------------------
(***************************************************************************)
(* From the request that brings a notification to the event the handler is *)
(* given, or the exception it is left with (pysibs/webhooks.py).           *)
(***************************************************************************)
EXTENDS Parsers

(***************************************************************************)
(* What SIBS, or whatever is in between, makes of a request: whether its   *)
(* three parts are base64, whether the nonce is as long as AES-GCM wants   *)
(* it, whether the tag fits the body under the right key, and what the     *)
(* body is once decrypted: a JSON object, whose fields are data, other     *)
(* JSON, other text, or no UTF-8.                                          *)
(***************************************************************************)
IsEnvelope(e) ==
  /\ DOMAIN e = {"encoding", "nonce", "tag", "plain", "data"}
  /\ e.encoding \in {"base64", "broken"} /\ e.nonce \in {"fits", "short"}
  /\ e.tag \in {"fits", "tampered"} /\ e.plain \in {"object", "json", "text", "bytes"}

\* The key the application is configured with: the one of the Backoffice,
\* another, or one that is not base64 of 16, 24 or 32 bytes.
Secrets == {"right", "wrong", "malformed"}

Raised(exc) == [error |-> exc]

\* decrypt_webhook: the fields of the object, or the exception.
DecryptWebhook(e, key) ==
  IF key = "malformed" THEN Raised("SIBSConfigurationError")
  ELSE IF e.encoding = "broken" THEN Raised("SIBSValidationError")
  ELSE IF e.nonce = "short" THEN Raised("ValueError")
  ELSE IF e.tag = "tampered" \/ key # "right" THEN Raised("SIBSInvalidWebhookSignature")
  ELSE IF e.plain = "bytes" THEN Raised("UnicodeDecodeError")
  ELSE IF e.plain # "object" THEN Raised("SIBSValidationError")
  ELSE [fields |-> e.data]

\* The event the handler of the examples gets hold of, or the exception.
Event(e, key) ==
  LET decrypted == DecryptWebhook(e, key)
  IN  IF "error" \in DOMAIN decrypted THEN decrypted ELSE ParseWebhook(decrypted.fields)

\* Only an invalid signature is caught; any other exception is a 500.
StatusOf(exc) == IF exc = "SIBSInvalidWebhookSignature" THEN "400" ELSE "500"
=============================================================================
