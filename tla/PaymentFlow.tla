----------------------------- MODULE PaymentFlow -----------------------------
(***************************************************************************)
(* One payment from create_payment to its end, as the documentation leads  *)
(* a merchant through it: create, pay (MB WAY, card, stored token or       *)
(* reference), answer a 3D-Secure challenge, then watch the payment by     *)
(* polling and by notifications, and capture, cancel or refund it.         *)
(*                                                                         *)
(* The request and its handling by the gateway are one step here (see      *)
(* HTTPClient for the wire); the answer travels, may be lost, and may be   *)
(* overtaken by notifications, which arrive in any order.  What travels is *)
(* the object a body is parsed into, which depends on the body alone, and  *)
(* may be Rejected.  The gateway and the shopper are modelled from what    *)
(* the documentation says.                                                 *)
(***************************************************************************)
EXTENDS Parsers

CONSTANTS
  Values,           \* the JSON values the gateway's answers hold
  Kinds,            \* transaction types: "PURS", "AUTH"
  Methods,          \* payment methods: "CARD", "TOKEN", "MBWAY", "REFERENCE"
  Bodies,           \* the fields the gateway describes each phase with
  Creations,        \* the fields an answer to create_payment adds
  Challenges,       \* those an answer to a card operation adds for a challenge,
  Cards,            \* and whatever its outcome is
  Wants             \* operations the merchant makes use of: "capture", "cancel",
                    \* "refund"

Phases == { "absent", "created", "pending", "challenge", "authorized", "captured",
            "declined", "canceled", "refunded", "partially_refunded", "expired" }

ASSUME KindsAssumption == Kinds \subseteq {"PURS", "AUTH"}
ASSUME MethodsAssumption == Methods \subseteq {"CARD", "TOKEN", "MBWAY", "REFERENCE"}
ASSUME WantsAssumption == Wants \subseteq {"capture", "cancel", "refund"}
ASSUME BodiesAssumption ==
  DOMAIN Bodies = Phases \ {"absent"} /\ \A p \in DOMAIN Bodies : Bodies[p] # {}
ASSUME AnswersAssumption == {} \notin {Creations, Challenges, Cards}
ASSUME ValuesAssumption ==
  /\ IsJson(Values)
  /\ \A f \in (UNION {Bodies[p] : p \in DOMAIN Bodies}) \cup Creations \cup Challenges \cup Cards :
       Holding(f, Values)

VARIABLES
  kind, method,     \* chosen by the merchant, never changed
  phase,            \* the payment at the gateway
  reached,          \* history: the phases it has been in
  answer,           \* the answer on its way to the merchant's call, if any
  notices,          \* the notifications on their way
  handle,           \* what the merchant holds of the payment
  todo,             \* where the merchant is in the documented flow
  action,           \* response.action of the last card response
  order,            \* the status the merchant has last seen
  raised            \* what a parser raised of an answer, if one did

vars == <<kind, method, phase, reached, answer, notices, handle, todo, action, order, raised>>
gateway == <<phase, reached, notices>>
choices == <<kind, method>>

NoAnswer == [op |-> "none"]
NoHandle == [id |-> None, signature |-> None]
Ops == { "create_payment", "pay_with_mbway", "pay_with_card", "pay_with_token", "submit_3ds",
         "get_payment_status", "capture_payment", "cancel_payment", "refund_payment" }
CardOps == {"pay_with_card", "pay_with_token", "submit_3ds"}
Todos == {"create", "pay", "redirect", "resubmit", "watch"}

Init ==
  /\ kind \in Kinds /\ method \in Methods
  /\ phase = "absent" /\ reached = {}
  /\ answer = NoAnswer /\ notices = {}
  /\ handle = NoHandle /\ todo = "create" /\ action = NoAction
  /\ order = "UNKNOWN" /\ raised = "nothing"
-----------------------------------------------------------------------------
(***************************************************************************)
(* The gateway.                                                            *)
(***************************************************************************)
Paid == IF kind = "PURS" THEN "captured" ELSE "authorized"

\* The fields an answer adds: an actionResponse comes with a challenge only.
Extras(op, p) ==
  IF op = "create_payment" THEN Creations
  ELSE IF op \in CardOps
    THEN {With(c, a) : c \in Cards, a \in (IF p = "challenge" THEN Challenges ELSE {NoFields})}
  ELSE {NoFields}

\* The object an answer is parsed into.
Parse(op, data) ==
  CASE op = "create_payment"     -> ParseCreatePaymentResponse(data)
    [] op \in CardOps            -> ParseCardResponse(data)
    [] op = "get_payment_status" -> ParseStatusResponse(data)
    [] OTHER                     -> ParseOperationResponse(data)

\* The objects the answers to each operation, and the notifications, of each
\* phase are parsed into.
Answers ==
  [op \in Ops |-> [p \in DOMAIN Bodies |->
    {Parse(op, With(b, e)) : b \in Bodies[p], e \in Extras(op, p)}]]
Events == [p \in DOMAIN Bodies |-> {ParseWebhook(b) : b \in Bodies[p]}]

\* The payment moves on; anything but its creation is notified.
Advance(p) ==
  /\ phase' = p
  /\ reached' = reached \cup {p}
  /\ IF p = phase \/ p = "created"
       THEN UNCHANGED notices
       ELSE \E e \in Events[p] : notices' = notices \cup {e}

Respond(op, p) == \E res \in Answers[op][p] : answer' = [op |-> op, res |-> res]

\* An operation on a payment in a phase of from; in another phase the gateway
\* answers 4xx, which is raised, and the merchant goes on watching.
Operate(op, from, to) ==
  \/ /\ phase \in from
     /\ \E p \in to : Advance(p) /\ Respond(op, p)
     /\ UNCHANGED <<choices, handle, todo, action, order, raised>>
  \/ /\ phase \notin from
     /\ todo' = "watch"
     /\ UNCHANGED <<choices, gateway, answer, handle, action, order, raised>>

\* The shopper approves or refuses in the app or at the bank, or lets it be.
ShopperActs ==
  /\ \/ phase = "pending" /\ \E p \in {Paid, "declined"} : Advance(p)
     \/ phase \in {"created", "pending", "challenge", "authorized"} /\ Advance("expired")
  /\ UNCHANGED <<choices, answer, handle, todo, action, order, raised>>
-----------------------------------------------------------------------------
(***************************************************************************)
(* The operations of the client.                                           *)
(***************************************************************************)
Calls(t) == todo = t /\ answer = NoAnswer

\* An exception raised before anything is sent ends the documented flow.
Raises ==
  /\ todo' = "watch"
  /\ UNCHANGED <<choices, gateway, answer, handle, action, order, raised>>

CreatePayment ==
  /\ Calls("create")
  /\ Operate("create_payment", {"absent"}, {IF method = "REFERENCE" THEN "pending" ELSE "created"})

\* validate_payment_id, and the check of the signature: nothing is sent without.
Holds(h) == h.id \notin {None, "", " "}
Signed(h) == Holds(h) /\ h.signature \notin {None, "", " "}

DigestPost(op, from, to) ==
  \/ Signed(handle) /\ Operate(op, from, to)
  \/ ~ Signed(handle) /\ Raises

PayWithMBWay ==
  /\ Calls("pay") /\ method = "MBWAY"
  /\ DigestPost("pay_with_mbway", {"created"}, {"pending"})

PayWithCard ==
  /\ Calls("pay") /\ method = "CARD"
  /\ DigestPost("pay_with_card", {"created"}, {Paid, "declined", "pending", "challenge"})

PayWithToken ==
  /\ Calls("pay") /\ method = "TOKEN"
  /\ DigestPost("pay_with_token", {"created"}, {Paid, "declined", "pending", "challenge"})

\* The redirect needs a url, the body submitted after it an id to echo; both
\* raise without, and on an absent action.
CanRedirect(act) == act.url # None
CanResubmit(act) == act.id # None

\* The shopper is redirected; once back, the payment is submitted again.
Redirect ==
  /\ Calls("redirect")
  /\ \/ /\ CanRedirect(action)
        /\ todo' = "resubmit"
        /\ UNCHANGED <<choices, gateway, answer, handle, action, order, raised>>
     \/ ~ CanRedirect(action) /\ Raises

Submit3DS ==
  /\ Calls("resubmit")
  /\ \/ CanResubmit(action) /\ DigestPost("submit_3ds", {"challenge"}, {Paid, "declined"})
     \/ ~ CanResubmit(action) /\ Raises

\* What the merchant takes for the outcome of the payment.
Outcomes == { "AUTHORIZED", "CAPTURED", "DECLINED", "CANCELED", "REFUNDED",
              "PARTIALLY_REFUNDED", "EXPIRED" }

GetPaymentStatus ==
  /\ Calls("watch") /\ Holds(handle) /\ order \notin Outcomes
  /\ Operate("get_payment_status", Phases \ {"absent"}, {phase})

CapturePayment ==
  /\ "capture" \in Wants
  /\ Calls("watch") /\ Holds(handle) /\ order = "AUTHORIZED"
  /\ Operate("capture_payment", {"authorized"}, {"captured"})

CancelPayment ==
  /\ "cancel" \in Wants
  /\ Calls("watch") /\ Holds(handle) /\ order \notin Outcomes \ {"AUTHORIZED"}
  /\ Operate("cancel_payment", {"created", "pending", "challenge", "authorized"}, {"canceled"})

RefundPayment ==
  /\ "refund" \in Wants
  /\ Calls("watch") /\ Holds(handle) /\ order \in {"CAPTURED", "PARTIALLY_REFUNDED"}
  /\ Operate("refund_payment", {"captured", "partially_refunded"},
             {"refunded", "partially_refunded"})

\* Plausible bug: a payment that is only pending taken for one to challenge.
Requires3DSOrPending(res) ==
  res.status \in {"ACTION_REQUIRED", "PENDING"} \/ res.action # NoAction

\* The shopper must be challenged when the status says so or an action came.
Requires3DS(res) == res.status = "ACTION_REQUIRED" \/ res.action # NoAction

\* Where the answer leads in the documented flow.
NextTodo(op, res) ==
  CASE op = "create_payment" /\ method # "REFERENCE"       -> "pay"
    [] op \in CardOps \ {"submit_3ds"} /\ Requires3DS(res) -> "redirect"
    [] OTHER                                               -> "watch"

\* The answer arrives, is parsed, and is acted upon; when its parser rejects
\* it, all the merchant is left with is the exception.
Receive ==
  /\ answer # NoAnswer
  /\ answer' = NoAnswer
  /\ IF answer.res = Rejected
       THEN /\ raised' = answer.res.error
            /\ todo' = "watch"
            /\ UNCHANGED <<handle, action, order>>
       ELSE /\ order' = answer.res.status
            /\ handle' = IF answer.op = "create_payment"
                           THEN [id |-> answer.res.id, signature |-> answer.res.signature]
                           ELSE handle
            /\ action' = IF answer.op \in CardOps THEN answer.res.action ELSE action
            /\ todo' = NextTodo(answer.op, answer.res)
            /\ UNCHANGED raised
  /\ UNCHANGED <<choices, gateway>>

\* The call raises SIBSTimeoutError or SIBSConnectionError, its request handled.
TimesOut ==
  /\ answer # NoAnswer
  /\ answer' = NoAnswer
  /\ todo' = "watch"
  /\ UNCHANGED <<choices, gateway, handle, action, order, raised>>

\* A notification arrives that can be parsed: the order is updated with
\* event.status.  (For what becomes of any other, see WebhookReceiver.)
Notify(e) ==
  /\ e # Rejected
  /\ notices' = notices \ {e}
  /\ order' = e.status
  /\ UNCHANGED <<choices, phase, reached, answer, handle, todo, action, raised>>

Flow == \/ CreatePayment \/ PayWithMBWay \/ PayWithCard \/ PayWithToken
        \/ Redirect \/ Submit3DS \/ GetPaymentStatus

Next == \/ Flow
        \/ CapturePayment \/ CancelPayment \/ RefundPayment
        \/ Receive \/ TimesOut
        \/ \E e \in notices : Notify(e)
        \/ ShopperActs

Spec == Init /\ [][Next]_vars

(***************************************************************************)
(* Fairness: the merchant goes through the flow and polls until it has an  *)
(* outcome, notifications arrive, and of polls made for ever one is        *)
(* answered.  Nothing is asked of the shopper, nor that the merchant ever  *)
(* captures, cancels or refunds.                                           *)
(***************************************************************************)
FairSpec ==
  /\ Spec
  /\ WF_vars(Flow)
  /\ SF_vars(Receive)
  /\ WF_vars(\E e \in notices : Notify(e))
-----------------------------------------------------------------------------
\* The texts the gateway has written, and those that stand for none.
Texts == {v.text : v \in {v \in Values : IsPlain(v)}} \cup {None, PyStr(Null), NoAction.type}
Actions == [id : Texts, url : Texts, type : Texts]

\* What an operation returns, unless its parser rejects the answer.
IsResult(op, res) ==
  /\ res.status \in PaymentStatus
  /\ op = "create_payment" => res.id \in Texts /\ res.signature \in Texts
  /\ op \in CardOps => res.action \in Actions

\* The types of the variables: among them, that a status is always one of the
\* enumeration, whatever the gateway writes, and that what the merchant echoes
\* in its next call is a text the gateway wrote.
TypeOK ==
  /\ kind \in Kinds /\ method \in Methods
  /\ phase \in Phases /\ reached \subseteq Phases
  /\ \/ answer = NoAnswer
     \/ /\ answer.op \in Ops
        /\ answer.res # Rejected => IsResult(answer.op, answer.res)
  /\ notices \subseteq UNION {Events[p] : p \in DOMAIN Bodies}
  /\ handle \in [id : Texts, signature : Texts] /\ todo \in Todos
  /\ action \in Actions
  /\ order \in PaymentStatus
  /\ raised \in {"nothing", "ValidationError"}

(***************************************************************************)
(* A status that commits the merchant is only seen when the payment has    *)
(* been in the phase it names: nothing is shipped on a payment that was    *)
(* only created, authorized or challenged, and none written off that was   *)
(* not declined, canceled, refunded or expired.                            *)
(***************************************************************************)
Means ==
  [ ACTION_REQUIRED    |-> "challenge",
    AUTHORIZED         |-> "authorized",
    CAPTURED           |-> "captured",
    DECLINED           |-> "declined",
    CANCELED           |-> "canceled",
    REFUNDED           |-> "refunded",
    PARTIALLY_REFUNDED |-> "partially_refunded",
    EXPIRED            |-> "expired" ]

SeenWasReached == order \in DOMAIN Means => Means[order] \in reached

(***************************************************************************)
(* A gateway that is understood: whatever it describes a phase with is     *)
(* parsed into a status that names that phase or commits to none, and into *)
(* a challenge in that phase only.                                         *)
(***************************************************************************)
Names(status, p) == status \in DOMAIN Means => Means[status] = p

Truthful ==
  \A p \in DOMAIN Bodies :
    /\ \A op \in Ops : \A res \in Answers[op][p] :
         res # Rejected =>
           /\ Names(res.status, p)
           /\ op \in CardOps /\ Requires3DS(res) => p = "challenge"
    /\ \A e \in Events[p] : e # Rejected => Names(e.status, p)

\* The shopper is sent to a challenge, and the card submitted again, only
\* when the gateway has raised one for this payment.
ChallengeWasRaised == todo \in {"redirect", "resubmit"} => "challenge" \in reached

(***************************************************************************)
(* The inductive invariant of the two above: whatever is on its way, the   *)
(* status and the challenge it shows are ones the payment has been in.     *)
(***************************************************************************)
Reported(status) == status \in DOMAIN Means => Means[status] \in reached

AnswerTold ==
  answer # NoAnswer /\ answer.res # Rejected =>
    /\ Reported(answer.res.status)
    /\ answer.op \in CardOps /\ Requires3DS(answer.res) => "challenge" \in reached

NoticesTold == \A e \in notices : e # Rejected => Reported(e.status)

\* Answers and notifications on their way, and what the merchant has seen and
\* is about to do, all agree with what the payment has been through.
Told == AnswerTold /\ NoticesTold /\ SeenWasReached /\ ChallengeWasRaised

\* What Receive and Notify hand to the merchant was true when it was sent: the
\* invariant that SeenWasReached and ChallengeWasRaised follow from.
IInv == Truthful /\ Told

\* A merchant that holds the id of a purchase learns its outcome, although
\* answers are lost or rejected by their parser, and notifications of earlier
\* phases arrive late.
Final == {"captured", "declined", "canceled", "expired"}

OutcomeLearned ==
  \A p \in Final :
    kind = "PURS" /\ phase = p /\ Holds(handle) ~>
      phase # p \/ (order \in DOMAIN Means /\ Means[order] = p)

\* docs/errors.md: every exception the library raises inherits from SIBSError.
OnlySIBSErrors == raised = "nothing"
=============================================================================
