-------------------------- MODULE PaymentFlow_proofs --------------------------
(***************************************************************************)
(* Proofs about PaymentFlow, for any transaction types, methods, wants,    *)
(* and any bodies the gateway may write, as long as they are Truthful.     *)
(***************************************************************************)
EXTENDS PaymentFlow, TLAPS

\* Whatever text the gateway writes, its status is one of the enumeration.
THEOREM StatusType == ASSUME NEW raw PROVE NormalizePaymentStatus(raw) \in PaymentStatus
<1>1. DOMAIN StatusMap \subseteq PaymentStatus
  BY DEF StatusMap, PaymentStatus
<1>2. CASE \E s \in DOMAIN StatusMap : raw \in StatusMap[s]
  <2>1. NormalizePaymentStatus(raw) \in DOMAIN StatusMap
    BY <1>2 DEF NormalizePaymentStatus
  <2> QED BY <1>1, <2>1
<1>3. CASE ~ \E s \in DOMAIN StatusMap : raw \in StatusMap[s]
  BY <1>3 DEF NormalizePaymentStatus, PaymentStatus
<1> QED BY <1>2, <1>3

\* StatusMap is _STATUS_MAP turned round: every text is in one entry only, so that
\* the CHOOSE of NormalizePaymentStatus leaves no choice.
LEMMA StatusTableUnambiguous ==
  ASSUME NEW s \in DOMAIN StatusMap, NEW t \in StatusMap[s]
  PROVE  NormalizePaymentStatus(t) = s
<1>1. ASSUME NEW r \in DOMAIN StatusMap, t \in StatusMap[r] PROVE r = s
  BY <1>1 DEF StatusMap
<1> QED BY <1>1 DEF NormalizePaymentStatus
-----------------------------------------------------------------------------
(***************************************************************************)
(* Whatever a body holds, an object that is made of it has the types its   *)
(* model declares.                                                         *)
(***************************************************************************)
LEMMA GetType == ASSUME NEW f, Holding(f, Values), NEW k PROVE Get(f, k) \in Values
BY ValuesAssumption DEF IsJson, Holding, Get

LEMMA FieldsType == ASSUME NEW v \in Values PROVE Holding(Fields(v), Values)
BY ValuesAssumption DEF IsJson, Fields, Holding, NoFields

LEMMA OrType == ASSUME NEW v \in Values, NEW w \in Values PROVE Or(v, w) \in Values
BY DEF Or

LEMMA FirstTypes ==
  ASSUME NEW f, Holding(f, Values), NEW keys
  PROVE  FirstOf(f, keys) \in Values /\ FirstTruthy(f, keys) \in Values
<1>1. Null \in Values /\ \A k : Get(f, k) \in Values
  BY GetType, ValuesAssumption DEF IsJson
<1>2. FirstOf(f, keys) \in Values
  BY <1>1 DEF FirstOf
<1>3. FirstTruthy(f, keys) \in Values
  BY <1>1 DEF FirstTruthy
<1> QED BY <1>2, <1>3

LEMMA TextType == ASSUME NEW v \in Values PROVE StrOrNone(v) \in Texts
BY DEF StrOrNone, PyStr, Texts, IsPlain, Null

LEMMA StatusTypes ==
  ASSUME NEW data
  PROVE  ResponseStatus(data) \in PaymentStatus
BY StatusType DEF ResponseStatus

LEMMA ActionType ==
  ASSUME NEW data, Holding(data, Values), ExtractActionResponse(data) # Rejected
  PROVE  ExtractActionResponse(data) \in Actions
<1> DEFINE act   == Fields(FirstTruthy(data, <<"actionResponse", "action">>))
           inner == Fields(Get(act, "data"))
           id    == Or(FirstTruthy(act, <<"id", "actionId">>), Get(inner, "id"))
           type  == FirstTruthy(act, <<"type", "actionType">>)
           url   == Or(Get(inner, "url"), Get(act, "url"))
<1>1. Holding(act, Values)
  BY FirstTypes, FieldsType
<1> HIDE DEF act
<1>2. Holding(inner, Values)
  BY <1>1, GetType, FieldsType
<1> HIDE DEF inner
<1>3. id \in Values /\ type \in Values /\ url \in Values
  <2>1. Get(inner, "id") \in Values /\ Get(inner, "url") \in Values /\ Get(act, "url") \in Values
    BY <1>1, <1>2, GetType
  <2>2. FirstTruthy(act, <<"id", "actionId">>) \in Values /\ type \in Values
    BY <1>1, FirstTypes
  <2> QED BY <2>1, <2>2, OrType
<1> HIDE DEF id, type, url
<1>4. \/ ExtractActionResponse(data) = NoAction
      \/ ExtractActionResponse(data)
           = [id |-> StrOrNone(id), url |-> StrOrNone(url), type |-> StrOrNone(type)]
  BY DEF ExtractActionResponse, act, inner, id, type, url
<1>5. NoAction \in Actions
  BY DEF NoAction, Actions, Texts
<1>6. StrOrNone(id) \in Texts /\ StrOrNone(url) \in Texts /\ StrOrNone(type) \in Texts
  BY <1>3, TextType
<1> QED BY <1>4, <1>5, <1>6 DEF Actions

LEMMA ParseType ==
  ASSUME NEW op \in Ops, NEW data, Holding(data, Values), Parse(op, data) # Rejected
  PROVE  IsResult(op, Parse(op, data))
<1>1. CASE op = "create_payment"
  <2> DEFINE signature == FirstTruthy(data, <<"transactionSignature", "signature">>)
  <2>1. Parse(op, data) = ParseCreatePaymentResponse(data)
    BY <1>1 DEF Parse, CardOps
  <2>2. /\ Parse(op, data).status = ResponseStatus(data)
        /\ Parse(op, data).id = ExtractId(data)
        /\ Parse(op, data).signature = StrOrNone(signature)
    BY <2>1 DEF ParseCreatePaymentResponse
  <2>3. ExtractId(data) \in Texts /\ StrOrNone(signature) \in Texts
    BY FirstTypes, TextType DEF ExtractId
  <2>4. op \notin CardOps
    BY <1>1 DEF CardOps
  <2> HIDE DEF signature
  <2> QED BY <2>2, <2>3, <2>4, StatusTypes DEF IsResult
<1>2. CASE op \in CardOps
  <2>1. Parse(op, data) = ParseCardResponse(data) /\ op # "create_payment"
    BY <1>2 DEF Parse, CardOps
  <2>2. /\ ExtractActionResponse(data) # Rejected
        /\ Parse(op, data).status = ResponseStatus(data)
        /\ Parse(op, data).action = ExtractActionResponse(data)
    BY <2>1 DEF ParseCardResponse
  <2> QED BY <2>1, <2>2, ActionType, StatusTypes DEF IsResult
<1>3. CASE op = "get_payment_status"
  <2>1. Parse(op, data) = ParseStatusResponse(data) /\ op \notin CardOps
    BY <1>3 DEF Parse, CardOps
  <2>2. Parse(op, data).status = ResponseStatus(data)
    BY <2>1 DEF ParseStatusResponse
  <2> QED BY <1>3, <2>1, <2>2, StatusTypes DEF IsResult
<1>4. CASE op \notin CardOps \cup {"create_payment", "get_payment_status"}
  <2>1. Parse(op, data).status = ResponseStatus(data)
    BY <1>4 DEF Parse, ParseOperationResponse
  <2> QED BY <1>4, <2>1, StatusTypes DEF IsResult
<1> QED BY <1>1, <1>2, <1>3, <1>4

LEMMA AnswersType ==
  ASSUME NEW op \in Ops, NEW p \in DOMAIN Bodies, NEW res \in Answers[op][p], res # Rejected
  PROVE  IsResult(op, res)
<1>1. PICK b \in Bodies[p], e \in Extras(op, p) : res = Parse(op, With(b, e))
  BY DEF Answers
<1>2. Holding(b, Values)
  BY ValuesAssumption
<1>3. Holding(NoFields, Values)
  BY DEF Holding, NoFields
<1>4. ASSUME NEW f, NEW g, Holding(f, Values), Holding(g, Values) PROVE Holding(With(f, g), Values)
  BY <1>4 DEF Holding, With
<1>5. Holding(e, Values)
  <2>1. \A c \in Creations \cup Challenges \cup Cards : Holding(c, Values)
    BY ValuesAssumption
  <2> QED BY <1>3, <1>4, <2>1 DEF Extras
<1> QED BY <1>1, <1>2, <1>4, <1>5, ParseType

LEMMA EventsType ==
  ASSUME NEW p \in DOMAIN Bodies, NEW e \in Events[p], e # Rejected
  PROVE  e.status \in PaymentStatus
<1>1. PICK b \in Bodies[p] : e = ParseWebhook(b)
  BY DEF Events
<1> QED BY <1>1, StatusType DEF ParseWebhook

(***************************************************************************)
(* Two ways to learn of a payment: a poll and a notification that describe *)
(* it with the same text agree on its status, whatever the text, and       *)
(* whatever the return code says.                                          *)
(***************************************************************************)
THEOREM PollAgreesWithNotification ==
  ASSUME NEW data,
         StrOrNone(FirstOf(data, <<"paymentStatus", "status", "transactionStatus", "state">>))
           \notin {None, ""},
         ParseStatusResponse(data) # Rejected, ParseWebhook(data) # Rejected
  PROVE  ParseStatusResponse(data).status = ParseWebhook(data).status
<1> DEFINE text == FirstOf(data, <<"paymentStatus", "status", "transactionStatus", "state">>)
<1>1. text # Null
  BY DEF StrOrNone
<1>2. ExtractStatus(data).raw = StrOrNone(text)
  BY <1>1 DEF ExtractStatus
<1>3. ParseStatusResponse(data).status = ResponseStatus(data)
  BY DEF ParseStatusResponse
<1>4. ParseWebhook(data).status = NormalizePaymentStatus(StrOrNone(text))
  BY DEF ParseWebhook
<1> HIDE DEF text
<1>5. ResponseStatus(data) = NormalizePaymentStatus(StrOrNone(text))
  BY <1>2 DEF ResponseStatus, text
<1> QED BY <1>3, <1>4, <1>5
-----------------------------------------------------------------------------
(***************************************************************************)
(* Type correctness.                                                       *)
(***************************************************************************)
LEMMA PhasesType == DOMAIN Bodies = Phases \ {"absent"}
BY BodiesAssumption

LEMMA TypeInit == Init => TypeOK
<1> SUFFICES ASSUME Init PROVE TypeOK
  OBVIOUS
<1>1. None \in Texts
  BY DEF Texts
<1>2. handle \in [id : Texts, signature : Texts]
  BY <1>1 DEF Init, NoHandle
<1>3. action \in Actions
  BY <1>1 DEF Init, NoAction, Actions, Texts
<1>4. order \in PaymentStatus /\ phase \in Phases /\ todo \in Todos
  BY DEF Init, PaymentStatus, Phases, Todos
<1> QED BY <1>2, <1>3, <1>4 DEF Init, TypeOK

\* The part of the types that the gateway's side keeps, and the merchant's.
GatewayType ==
  /\ phase \in Phases /\ reached \subseteq Phases
  /\ notices \subseteq UNION {Events[p] : p \in DOMAIN Bodies}

AnswerType ==
  \/ answer = NoAnswer
  \/ answer.op \in Ops /\ (answer.res # Rejected => IsResult(answer.op, answer.res))

MerchantType ==
  /\ handle \in [id : Texts, signature : Texts] /\ todo \in Todos
  /\ action \in Actions /\ order \in PaymentStatus
  /\ raised \in {"nothing", "ValidationError"}

LEMMA TypeParts ==
  ASSUME TypeOK
  PROVE  kind \in Kinds /\ method \in Methods /\ GatewayType /\ AnswerType /\ MerchantType
BY DEF TypeOK, GatewayType, AnswerType, MerchantType

LEMMA TypePartsNext ==
  ASSUME kind' \in Kinds, method' \in Methods, GatewayType', AnswerType', MerchantType'
  PROVE  TypeOK'
BY DEF TypeOK, GatewayType, AnswerType, MerchantType

LEMMA AdvanceType ==
  ASSUME GatewayType, NEW p \in DOMAIN Bodies, Advance(p)
  PROVE  GatewayType'
<1>1. phase' \in Phases /\ reached' \subseteq Phases
  BY PhasesType DEF Advance, GatewayType
<1>2. \A e \in notices' : e \in notices \/ e \in Events[p]
  BY DEF Advance
<1>3. notices' \subseteq UNION {Events[q] : q \in DOMAIN Bodies}
  BY <1>2 DEF GatewayType
<1> QED BY <1>1, <1>3 DEF GatewayType

LEMMA OperateType ==
  ASSUME TypeOK, NEW op \in Ops, NEW from, NEW to,
         phase \in from => to \subseteq DOMAIN Bodies, Operate(op, from, to)
  PROVE  TypeOK'
<1>1. CASE phase \in from
  <2>1. PICK p \in to : Advance(p) /\ Respond(op, p)
    BY <1>1 DEF Operate
  <2>2. p \in DOMAIN Bodies /\ UNCHANGED <<choices, handle, todo, action, order, raised>>
    BY <1>1, <2>1 DEF Operate
  <2>3. GatewayType'
    BY <2>1, <2>2, TypeParts, AdvanceType
  <2>4. PICK res \in Answers[op][p] : answer' = [op |-> op, res |-> res]
    BY <2>1 DEF Respond
  <2>5. answer'.op = op /\ answer'.res = res /\ (res # Rejected => IsResult(op, res))
    BY <2>2, <2>4, AnswersType
  <2>6. AnswerType'
    BY <2>5 DEF AnswerType, IsResult
  <2>7. kind' \in Kinds /\ method' \in Methods /\ MerchantType'
    BY <2>2, TypeParts DEF choices, MerchantType
  <2> QED BY <2>3, <2>6, <2>7, TypePartsNext
<1>2. CASE phase \notin from
  <2>1. todo' = "watch" /\ UNCHANGED <<choices, gateway, answer, handle, action, order, raised>>
    BY <1>2 DEF Operate
  <2>2. GatewayType' /\ AnswerType'
    BY <2>1, TypeParts DEF gateway, GatewayType, AnswerType, IsResult
  <2>3. kind' \in Kinds /\ method' \in Methods /\ MerchantType'
    BY <2>1, TypeParts DEF choices, MerchantType, Todos
  <2> QED BY <2>2, <2>3, TypePartsNext
<1> QED BY <1>1, <1>2

\* A step that only moves the merchant on in the flow.
LEMMA MoveType ==
  ASSUME TypeOK, todo' \in Todos, raised' \in {"nothing", "ValidationError"},
         answer' \in {NoAnswer, answer},
         UNCHANGED <<choices, gateway, handle, action, order>>
  PROVE  TypeOK'
<1>1. GatewayType' /\ AnswerType'
  BY TypeParts DEF gateway, GatewayType, AnswerType, IsResult
<1>2. kind' \in Kinds /\ method' \in Methods /\ MerchantType'
  BY TypeParts DEF choices, MerchantType
<1> QED BY <1>1, <1>2, TypePartsNext

LEMMA DigestPostType ==
  ASSUME TypeOK, NEW op \in Ops, NEW from, NEW to \in SUBSET DOMAIN Bodies,
         DigestPost(op, from, to)
  PROVE  TypeOK'
<1>1. CASE Operate(op, from, to)
  BY <1>1, OperateType
<1>2. CASE Raises
  BY <1>2, MoveType DEF Raises, Todos, TypeOK
<1> QED BY <1>1, <1>2 DEF DigestPost

LEMMA ReceiveType == ASSUME TypeOK, Receive PROVE TypeOK'
<1>1. answer # NoAnswer /\ answer' = NoAnswer /\ UNCHANGED <<choices, gateway>>
  BY DEF Receive
<1>2. CASE answer.res = Rejected
  <2>1. raised' = "ValidationError" /\ todo' = "watch" /\ UNCHANGED <<handle, action, order>>
    BY <1>2 DEF Receive, Rejected
  <2> QED BY <1>1, <2>1, MoveType DEF Todos
<1>3. CASE answer.res # Rejected
  <2>1. IsResult(answer.op, answer.res)
    BY <1>1, <1>3 DEF TypeOK
  <2>2. order' \in PaymentStatus /\ raised' = raised
    BY <1>3, <2>1 DEF Receive, IsResult
  <2>3. todo' \in Todos
    BY <1>3 DEF Receive, NextTodo, Todos
  <2>4. handle' \in [id : Texts, signature : Texts]
    <3>1. CASE answer.op = "create_payment"
      BY <1>3, <2>1, <3>1 DEF Receive, IsResult
    <3>2. CASE answer.op # "create_payment"
      BY <1>3, <3>2 DEF Receive, TypeOK
    <3> QED BY <3>1, <3>2
  <2>5. action' \in Actions
    <3>1. CASE answer.op \in CardOps
      BY <1>3, <2>1, <3>1 DEF Receive, IsResult
    <3>2. CASE answer.op \notin CardOps
      BY <1>3, <3>2 DEF Receive, TypeOK
    <3> QED BY <3>1, <3>2
  <2>6. MerchantType'
    BY <2>2, <2>3, <2>4, <2>5, TypeParts DEF MerchantType
  <2>7. kind' \in Kinds /\ method' \in Methods /\ GatewayType' /\ AnswerType'
    BY <1>1, TypeParts DEF choices, gateway, GatewayType, AnswerType
  <2> QED BY <2>6, <2>7, TypePartsNext
<1> QED BY <1>2, <1>3

LEMMA TypeStep == TypeOK /\ [Next]_vars => TypeOK'
<1> SUFFICES ASSUME TypeOK, [Next]_vars PROVE TypeOK'
  OBVIOUS
<1>0. DOMAIN Bodies = Phases \ {"absent"}
  BY PhasesType
<1> USE DEF Ops, Phases
<1>1. CASE CreatePayment
  <2>1. Operate("create_payment", {"absent"},
                {IF method = "REFERENCE" THEN "pending" ELSE "created"})
    BY <1>1 DEF CreatePayment
  <2> QED BY <1>0, <2>1, OperateType
<1>2. CASE PayWithMBWay
  <2>1. DigestPost("pay_with_mbway", {"created"}, {"pending"})
    BY <1>2 DEF PayWithMBWay
  <2> QED BY <1>0, <2>1, DigestPostType
<1>3. CASE PayWithCard \/ PayWithToken
  <2>1. PICK op \in {"pay_with_card", "pay_with_token"} :
          DigestPost(op, {"created"}, {Paid, "declined", "pending", "challenge"})
    BY <1>3 DEF PayWithCard, PayWithToken
  <2>2. {Paid, "declined", "pending", "challenge"} \in SUBSET DOMAIN Bodies
    BY <1>0 DEF Paid
  <2> QED BY <2>1, <2>2, DigestPostType
<1>4. CASE Redirect
  BY <1>4, MoveType DEF Redirect, Raises, Todos, TypeOK
<1>5. CASE Submit3DS
  <2>1. CASE DigestPost("submit_3ds", {"challenge"}, {Paid, "declined"})
    <3>1. {Paid, "declined"} \in SUBSET DOMAIN Bodies
      BY <1>0 DEF Paid
    <3> QED BY <2>1, <3>1, DigestPostType
  <2>2. CASE Raises
    BY <2>2, MoveType DEF Raises, Todos, TypeOK
  <2> QED BY <1>5, <2>1, <2>2 DEF Submit3DS
<1>6. CASE GetPaymentStatus
  <2>1. Operate("get_payment_status", Phases \ {"absent"}, {phase})
    BY <1>6 DEF GetPaymentStatus
  <2>2. phase \in Phases \ {"absent"} => {phase} \subseteq DOMAIN Bodies
    BY <1>0
  <2> QED BY <2>1, <2>2, OperateType
<1>7. CASE CapturePayment
  <2>1. Operate("capture_payment", {"authorized"}, {"captured"})
    BY <1>7 DEF CapturePayment
  <2> QED BY <1>0, <2>1, OperateType
<1>8. CASE CancelPayment
  <2>1. Operate("cancel_payment", {"created", "pending", "challenge", "authorized"}, {"canceled"})
    BY <1>8 DEF CancelPayment
  <2> QED BY <1>0, <2>1, OperateType
<1>9. CASE RefundPayment
  <2>1. Operate("refund_payment", {"captured", "partially_refunded"},
                {"refunded", "partially_refunded"})
    BY <1>9 DEF RefundPayment
  <2> QED BY <1>0, <2>1, OperateType
<1>10. CASE Receive
  BY <1>10, ReceiveType
<1>11. CASE TimesOut
  BY <1>11, MoveType DEF TimesOut, Todos, TypeOK
<1>12. ASSUME NEW e \in notices, Notify(e) PROVE TypeOK'
  <2>1. PICK p \in DOMAIN Bodies : e \in Events[p]
    BY DEF TypeOK
  <2>2. order' \in PaymentStatus
    BY <1>12, <2>1, EventsType DEF Notify
  <2>3. GatewayType' /\ AnswerType'
    BY <1>12, TypeParts DEF Notify, GatewayType, AnswerType, IsResult
  <2>4. kind' \in Kinds /\ method' \in Methods /\ MerchantType'
    BY <1>12, <2>2, TypeParts DEF Notify, choices, MerchantType
  <2> QED BY <2>3, <2>4, TypePartsNext
<1>13. CASE ShopperActs
  <2>1. PICK p \in {Paid, "declined", "expired"} : Advance(p)
    BY <1>13 DEF ShopperActs
  <2>2. p \in DOMAIN Bodies
    BY <1>0, <2>1 DEF Paid
  <2>3. GatewayType'
    BY <2>1, <2>2, TypeParts, AdvanceType
  <2>4. UNCHANGED <<choices, answer, handle, todo, action, order, raised>>
    BY <1>13 DEF ShopperActs
  <2>5. kind' \in Kinds /\ method' \in Methods /\ AnswerType' /\ MerchantType'
    BY <2>4, TypeParts DEF choices, AnswerType, IsResult, MerchantType
  <2> QED BY <2>3, <2>5, TypePartsNext
<1>14. CASE UNCHANGED vars
  BY <1>14, MoveType DEF vars, choices, gateway, TypeOK
<1> QED BY <1>1, <1>2, <1>3, <1>4, <1>5, <1>6, <1>7, <1>8, <1>9, <1>10, <1>11, <1>12, <1>13, <1>14
        DEF Next, Flow

\* The variables keep their types, whatever the gateway answers: a status is one
\* of the enumeration, and what is kept for the next call is a text.
THEOREM TypeCorrect == Spec => []TypeOK
BY TypeInit, TypeStep, PTL DEF Spec
-----------------------------------------------------------------------------
LEMMA ToldInit == Init => Told
BY DEF Init, Told, AnswerTold, NoticesTold, SeenWasReached, ChallengeWasRaised, Reported, Means,
       NoAnswer

\* What was told of stays told.
LEMMA StillReported ==
  ASSUME reached \subseteq reached', NEW status, Reported(status)
  PROVE  Reported(status)'
BY DEF Reported

\* The payment moves on, and is notified of.
LEMMA AdvanceStep ==
  ASSUME Truthful, NoticesTold, NEW p \in DOMAIN Bodies, Advance(p)
  PROVE  NoticesTold' /\ reached \subseteq reached' /\ p \in reached'
<1>1. reached' = reached \cup {p}
  BY DEF Advance
<1>2. \A e \in notices' : e \in notices \/ e \in Events[p]
  BY DEF Advance
<1>3. ASSUME NEW e \in notices', e # Rejected PROVE Reported(e.status)'
  <2>1. CASE e \in notices
    BY <1>1, <1>3, <2>1 DEF NoticesTold, Reported
  <2>2. CASE e \in Events[p]
    <3>1. Names(e.status, p)
      BY <1>3, <2>2 DEF Truthful
    <3> QED BY <1>1, <3>1 DEF Names, Reported
  <2> QED BY <1>2, <2>1, <2>2
<1> QED BY <1>1, <1>3 DEF NoticesTold

\* An operation carried out tells of the phase the payment is in then.
LEMMA OperateStep ==
  ASSUME Truthful, Told, NEW op \in Ops, NEW from, NEW to,
         phase \in from => to \subseteq DOMAIN Bodies, Operate(op, from, to)
  PROVE  Told'
<1>1. CASE phase \in from
  <2>1. PICK p \in to : Advance(p) /\ Respond(op, p)
    BY <1>1 DEF Operate
  <2>2. p \in DOMAIN Bodies /\ UNCHANGED <<todo, order>>
    BY <1>1, <2>1 DEF Operate
  <2>3. NoticesTold' /\ reached \subseteq reached' /\ p \in reached'
    BY <2>1, <2>2, AdvanceStep DEF Told
  <2>4. PICK res \in Answers[op][p] : answer' = [op |-> op, res |-> res]
    BY <2>1 DEF Respond
  <2>5. res # Rejected =>
          /\ Names(res.status, p)
          /\ op \in CardOps /\ Requires3DS(res) => p = "challenge"
    BY <2>2, <2>4 DEF Truthful
  <2>6. answer'.op = op /\ answer'.res = res
    BY <2>4
  <2>7. AnswerTold'
    BY <2>3, <2>5, <2>6 DEF AnswerTold, Names, Reported, Requires3DS
  <2> QED BY <2>2, <2>3, <2>7 DEF Told, SeenWasReached, ChallengeWasRaised
<1>2. CASE phase \notin from
  BY <1>2 DEF Operate, Told, AnswerTold, NoticesTold, SeenWasReached, ChallengeWasRaised,
              Reported, gateway
<1> QED BY <1>1, <1>2

\* A step of the merchant's that sends nothing.
LEMMA QuietStep ==
  ASSUME Told, UNCHANGED <<reached, notices, answer, order>>,
         todo' \in {"redirect", "resubmit"} => todo \in {"redirect", "resubmit"}
  PROVE  Told'
BY DEF Told, AnswerTold, NoticesTold, SeenWasReached, ChallengeWasRaised, Reported

LEMMA DigestPostStep ==
  ASSUME Truthful, Told, NEW op \in Ops, NEW from, NEW to \in SUBSET DOMAIN Bodies,
         DigestPost(op, from, to)
  PROVE  Told'
<1>1. CASE Operate(op, from, to)
  BY <1>1, OperateStep
<1>2. CASE Raises
  BY <1>2, QuietStep DEF Raises, gateway
<1> QED BY <1>1, <1>2 DEF DigestPost

\* The answer arrives.
LEMMA ReceiveStep == ASSUME Told, Receive PROVE Told'
<1>1. answer' = NoAnswer /\ UNCHANGED <<reached, notices>>
  BY DEF Receive, gateway
<1>2. AnswerTold' /\ NoticesTold'
  BY <1>1 DEF Told, AnswerTold, NoticesTold, NoAnswer, Reported
<1>3. CASE answer.res = Rejected
  BY <1>1, <1>2, <1>3 DEF Receive, Told, SeenWasReached, ChallengeWasRaised
<1>4. CASE answer.res # Rejected
  <2>1. order' = answer.res.status /\ todo' = NextTodo(answer.op, answer.res)
    BY <1>4 DEF Receive
  <2>2. answer # NoAnswer
    BY DEF Receive
  <2>3. SeenWasReached'
    BY <1>1, <1>4, <2>1, <2>2 DEF Told, AnswerTold, Reported, SeenWasReached
  <2>4. todo' = "redirect" => answer.op \in CardOps /\ Requires3DS(answer.res)
    BY <2>1 DEF NextTodo
  <2>5. todo' # "resubmit"
    BY <2>1 DEF NextTodo
  <2>6. ChallengeWasRaised'
    BY <1>1, <1>4, <2>2, <2>4, <2>5 DEF Told, AnswerTold, ChallengeWasRaised
  <2> QED BY <1>2, <2>3, <2>6 DEF Told
<1> QED BY <1>3, <1>4

LEMMA ToldStep == Truthful /\ Told /\ [Next]_vars => Told'
<1> SUFFICES ASSUME Truthful, Told, [Next]_vars PROVE Told'
  OBVIOUS
<1>0. DOMAIN Bodies = Phases \ {"absent"}
  BY PhasesType
<1> USE DEF Ops, Phases
<1>1. CASE CreatePayment
  <2>1. Operate("create_payment", {"absent"},
                {IF method = "REFERENCE" THEN "pending" ELSE "created"})
    BY <1>1 DEF CreatePayment
  <2> QED BY <1>0, <2>1, OperateStep
<1>2. CASE PayWithMBWay
  <2>1. DigestPost("pay_with_mbway", {"created"}, {"pending"})
    BY <1>2 DEF PayWithMBWay
  <2> QED BY <1>0, <2>1, DigestPostStep
<1>3. CASE PayWithCard \/ PayWithToken
  <2>1. PICK op \in {"pay_with_card", "pay_with_token"} :
          DigestPost(op, {"created"}, {Paid, "declined", "pending", "challenge"})
    BY <1>3 DEF PayWithCard, PayWithToken
  <2>2. {Paid, "declined", "pending", "challenge"} \in SUBSET DOMAIN Bodies
    BY <1>0 DEF Paid
  <2> QED BY <2>1, <2>2, DigestPostStep
<1>4. CASE Redirect
  BY <1>4, QuietStep DEF Redirect, Raises, Calls, gateway
<1>5. CASE Submit3DS
  <2>1. CASE DigestPost("submit_3ds", {"challenge"}, {Paid, "declined"})
    <3>1. {Paid, "declined"} \in SUBSET DOMAIN Bodies
      BY <1>0 DEF Paid
    <3> QED BY <2>1, <3>1, DigestPostStep
  <2>2. CASE Raises
    BY <2>2, QuietStep DEF Raises, gateway
  <2> QED BY <1>5, <2>1, <2>2 DEF Submit3DS
<1>6. CASE GetPaymentStatus
  <2>1. Operate("get_payment_status", Phases \ {"absent"}, {phase})
    BY <1>6 DEF GetPaymentStatus
  <2>2. phase \in Phases \ {"absent"} => {phase} \subseteq DOMAIN Bodies
    BY <1>0
  <2> QED BY <2>1, <2>2, OperateStep
<1>7. CASE CapturePayment
  <2>1. Operate("capture_payment", {"authorized"}, {"captured"})
    BY <1>7 DEF CapturePayment
  <2> QED BY <1>0, <2>1, OperateStep
<1>8. CASE CancelPayment
  <2>1. Operate("cancel_payment", {"created", "pending", "challenge", "authorized"}, {"canceled"})
    BY <1>8 DEF CancelPayment
  <2> QED BY <1>0, <2>1, OperateStep
<1>9. CASE RefundPayment
  <2>1. Operate("refund_payment", {"captured", "partially_refunded"},
                {"refunded", "partially_refunded"})
    BY <1>9 DEF RefundPayment
  <2> QED BY <1>0, <2>1, OperateStep
<1>10. CASE Receive
  BY <1>10, ReceiveStep
<1>11. CASE TimesOut
  BY <1>11 DEF TimesOut, Told, AnswerTold, NoticesTold, SeenWasReached, ChallengeWasRaised,
               Reported, NoAnswer, gateway
<1>12. ASSUME NEW e \in notices, Notify(e) PROVE Told'
  BY <1>12 DEF Notify, Told, AnswerTold, NoticesTold, SeenWasReached, ChallengeWasRaised, Reported
<1>13. CASE ShopperActs
  <2>1. PICK p \in {Paid, "declined", "expired"} : Advance(p)
    BY <1>13 DEF ShopperActs
  <2>2. p \in DOMAIN Bodies
    BY <1>0, <2>1 DEF Paid
  <2>3. NoticesTold' /\ reached \subseteq reached'
    BY <2>1, <2>2, AdvanceStep DEF Told
  <2>4. UNCHANGED <<answer, todo, order>>
    BY <1>13 DEF ShopperActs
  <2> QED BY <2>3, <2>4 DEF Told, AnswerTold, SeenWasReached, ChallengeWasRaised, Reported
<1>14. CASE UNCHANGED vars
  BY <1>14, QuietStep DEF vars
<1> QED BY <1>1, <1>2, <1>3, <1>4, <1>5, <1>6, <1>7, <1>8, <1>9, <1>10, <1>11, <1>12, <1>13, <1>14
        DEF Next, Flow

\* The inductive invariant, with a gateway that is understood.
THEOREM Invariance == Truthful => (Spec => []IInv)
<1> SUFFICES ASSUME Truthful PROVE Spec => []IInv
  OBVIOUS
<1>1. Told /\ [Next]_vars => Told'
  BY ToldStep
<1>2. Told => IInv
  BY DEF IInv
<1> QED BY <1>1, <1>2, ToldInit, PTL DEF Spec

\* A gateway that is understood never makes the merchant see a status that
\* commits it, unless the payment has been in the phase it names: whatever is
\* lost, rejected by a parser, polled again or notified late.
THEOREM SeenWasReachedHolds == Truthful => (Spec => []SeenWasReached)
<1>1. IInv => SeenWasReached
  BY DEF IInv, Told
<1> QED BY <1>1, Invariance, PTL

\* Nor is a shopper sent to a challenge that it has not raised.
THEOREM ChallengeWasRaisedHolds == Truthful => (Spec => []ChallengeWasRaised)
<1>1. IInv => ChallengeWasRaised
  BY DEF IInv, Told
<1> QED BY <1>1, Invariance, PTL
===============================================================================
