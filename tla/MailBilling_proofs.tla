------------------------- MODULE MailBilling_proofs -------------------------
(* What MailBilling keeps for every value of its constants, however the    *)
(* handlers interleave, in whatever order Stripe delivers its events, and  *)
(* whichever of the calls throw.                                           *)
EXTENDS MailBilling, SequenceTheorems, TLAPS

-----------------------------------------------------------------------------
(* Lists of calls *)

LEMMA CatTyped ==
  ASSUME NEW S, NEW s \in Seq(S), NEW t \in Seq(S)
  PROVE  s \o t \in Seq(S)
BY ConcatProperties

LEMMA TailTyped ==
  ASSUME NEW S, NEW s \in Seq(S), s # << >>
  PROVE  Tail(s) \in Seq(S) /\ Head(s) \in S
BY HeadTailProperties

(* The calls a method makes.  A save of the operator's row is only ever    *)
(* added by the find before it, and no method lifts what the operator has  *)
(* ordered.                                                                *)
Made == Call \ {"saveOperator", "liftOperator"}

LEMMA MadeCalls == \A s \in Seq(Made) : s \in Seq(Call)
BY DEF Made

LEMMA MethodsMade ==
  /\ \A plan \in Plan : Assign(plan) \in Seq(Made) /\ SelectPlan(plan) \in Seq(Made)
  /\ \A status \in {"past_due", "canceled"} : Downgrade(status) \in Seq(Made)
  /\ InvoicePaid \in Seq(Made) /\ CheckoutCompleted \in Seq(Made)
  /\ PaymentFailed \in Seq(Made)
<1>1. \A plan \in Plan : Assign(plan) \in Seq(Made)
  BY DEF Assign, Plan, Call, Made
<1>2. \A plan \in Plan : SelectPlan(plan) \in Seq(Made)
  <2>1. <<"trialing", "save">> \in Seq(Made)
    BY DEF Made, Call, FindBilling
  <2> QED BY <1>1, <2>1, CatTyped DEF SelectPlan
<1>3. \A status \in {"past_due", "canceled"} : Downgrade(status) \in Seq(Made)
  <2>1. \A status \in {"past_due", "canceled"} :
          <<status, "save", "suspendBilling">> \in Seq(Made)
    BY DEF Made, Call, FindBilling, FindOperator
  <2> QED BY <1>1, <2>1, CatTyped DEF Downgrade, Plan
<1>4. ClearBillingAutomatedSuspend \in Seq(Made)
  BY DEF ClearBillingAutomatedSuspend, Made, Call, FindOperator
<1>5. InvoicePaid \in Seq(Made)
  <2>1. <<"active", "save">> \in Seq(Made)
    BY DEF Made, Call, FindBilling
  <2>2. <<"active", "save">> \o ClearBillingAutomatedSuspend \in Seq(Made)
    BY <1>4, <2>1, CatTyped
  <2>3. Assign("corporate") \in Seq(Made)
    BY <1>1 DEF Plan
  <2> QED BY <2>2, <2>3, CatTyped DEF InvoicePaid
<1>6. CheckoutCompleted \in Seq(Made)
  <2>1. <<"checkout", "save">> \in Seq(Made) /\ <<"retrieve", "apply">> \in Seq(Made)
    BY DEF Made, Call, FindBilling
  <2>2. <<"checkout", "save">> \o ClearBillingAutomatedSuspend \in Seq(Made)
    BY <1>4, <2>1, CatTyped
  <2>3. Assign("corporate") \in Seq(Made)
    BY <1>1 DEF Plan
  <2>4. <<"checkout", "save">> \o ClearBillingAutomatedSuspend \o Assign("corporate")
          \in Seq(Made)
    BY <2>2, <2>3, CatTyped
  <2> QED BY <2>1, <2>4, CatTyped DEF CheckoutCompleted
<1>7. PaymentFailed \in Seq(Made)
  BY DEF PaymentFailed, Made, Call, FindBilling
<1> QED BY <1>1, <1>2, <1>3, <1>5, <1>6, <1>7

LEMMA WebhookMade ==
  ASSUME NEW type \in EventType
  PROVE  Webhook(type) \in Seq(Made)
<1>1. <<"apply">> \in Seq(Made)
  BY DEF Made, Call
<1> QED BY <1>1, MethodsMade DEF Webhook, EventType

LEMMA ApplyMade ==
  ASSUME NEW sub \in Subscription
  PROVE  CallsToApply(sub) \in Seq(Made)
<1>1. <<"saveOuter">> \in Seq(Made) /\ << >> \in Seq(Made)
  BY DEF Made, Call
<1>2. PaymentFailed \o <<"saveOuter">> \in Seq(Made) /\ << >> \o <<"saveOuter">> \in Seq(Made)
  BY <1>1, MethodsMade, CatTyped
<1>3. Downgrade("canceled") \in Seq(Made)
  BY MethodsMade
<1> QED BY <1>1, <1>2, <1>3 DEF CallsToApply, Subscription, StripeStatus

LEMMA ExpireMade == Expire \in Seq(Made)
BY MethodsMade DEF Expire

LEMMA CallsTyped ==
  /\ \A plan \in Plan : Assign(plan) \in Seq(Call) /\ SelectPlan(plan) \in Seq(Call)
  /\ \A status \in {"past_due", "canceled"} : Downgrade(status) \in Seq(Call)
  /\ \A type \in EventType : Webhook(type) \in Seq(Call)
  /\ \A sub \in Subscription : CallsToApply(sub) \in Seq(Call)
  /\ Expire \in Seq(Call)
BY MadeCalls, MethodsMade, WebhookMade, ApplyMade, ExpireMade

-----------------------------------------------------------------------------
(* Entities *)

(* Whatever a find makes of the row has a deadline if it is in grace. *)
LEMMA FoundOK ==
  ASSUME NEW call \in FindBilling, billing \in Billing, HasDeadline(billing), now \in Nat
  PROVE  Found(call) \in Billing /\ HasDeadline(Found(call))
<1>1. CASE call = "checkout"
  BY <1>1 DEF Found, Billing, HasDeadline, Null
<1>2. CASE call = "active"
  BY <1>2 DEF Found, Billing, HasDeadline, Null
<1>3. CASE call = "grace"
  <2>1. now + GraceDays \in Nat /\ now + GraceDays # 0
    BY BoundAssumption
  <2> QED BY <1>3, <2>1 DEF Found, Billing, HasDeadline, Null
<1>4. CASE call = "trialing"
  BY <1>4 DEF Found, Billing, HasDeadline, Null
<1>5. CASE call \in {"canceled", "past_due"}
  BY <1>5 DEF Found, Billing, HasDeadline, Null
<1> QED BY <1>1, <1>2, <1>3, <1>4, <1>5 DEF FindBilling

LEMMA AppliedOK ==
  ASSUME NEW sub \in Subscription, billing \in Billing, HasDeadline(billing)
  PROVE  Applied(sub) \in Billing /\ HasDeadline(Applied(sub))
BY DEF Subscription, StripeStatus, Billing, HasDeadline, Applied, Null

(* The row before there is a subscription, and the handler of no request. *)
LEMMA IdleOK ==
  /\ NewBilling \in Billing /\ HasDeadline(NewBilling)
  /\ NoEvent.sub \in Subscription
  /\ Idle \in Handler /\ HasDeadline(Idle.inner) /\ HasDeadline(Idle.outer)
<1>1. NewBilling \in Billing /\ HasDeadline(NewBilling)
  BY DEF NewBilling, Billing, HasDeadline, Null
<1>2. NoEvent.sub \in Subscription
  BY DEF NoEvent, Subscription, StripeStatus
<1>3. Lifted \in OperatorRow
  BY DEF Lifted, OperatorRow
<1>4. << >> \in Seq(Call)
  OBVIOUS
<1> QED BY <1>1, <1>2, <1>3, <1>4 DEF Idle, Handler

(* What a handler holds may be saved at any time. *)
Holds(h) == h \in Handler /\ HasDeadline(h.inner) /\ HasDeadline(h.outer)

(* A handler that moves on with a sound memory keeps every handler sound. *)
LEMMA ContinueKeeps ==
  ASSUME NEW r \in Request, NEW h, Holds(h), NEW calls \in Seq(Call),
         req \in [Request -> Handler], \A q \in Request : Holds(req[q]),
         Continue(r, h, calls)
  PROVE  req' \in [Request -> Handler] /\ \A q \in Request : Holds(req'[q])
<1> DEFINE k == IF calls = << >> THEN Idle ELSE [h EXCEPT !.calls = calls]
<1>1. Holds(k)
  <2>1. Holds(Idle)
    BY IdleOK DEF Holds
  <2>2. Holds([h EXCEPT !.calls = calls])
    BY DEF Holds, Handler
  <2> QED BY <2>1, <2>2
<1>2. req' = [req EXCEPT ![r] = k]
  BY DEF Continue
<1>3. k \in Handler
  BY <1>1 DEF Holds
<1> HIDE DEF k
<1>4. req' \in [Request -> Handler]
  BY <1>2, <1>3
<1>5. \A q \in Request : Holds(req'[q])
  BY <1>1, <1>2
<1> QED BY <1>4, <1>5

(* The inductive invariant with the handlers' part under one name. *)
LEMMA IInvHolds == IInv <=> TypeOK /\ HasDeadline(billing) /\ \A r \in Request : Holds(req[r])
BY DEF IInv, TypeOK, Holds

(* A handler's next call and the calls after it *)
LEMMA NextCallTyped ==
  ASSUME TypeOK, NEW r \in Request, InFlight(r)
  PROVE  req[r].calls \in Seq(Call) /\ Rest(r) \in Seq(Call) /\ NextCall(r) \in Call
<1>1. req[r].calls \in Seq(Call) /\ req[r].calls # << >>
  BY DEF TypeOK, Handler, InFlight
<1> QED BY <1>1, TailTyped DEF Rest, NextCall

(* Events Stripe queues *)
LEMMA QueuedTyped ==
  ASSUME NEW sub \in Subscription, NEW type \in EventType
  PROVE  Queued(sub, type) \in Seq(Event)
<1>1. [type |-> type, sub |-> sub] \in Event
  BY DEF Event
<1>2. <<[type |-> type, sub |-> sub]>> \in Seq(Event) /\ << >> \in Seq(Event)
  BY <1>1
<1> QED BY <1>2 DEF Queued

-----------------------------------------------------------------------------
(* The steps of a handler *)

LEMMA FindKeeps ==
  ASSUME IInv, NEW r \in Request, Find(r)
  PROVE  IInv'
<1> USE DEF Find
<1>1. NextCall(r) \in FindBilling /\ Rest(r) \in Seq(Call)
  BY NextCallTyped DEF IInv, Waits
<1>2. Found(NextCall(r)) \in Billing /\ HasDeadline(Found(NextCall(r)))
  BY <1>1, FoundOK DEF IInv, TypeOK
<1>3. Holds([req[r] EXCEPT !.inner = Found(NextCall(r))])
  BY <1>2, IInvHolds DEF Holds, Handler
<1>4. req' \in [Request -> Handler] /\ \A q \in Request : Holds(req'[q])
  BY <1>1, <1>3, ContinueKeeps, IInvHolds DEF TypeOK
<1> QED BY <1>4 DEF IInv, TypeOK, Holds, HasDeadline

LEMMA SaveKeeps ==
  ASSUME IInv, NEW r \in Request, Save(r)
  PROVE  IInv'
<1> USE DEF Save
<1>1. Rest(r) \in Seq(Call)
  BY NextCallTyped DEF IInv, Waits
<1>2. Holds(req[r])
  BY IInvHolds
<1>3. req' \in [Request -> Handler] /\ \A q \in Request : Holds(req'[q])
  BY <1>1, <1>2, ContinueKeeps, IInvHolds DEF TypeOK
<1>4. billing' \in Billing /\ HasDeadline(billing')
  BY <1>2 DEF Holds, Handler
<1> QED BY <1>3, <1>4 DEF IInv, TypeOK, Holds, HasDeadline

LEMMA ApplyKeeps ==
  ASSUME IInv, NEW r \in Request, Apply(r)
  PROVE  IInv'
<1> USE DEF Apply
<1>1. Rest(r) \in Seq(Call)
  BY NextCallTyped DEF IInv, Waits
<1>2. req[r].sub \in Subscription
  BY DEF IInv, TypeOK, Handler
<1>3. CallsToApply(req[r].sub) \o Rest(r) \in Seq(Call)
  BY <1>1, <1>2, CallsTyped, CatTyped
<1>4. Applied(req[r].sub) \in Billing /\ HasDeadline(Applied(req[r].sub))
  BY <1>2, AppliedOK DEF IInv, TypeOK
<1>5. Holds([req[r] EXCEPT !.outer = Applied(req[r].sub)])
  BY <1>4, IInvHolds DEF Holds, Handler
<1>6. req' \in [Request -> Handler] /\ \A q \in Request : Holds(req'[q])
  BY <1>3, <1>5, ContinueKeeps, IInvHolds DEF TypeOK
<1> QED BY <1>6 DEF IInv, TypeOK, Holds, HasDeadline

LEMMA ViewKeeps ==
  ASSUME IInv, NEW r \in Request, View(r)
  PROVE  IInv'
<1> USE DEF View
<1>1. Expire \o Rest(r) \in Seq(Call)
  BY NextCallTyped, CallsTyped, CatTyped DEF IInv, Waits
<1>2. req' \in [Request -> Handler] /\ \A q \in Request : Holds(req'[q])
  BY <1>1, ContinueKeeps, IInvHolds DEF TypeOK
<1> QED BY <1>2 DEF IInv, TypeOK, Holds, HasDeadline

LEMMA FindSuspensionKeeps ==
  ASSUME IInv, NEW r \in Request, FindSuspension(r)
  PROVE  IInv'
<1>1. NextCall(r) \in FindOperator /\ Rest(r) \in Seq(Call)
  BY NextCallTyped DEF IInv, Waits, FindSuspension
<1>2. <<"saveOperator">> \o Rest(r) \in Seq(Call)
  <2>1. <<"saveOperator">> \in Seq(Call)
    BY DEF Call
  <2> QED BY <1>1, <2>1, CatTyped
<1>3. \A call \in FindOperator : FoundOperator(call) \in OperatorRow
  BY DEF FindOperator, FoundOperator, SuspendedBy, Lifted, OperatorRow
<1>4. Holds([req[r] EXCEPT !.operator = FoundOperator(NextCall(r))]) /\ Holds(req[r])
  BY <1>1, <1>3, IInvHolds DEF Holds, Handler
<1>5. req \in [Request -> Handler] /\ \A q \in Request : Holds(req[q])
  BY IInvHolds DEF TypeOK
<1>6. req' \in [Request -> Handler] /\ \A q \in Request : Holds(req'[q])
  <2>1. CASE Continue(r, req[r], Rest(r))
    BY <1>1, <1>4, <1>5, <2>1, ContinueKeeps
  <2>2. CASE Continue(r, [req[r] EXCEPT !.operator = FoundOperator(NextCall(r))],
                      <<"saveOperator">> \o Rest(r))
    BY <1>2, <1>4, <1>5, <2>2, ContinueKeeps
  <2> QED BY <2>1, <2>2 DEF FindSuspension
<1>7. UNCHANGED <<billing, operator, plans, stripe, events, now, spent>>
  BY DEF FindSuspension
<1> QED BY <1>6, <1>7 DEF IInv, TypeOK, Holds, HasDeadline

LEMMA SaveSuspensionKeeps ==
  ASSUME IInv, NEW r \in Request, SaveSuspension(r)
  PROVE  IInv'
<1> USE DEF SaveSuspension
<1>1. req' \in [Request -> Handler] /\ \A q \in Request : Holds(req'[q])
  BY NextCallTyped, ContinueKeeps, IInvHolds DEF IInv, TypeOK, Waits
<1>2. operator' \in OperatorRow
  BY DEF IInv, TypeOK, Handler
<1> QED BY <1>1, <1>2 DEF IInv, TypeOK, Holds, HasDeadline

LEMMA ChangePlanKeeps ==
  ASSUME IInv, NEW r \in Request, ChangePlan(r)
  PROVE  IInv'
<1> USE DEF ChangePlan
<1>1. Rest(r) \in Seq(Call)
  BY NextCallTyped DEF IInv, Waits
<1>2. req' \in [Request -> Handler] /\ \A q \in Request : Holds(req'[q])
  BY <1>1, ContinueKeeps, IInvHolds DEF TypeOK
<1>3. plans' \in [Plan -> Nat]
  BY DEF IInv, TypeOK
<1> QED BY <1>2, <1>3 DEF IInv, TypeOK, Holds, HasDeadline

LEMMA StripeUpdateKeeps ==
  ASSUME IInv, NEW r \in Request, StripeUpdate(r)
  PROVE  IInv'
<1> DEFINE sub == [stripe EXCEPT !.cancel = req[r].sub.cancel]
<1> USE DEF StripeUpdate
<1>1. sub \in Subscription
  BY DEF IInv, TypeOK, Handler, Subscription
<1>2. Queued(sub, "customer.subscription.updated") \in Seq(Event)
  BY <1>1, QueuedTyped DEF EventType
<1>3. events \o Queued(sub, "customer.subscription.updated") \in Seq(Event)
  BY <1>2, CatTyped DEF IInv, TypeOK
<1>4. Rest(r) \in Seq(Call) /\ << >> \in Seq(Call)
  BY NextCallTyped DEF IInv, Waits
<1>5. req' \in [Request -> Handler] /\ \A q \in Request : Holds(req'[q])
  <2>1. CASE Continue(r, req[r], Rest(r))
    BY <1>4, <2>1, ContinueKeeps, IInvHolds DEF TypeOK
  <2>2. CASE Continue(r, Idle, << >>)
    <3>1. Holds(Idle)
      BY IdleOK DEF Holds
    <3> QED BY <1>4, <2>2, <3>1, ContinueKeeps, IInvHolds DEF TypeOK
  <2> QED BY <2>1, <2>2
<1>6. stripe' \in Subscription /\ events' \in Seq(Event)
  BY <1>1, <1>3 DEF IInv, TypeOK
<1> HIDE DEF sub
<1> QED BY <1>5, <1>6 DEF IInv, TypeOK, Holds, HasDeadline

LEMMA RetrieveKeeps ==
  ASSUME IInv, NEW r \in Request, Retrieve(r)
  PROVE  IInv'
<1> USE DEF Retrieve
<1>1. Rest(r) \in Seq(Call)
  BY NextCallTyped DEF IInv, Waits
<1>2. Holds([req[r] EXCEPT !.sub = stripe])
  BY IInvHolds DEF Holds, Handler, IInv, TypeOK
<1>3. req' \in [Request -> Handler] /\ \A q \in Request : Holds(req'[q])
  BY <1>1, <1>2, ContinueKeeps, IInvHolds DEF TypeOK
<1> QED BY <1>3 DEF IInv, TypeOK, Holds, HasDeadline

-----------------------------------------------------------------------------
(* The start and the end of a handler *)

(* A new handler that is idle but for its event and what the event says. *)
LEMMA DeliverKeeps ==
  ASSUME IInv, NEW r \in Request, Deliver(r)
  PROVE  IInv'
<1>1. PICK i \in 1 .. Len(events) :
        /\ events' = RemoveAt(events, i)
        /\ Continue(r, [Idle EXCEPT !.event = events[i], !.sub = events[i].sub],
                    Webhook(events[i].type))
  BY DEF Deliver
<1>2. PICK e \in Event : e = events[i]
  BY DEF IInv, TypeOK
<1>3. e.sub \in Subscription /\ e.type \in EventType
  BY <1>2 DEF Event
<1>4. Holds([Idle EXCEPT !.event = e, !.sub = e.sub])
  BY <1>2, <1>3, IdleOK DEF Holds, Handler
<1>5. Continue(r, [Idle EXCEPT !.event = e, !.sub = e.sub], Webhook(e.type))
  BY <1>1, <1>2
<1>6. req' \in [Request -> Handler] /\ \A q \in Request : Holds(req'[q])
  BY <1>3, <1>4, <1>5, CallsTyped, ContinueKeeps, IInvHolds DEF TypeOK
<1>7. events' \in Seq(Event)
  <2>1. events \in Seq(Event) /\ Len(events) \in Nat
    BY LenProperties DEF IInv, TypeOK
  <2>2. SubSeq(events, 1, i - 1) \in Seq(Event)
    BY <2>1, SubSeqProperties
  <2>3. SubSeq(events, i + 1, Len(events)) \in Seq(Event)
    BY <2>1, SubSeqProperties
  <2> QED BY <1>1, <2>2, <2>3, CatTyped DEF RemoveAt
<1>8. UNCHANGED <<billing, operator, plans, stripe, now, spent>>
  BY DEF Deliver
<1> QED BY <1>6, <1>7, <1>8 DEF IInv, TypeOK, Holds, HasDeadline

LEMMA ExpireGraceKeeps ==
  ASSUME IInv, NEW r \in Request, ExpireGrace(r)
  PROVE  IInv'
<1> USE DEF ExpireGrace
<1>1. Holds(Idle)
  BY IdleOK DEF Holds
<1>2. req' \in [Request -> Handler] /\ \A q \in Request : Holds(req'[q])
  BY <1>1, CallsTyped, ContinueKeeps, IInvHolds DEF TypeOK
<1> QED BY <1>2 DEF IInv, TypeOK, Holds, HasDeadline

(* A console's request *)
LEMMA ConsoleKeeps ==
  ASSUME IInv, NEW r \in Request, Console(r)
  PROVE  IInv'
<1>1. Holds(Idle) /\ req \in [Request -> Handler] /\ \A q \in Request : Holds(req[q])
  BY IdleOK, IInvHolds DEF Holds, TypeOK
<1>2. req' \in [Request -> Handler] /\ \A q \in Request : Holds(req'[q])
  <2>1. ASSUME NEW cancel \in BOOLEAN, CancelOrResume(r, cancel)
        PROVE  req' \in [Request -> Handler] /\ \A q \in Request : Holds(req'[q])
    <3> DEFINE h == [Idle EXCEPT !.outer = [billing EXCEPT !.cancelAtPeriodEnd = cancel],
                                 !.sub = [status |-> "none", cancel |-> cancel]]
    <3>1. /\ [billing EXCEPT !.cancelAtPeriodEnd = cancel] \in Billing
          /\ HasDeadline([billing EXCEPT !.cancelAtPeriodEnd = cancel])
      BY DEF IInv, TypeOK, Billing, HasDeadline
    <3>2. [status |-> "none", cancel |-> cancel] \in Subscription
      BY DEF Subscription, StripeStatus
    <3>3. Holds(h)
      BY <3>1, <3>2, <1>1 DEF Holds, Handler
    <3>4. <<"stripeUpdate", "saveOuter", "retrieve", "apply", "view">> \in Seq(Call)
      BY DEF Call
    <3>5. Downgrade("canceled") \o <<"view">> \in Seq(Call)
      <4>1. <<"view">> \in Seq(Call)
        BY DEF Call
      <4> QED BY <4>1, CallsTyped, CatTyped
    <3> DEFINE calls == IF billing.subscribed
                        THEN <<"stripeUpdate", "saveOuter", "retrieve", "apply", "view">>
                        ELSE Downgrade("canceled") \o <<"view">>
    <3>6. Continue(r, h, calls)
      BY <2>1 DEF CancelOrResume
    <3>7. calls \in Seq(Call)
      BY <3>4, <3>5
    <3> HIDE DEF h, calls
    <3> QED BY <1>1, <3>3, <3>6, <3>7, ContinueKeeps
  <2>2. ASSUME NEW plan \in Plan, Continue(r, Idle, SelectPlan(plan))
        PROVE  req' \in [Request -> Handler] /\ \A q \in Request : Holds(req'[q])
    BY <1>1, <2>2, CallsTyped, ContinueKeeps
  <2>3. CASE Continue(r, Idle, <<"suspendOperator">>)
    <3>1. <<"suspendOperator">> \in Seq(Call)
      BY DEF Call, FindOperator
    <3> QED BY <1>1, <2>3, <3>1, ContinueKeeps
  <2>4. CASE Continue(r, Idle, <<"liftOperator">>)
    <3>1. <<"liftOperator">> \in Seq(Call)
      BY DEF Call, FindOperator
    <3> QED BY <1>1, <2>4, <3>1, ContinueKeeps
  <2> QED BY <2>1, <2>2, <2>3, <2>4 DEF Console
<1>3. spent' \in [moves : Nat, calls : Nat, failures : Nat]
  BY DEF Console, IInv, TypeOK
<1>4. UNCHANGED <<billing, operator, plans, stripe, events, now>>
  BY DEF Console
<1> QED BY <1>2, <1>3, <1>4 DEF IInv, TypeOK, Holds, HasDeadline

LEMMA FailKeeps ==
  ASSUME IInv, NEW r \in Request, Fail(r)
  PROVE  IInv'
<1>1. Holds(Idle) /\ << >> \in Seq(Call)
  BY IdleOK DEF Holds
<1>2. req' \in [Request -> Handler] /\ \A q \in Request : Holds(req'[q])
  BY <1>1, ContinueKeeps, IInvHolds DEF Fail, TypeOK
<1>3. events' \in Seq(Event)
  <2>1. req[r].event \in Event \union {NoEvent}
    BY DEF IInv, TypeOK, Handler
  <2> QED BY <2>1, AppendProperties DEF Fail, IInv, TypeOK
<1>4. spent' \in [moves : Nat, calls : Nat, failures : Nat]
  BY DEF Fail, IInv, TypeOK
<1>5. UNCHANGED <<billing, operator, plans, stripe, now>>
  BY DEF Fail
<1> QED BY <1>2, <1>3, <1>4, <1>5 DEF IInv, TypeOK, Holds, HasDeadline

-----------------------------------------------------------------------------
(* Stripe and the clock *)

(* A move of the subscription and what it leaves alone. *)
LEMMA MovesTyped ==
  ASSUME IInv, NEW from, NEW to \in StripeStatus, Moves(from, to), events' \in Seq(Event)
  PROVE  IInv'
<1>1. stripe' \in Subscription
  BY DEF Moves, IInv, TypeOK, Subscription
<1>2. spent' \in [moves : Nat, calls : Nat, failures : Nat]
  BY DEF Moves, IInv, TypeOK
<1> QED BY <1>1, <1>2 DEF Moves, IInv, TypeOK, Holds, HasDeadline

(* Two events join the queue. *)
LEMMA TwoQueued ==
  ASSUME TypeOK, stripe' \in Subscription, NEW a \in EventType, NEW b \in EventType
  PROVE  /\ events \o Queued(stripe', a) \in Seq(Event)
         /\ events \o Queued(stripe', a) \o Queued(stripe', b) \in Seq(Event)
<1>1. PICK sub \in Subscription : sub = stripe'
  OBVIOUS
<1>2. Queued(sub, a) \in Seq(Event) /\ Queued(sub, b) \in Seq(Event)
  BY QueuedTyped
<1>3. events \o Queued(sub, a) \in Seq(Event)
  BY <1>2, CatTyped DEF TypeOK
<1>4. events \o Queued(sub, a) \o Queued(sub, b) \in Seq(Event)
  BY <1>2, <1>3, CatTyped
<1> QED BY <1>1, <1>3, <1>4

LEMMA StripeKeeps ==
  ASSUME IInv, Stripe
  PROVE  IInv'
<1>0. TypeOK
  BY DEF IInv
<1>1. ASSUME NEW from, NEW to \in StripeStatus, Moves(from, to) PROVE stripe' \in Subscription
  BY <1>0, <1>1 DEF Moves, TypeOK, Subscription
<1>2. CASE Checkout
  <2>1. Moves({"none", "canceled"}, "active") /\ "active" \in StripeStatus
    BY <1>2 DEF Checkout, StripeStatus
  <2>2. events' \in Seq(Event)
    BY <1>0, <1>1, <1>2, <2>1, TwoQueued DEF Checkout, EventType
  <2> QED BY <2>1, <2>2, MovesTyped
<1>3. CASE PaymentFails
  <2>1. Moves({"active"}, "past_due") /\ "past_due" \in StripeStatus
    BY <1>3 DEF PaymentFails, StripeStatus
  <2>2. events' \in Seq(Event)
    BY <1>0, <1>1, <1>3, <2>1, TwoQueued DEF PaymentFails, EventType
  <2> QED BY <2>1, <2>2, MovesTyped
<1>4. CASE PaymentRecovers
  <2>1. Moves({"past_due"}, "active") /\ "active" \in StripeStatus
    BY <1>4 DEF PaymentRecovers, StripeStatus
  <2>2. events' \in Seq(Event)
    BY <1>0, <1>1, <1>4, <2>1, TwoQueued DEF PaymentRecovers, EventType
  <2> QED BY <2>1, <2>2, MovesTyped
<1>5. CASE SubscriptionEnds
  <2>1. Moves({"active", "past_due"}, "canceled") /\ "canceled" \in StripeStatus
    BY <1>5 DEF SubscriptionEnds, StripeStatus
  <2>2. events' \in Seq(Event)
    BY <1>0, <1>1, <1>5, <2>1, TwoQueued DEF SubscriptionEnds, EventType
  <2> QED BY <2>1, <2>2, MovesTyped
<1> QED BY <1>2, <1>3, <1>4, <1>5 DEF Stripe

LEMMA TickKeeps ==
  ASSUME IInv, Tick
  PROVE  IInv'
BY DEF Tick, IInv, TypeOK, HasDeadline

-----------------------------------------------------------------------------
(* The theorems *)

LEMMA InitOK ==
  ASSUME Init
  PROVE  IInv
<1>1. NewBilling \in Billing /\ HasDeadline(NewBilling) /\ Idle \in Handler
      /\ HasDeadline(Idle.inner) /\ HasDeadline(Idle.outer)
  BY IdleOK
<1>2. Lifted \in OperatorRow
  BY DEF Lifted, OperatorRow
<1>3. stripe \in Subscription /\ plans \in [Plan -> Nat] /\ events \in Seq(Event)
  BY DEF Init, Subscription, StripeStatus
<1> QED BY <1>1, <1>2, <1>3 DEF Init, IInv, TypeOK

LEMMA StepKeeps ==
  ASSUME IInv, [Next]_vars
  PROVE  IInv'
<1>1. CASE UNCHANGED vars
  BY <1>1 DEF vars, moving, IInv, TypeOK, HasDeadline
<1>2. CASE Tick
  BY <1>2, TickKeeps
<1>3. CASE Stripe
  BY <1>3, StripeKeeps
<1>4. ASSUME NEW r \in Request,
             Deliver(r) \/ ExpireGrace(r) \/ Console(r) \/ Step(r) \/ Fail(r)
      PROVE  IInv'
  <2>1. CASE Step(r)
    BY <2>1, FindKeeps, SaveKeeps, ApplyKeeps, ViewKeeps, FindSuspensionKeeps,
       SaveSuspensionKeeps, ChangePlanKeeps, StripeUpdateKeeps, RetrieveKeeps DEF Step
  <2> QED BY <1>4, <2>1, DeliverKeeps, ExpireGraceKeeps, ConsoleKeeps, FailKeeps
<1> QED BY <1>1, <1>2, <1>3, <1>4 DEF Next

(* The row is never in a grace without an end, nor is any entity a handler *)
(* holds, whatever has been read before whatever is saved                  *)
(* (MailSubscriptionLifecycleService: recordStripePaymentFailed and        *)
(* applyStripeSubscriptionEvent).                                          *)
THEOREM Inductive == Spec => []IInv
<1>1. Init => IInv
  BY InitOK
<1>2. IInv /\ [Next]_vars => IInv'
  BY StepKeeps
<1> QED BY <1>1, <1>2, PTL DEF Spec

(* The rows, the queue of events and the handlers keep their shape. *)
THEOREM TypeCorrect == Spec => []TypeOK
<1>1. IInv => TypeOK
  BY DEF IInv
<1> QED BY <1>1, Inductive, PTL

(* processAllGraceExpiries looks for rows in grace whose end has come: no  *)
(* row in grace lacks an end, which would keep it from ever being found.   *)
THEOREM GraceKeepsItsDeadline == Spec => []GraceHasDeadline
<1>1. IInv => GraceHasDeadline
  BY DEF IInv, GraceHasDeadline
<1> QED BY <1>1, Inductive, PTL

-----------------------------------------------------------------------------
(* The operator's suspension                                               *)

(* What a handler may still have to call: the save of the operator's row   *)
(* comes first or not at all, and only a request of the console lifts.     *)
Makes(event) == IF event = NoEvent THEN Made \union {"liftOperator"} ELSE Made

CallsFit(h) ==
  \/ h.calls \in Seq(Makes(h.event))
  \/ h.calls # << >> /\ Head(h.calls) = "saveOperator" /\ Tail(h.calls) \in Seq(Makes(h.event))

(* The operator's reason is given with a suspension only. *)
Firm(row) == row.suspendReason = "operator" => row.suspended

(* A webhook's handler is about to lift. *)
Lifting(h) ==
  h.calls # << >> /\ Head(h.calls) = "saveOperator" /\ h.event # NoEvent /\ ~h.operator.suspended

Alone(r) == \A q \in Request \ {r} : ~InFlight(q)

OInv ==
  /\ Firm(operator)
  /\ \A r \in Request : CallsFit(req[r]) /\ Firm(req[r].operator)
  /\ serial => \A r \in Request :
       /\ InFlight(r) => Alone(r)
       /\ Lifting(req[r]) => operator.suspendReason = "billing"

LEMMA MakesMade == \A event : \A s \in Seq(Made) : s \in Seq(Makes(event))
BY DEF Makes

(* The handler that moves; the others are as they were. *)
LEMMA ContinueFits ==
  ASSUME TypeOK, OInv, NEW r \in Request, serial => Alone(r), NEW h \in Handler, NEW calls,
         serial' = serial, Continue(r, h, calls), Firm(operator'), Firm(h.operator),
         CallsFit([h EXCEPT !.calls = calls]),
         Lifting([h EXCEPT !.calls = calls]) => operator'.suspendReason = "billing"
  PROVE  OInv'
<1> DEFINE k == IF calls = << >> THEN Idle ELSE [h EXCEPT !.calls = calls]
<1>1. req' = [req EXCEPT ![r] = k] /\ req \in [Request -> Handler]
  BY DEF Continue, TypeOK
<1>2. CallsFit(k) /\ Firm(k.operator) /\ (Lifting(k) => operator'.suspendReason = "billing")
  <2>1. CASE calls = << >>
    <3>1. << >> \in Seq(Makes(NoEvent))
      OBVIOUS
    <3> QED BY <2>1, <3>1 DEF Idle, CallsFit, Firm, Lifting, Lifted
  <2>2. CASE calls # << >>
    BY <2>2 DEF Handler
  <2> QED BY <2>1, <2>2
<1> HIDE DEF k
<1>3. req'[r] = k /\ \A q \in Request \ {r} : req'[q] = req[q]
  BY <1>1
<1>4. ASSUME NEW q \in Request
      PROVE  (CallsFit(req[q]) /\ Firm(req[q].operator))'
  BY <1>2, <1>3 DEF OInv, CallsFit, Firm
<1>5. ASSUME serial, NEW q \in Request
      PROVE  /\ InFlight(q)' => Alone(q)'
             /\ Lifting(req[q])' => operator'.suspendReason = "billing"
  <2>1. \A o \in Request \ {r} : ~InFlight(o)'
    BY <1>3, <1>5 DEF Alone, InFlight
  <2>2. CASE q = r
    BY <1>2, <1>3, <2>1, <2>2 DEF Alone, Lifting
  <2>3. CASE q # r
    BY <2>1, <2>3 DEF InFlight, Lifting
  <2> QED BY <2>2, <2>3
<1> QED BY <1>4, <1>5 DEF OInv, Firm

(* A handler that makes a call other than the save of the operator's row   *)
(* and goes on with some of a method's before the rest.                    *)
LEMMA CallFits ==
  ASSUME IInv, OInv, NEW r \in Request, InFlight(r), NextCall(r) # "saveOperator",
         NEW h \in Handler, h.event = req[r].event, h.operator = req[r].operator,
         NEW more \in Seq(Made), NEW calls, calls = more \o Rest(r),
         serial' = serial, operator' = operator, Continue(r, h, calls)
  PROVE  OInv'
<1>1. Rest(r) \in Seq(Makes(h.event))
  BY TailTyped DEF OInv, CallsFit, NextCall, Rest, InFlight
<1>2. calls \in Seq(Makes(h.event))
  <2>1. more \in Seq(Makes(h.event))
    BY MakesMade
  <2> QED BY <1>1, <2>1, CatTyped
<1>3. calls # << >> => Head(calls) # "saveOperator"
  BY <1>2, TailTyped DEF Makes, Made
<1>4. CallsFit([h EXCEPT !.calls = calls]) /\ ~Lifting([h EXCEPT !.calls = calls])
  BY <1>2, <1>3 DEF Handler, CallsFit, Lifting
<1>5. TypeOK /\ (serial => Alone(r)) /\ Firm(operator') /\ Firm(h.operator)
  BY DEF IInv, OInv
<1> QED BY <1>4, <1>5, ContinueFits

(* A handler that begins. *)
LEMMA StartFits ==
  ASSUME IInv, OInv, NEW r \in Request, MayStart(r), NEW h \in Handler, h.operator = Lifted,
         NEW calls \in Seq(Makes(h.event)),
         serial' = serial, operator' = operator, Continue(r, h, calls)
  PROVE  OInv'
<1>1. calls # << >> => Head(calls) # "saveOperator"
  BY TailTyped DEF Makes, Made
<1>2. CallsFit([h EXCEPT !.calls = calls]) /\ ~Lifting([h EXCEPT !.calls = calls])
  BY <1>1 DEF Handler, CallsFit, Lifting
<1>3. serial => Alone(r)
  BY DEF MayStart, Alone
<1>4. TypeOK /\ Firm(operator') /\ Firm(h.operator)
  BY DEF IInv, OInv, Firm, Lifted
<1> QED BY <1>2, <1>3, <1>4, ContinueFits

LEMMA EndFits ==
  ASSUME IInv, OInv, serial' = serial, operator' = operator, NEW r \in Request, InFlight(r),
         Continue(r, Idle, << >>)
  PROVE  OInv'
<1>1. PICK h : h = Idle
  OBVIOUS
<1>2. h \in Handler /\ h.operator = Lifted /\ h.calls = << >> /\ h.event = NoEvent
  BY <1>1, IdleOK DEF Idle
<1>3. PICK calls : calls = << >>
  OBVIOUS
<1>4. calls \in Seq(Makes(NoEvent))
  BY <1>3
<1>5. CallsFit([h EXCEPT !.calls = calls]) /\ ~Lifting([h EXCEPT !.calls = calls])
  BY <1>2, <1>3, <1>4 DEF Handler, CallsFit, Lifting
<1>6. TypeOK /\ (serial => Alone(r)) /\ Firm(operator') /\ Firm(h.operator)
  BY <1>2 DEF IInv, OInv, Firm, Lifted
<1> QED BY <1>1, <1>2, <1>3, <1>5, <1>6, ContinueFits

LEMMA ConsoleFits ==
  ASSUME IInv, OInv, serial' = serial, NEW r \in Request, Console(r)
  PROVE  OInv'
<1>1. MayStart(r) /\ operator' = operator /\ TypeOK
  BY DEF Console, IInv
<1>2. ASSUME NEW calls \in Seq(Makes(NoEvent)), Continue(r, Idle, calls) PROVE OInv'
  <2>1. Idle \in Handler /\ Idle.operator = Lifted /\ Idle.event = NoEvent
    BY IdleOK DEF Idle
  <2> QED BY <1>1, <1>2, <2>1, StartFits
<1>3. ASSUME NEW cancel \in BOOLEAN, CancelOrResume(r, cancel) PROVE OInv'
  <2>1. PICK h : h = [Idle EXCEPT !.outer = [billing EXCEPT !.cancelAtPeriodEnd = cancel],
                                  !.sub = [status |-> "none", cancel |-> cancel]]
    OBVIOUS
  <2>2. [billing EXCEPT !.cancelAtPeriodEnd = cancel] \in Billing
    BY <1>1 DEF TypeOK, Billing
  <2>3. [status |-> "none", cancel |-> cancel] \in Subscription
    BY DEF Subscription, StripeStatus
  <2>4. h \in Handler /\ h.operator = Lifted /\ h.event = NoEvent
    BY <2>1, <2>2, <2>3, IdleOK DEF Handler, Idle
  <2>5. PICK calls : calls = IF billing.subscribed
                             THEN <<"stripeUpdate", "saveOuter", "retrieve", "apply", "view">>
                             ELSE Downgrade("canceled") \o <<"view">>
    OBVIOUS
  <2>6. <<"stripeUpdate", "saveOuter", "retrieve", "apply", "view">> \in Seq(Made)
    BY DEF Made, Call
  <2>7. Downgrade("canceled") \o <<"view">> \in Seq(Made)
    <3>1. <<"view">> \in Seq(Made)
      BY DEF Made, Call
    <3> QED BY <3>1, MethodsMade, CatTyped
  <2>8. calls \in Seq(Makes(h.event))
    BY <2>5, <2>6, <2>7, MakesMade
  <2>9. Continue(r, h, calls)
    BY <1>3, <2>1, <2>5 DEF CancelOrResume
  <2> QED BY <1>1, <2>4, <2>8, <2>9, StartFits
<1>4. ASSUME NEW plan \in Plan, Continue(r, Idle, SelectPlan(plan)) PROVE OInv'
  BY <1>2, <1>4, MethodsMade, MakesMade
<1>5. CASE Continue(r, Idle, <<"suspendOperator">>)
  <2>1. <<"suspendOperator">> \in Seq(Makes(NoEvent))
    BY DEF Makes, Made, Call, FindOperator
  <2> QED BY <1>2, <1>5, <2>1
<1>6. CASE Continue(r, Idle, <<"liftOperator">>)
  <2>1. <<"liftOperator">> \in Seq(Makes(NoEvent))
    BY DEF Makes, Made, Call, FindOperator
  <2> QED BY <1>2, <1>6, <2>1
<1> QED BY <1>3, <1>4, <1>5, <1>6 DEF Console

LEMMA FindSuspensionFits ==
  ASSUME IInv, OInv, serial' = serial, NEW r \in Request, FindSuspension(r)
  PROVE  OInv'
<1>1. /\ InFlight(r) /\ NextCall(r) \in FindOperator /\ operator' = operator
      /\ TypeOK /\ req[r] \in Handler
  BY DEF FindSuspension, Waits, IInv, TypeOK
<1>2. NextCall(r) # "saveOperator"
  BY <1>1 DEF FindOperator
<1>3. CASE NextCall(r) = "clearBilling" /\ IsNotBillings
  <2>1. Continue(r, req[r], Rest(r)) /\ << >> \in Seq(Made)
    BY <1>3 DEF FindSuspension
  <2>2. Rest(r) = << >> \o Rest(r)
    BY <1>1, NextCallTyped, ConcatEmptySeq
  <2> QED BY <1>1, <1>2, <2>1, <2>2, CallFits
<1>4. CASE ~(NextCall(r) = "clearBilling" /\ IsNotBillings)
  <2>1. PICK h : h = [req[r] EXCEPT !.operator = FoundOperator(NextCall(r))]
    OBVIOUS
  <2>2. FoundOperator(NextCall(r)) \in OperatorRow /\ Firm(FoundOperator(NextCall(r)))
    BY <1>1 DEF FindOperator, FoundOperator, SuspendedBy, Lifted, OperatorRow, Firm
  <2>3. h \in Handler /\ h.event = req[r].event /\ h.operator = FoundOperator(NextCall(r))
    BY <1>1, <2>1, <2>2 DEF Handler
  <2>4. PICK calls : calls = <<"saveOperator">> \o Rest(r)
    OBVIOUS
  <2>5. Rest(r) \in Seq(Call) /\ <<"saveOperator">> \in Seq(Call)
    BY <1>1, NextCallTyped DEF Call
  <2>6. calls # << >> /\ Head(calls) = "saveOperator" /\ Tail(calls) = Rest(r)
    BY <2>4, <2>5
  <2>7. /\ NextCall(r) \in Makes(req[r].event)
        /\ Rest(r) \in Seq(Makes(req[r].event))
    BY <1>1, <1>2, TailTyped DEF OInv, CallsFit, NextCall, Rest, InFlight
  <2>8. CallsFit([h EXCEPT !.calls = calls])
    BY <2>3, <2>6, <2>7 DEF Handler, CallsFit
  <2>9. Lifting([h EXCEPT !.calls = calls]) => operator'.suspendReason = "billing"
    <3> SUFFICES ASSUME Lifting([h EXCEPT !.calls = calls])
                 PROVE  operator.suspendReason = "billing"
      BY <1>1
    <3>1. h.event # NoEvent /\ ~h.operator.suspended
      BY <2>3 DEF Lifting, Handler
    <3>2. NextCall(r) # "liftOperator"
      BY <2>3, <2>7, <3>1 DEF Makes, Made
    <3>3. NextCall(r) = "clearBilling"
      BY <1>1, <2>3, <3>1, <3>2 DEF FindOperator, FoundOperator, SuspendedBy
    <3> QED BY <1>4, <3>3 DEF IsNotBillings
  <2>10. Firm(operator') /\ Firm(h.operator) /\ (serial => Alone(r))
    BY <1>1, <2>2, <2>3 DEF OInv
  <2>11. Continue(r, h, calls)
    BY <1>4, <2>1, <2>4 DEF FindSuspension
  <2> QED BY <1>1, <2>3, <2>8, <2>9, <2>10, <2>11, ContinueFits
<1> QED BY <1>3, <1>4

LEMMA SaveSuspensionFits ==
  ASSUME IInv, OInv, serial' = serial, NEW r \in Request, SaveSuspension(r)
  PROVE  OInv'
<1>1. /\ TypeOK /\ req[r] \in Handler /\ InFlight(r) /\ NextCall(r) = "saveOperator"
      /\ Continue(r, req[r], Rest(r))
  BY DEF SaveSuspension, Waits, IInv, TypeOK
<1>2. Firm(operator') /\ Firm(req[r].operator) /\ (serial => Alone(r))
  BY <1>1 DEF SaveSuspension, OInv, Firm
<1>3. Rest(r) \in Seq(Makes(req[r].event))
  BY <1>1, TailTyped DEF OInv, CallsFit, InFlight, NextCall, Rest, Makes, Made
<1>4. Rest(r) # << >> => Head(Rest(r)) # "saveOperator"
  BY <1>3, TailTyped DEF Makes, Made
<1>5. PICK calls : calls = Rest(r)
  OBVIOUS
<1>6. CallsFit([req[r] EXCEPT !.calls = calls]) /\ ~Lifting([req[r] EXCEPT !.calls = calls])
  BY <1>1, <1>3, <1>4, <1>5 DEF Handler, CallsFit, Lifting
<1> QED BY <1>1, <1>2, <1>5, <1>6, ContinueFits

LEMMA StepFits ==
  ASSUME IInv, OInv, serial' = serial, NEW r \in Request, Step(r)
  PROVE  OInv'
<1>1. TypeOK /\ req[r] \in Handler /\ << >> \in Seq(Made)
  BY DEF IInv, TypeOK
<1>2. ASSUME InFlight(r), NextCall(r) # "saveOperator", operator' = operator,
             NEW h \in Handler, h.event = req[r].event, h.operator = req[r].operator,
             Continue(r, h, Rest(r))
      PROVE  OInv'
  <2>1. Rest(r) = << >> \o Rest(r)
    BY <1>1, <1>2, NextCallTyped, ConcatEmptySeq
  <2> QED BY <1>1, <1>2, <2>1, CallFits
<1>3. CASE Find(r)
  <2>1. NextCall(r) \in FindBilling /\ InFlight(r)
    BY <1>3 DEF Find, Waits
  <2>2. Found(NextCall(r)) \in Billing
    BY <2>1, FoundOK DEF IInv, TypeOK
  <2>3. PICK h : h = [req[r] EXCEPT !.inner = Found(NextCall(r))]
    OBVIOUS
  <2>4. h \in Handler /\ h.event = req[r].event /\ h.operator = req[r].operator
    BY <1>1, <2>2, <2>3 DEF Handler
  <2> QED BY <1>2, <1>3, <2>1, <2>3, <2>4 DEF Find, FindBilling
<1>4. CASE Save(r)
  BY <1>1, <1>2, <1>4 DEF Save, Waits
<1>5. CASE Apply(r)
  <2>1. InFlight(r) /\ NextCall(r) # "saveOperator" /\ req[r].sub \in Subscription
    BY <1>1, <1>5 DEF Apply, Waits, Handler
  <2>2. Applied(req[r].sub) \in Billing /\ CallsToApply(req[r].sub) \in Seq(Made)
    BY <2>1, AppliedOK, ApplyMade DEF IInv, TypeOK
  <2>3. PICK h : h = [req[r] EXCEPT !.outer = Applied(req[r].sub)]
    OBVIOUS
  <2>4. h \in Handler /\ h.event = req[r].event /\ h.operator = req[r].operator
    BY <1>1, <2>2, <2>3 DEF Handler
  <2> QED BY <1>5, <2>1, <2>2, <2>3, <2>4, CallFits DEF Apply
<1>6. CASE View(r)
  <2>1. InFlight(r) /\ NextCall(r) # "saveOperator" /\ Expire \in Seq(Made)
    BY <1>6, ExpireMade DEF View, Waits
  <2> QED BY <1>1, <1>6, <2>1, CallFits DEF View
<1>7. CASE FindSuspension(r) \/ SaveSuspension(r)
  BY <1>7, FindSuspensionFits, SaveSuspensionFits
<1>8. CASE ChangePlan(r)
  BY <1>1, <1>2, <1>8 DEF ChangePlan, Waits, Plan
<1>9. CASE StripeUpdate(r)
  <2>1. CASE Continue(r, req[r], Rest(r))
    BY <1>1, <1>2, <1>9, <2>1 DEF StripeUpdate, Waits
  <2>2. CASE Continue(r, Idle, << >>)
    BY <1>9, <2>2, EndFits DEF StripeUpdate, Waits
  <2> QED BY <1>9, <2>1, <2>2 DEF StripeUpdate
<1>10. CASE Retrieve(r)
  <2>1. PICK h : h = [req[r] EXCEPT !.sub = stripe]
    OBVIOUS
  <2>2. h \in Handler /\ h.event = req[r].event /\ h.operator = req[r].operator
    BY <1>1, <2>1 DEF Handler, IInv, TypeOK
  <2> QED BY <1>2, <1>10, <2>1, <2>2 DEF Retrieve, Waits
<1> QED BY <1>3, <1>4, <1>5, <1>6, <1>7, <1>8, <1>9, <1>10 DEF Step

LEMMA NextFits ==
  ASSUME IInv, OInv, [Next]_vars
  PROVE  OInv'
<1>0. serial' = serial
  BY DEF Next, vars
<1>1. ASSUME UNCHANGED <<operator, req>> PROVE OInv'
  <2>1. \A r \in Request : req'[r] = req[r] /\ (InFlight(r)' <=> InFlight(r))
    BY <1>1 DEF InFlight
  <2> QED BY <1>0, <1>1, <2>1 DEF OInv, CallsFit, Lifting, Firm, Alone
<1>2. CASE Tick \/ Stripe \/ UNCHANGED vars
  BY <1>1, <1>2 DEF Tick, Stripe, Checkout, PaymentFails, PaymentRecovers, SubscriptionEnds,
                    Moves, vars, moving
<1>3. ASSUME NEW r \in Request, Deliver(r) PROVE OInv'
  <2>1. PICK i \in 1 .. Len(events) :
          Continue(r, [Idle EXCEPT !.event = events[i], !.sub = events[i].sub],
                   Webhook(events[i].type))
    BY <1>3 DEF Deliver
  <2>2. PICK e \in Event : e = events[i]
    BY DEF IInv, TypeOK
  <2>3. e.sub \in Subscription /\ e.type \in EventType
    BY <2>2 DEF Event
  <2>4. PICK h : h = [Idle EXCEPT !.event = e, !.sub = e.sub]
    OBVIOUS
  <2>5. h \in Handler /\ h.operator = Lifted
    BY <2>2, <2>3, <2>4, IdleOK DEF Handler, Idle
  <2>6. Webhook(e.type) \in Seq(Makes(h.event))
    BY <2>3, WebhookMade, MakesMade
  <2>7. MayStart(r) /\ operator' = operator /\ Continue(r, h, Webhook(e.type))
    BY <1>3, <2>1, <2>2, <2>4 DEF Deliver
  <2> QED BY <1>0, <2>5, <2>6, <2>7, StartFits
<1>4. ASSUME NEW r \in Request, ExpireGrace(r) PROVE OInv'
  <2>1. Idle \in Handler /\ Idle.operator = Lifted /\ Expire \in Seq(Makes(Idle.event))
    BY IdleOK, ExpireMade, MakesMade DEF Idle
  <2> QED BY <1>0, <1>4, <2>1, StartFits DEF ExpireGrace
<1>5. ASSUME NEW r \in Request, Console(r) PROVE OInv'
  BY <1>0, <1>5, ConsoleFits
<1>6. ASSUME NEW r \in Request, Step(r) PROVE OInv'
  BY <1>0, <1>6, StepFits
<1>7. ASSUME NEW r \in Request, Fail(r) PROVE OInv'
  BY <1>0, <1>7, EndFits DEF Fail
<1> QED BY <1>2, <1>3, <1>4, <1>5, <1>6, <1>7 DEF Next

LEMMA InitFits == Init => OInv
<1>1. << >> \in Seq(Makes(NoEvent))
  OBVIOUS
<1>2. /\ Idle.calls = << >> /\ Idle.event = NoEvent
      /\ Idle.operator.suspendReason = "none" /\ Lifted.suspendReason = "none"
  BY DEF Idle, Lifted
<1>3. CallsFit(Idle) /\ Firm(Idle.operator) /\ Firm(Lifted) /\ ~Lifting(Idle)
  BY <1>1, <1>2 DEF CallsFit, Firm, Lifting
<1>4. ASSUME Init PROVE \A r \in Request : req[r] = Idle /\ ~InFlight(r)
  BY <1>2, <1>4 DEF Init, InFlight
<1> QED BY <1>3, <1>4 DEF Init, OInv

(* A payment that finds the operator's suspension leaves it alone:         *)
(* clearBillingAutomatedSuspend lifts only what names billing as its       *)
(* reason, and with handlers one at a time that still holds at its save.   *)
THEOREM OperatorSuspensionStands == Spec => OperatorSuspensionStandsSerially
<1>1. OInv /\ [Next]_vars =>
        [serial /\ operator.suspendReason = "operator" /\ ~operator'.suspended =>
           \E r \in Request : Waits(r, {"saveOperator"}) /\ req[r].event = NoEvent]_vars
  <2> SUFFICES ASSUME OInv, Next, serial, operator.suspendReason = "operator",
                      ~operator'.suspended
               PROVE  \E r \in Request : Waits(r, {"saveOperator"}) /\ req[r].event = NoEvent
    OBVIOUS
  <2>1. operator' # operator
    BY DEF OInv, Firm
  <2>2. PICK r \in Request : SaveSuspension(r)
    BY <2>1 DEF Next, Tick, Stripe, Checkout, PaymentFails, PaymentRecovers, SubscriptionEnds,
       Moves, Deliver, ExpireGrace, Console, Fail, Step, Find, Save, Apply, View, FindSuspension,
       ChangePlan, StripeUpdate, Retrieve
  <2>3. /\ req[r].calls # << >> /\ Head(req[r].calls) = "saveOperator"
        /\ ~req[r].operator.suspended
    BY <2>2 DEF SaveSuspension, Waits, InFlight, NextCall
  <2>4. ~Lifting(req[r])
    BY DEF OInv
  <2>5. req[r].event = NoEvent
    BY <2>3, <2>4 DEF Lifting
  <2> QED BY <2>2, <2>5 DEF SaveSuspension
<1>2. Init => OInv
  BY InitFits
<1>3. IInv /\ OInv /\ [Next]_vars => OInv'
  BY NextFits
<1> QED BY <1>1, <1>2, <1>3, Inductive, PTL DEF Spec, OperatorSuspensionStandsSerially
-----------------------------------------------------------------------------
(* The subscription is followed                                            *)
(*                                                                         *)
(* While handlers run one at a time, events are handled in their turn, all *)
(* of them are subscribed to and nothing throws, the queue tells how far   *)
(* the rows may be behind the subscription: what it has come to is queued  *)
(* last, with the event that repairs the rows (Cure).  As long as that one *)
(* is on its way nothing is said of the rows; once it is handled, nothing  *)
(* that is on its way, in memory or still to be called undoes what it has  *)
(* done.                                                                   *)

Calm == serial /\ inOrder /\ spent.failures = 0

(* How the calls of a list follow each other: a find of the billing row is *)
(* saved at once, and a plan is assigned when the others are off.          *)
Pair(a, b) == (b = "save" <=> a \in FindBilling) /\ (b \in Plan <=> a = "planOff")
Opens(a) == a # "save" /\ a \notin Plan
Ends(a) == a \notin FindBilling /\ a # "planOff"
Paired(s) ==
  /\ \A i \in 1 .. Len(s) - 1 : Pair(s[i], s[i + 1])
  /\ s # << >> => Ends(s[Len(s)])
Fresh(s) == s \in Seq(Call) /\ Paired(s) /\ (s # << >> => Opens(Head(s)))

LEMMA PairedTail ==
  ASSUME NEW s \in Seq(Call), Paired(s), s # << >>
  PROVE  /\ Tail(s) \in Seq(Call) /\ Paired(Tail(s))
         /\ Tail(s) # << >> => Pair(Head(s), Head(Tail(s)))
         /\ Tail(s) = << >> => Ends(Head(s))
<1>1. /\ Tail(s) \in Seq(Call) /\ Len(Tail(s)) = Len(s) - 1 /\ Len(s) \in Nat \ {0}
      /\ \A i \in 1 .. Len(s) - 1 : Tail(s)[i] = s[i + 1]
  BY HeadTailProperties, EmptySeq
<1>2. Head(s) = s[1] /\ (Tail(s) # << >> => Head(Tail(s)) = Tail(s)[1] /\ Len(s) - 1 # 0)
  BY <1>1
<1>3. \A i \in 1 .. Len(Tail(s)) - 1 : Pair(Tail(s)[i], Tail(s)[i + 1])
  BY <1>1 DEF Paired
<1>4. Tail(s) # << >> => Ends(Tail(s)[Len(Tail(s))])
  BY <1>1, <1>2 DEF Paired
<1>5. Tail(s) # << >> => Pair(Head(s), Head(Tail(s)))
  BY <1>1, <1>2 DEF Paired
<1>6. Tail(s) = << >> => Len(s) = 1
  BY <1>1
<1>7. Tail(s) = << >> => Ends(Head(s))
  BY <1>2, <1>6 DEF Paired
<1> QED BY <1>1, <1>3, <1>4, <1>5, <1>7 DEF Paired

LEMMA FreshTail ==
  ASSUME NEW s \in Seq(Call), Paired(s), s # << >>, Ends(Head(s))
  PROVE  Fresh(Tail(s))
BY PairedTail DEF Fresh, Pair, Ends, Opens

LEMMA FreshCat ==
  ASSUME NEW s, Fresh(s), NEW t, Fresh(t)
  PROVE  Fresh(s \o t)
<1>1. /\ s \in Seq(Call) /\ t \in Seq(Call) /\ s \o t \in Seq(Call)
      /\ Len(s) \in Nat /\ Len(t) \in Nat /\ Len(s \o t) = Len(s) + Len(t)
      /\ \A i \in 1 .. Len(s) + Len(t) :
           (s \o t)[i] = IF i <= Len(s) THEN s[i] ELSE t[i - Len(s)]
  BY ConcatProperties, LenProperties DEF Fresh
<1>2. CASE s = << >>
  BY <1>1, <1>2, ConcatEmptySeq
<1>3. CASE t = << >>
  BY <1>1, <1>3, ConcatEmptySeq
<1>4. CASE s # << >> /\ t # << >>
  <2>1. Len(s) # 0 /\ Len(t) # 0
    BY <1>1, <1>4, EmptySeq
  <2>2. ASSUME NEW i \in 1 .. Len(s \o t) - 1 PROVE Pair((s \o t)[i], (s \o t)[i + 1])
    <3>1. CASE i < Len(s)
      BY <1>1, <3>1 DEF Fresh, Paired
    <3>2. CASE i = Len(s)
      <4>1. (s \o t)[i] = s[Len(s)] /\ (s \o t)[i + 1] = t[1]
        BY <1>1, <2>1, <3>2
      <4>2. Ends(s[Len(s)]) /\ Opens(t[1])
        BY <1>1, <1>4 DEF Fresh, Paired
      <4> QED BY <4>1, <4>2 DEF Pair, Ends, Opens
    <3>3. CASE i > Len(s)
      <4>1. (s \o t)[i] = t[i - Len(s)] /\ (s \o t)[i + 1] = t[(i - Len(s)) + 1]
            /\ i - Len(s) \in 1 .. Len(t) - 1
        BY <1>1, <3>3
      <4> QED BY <4>1 DEF Fresh, Paired
    <3> QED BY <1>1, <3>1, <3>2, <3>3
  <2>3. (s \o t)[Len(s \o t)] = t[Len(t)] /\ Ends(t[Len(t)])
    BY <1>1, <1>4, <2>1 DEF Fresh, Paired
  <2>4. Head(s \o t) = s[1] /\ Opens(s[1]) /\ s \o t # << >>
    <3>1. s \o t # << >>
      BY <1>1, <2>1, EmptySeq
    <3>2. (s \o t)[1] = s[1]
      BY <1>1, <2>1
    <3> QED BY <1>1, <1>4, <3>1, <3>2 DEF Fresh
  <2> QED BY <1>1, <2>2, <2>3, <2>4 DEF Fresh, Paired
<1> QED BY <1>2, <1>3, <1>4

LEMMA MethodsFresh ==
  /\ \A plan \in Plan : Fresh(Assign(plan)) /\ Fresh(SelectPlan(plan))
  /\ \A status \in {"past_due", "canceled"} : Fresh(Downgrade(status))
  /\ Fresh(InvoicePaid) /\ Fresh(CheckoutCompleted) /\ Fresh(PaymentFailed)
<1> USE DEF Call, FindBilling, FindOperator, Plan
<1>1. ASSUME NEW plan \in Plan PROVE Fresh(<<"planOff", plan>>)
  BY DEF Fresh, Paired, Pair, Opens, Ends
<1>2. ASSUME NEW call \in FindBilling PROVE Fresh(<<call, "save">>)
  BY DEF Fresh, Paired, Pair, Opens, Ends
<1>3. ASSUME NEW call \in FindBilling PROVE Fresh(<<call, "save", "suspendBilling">>)
  BY DEF Fresh, Paired, Pair, Opens, Ends
<1>4. Fresh(<<"clearBilling">>) /\ Fresh(<<"retrieve", "apply">>)
  BY DEF Fresh, Paired, Pair, Opens, Ends
<1> QED BY <1>1, <1>2, <1>3, <1>4, FreshCat
    DEF Assign, SelectPlan, Downgrade, InvoicePaid, CheckoutCompleted, PaymentFailed,
        ClearBillingAutomatedSuspend

LEMMA OthersFresh ==
  /\ Fresh(<< >>) /\ Fresh(<<"apply">>) /\ Fresh(<<"saveOuter">>) /\ Fresh(<<"view">>)
  /\ Fresh(<<"saveOperator">>) /\ Fresh(<<"suspendOperator">>) /\ Fresh(<<"liftOperator">>)
  /\ Fresh(<<"stripeUpdate", "saveOuter", "retrieve", "apply", "view">>)
BY DEF Fresh, Paired, Pair, Opens, Ends, Call, FindBilling, FindOperator, Plan

LEMMA WebhookFresh == \A type \in EventType : Fresh(Webhook(type))
BY MethodsFresh, OthersFresh DEF Webhook, EventType

LEMMA ApplyFresh == \A sub \in Subscription : Fresh(CallsToApply(sub))
<1>1. Fresh(PaymentFailed \o <<"saveOuter">>) /\ Fresh(<< >> \o <<"saveOuter">>)
  BY MethodsFresh, OthersFresh, FreshCat
<1> QED BY <1>1, MethodsFresh, OthersFresh DEF CallsToApply, Subscription, StripeStatus

LEMMA ExpireFresh == Fresh(Expire)
BY MethodsFresh, OthersFresh DEF Expire

-----------------------------------------------------------------------------
(* The rows and the subscription *)

Paying == {"active", "past_due"}

(* The event that repairs the rows once the subscription has come to x,    *)
(* the statuses of the row that are right then, and the calls that would   *)
(* undo it.                                                                *)
Cure(x) == IF x = "active" THEN "invoice.paid" ELSE "invoice.payment_failed"
Right(x) == IF x = "active" THEN {"active", "trialing"} ELSE {"grace", "past_due", "trialing"}
Wrong(x) == IF x = "active" THEN {"grace", "canceled", "past_due", "suspendBilling"}
                            ELSE {"checkout", "active", "canceled"}
Safe(x) == Call \ Wrong(x)
NoOuter == Call \ {"saveOuter"}

Queues(ev, type) == \E i \in 1 .. Len(ev) : ev[i].type = type
Follows(ev, i, type) == \E j \in i + 1 .. Len(ev) : ev[j].type = type

(* What an event says, and what is queued behind one that says otherwise   *)
(* than Stripe does now.                                                   *)
InTurn(status, ev) ==
  \A i \in 1 .. Len(ev) :
    /\ ev[i].type \in {"checkout.session.completed", "invoice.paid"} =>
         ev[i].sub.status = "active"
    /\ ev[i].type = "invoice.payment_failed" => ev[i].sub.status = "past_due"
    /\ ev[i].type = "checkout.session.completed" => Follows(ev, i, "invoice.paid")
    /\ status \in Paying => ev[i].sub.status = status \/ Follows(ev, i, Cure(status))

At(h, S) == h.calls # << >> /\ Head(h.calls) \in S

(* A payment that has been read will lift the billing's suspension. *)
Clears(s) ==
  \E i \in 1 .. Len(s) :
    s[i] = "clearBilling" /\ \A j \in 1 .. i - 1 : s[j] \in {"active", "save"}

(* Nothing a handler holds or calls is against status x. *)
Harmless(h, x) ==
  /\ h.calls \in Seq(Safe(x))
  /\ h.calls # << >> => h.sub.status \in {"none", x}
  /\ At(h, {"save"}) => h.inner.lifecycleStatus \in Right(x)
  /\ h.calls \in Seq(NoOuter) \/ h.outer.lifecycleStatus \in Right(x)
  /\ x = "active" /\ At(h, {"saveOperator"}) => h.operator.suspendReason # "billing"

(* The rows are as they should be, or the handler is about to mend them. *)
Mended(h, x, b, o) ==
  /\ b.lifecycleStatus \in Right(x) \/ At(h, FindBilling \union {"save"})
  /\ x = "active" =>
       \/ o.suspendReason # "billing"
       \/ Clears(h.calls)
       \/ At(h, {"saveOperator"})

OnePlan(h, p) == p["pilot"] + p["corporate"] = IF At(h, Plan) THEN 0 ELSE 1

(* The row knows its subscription, or will, and does not forget it. *)
Linked(h, b, status, ev) ==
  /\ status # "none" =>
       \/ b.subscribed
       \/ Queues(ev, "checkout.session.completed")
       \/ At(h, {"checkout"})
       \/ At(h, {"save"}) /\ h.inner.subscribed
  /\ At(h, {"save"}) /\ b.subscribed => h.inner.subscribed
  /\ h.calls \in Seq(NoOuter) \/ h.outer.subscribed

Fits(h, b, o, p, status, ev) ==
  /\ Paired(h.calls)
  /\ OnePlan(h, p)
  /\ Linked(h, b, status, ev)
  /\ status \in Paying /\ ~Queues(ev, Cure(status)) =>
       Harmless(h, status) /\ Mended(h, status, b, o)

FInv ==
  Calm =>
    /\ InTurn(stripe.status, events)
    /\ \E r \in Request :
         Alone(r) /\ Fits(req[r], billing, operator, plans, stripe.status, events)

(* A handler with a list that begins afresh. *)
LEMMA FreshFits ==
  ASSUME NEW h, Fresh(h.calls), NEW b, NEW o, NEW p, NEW status, NEW ev,
         p["pilot"] + p["corporate"] = 1,
         status # "none" =>
           b.subscribed \/ Queues(ev, "checkout.session.completed") \/ At(h, {"checkout"}),
         h.calls \in Seq(NoOuter) \/ h.outer.subscribed,
         status \in Paying /\ ~Queues(ev, Cure(status)) =>
           /\ h.calls \in Seq(Safe(status))
           /\ h.calls # << >> => h.sub.status \in {"none", status}
           /\ h.calls \in Seq(NoOuter) \/ h.outer.lifecycleStatus \in Right(status)
           /\ status = "active" /\ At(h, {"saveOperator"}) =>
                h.operator.suspendReason # "billing"
           /\ Mended(h, status, b, o)
  PROVE  Fits(h, b, o, p, status, ev)
<1>1. ~At(h, Plan) /\ ~At(h, {"save"})
  BY DEF Fresh, Opens, At
<1> QED BY <1>1 DEF Fresh, Fits, OnePlan, Linked, Harmless

(* The rows at a call that does not mend them. *)
LEMMA RowsRight ==
  ASSUME NEW h \in Handler, NEW x, NEW b, NEW o, Mended(h, x, b, o),
         h.calls = << >> \/ Head(h.calls) \notin
           FindBilling \union {"save", "clearBilling", "saveOperator"}
  PROVE  /\ b.lifecycleStatus \in Right(x)
         /\ x = "active" => o.suspendReason # "billing"
<1>1. ~At(h, FindBilling \union {"save"}) /\ ~At(h, {"saveOperator"})
  BY DEF At
<1>2. ~Clears(h.calls)
  <2> SUFFICES ASSUME NEW i \in 1 .. Len(h.calls), h.calls[i] = "clearBilling",
                      \A j \in 1 .. i - 1 : h.calls[j] \in {"active", "save"}
               PROVE  FALSE
    BY DEF Clears
  <2>1. h.calls \in Seq(Call)
    BY DEF Handler
  <2>2. h.calls # << >> /\ Head(h.calls) = h.calls[1] /\ i \in Nat \ {0}
    BY <2>1
  <2>3. CASE i = 1
    BY <2>2, <2>3
  <2>4. CASE i # 1
    <3>1. h.calls[1] \in {"active", "save"}
      BY <2>2, <2>4
    <3> QED BY <2>2, <3>1 DEF FindBilling
  <2> QED BY <2>3, <2>4
<1> QED BY <1>1, <1>2 DEF Mended

LEMMA ClearsLater ==
  ASSUME NEW s \in Seq(Call), s # << >>, Head(s) # "clearBilling", Clears(s)
  PROVE  Clears(Tail(s))
<1>1. /\ Len(Tail(s)) = Len(s) - 1 /\ Len(s) \in Nat /\ Head(s) = s[1]
      /\ \A i \in 1 .. Len(s) - 1 : Tail(s)[i] = s[i + 1]
  BY HeadTailProperties, LenProperties
<1>2. PICK i \in 1 .. Len(s) :
        s[i] = "clearBilling" /\ \A j \in 1 .. i - 1 : s[j] \in {"active", "save"}
  BY DEF Clears
<1>3. i # 1 /\ i - 1 \in 1 .. Len(Tail(s)) /\ Tail(s)[i - 1] = "clearBilling"
  BY <1>1, <1>2
<1>4. \A j \in 1 .. (i - 1) - 1 : Tail(s)[j] \in {"active", "save"}
  BY <1>1, <1>2
<1> QED BY <1>3, <1>4 DEF Clears

(* What the methods do not call. *)
LEMMA MethodsSafe ==
  /\ \A plan \in Plan : Assign(plan) \in Seq(NoOuter) /\ SelectPlan(plan) \in Seq(NoOuter)
  /\ \A x \in Paying, plan \in Plan :
       Assign(plan) \in Seq(Safe(x)) /\ SelectPlan(plan) \in Seq(Safe(x))
  /\ \A status \in {"past_due", "canceled"} : Downgrade(status) \in Seq(NoOuter)
  /\ Downgrade("past_due") \in Seq(Safe("past_due"))
  /\ PaymentFailed \in Seq(NoOuter) /\ PaymentFailed \in Seq(Safe("past_due"))
  /\ InvoicePaid \in Seq(NoOuter) /\ InvoicePaid \in Seq(Safe("active"))
  /\ CheckoutCompleted \in Seq(NoOuter)
<1> USE DEF Call, FindBilling, FindOperator, Plan, NoOuter, Safe, Wrong, Paying
<1>1. ASSUME NEW S \in {NoOuter, Safe("active"), Safe("past_due")}, NEW plan \in Plan
      PROVE  Assign(plan) \in Seq(S) /\ SelectPlan(plan) \in Seq(S)
  <2>1. <<"planOff", plan>> \in Seq(S) /\ <<"trialing", "save">> \in Seq(S)
    OBVIOUS
  <2> QED BY <2>1, CatTyped DEF Assign, SelectPlan
<1>2. ASSUME NEW status \in {"past_due", "canceled"}, NEW S \in {NoOuter, Safe("past_due")},
             status \in S
      PROVE  Downgrade(status) \in Seq(S)
  <2>1. <<status, "save", "suspendBilling">> \in Seq(S)
    BY <1>2
  <2> QED BY <1>1, <2>1, CatTyped DEF Downgrade
<1>3. PaymentFailed \in Seq(NoOuter) /\ PaymentFailed \in Seq(Safe("past_due"))
  BY DEF PaymentFailed
<1>4. ASSUME NEW S \in {NoOuter, Safe("active")} PROVE InvoicePaid \in Seq(S)
  <2>1. <<"active", "save">> \in Seq(S) /\ <<"clearBilling">> \in Seq(S)
    OBVIOUS
  <2>2. <<"active", "save">> \o <<"clearBilling">> \in Seq(S)
    BY <2>1, CatTyped
  <2> QED BY <1>1, <2>2, CatTyped DEF InvoicePaid, ClearBillingAutomatedSuspend
<1>5. CheckoutCompleted \in Seq(NoOuter)
  <2>1. /\ <<"checkout", "save">> \in Seq(NoOuter) /\ <<"clearBilling">> \in Seq(NoOuter)
        /\ <<"retrieve", "apply">> \in Seq(NoOuter)
    OBVIOUS
  <2>2. <<"checkout", "save">> \o <<"clearBilling">> \in Seq(NoOuter)
    BY <2>1, CatTyped
  <2>3. <<"checkout", "save">> \o <<"clearBilling">> \o Assign("corporate") \in Seq(NoOuter)
    BY <1>1, <2>2, CatTyped
  <2> QED BY <2>1, <2>3, CatTyped DEF CheckoutCompleted, ClearBillingAutomatedSuspend
<1> QED BY <1>1, <1>2, <1>3, <1>4, <1>5

LEMMA PaidClears ==
  /\ Clears(InvoicePaid) /\ InvoicePaid # << >> /\ Head(InvoicePaid) = "active"
  /\ PaymentFailed # << >> /\ Head(PaymentFailed) = "grace"
<1>1. <<"active", "save">> \in Seq(Call) /\ <<"clearBilling">> \in Seq(Call)
  BY DEF Call, FindBilling, FindOperator
<1>2. Assign("corporate") \in Seq(Call)
  BY CallsTyped DEF Plan
<1>3. PICK s \in Seq(Call) : s = <<"active", "save">> \o <<"clearBilling">>
  BY <1>1, CatTyped
<1>4. Len(s) = 3 /\ s[1] = "active" /\ s[2] = "save" /\ s[3] = "clearBilling"
  BY <1>1, <1>3, ConcatProperties
<1>5. InvoicePaid = s \o Assign("corporate")
  BY <1>3 DEF InvoicePaid, ClearBillingAutomatedSuspend
<1>6. /\ InvoicePaid \in Seq(Call) /\ Len(InvoicePaid) >= 3 /\ Len(InvoicePaid) \in Nat
      /\ InvoicePaid[1] = "active" /\ InvoicePaid[2] = "save" /\ InvoicePaid[3] = "clearBilling"
  <2>1. PICK t \in Seq(Call) : t = Assign("corporate")
    BY <1>2
  <2>2. /\ Len(t) \in Nat /\ s \o t \in Seq(Call) /\ Len(s \o t) = Len(s) + Len(t)
        /\ \A i \in 1 .. Len(s) + Len(t) : (s \o t)[i] = IF i <= Len(s) THEN s[i] ELSE t[i - Len(s)]
    BY ConcatProperties, LenProperties
  <2> QED BY <1>4, <1>5, <2>1, <2>2
<1>7. Clears(InvoicePaid)
  <2>1. \A j \in 1 .. 3 - 1 : InvoicePaid[j] \in {"active", "save"}
    BY <1>6
  <2>2. 3 \in 1 .. Len(InvoicePaid)
    BY <1>6
  <2> QED BY <1>6, <2>1, <2>2 DEF Clears
<1>8. InvoicePaid # << >> /\ Head(InvoicePaid) = InvoicePaid[1]
  BY <1>6
<1>9. PaymentFailed # << >> /\ Head(PaymentFailed) = "grace"
  BY DEF PaymentFailed
<1> QED BY <1>6, <1>7, <1>8, <1>9

(* Of a handler that has ended, only that matters. *)
LEMMA EndedFits ==
  ASSUME NEW h, NEW k, h.calls = << >>, k.calls = << >>,
         NEW b, NEW o, NEW p, NEW status, NEW ev, Fits(h, b, o, p, status, ev)
  PROVE  Fits(k, b, o, p, status, ev)
<1>1. \A S : At(h, S) = FALSE /\ At(k, S) = FALSE
  BY DEF At
<1>2. Paired(k.calls) /\ OnePlan(k, p)
  BY <1>1 DEF Fits, OnePlan
<1>3. Linked(k, b, status, ev)
  BY <1>1 DEF Fits, Linked
<1>4. status \in Paying /\ ~Queues(ev, Cure(status)) =>
        Harmless(k, status) /\ Mended(k, status, b, o)
  BY <1>1 DEF Fits, Harmless, Mended
<1> QED BY <1>2, <1>3, <1>4 DEF Fits

(* The handler that moves is the only one. *)
LEMMA ContinueFollows ==
  ASSUME TypeOK, NEW r \in Request, Alone(r), NEW h \in Handler, NEW calls \in Seq(Call),
         Continue(r, h, calls), NEW k, k = [h EXCEPT !.calls = calls],
         InTurn(stripe'.status, events'),
         Fits(k, billing', operator', plans', stripe'.status, events')
  PROVE  FInv'
<1>1. k.calls = calls
  BY DEF Handler
<1>2. Fits(req'[r], billing', operator', plans', stripe'.status, events')
  <2>1. CASE calls = << >>
    <3>1. req'[r] = Idle
      BY <2>1 DEF Continue, TypeOK
    <3>2. k.calls = << >> /\ Idle.calls = << >>
      BY <1>1, <2>1 DEF Idle
    <3>3. Fits(Idle, billing', operator', plans', stripe'.status, events')
      BY <3>2, EndedFits
    <3> QED BY <3>1, <3>3
  <2>2. CASE calls # << >>
    <3>1. req'[r] = k
      BY <2>2 DEF Continue, TypeOK
    <3> QED BY <3>1
  <2> QED BY <2>1, <2>2
<1>3. Alone(r)'
  BY DEF Alone, InFlight, Continue, TypeOK
<1> QED BY <1>2, <1>3 DEF FInv

LEMMA TheOne ==
  ASSUME FInv, Calm, NEW r \in Request, InFlight(r)
  PROVE  /\ InTurn(stripe.status, events) /\ Alone(r)
         /\ Fits(req[r], billing, operator, plans, stripe.status, events)
BY DEF FInv, Alone

LEMMA NoneYet ==
  ASSUME FInv, Calm, NEW r \in Request, MayStart(r)
  PROVE  /\ InTurn(stripe.status, events) /\ Alone(r) /\ req[r].calls = << >>
         /\ Fits(req[r], billing, operator, plans, stripe.status, events)
<1>1. PICK q \in Request : Fits(req[q], billing, operator, plans, stripe.status, events)
  BY DEF FInv
<1>2. req[q].calls = << >> /\ req[r].calls = << >>
  BY DEF MayStart, InFlight, Calm
<1> QED BY <1>1, <1>2, EndedFits DEF FInv, Alone, MayStart, Calm

-----------------------------------------------------------------------------
(* The calls *)

LEMMA FindFollows ==
  ASSUME IInv, FInv, Calm, NEW r \in Request, Find(r)
  PROVE  FInv'
<1>1. /\ TypeOK /\ req[r] \in Handler /\ InFlight(r) /\ NextCall(r) \in FindBilling
      /\ Continue(r, [req[r] EXCEPT !.inner = Found(NextCall(r))], Rest(r))
      /\ UNCHANGED <<billing, operator, plans, stripe, events>>
  BY DEF Find, Waits, IInv, TypeOK
<1>2. /\ InTurn(stripe.status, events) /\ Alone(r)
      /\ Fits(req[r], billing, operator, plans, stripe.status, events)
  BY <1>1, TheOne
<1>3. PICK call : call = NextCall(r)
  OBVIOUS
<1>4. Found(call) \in Billing
  BY <1>1, <1>3, FoundOK DEF IInv, TypeOK
<1>5. /\ billing.subscribed => Found(call).subscribed
      /\ call = "checkout" => Found(call).subscribed
      /\ \A x \in Paying : call \notin Wrong(x) => Found(call).lifecycleStatus \in Right(x)
  BY <1>1, <1>3 DEF Found, TypeOK, Billing, FindBilling, Paying, Wrong, Right
<1>6. PICK h : h = [req[r] EXCEPT !.inner = Found(call)]
  OBVIOUS
<1>7. h \in Handler /\ h.inner = Found(call) /\ h.outer = req[r].outer /\ h.sub = req[r].sub
  BY <1>1, <1>4, <1>6 DEF Handler
<1>8. PICK k : k = [h EXCEPT !.calls = Rest(r)]
  OBVIOUS
<1>9. /\ k.calls = Rest(r) /\ k.inner = Found(call) /\ k.outer = req[r].outer
      /\ k.sub = req[r].sub
  BY <1>7, <1>8 DEF Handler
<1>10. /\ req[r].calls \in Seq(Call) /\ req[r].calls # << >> /\ Head(req[r].calls) = call
       /\ call \in FindBilling /\ Rest(r) = Tail(req[r].calls) /\ Rest(r) \in Seq(Call)
  BY <1>1, <1>3, NextCallTyped DEF InFlight, NextCall, Rest
<1>11. Paired(Rest(r)) /\ Rest(r) # << >> /\ Head(Rest(r)) = "save"
  BY <1>2, <1>10, PairedTail DEF Fits, Pair, Ends
<1>12. /\ At(k, {"save"}) /\ At(k, FindBilling \union {"save"})
       /\ ~At(k, Plan) /\ ~At(k, {"saveOperator"})
  BY <1>9, <1>11 DEF At, Plan
<1>13. \A S : req[r].calls \in Seq(S) => k.calls \in Seq(S) /\ call \in S
  BY <1>9, <1>10, TailTyped
<1>14. OnePlan(k, plans)
  BY <1>2, <1>10, <1>12 DEF Fits, OnePlan, At, Plan, FindBilling
<1>15. Linked(k, billing, stripe.status, events)
  <2>1. ~At(req[r], {"save"}) /\ (At(req[r], {"checkout"}) => call = "checkout")
    BY <1>10 DEF At, FindBilling
  <2> QED BY <1>2, <1>5, <1>9, <1>12, <1>13, <2>1 DEF Fits, Linked
<1>16. ASSUME stripe.status \in Paying, ~Queues(events, Cure(stripe.status))
       PROVE  Harmless(k, stripe.status) /\ Mended(k, stripe.status, billing, operator)
  <2>1. Harmless(req[r], stripe.status) /\ Mended(req[r], stripe.status, billing, operator)
    BY <1>2, <1>16 DEF Fits
  <2>2. call \in Safe(stripe.status) /\ k.calls \in Seq(Safe(stripe.status))
    BY <1>13, <2>1 DEF Harmless
  <2>3. Found(call).lifecycleStatus \in Right(stripe.status)
    BY <1>5, <1>16, <2>2 DEF Safe
  <2>4. k.calls \in Seq(NoOuter) \/ k.outer.lifecycleStatus \in Right(stripe.status)
    BY <1>9, <1>13, <2>1 DEF Harmless
  <2>5. Harmless(k, stripe.status)
    BY <1>9, <1>10, <1>12, <2>1, <2>2, <2>3, <2>4 DEF Harmless
  <2>6. Clears(req[r].calls) => Clears(k.calls)
    BY <1>9, <1>10, ClearsLater DEF FindBilling
  <2>7. ~At(req[r], {"saveOperator"})
    BY <1>10 DEF At, FindBilling
  <2> QED BY <1>12, <2>1, <2>5, <2>6, <2>7 DEF Mended
<1>17. Fits(k, billing, operator, plans, stripe.status, events)
  BY <1>9, <1>11, <1>14, <1>15, <1>16 DEF Fits
<1>18. Continue(r, h, Rest(r))
  BY <1>1, <1>3, <1>6
<1>19. Fits(k, billing', operator', plans', stripe'.status, events')
       /\ InTurn(stripe'.status, events')
  BY <1>1, <1>2, <1>17
<1> QED BY <1>1, <1>2, <1>7, <1>8, <1>10, <1>18, <1>19, ContinueFollows

(* A call that neither finds a row to be saved nor switches plans off, and *)
(* after which the handler goes on with more before the rest.              *)
LEMMA StepFollows ==
  ASSUME IInv, FInv, Calm, NEW r \in Request, InFlight(r), Ends(NextCall(r)),
         NEW h \in Handler, NEW more, Fresh(more), NEW calls, calls = more \o Rest(r),
         Continue(r, h, calls), NEW k, k = [h EXCEPT !.calls = calls],
         stripe'.status = stripe.status, InTurn(stripe.status, events'),
         \A type : Queues(events, type) => Queues(events', type),
         plans'["pilot"] + plans'["corporate"] = 1,
         billing.subscribed \/ (At(req[r], {"save"}) /\ req[r].inner.subscribed) =>
           billing'.subscribed,
         h.outer.subscribed \/ (h.outer = req[r].outer /\ more \in Seq(NoOuter)),
         /\ stripe.status \in Paying
         /\ Harmless(req[r], stripe.status)
         /\ Mended(req[r], stripe.status, billing, operator)
         => /\ more \in Seq(Safe(stripe.status))
            /\ h.sub.status \in {"none", stripe.status}
            /\ \/ h.outer.lifecycleStatus \in Right(stripe.status)
               \/ h.outer = req[r].outer /\ more \in Seq(NoOuter)
            /\ stripe.status = "active" /\ At(k, {"saveOperator"}) =>
                 h.operator.suspendReason # "billing"
            /\ Mended(k, stripe.status, billing', operator')
  PROVE  FInv'
<1>1. /\ Alone(r) /\ Fits(req[r], billing, operator, plans, stripe.status, events)
      /\ TypeOK /\ req[r] \in Handler
  BY TheOne DEF IInv, TypeOK
<1>2. /\ req[r].calls # << >> /\ Ends(Head(req[r].calls)) /\ Rest(r) = Tail(req[r].calls)
      /\ Rest(r) \in Seq(Call)
  BY <1>1, NextCallTyped DEF InFlight, NextCall, Rest
<1>3. calls \in Seq(Call)
  BY <1>2, CatTyped DEF Fresh
<1>4. /\ k.calls = more \o Tail(req[r].calls) /\ k.outer = h.outer /\ k.sub = h.sub
      /\ k.operator = h.operator
  BY <1>2 DEF Handler
<1>5. Fits(k, billing', operator', plans', stripe.status, events')
  <2>1. Fresh(k.calls)
    BY <1>1, <1>2, <1>4, FreshTail, FreshCat DEF Fits, Handler
  <2>2. ~At(req[r], {"checkout"})
    BY <1>2 DEF At, Ends, FindBilling
  <2>3. stripe.status # "none" =>
          \/ billing'.subscribed
          \/ Queues(events', "checkout.session.completed")
          \/ At(k, {"checkout"})
    BY <1>1, <2>2 DEF Fits, Linked
  <2>4. ASSUME NEW S, more \in Seq(S), req[r].calls \in Seq(S)
        PROVE  k.calls \in Seq(S)
    BY <1>2, <1>4, <2>4, TailTyped, CatTyped
  <2>5. k.calls \in Seq(NoOuter) \/ k.outer.subscribed
    BY <1>1, <1>4, <2>4 DEF Fits, Linked
  <2>6. ASSUME stripe.status \in Paying, ~Queues(events', Cure(stripe.status))
        PROVE  /\ k.calls \in Seq(Safe(stripe.status))
               /\ k.calls # << >> => k.sub.status \in {"none", stripe.status}
               /\ k.calls \in Seq(NoOuter) \/ k.outer.lifecycleStatus \in Right(stripe.status)
               /\ stripe.status = "active" /\ At(k, {"saveOperator"}) =>
                    k.operator.suspendReason # "billing"
               /\ Mended(k, stripe.status, billing', operator')
    <3>1. Harmless(req[r], stripe.status) /\ Mended(req[r], stripe.status, billing, operator)
      BY <1>1, <2>6 DEF Fits
    <3> QED BY <1>4, <2>4, <2>6, <3>1 DEF Harmless
  <2> QED BY <2>1, <2>3, <2>5, <2>6, FreshFits
<1>6. Fits(k, billing', operator', plans', stripe'.status, events')
      /\ InTurn(stripe'.status, events')
  BY <1>5
<1> QED BY <1>1, <1>3, <1>6, ContinueFollows

(* The save of the operator's row comes first or not at all. *)
LEMMA SavedFirst ==
  ASSUME OInv, NEW r \in Request, InFlight(r)
  PROVE  /\ Rest(r) # << >> => Head(Rest(r)) # "saveOperator"
         /\ \A more \in Seq(Made) :
              more \o Rest(r) # << >> => Head(more \o Rest(r)) # "saveOperator"
<1>1. Rest(r) \in Seq(Makes(req[r].event))
  BY TailTyped DEF OInv, CallsFit, NextCall, Rest, InFlight
<1>2. \A more \in Seq(Made) : more \o Rest(r) \in Seq(Makes(req[r].event))
  BY <1>1, MakesMade, CatTyped
<1> QED BY <1>1, <1>2, TailTyped DEF Makes, Made

(* ... which changes none of the plans, nor what Stripe knows.  *)
LEMMA PlainFollows ==
  ASSUME IInv, OInv, FInv, Calm, NEW r \in Request, InFlight(r), Ends(NextCall(r)),
         NextCall(r) \notin Plan,
         NEW h \in Handler, NEW more \in Seq(Made), Fresh(more), NEW calls, calls = more \o Rest(r),
         Continue(r, h, calls), NEW k, k = [h EXCEPT !.calls = calls],
         UNCHANGED <<stripe, events, plans>>,
         billing.subscribed \/ (At(req[r], {"save"}) /\ req[r].inner.subscribed) =>
           billing'.subscribed,
         h.outer.subscribed \/ (h.outer = req[r].outer /\ more \in Seq(NoOuter)),
         /\ stripe.status \in Paying
         /\ Harmless(req[r], stripe.status)
         /\ Mended(req[r], stripe.status, billing, operator)
         => /\ more \in Seq(Safe(stripe.status))
            /\ h.sub.status \in {"none", stripe.status}
            /\ \/ h.outer.lifecycleStatus \in Right(stripe.status)
               \/ h.outer = req[r].outer /\ more \in Seq(NoOuter)
            /\ Mended(k, stripe.status, billing', operator')
  PROVE  FInv'
<1>1. /\ InTurn(stripe.status, events)
      /\ Fits(req[r], billing, operator, plans, stripe.status, events)
  BY TheOne
<1>2. plans'["pilot"] + plans'["corporate"] = 1
  BY <1>1 DEF Fits, OnePlan, At, NextCall
<1>3. /\ stripe'.status = stripe.status /\ InTurn(stripe.status, events')
      /\ \A type : Queues(events, type) => Queues(events', type)
  BY <1>1
<1>4. ~At(k, {"saveOperator"})
  <2>1. k.calls = calls
    BY DEF Handler
  <2> QED BY <2>1, SavedFirst DEF At
<1> QED BY <1>2, <1>3, <1>4, StepFollows

(* A call after which the rest is all there is to do. *)
LEMMA RestFollows ==
  ASSUME IInv, NEW r \in Request, InFlight(r)
  PROVE  /\ Rest(r) = << >> \o Rest(r) /\ Fresh(<< >>) /\ << >> \in Seq(Made)
         /\ << >> \in Seq(NoOuter) /\ \A x : << >> \in Seq(Safe(x))
         /\ req[r] \in Handler
BY NextCallTyped, ConcatEmptySeq, OthersFresh DEF IInv, TypeOK

LEMMA SaveFollows ==
  ASSUME IInv, OInv, FInv, Calm, NEW r \in Request, Save(r)
  PROVE  FInv'
<1>1. /\ InFlight(r) /\ Ends(NextCall(r)) /\ NextCall(r) \notin Plan
      /\ Continue(r, req[r], Rest(r)) /\ UNCHANGED <<stripe, events, plans>>
      /\ operator' = operator
  BY DEF Save, Waits, Ends, FindBilling, Plan
<1>2. Fits(req[r], billing, operator, plans, stripe.status, events)
  BY <1>1, TheOne
<1>3. PICK k : k = [req[r] EXCEPT !.calls = Rest(r)]
  OBVIOUS
<1>4. /\ req[r].calls \in Seq(Call) /\ req[r].calls # << >> /\ req[r] \in Handler
      /\ k.calls = Tail(req[r].calls)
  BY <1>1, <1>3, NextCallTyped, RestFollows DEF IInv, Rest, InFlight, Handler
<1>5. ASSUME req[r].calls \in Seq(NoOuter) PROVE NextCall(r) # "saveOuter"
  BY <1>4, <1>5, TailTyped DEF NextCall, NoOuter
<1>6. billing.subscribed \/ (At(req[r], {"save"}) /\ req[r].inner.subscribed) =>
        billing'.subscribed
  <2>1. CASE NextCall(r) = "save"
    BY <1>2, <1>4, <2>1 DEF Save, Waits, At, NextCall, Fits, Linked
  <2>2. CASE NextCall(r) = "saveOuter"
    BY <1>2, <1>5, <2>2 DEF Save, Waits, At, NextCall, Fits, Linked
  <2> QED BY <2>1, <2>2 DEF Save, Waits
<1>7. ASSUME stripe.status \in Paying, Harmless(req[r], stripe.status),
             Mended(req[r], stripe.status, billing, operator)
      PROVE  /\ req[r].sub.status \in {"none", stripe.status}
             /\ Mended(k, stripe.status, billing', operator')
  <2>1. billing'.lifecycleStatus \in Right(stripe.status)
    <3>1. CASE NextCall(r) = "save"
      BY <1>4, <1>7, <3>1 DEF Save, Waits, At, NextCall, Harmless
    <3>2. CASE NextCall(r) = "saveOuter"
      BY <1>5, <1>7, <3>2 DEF Save, Waits, Harmless, NextCall
    <3> QED BY <3>1, <3>2 DEF Save, Waits
  <2>2. Clears(req[r].calls) => Clears(k.calls)
    BY <1>4, ClearsLater DEF Save, Waits, NextCall
  <2>3. ~At(req[r], {"saveOperator"})
    BY DEF Save, Waits, At, NextCall
  <2>4. Mended(k, stripe.status, billing', operator')
    BY <1>1, <1>7, <2>1, <2>2, <2>3 DEF Mended
  <2>5. req[r].sub.status \in {"none", stripe.status}
    BY <1>4, <1>7 DEF Harmless
  <2> QED BY <2>4, <2>5
<1> QED BY <1>1, <1>2, <1>3, <1>4, <1>6, <1>7, RestFollows, PlainFollows

(* At a call that mends nothing the rows are right, and stay so. *)
LEMMA StillRight ==
  ASSUME IInv, NEW r \in Request, InFlight(r),
         NextCall(r) \notin FindBilling \union {"save", "clearBilling", "saveOperator"},
         NEW x, Mended(req[r], x, billing, operator)
  PROVE  /\ billing.lifecycleStatus \in Right(x)
         /\ \A k : Mended(k, x, billing, operator)
<1>1. /\ billing.lifecycleStatus \in Right(x)
      /\ x = "active" => operator.suspendReason # "billing"
  BY RowsRight DEF IInv, TypeOK, InFlight, NextCall
<1> QED BY <1>1 DEF Mended

LEMMA ApplyFollows ==
  ASSUME IInv, OInv, FInv, Calm, NEW r \in Request, Apply(r)
  PROVE  FInv'
<1>1. PICK sub \in Subscription : sub = req[r].sub
  BY DEF IInv, TypeOK, Handler
<1>2. PICK h : h = [req[r] EXCEPT !.outer = Applied(sub)]
  OBVIOUS
<1>3. PICK more : more = CallsToApply(sub)
  OBVIOUS
<1>4. /\ InFlight(r) /\ NextCall(r) = "apply" /\ req[r] \in Handler
      /\ Continue(r, h, more \o Rest(r)) /\ UNCHANGED <<billing, operator, stripe, events, plans>>
  BY <1>1, <1>2, <1>3 DEF Apply, Waits, IInv, TypeOK
<1>5. /\ Ends(NextCall(r)) /\ NextCall(r) \notin Plan
      /\ NextCall(r) \notin FindBilling \union {"save", "clearBilling", "saveOperator"}
  BY <1>4 DEF Ends, FindBilling, Plan
<1>6. Applied(sub) \in Billing /\ more \in Seq(Made) /\ Fresh(more)
  BY <1>3, ApplyMade, ApplyFresh, AppliedOK DEF IInv, TypeOK
<1>7. h \in Handler /\ h.outer = Applied(sub) /\ h.sub = sub /\ h.outer.subscribed
  BY <1>1, <1>2, <1>4, <1>6 DEF Handler, Applied, IInv, TypeOK, Billing
<1>8. ~At(req[r], {"save"})
  BY <1>4 DEF At, NextCall
<1>9. PICK k : k = [h EXCEPT !.calls = more \o Rest(r)]
  OBVIOUS
<1>10. ASSUME stripe.status \in Paying, Harmless(req[r], stripe.status),
              Mended(req[r], stripe.status, billing, operator)
       PROVE  /\ more \in Seq(Safe(stripe.status))
              /\ h.sub.status \in {"none", stripe.status}
              /\ h.outer.lifecycleStatus \in Right(stripe.status)
              /\ Mended(k, stripe.status, billing', operator')
  <2>1. /\ billing.lifecycleStatus \in Right(stripe.status)
        /\ Mended(k, stripe.status, billing, operator)
    BY <1>4, <1>5, <1>10, StillRight
  <2>2. sub.status \in {"none", stripe.status}
    BY <1>1, <1>4, <1>10 DEF Harmless, InFlight
  <2>3. Applied(sub).lifecycleStatus \in Right(stripe.status)
    BY <1>10, <2>1, <2>2 DEF Applied, IInv, TypeOK, Billing, Paying, Right
  <2>4. more \in Seq(Safe(stripe.status))
    <3>1. <<"saveOuter">> \in Seq(Safe(stripe.status))
      BY <1>10 DEF Safe, Wrong, Call, Paying
    <3>2. CASE sub.status = "past_due"
      <4>1. PaymentFailed \o <<"saveOuter">> \in Seq(Safe("past_due"))
            /\ << >> \o <<"saveOuter">> \in Seq(Safe("past_due"))
            /\ stripe.status = "past_due"
        BY <2>2, <3>1, <3>2, MethodsSafe, CatTyped
      <4> QED BY <1>3, <3>2, <4>1 DEF CallsToApply
    <3>3. CASE sub.status # "past_due"
      BY <1>3, <1>10, <2>2, <3>1, <3>3 DEF CallsToApply, Paying
    <3> QED BY <3>2, <3>3
  <2> QED BY <1>4, <1>7, <2>1, <2>2, <2>3, <2>4
<1> QED BY <1>4, <1>5, <1>6, <1>7, <1>8, <1>9, <1>10, PlainFollows

LEMMA ViewFollows ==
  ASSUME IInv, OInv, FInv, Calm, NEW r \in Request, View(r)
  PROVE  FInv'
<1>1. PICK more : more = Expire
  OBVIOUS
<1>2. /\ InFlight(r) /\ NextCall(r) = "view" /\ req[r] \in Handler
      /\ Continue(r, req[r], more \o Rest(r))
      /\ UNCHANGED <<billing, operator, stripe, events, plans>>
  BY <1>1 DEF View, Waits, IInv, TypeOK
<1>3. /\ Ends(NextCall(r)) /\ NextCall(r) \notin Plan
      /\ NextCall(r) \notin FindBilling \union {"save", "clearBilling", "saveOperator"}
  BY <1>2 DEF Ends, FindBilling, Plan
<1>4. more \in Seq(Made) /\ Fresh(more) /\ more \in Seq(NoOuter)
  BY <1>1, ExpireMade, ExpireFresh, MethodsSafe DEF Expire
<1>5. ~At(req[r], {"save"})
  BY <1>2 DEF At, NextCall
<1>6. PICK k : k = [req[r] EXCEPT !.calls = more \o Rest(r)]
  OBVIOUS
<1>7. ASSUME stripe.status \in Paying, Harmless(req[r], stripe.status),
             Mended(req[r], stripe.status, billing, operator)
      PROVE  /\ more \in Seq(Safe(stripe.status))
             /\ req[r].sub.status \in {"none", stripe.status}
             /\ Mended(k, stripe.status, billing', operator')
  <2>1. /\ billing.lifecycleStatus \in Right(stripe.status)
        /\ Mended(k, stripe.status, billing, operator)
    BY <1>2, <1>3, <1>7, StillRight
  <2>2. more \in Seq(Safe(stripe.status))
    <3>1. CASE ~GraceOver
      <4>1. more = << >>
        BY <1>1, <3>1 DEF Expire
      <4> QED BY <4>1
    <3>2. CASE GraceOver
      <4>1. stripe.status = "past_due"
        BY <1>7, <2>1, <3>2 DEF GraceOver, Right, Paying
      <4> QED BY <1>1, <3>2, <4>1, MethodsSafe DEF Expire
    <3> QED BY <3>1, <3>2
  <2> QED BY <1>2, <1>7, <2>1, <2>2 DEF Harmless, InFlight
<1> QED BY <1>2, <1>3, <1>4, <1>5, <1>6, <1>7, PlainFollows

LEMMA RetrieveFollows ==
  ASSUME IInv, OInv, FInv, Calm, NEW r \in Request, Retrieve(r)
  PROVE  FInv'
<1>1. PICK h : h = [req[r] EXCEPT !.sub = stripe]
  OBVIOUS
<1>2. /\ InFlight(r) /\ NextCall(r) = "retrieve" /\ req[r] \in Handler
      /\ Continue(r, h, Rest(r)) /\ UNCHANGED <<billing, operator, stripe, events, plans>>
  BY <1>1 DEF Retrieve, Waits, IInv, TypeOK
<1>3. /\ Ends(NextCall(r)) /\ NextCall(r) \notin Plan
      /\ NextCall(r) \notin FindBilling \union {"save", "clearBilling", "saveOperator"}
  BY <1>2 DEF Ends, FindBilling, Plan
<1>4. h \in Handler /\ h.outer = req[r].outer /\ h.sub = stripe
  BY <1>1, <1>2 DEF Handler, IInv, TypeOK
<1>5. ~At(req[r], {"save"})
  BY <1>2 DEF At, NextCall
<1>6. PICK k : k = [h EXCEPT !.calls = Rest(r)]
  OBVIOUS
<1>7. ASSUME stripe.status \in Paying, Harmless(req[r], stripe.status),
             Mended(req[r], stripe.status, billing, operator)
      PROVE  Mended(k, stripe.status, billing', operator')
  BY <1>2, <1>3, <1>7, StillRight
<1> QED BY <1>2, <1>3, <1>4, <1>5, <1>6, <1>7, RestFollows, PlainFollows

LEMMA FindSuspensionFollows ==
  ASSUME IInv, OInv, FInv, Calm, NEW r \in Request, FindSuspension(r)
  PROVE  FInv'
<1>1. /\ InFlight(r) /\ NextCall(r) \in FindOperator /\ req[r] \in Handler
      /\ UNCHANGED <<billing, operator, stripe, events, plans>>
  BY DEF FindSuspension, Waits, IInv, TypeOK
<1>2. /\ Ends(NextCall(r)) /\ NextCall(r) \notin Plan
      /\ NextCall(r) \notin FindBilling \union {"save", "saveOperator"}
  BY <1>1 DEF Ends, FindBilling, FindOperator, Plan
<1>3. ~At(req[r], {"save"}) /\ ~At(req[r], FindBilling \union {"save"})
  BY <1>2 DEF At, NextCall
<1>4. ASSUME stripe.status \in Paying, Harmless(req[r], stripe.status)
      PROVE  /\ req[r].sub.status \in {"none", stripe.status}
             /\ stripe.status = "active" => NextCall(r) # "suspendBilling"
  <2>1. NextCall(r) \in Safe(stripe.status)
    BY <1>1, <1>4, TailTyped DEF Harmless, InFlight, NextCall
  <2> QED BY <1>1, <1>4, <2>1 DEF Harmless, InFlight, Safe, Wrong
<1>5. CASE NextCall(r) = "clearBilling" /\ IsNotBillings
  <2>1. Continue(r, req[r], Rest(r))
    BY <1>5 DEF FindSuspension
  <2>2. PICK k : k = [req[r] EXCEPT !.calls = Rest(r)]
    OBVIOUS
  <2>3. ASSUME stripe.status \in Paying, Mended(req[r], stripe.status, billing, operator)
        PROVE  Mended(k, stripe.status, billing', operator')
    BY <1>1, <1>3, <1>5, <2>3 DEF Mended, IsNotBillings
  <2> QED BY <1>1, <1>2, <1>3, <1>4, <2>1, <2>2, <2>3, RestFollows, PlainFollows
<1>6. CASE ~(NextCall(r) = "clearBilling" /\ IsNotBillings)
  <2>1. PICK h : h = [req[r] EXCEPT !.operator = FoundOperator(NextCall(r))]
    OBVIOUS
  <2>2. PICK more : more = <<"saveOperator">>
    OBVIOUS
  <2>3. Continue(r, h, more \o Rest(r))
    BY <1>6, <2>1, <2>2 DEF FindSuspension
  <2>4. FoundOperator(NextCall(r)) \in OperatorRow
    BY <1>1 DEF FindOperator, FoundOperator, SuspendedBy, Lifted, OperatorRow
  <2>5. /\ h \in Handler /\ h.outer = req[r].outer /\ h.sub = req[r].sub
        /\ h.operator = FoundOperator(NextCall(r))
    BY <1>1, <2>1, <2>4 DEF Handler
  <2>6. PICK k : k = [h EXCEPT !.calls = more \o Rest(r)]
    OBVIOUS
  <2>7. Rest(r) \in Seq(Call) /\ k.calls = <<"saveOperator">> \o Rest(r)
    BY <1>1, <2>2, <2>5, <2>6, NextCallTyped DEF IInv, Handler
  <2>8. At(k, {"saveOperator"})
    BY <2>7 DEF At
  <2>9. Fresh(more) /\ more \in Seq(NoOuter) /\ \A x \in Paying : more \in Seq(Safe(x))
    BY <2>2, OthersFresh DEF NoOuter, Safe, Wrong, Call, Paying
  <2>10. ASSUME stripe.status \in Paying, Harmless(req[r], stripe.status),
                Mended(req[r], stripe.status, billing, operator)
         PROVE  /\ stripe.status = "active" => h.operator.suspendReason # "billing"
                /\ Mended(k, stripe.status, billing', operator')
    <3>1. stripe.status = "active" => h.operator.suspendReason # "billing"
      BY <1>1, <1>4, <2>5, <2>10 DEF FoundOperator, FindOperator, SuspendedBy, Lifted
    <3> QED BY <1>1, <1>3, <2>8, <2>10, <3>1 DEF Mended
  <2>11. /\ InTurn(stripe.status, events)
         /\ Fits(req[r], billing, operator, plans, stripe.status, events)
    BY <1>1, TheOne
  <2>12. plans'["pilot"] + plans'["corporate"] = 1
    BY <1>1, <1>2, <2>11 DEF Fits, OnePlan, At, NextCall
  <2>13. /\ stripe'.status = stripe.status /\ InTurn(stripe.status, events')
         /\ \A type : Queues(events, type) => Queues(events', type)
    BY <1>1, <2>11
  <2> QED BY <1>1, <1>2, <1>3, <1>4, <2>3, <2>5, <2>6, <2>9, <2>10, <2>12, <2>13, StepFollows
<1> QED BY <1>5, <1>6

LEMMA SaveSuspensionFollows ==
  ASSUME IInv, OInv, FInv, Calm, NEW r \in Request, SaveSuspension(r)
  PROVE  FInv'
<1>1. /\ InFlight(r) /\ NextCall(r) = "saveOperator" /\ req[r] \in Handler
      /\ Continue(r, req[r], Rest(r)) /\ UNCHANGED <<billing, stripe, events, plans>>
      /\ operator' = req[r].operator
  BY DEF SaveSuspension, Waits, IInv, TypeOK
<1>2. Ends(NextCall(r)) /\ NextCall(r) \notin Plan
  BY <1>1 DEF Ends, FindBilling, Plan
<1>3. /\ ~At(req[r], {"save"}) /\ ~At(req[r], FindBilling \union {"save"})
      /\ At(req[r], {"saveOperator"})
  BY <1>1 DEF At, NextCall, InFlight, FindBilling
<1>4. PICK k : k = [req[r] EXCEPT !.calls = Rest(r)]
  OBVIOUS
<1>5. ASSUME stripe.status \in Paying, Harmless(req[r], stripe.status),
             Mended(req[r], stripe.status, billing, operator)
      PROVE  /\ req[r].sub.status \in {"none", stripe.status}
             /\ Mended(k, stripe.status, billing', operator')
  BY <1>1, <1>3, <1>5 DEF Harmless, Mended, InFlight
<1> QED BY <1>1, <1>2, <1>3, <1>4, <1>5, RestFollows, PlainFollows

LEMMA ChangePlanFollows ==
  ASSUME IInv, OInv, FInv, Calm, NEW r \in Request, ChangePlan(r)
  PROVE  FInv'
<1>1. /\ InFlight(r) /\ NextCall(r) \in Plan \union {"planOff"} /\ req[r] \in Handler
      /\ Continue(r, req[r], Rest(r)) /\ UNCHANGED <<billing, operator, stripe, events>>
      /\ TypeOK
  BY DEF ChangePlan, Waits, IInv, TypeOK
<1>2. /\ InTurn(stripe.status, events) /\ Alone(r)
      /\ Fits(req[r], billing, operator, plans, stripe.status, events)
  BY <1>1, TheOne
<1>3. NextCall(r) \notin FindBilling \union {"save", "clearBilling", "saveOperator"}
  BY <1>1 DEF FindBilling, Plan
<1>4. ~At(req[r], {"save"})
  BY <1>3 DEF At, NextCall
<1>5. PICK k : k = [req[r] EXCEPT !.calls = Rest(r)]
  OBVIOUS
<1>6. ASSUME stripe.status \in Paying, Harmless(req[r], stripe.status),
             Mended(req[r], stripe.status, billing, operator)
      PROVE  /\ req[r].sub.status \in {"none", stripe.status}
             /\ Mended(k, stripe.status, billing', operator')
             /\ ~At(req[r], {"saveOperator"})
  <2>1. Mended(k, stripe.status, billing, operator)
    BY <1>1, <1>3, <1>6, StillRight
  <2> QED BY <1>1, <1>3, <1>6, <2>1 DEF Harmless, InFlight, At, NextCall
<1>7. \A type : Queues(events, type) => Queues(events', type)
  BY <1>1
<1>8. k.calls = Rest(r) /\ k.outer = req[r].outer /\ k.sub = req[r].sub
      /\ ~At(k, {"saveOperator"})
  <2>1. k.calls = Rest(r) /\ k.outer = req[r].outer /\ k.sub = req[r].sub
    BY <1>1, <1>5 DEF Handler
  <2> QED BY <1>1, <2>1, SavedFirst DEF At
<1>9. CASE NextCall(r) \in Plan
  <2>1. Ends(NextCall(r))
    BY <1>9 DEF Ends, FindBilling, Plan
  <2>2. plans'["pilot"] + plans'["corporate"] = 1
    <3>1. plans["pilot"] + plans["corporate"] = 0
      BY <1>1, <1>2, <1>9 DEF Fits, OnePlan, At, NextCall, InFlight
    <3>2. plans["pilot"] \in Nat /\ plans["corporate"] \in Nat
      BY <1>1 DEF TypeOK, Plan
    <3>3. plans' = [plans EXCEPT ![NextCall(r)] = @ + 1] /\ plans \in [Plan -> Nat]
      BY <1>1, <1>9 DEF ChangePlan, Waits, Plan, TypeOK
    <3> QED BY <1>9, <3>1, <3>2, <3>3 DEF Plan
  <2> QED BY <1>1, <1>2, <1>4, <1>5, <1>6, <1>7, <1>8, <2>1, <2>2, RestFollows, StepFollows
<1>10. CASE NextCall(r) = "planOff"
  <2>1. /\ req[r].calls \in Seq(Call) /\ req[r].calls # << >>
        /\ Head(req[r].calls) = "planOff" /\ Rest(r) = Tail(req[r].calls)
        /\ Rest(r) \in Seq(Call)
    BY <1>1, <1>10, NextCallTyped DEF InFlight, NextCall, Rest
  <2>2. Paired(Rest(r)) /\ Rest(r) # << >> /\ Head(Rest(r)) \in Plan
    BY <1>2, <2>1, PairedTail DEF Fits, Pair, Ends
  <2>3. At(k, Plan) /\ ~At(k, {"save"})
    BY <1>8, <2>2 DEF At, Plan
  <2>4. plans' = [p \in Plan |-> 0]
    BY <1>10 DEF ChangePlan, Waits, Plan
  <2>5. OnePlan(k, plans')
    BY <2>3, <2>4 DEF OnePlan, Plan
  <2>6. ~At(req[r], {"checkout"})
    BY <1>10 DEF At, NextCall
  <2>7. \A S : req[r].calls \in Seq(S) => k.calls \in Seq(S)
    BY <1>8, <2>1, TailTyped
  <2>8. Linked(k, billing, stripe.status, events)
    BY <1>2, <1>4, <1>8, <2>3, <2>6, <2>7 DEF Fits, Linked
  <2>9. ASSUME stripe.status \in Paying, ~Queues(events, Cure(stripe.status))
        PROVE  Harmless(k, stripe.status) /\ Mended(k, stripe.status, billing, operator)
    <3>1. Harmless(req[r], stripe.status) /\ Mended(req[r], stripe.status, billing, operator)
      BY <1>2, <2>9 DEF Fits
    <3>2. req[r].sub.status \in {"none", stripe.status}
      BY <1>6, <2>9, <3>1
    <3>3. Harmless(k, stripe.status)
      BY <1>8, <2>3, <2>7, <3>1, <3>2 DEF Harmless
    <3> QED BY <1>1, <1>6, <2>9, <3>1, <3>3
  <2>10. Fits(k, billing, operator, plans', stripe.status, events)
    BY <1>8, <2>2, <2>5, <2>8, <2>9 DEF Fits
  <2>11. Fits(k, billing', operator', plans', stripe'.status, events')
         /\ InTurn(stripe'.status, events')
    BY <1>1, <1>2, <2>10
  <2> QED BY <1>1, <1>2, <1>5, <2>1, <2>11, ContinueFollows
<1> QED BY <1>1, <1>9, <1>10

-----------------------------------------------------------------------------
(* The queue *)

AllSubscribed == EventType \subseteq Subscribed

Joins(ev, ev2, e) ==
  /\ ev2 \in Seq(Event) /\ Len(ev) \in Nat /\ Len(ev2) = Len(ev) + 1
  /\ \A i \in 1 .. Len(ev) : ev2[i] = ev[i]
  /\ ev2[Len(ev) + 1] = e
  /\ \A t : Queues(ev, t) => Queues(ev2, t)
  /\ \A t : \A i \in 1 .. Len(ev) : Follows(ev, i, t) => Follows(ev2, i, t)

LEMMA OneQueued ==
  ASSUME AllSubscribed, NEW ev \in Seq(Event), NEW sub \in Subscription, NEW type \in EventType
  PROVE  Joins(ev, ev \o Queued(sub, type), [type |-> type, sub |-> sub])
<1>1. PICK e \in Event : e = [type |-> type, sub |-> sub]
  BY DEF Event
<1>2. PICK last : last = <<e>>
  OBVIOUS
<1>3. Queued(sub, type) = last /\ last \in Seq(Event) /\ Len(last) = 1 /\ last[1] = e
  BY <1>1, <1>2 DEF Queued, AllSubscribed
<1>4. PICK ev2 : ev2 = ev \o last
  OBVIOUS
<1>5. /\ ev2 \in Seq(Event) /\ Len(ev) \in Nat /\ Len(ev2) = Len(ev) + 1
      /\ \A i \in 1 .. Len(ev) + 1 : ev2[i] = IF i <= Len(ev) THEN ev[i] ELSE last[i - Len(ev)]
  BY <1>3, <1>4, ConcatProperties, LenProperties
<1>6. /\ \A i \in 1 .. Len(ev) : ev2[i] = ev[i]
      /\ ev2[Len(ev) + 1] = e
  BY <1>3, <1>5
<1>7. \A t : Queues(ev, t) => Queues(ev2, t)
  BY <1>5, <1>6 DEF Queues
<1>8. \A t : \A i \in 1 .. Len(ev) : Follows(ev, i, t) => Follows(ev2, i, t)
  BY <1>5, <1>6 DEF Follows
<1>9. Joins(ev, ev2, e)
  BY <1>5, <1>6, <1>7, <1>8 DEF Joins
<1> QED BY <1>1, <1>3, <1>4, <1>9

(* What a subscription says of itself. *)
Tells(type, status) ==
  /\ type \in {"checkout.session.completed", "invoice.paid"} => status = "active"
  /\ type = "invoice.payment_failed" => status = "past_due"

LEMMA OneInTurn ==
  ASSUME AllSubscribed, NEW ev \in Seq(Event), NEW sub \in Subscription, NEW type \in EventType,
         Tells(type, sub.status), type # "checkout.session.completed",
         NEW status, InTurn(status, ev), sub.status = status \/ sub.status \notin Paying
  PROVE  InTurn(sub.status, ev \o Queued(sub, type))
<1>1. PICK ev2 : ev2 = ev \o Queued(sub, type)
  OBVIOUS
<1>2. /\ ev2 \in Seq(Event) /\ Len(ev) \in Nat /\ Len(ev2) = Len(ev) + 1
      /\ \A i \in 1 .. Len(ev) : ev2[i] = ev[i]
      /\ ev2[Len(ev) + 1] = [type |-> type, sub |-> sub]
      /\ \A t : \A i \in 1 .. Len(ev) : Follows(ev, i, t) => Follows(ev2, i, t)
  BY <1>1, OneQueued DEF Joins
<1>3. ASSUME NEW i \in 1 .. Len(ev2)
      PROVE  /\ Tells(ev2[i].type, ev2[i].sub.status)
             /\ ev2[i].type = "checkout.session.completed" => Follows(ev2, i, "invoice.paid")
             /\ sub.status \in Paying =>
                  ev2[i].sub.status = sub.status \/ Follows(ev2, i, Cure(sub.status))
  <2>1. CASE i = Len(ev) + 1
    BY <1>2, <2>1
  <2>2. CASE i # Len(ev) + 1
    <3>1. i \in 1 .. Len(ev) /\ ev2[i] = ev[i]
      BY <1>2, <2>2
    <3> QED BY <1>2, <3>1 DEF InTurn, Tells
  <2> QED BY <2>1, <2>2
<1> QED BY <1>1, <1>3 DEF InTurn, Tells

LEMMA TwoInTurn ==
  ASSUME AllSubscribed, NEW ev \in Seq(Event), NEW sub \in Subscription,
         NEW a \in EventType, NEW b \in EventType, Tells(a, sub.status), Tells(b, sub.status),
         a = "checkout.session.completed" => b = "invoice.paid",
         b # "checkout.session.completed", Cure(sub.status) \in {a, b},
         NEW status, InTurn(status, ev)
  PROVE  /\ InTurn(sub.status, ev \o Queued(sub, a) \o Queued(sub, b))
         /\ \A t : Queues(ev, t) \/ t \in {a, b} =>
                     Queues(ev \o Queued(sub, a) \o Queued(sub, b), t)
<1>1. PICK ev2 : ev2 = ev \o Queued(sub, a)
  OBVIOUS
<1>2. /\ ev2 \in Seq(Event) /\ Len(ev) \in Nat /\ Len(ev2) = Len(ev) + 1
      /\ \A i \in 1 .. Len(ev) : ev2[i] = ev[i]
      /\ ev2[Len(ev) + 1] = [type |-> a, sub |-> sub]
      /\ \A t : Queues(ev, t) => Queues(ev2, t)
      /\ \A t : \A i \in 1 .. Len(ev) : Follows(ev, i, t) => Follows(ev2, i, t)
  BY <1>1, OneQueued DEF Joins
<1>3. PICK ev3 : ev3 = ev2 \o Queued(sub, b)
  OBVIOUS
<1>4. /\ Len(ev3) = Len(ev2) + 1
      /\ \A i \in 1 .. Len(ev2) : ev3[i] = ev2[i]
      /\ ev3[Len(ev2) + 1] = [type |-> b, sub |-> sub]
      /\ \A t : Queues(ev2, t) => Queues(ev3, t)
      /\ \A t : \A i \in 1 .. Len(ev2) : Follows(ev2, i, t) => Follows(ev3, i, t)
  BY <1>2, <1>3, OneQueued DEF Joins
<1>5. /\ Len(ev3) = Len(ev) + 2
      /\ \A i \in 1 .. Len(ev) : ev3[i] = ev[i]
      /\ ev3[Len(ev) + 1] = [type |-> a, sub |-> sub]
      /\ ev3[Len(ev) + 2] = [type |-> b, sub |-> sub]
  BY <1>2, <1>4
<1>6. ASSUME NEW i \in 1 .. Len(ev) PROVE Follows(ev3, i, Cure(sub.status))
  <2>1. CASE Cure(sub.status) = a
    BY <1>2, <1>5, <2>1 DEF Follows
  <2>2. CASE Cure(sub.status) = b
    BY <1>2, <1>5, <2>2 DEF Follows
  <2> QED BY <2>1, <2>2
<1>7. ASSUME NEW i \in 1 .. Len(ev3)
      PROVE  /\ Tells(ev3[i].type, ev3[i].sub.status)
             /\ ev3[i].type = "checkout.session.completed" => Follows(ev3, i, "invoice.paid")
             /\ ev3[i].sub.status = sub.status \/ Follows(ev3, i, Cure(sub.status))
  <2>1. CASE i = Len(ev) + 1
    <3>1. b = "invoice.paid" => Follows(ev3, i, "invoice.paid")
      BY <1>2, <1>5, <2>1 DEF Follows
    <3> QED BY <1>5, <2>1, <3>1
  <2>2. CASE i = Len(ev) + 2
    BY <1>5, <2>2
  <2>3. CASE i \notin {Len(ev) + 1, Len(ev) + 2}
    <3>1. i \in 1 .. Len(ev) /\ i \in 1 .. Len(ev2) /\ ev3[i] = ev[i]
      BY <1>2, <1>5, <2>3
    <3>2. ev[i].type = "checkout.session.completed" => Follows(ev3, i, "invoice.paid")
      BY <1>2, <1>4, <3>1 DEF InTurn
    <3> QED BY <1>6, <3>1, <3>2 DEF InTurn, Tells
  <2> QED BY <2>1, <2>2, <2>3
<1>8. Queues(ev3, a) /\ Queues(ev3, b)
  BY <1>2, <1>5 DEF Queues
<1>9. \A t : Queues(ev, t) \/ t \in {a, b} => Queues(ev3, t)
  BY <1>2, <1>4, <1>8
<1>10. InTurn(sub.status, ev3)
  BY <1>7 DEF InTurn, Tells
<1> QED BY <1>1, <1>3, <1>9, <1>10

(* The first event leaves the queue. *)
LEMMA FirstLeaves ==
  ASSUME NEW ev \in Seq(Event), ev # << >>, NEW ev2, ev2 = RemoveAt(ev, 1),
         NEW status, InTurn(status, ev)
  PROVE  /\ InTurn(status, ev2)
         /\ \A t : Queues(ev, t) => Queues(ev2, t) \/ ev[1].type = t
         /\ \A t : Follows(ev, 1, t) => Queues(ev2, t)
         /\ \A t : Queues(ev2, t) => Queues(ev, t)
<1>1. Len(ev) \in Nat \ {0} /\ \A i \in 1 .. Len(ev) : ev[i] \in Event
  BY EmptySeq, ElementOfSeq
<1>2. /\ SubSeq(ev, 1, 0) = << >>
      /\ SubSeq(ev, 2, Len(ev)) \in Seq(Event)
      /\ Len(SubSeq(ev, 2, Len(ev))) = Len(ev) - 1
      /\ \A i \in 1 .. Len(ev) - 1 : SubSeq(ev, 2, Len(ev))[i] = ev[i + 1]
  <2>1. SubSeq(ev, 1, 0) = << >>
    BY SubSeqEmpty
  <2>2. 2 \in Int /\ Len(ev) \in Int /\ \A i \in 2 .. Len(ev) : ev[i] \in Event
    BY <1>1
  <2>3. PICK n \in Nat : n = Len(ev) - 1
    BY <1>1
  <2>4. Len(SubSeq(ev, 2, Len(ev))) = n
    BY <2>2, <2>3, SubSeqProperties
  <2>5. SubSeq(ev, 2, Len(ev)) \in Seq(Event)
    BY <2>2, SubSeqProperties
  <2>6. \A i \in 1 .. n : SubSeq(ev, 2, Len(ev))[i] = ev[i + 1]
    BY <2>2, <2>3, SubSeqProperties
  <2> QED BY <2>1, <2>3, <2>4, <2>5, <2>6
<1>3. ev2 = SubSeq(ev, 2, Len(ev))
  BY <1>2, ConcatEmptySeq DEF RemoveAt
<1>4. Len(ev2) = Len(ev) - 1 /\ \A i \in 1 .. Len(ev) - 1 : ev2[i] = ev[i + 1]
  BY <1>2, <1>3
<1>5. \A t : \A i \in 1 .. Len(ev2) : Follows(ev, i + 1, t) => Follows(ev2, i, t)
  <2> SUFFICES ASSUME NEW t, NEW i \in 1 .. Len(ev2), Follows(ev, i + 1, t)
               PROVE  Follows(ev2, i, t)
    OBVIOUS
  <2>1. PICK j \in i + 1 + 1 .. Len(ev) : ev[j].type = t
    BY DEF Follows
  <2>2. i \in Nat /\ j \in Int /\ i + 2 <= j /\ j <= Len(ev) /\ Len(ev) \in Nat
    <3>1. Len(ev) \in Nat /\ Len(ev2) = Len(ev) - 1
      BY <1>1, <1>4
    <3>2. i \in Nat
      BY <3>1
    <3> QED BY <3>1, <3>2
  <2>3. PICK m \in Int : m = j - 1
    BY <2>2
  <2>4. m \in i + 1 .. Len(ev) - 1 /\ m \in 1 .. Len(ev) - 1 /\ m + 1 = j
    BY <2>2, <2>3
  <2>5. ev2[m] = ev[j]
    BY <1>4, <2>4
  <2> QED BY <1>4, <2>1, <2>4, <2>5 DEF Follows
<1>6. ASSUME NEW t, NEW j \in 1 .. Len(ev), j # 1, ev[j].type = t PROVE Queues(ev2, t)
  <2>1. j - 1 \in 1 .. Len(ev2) /\ ev2[j - 1] = ev[j]
    BY <1>1, <1>4, <1>6
  <2> QED BY <1>6, <2>1 DEF Queues
<1>7. \A t : Queues(ev, t) => Queues(ev2, t) \/ ev[1].type = t
  BY <1>6 DEF Queues
<1>8. \A t : Follows(ev, 1, t) => Queues(ev2, t)
  BY <1>1, <1>6 DEF Follows
<1>9. \A t : Queues(ev2, t) => Queues(ev, t)
  <2> SUFFICES ASSUME NEW t, NEW i \in 1 .. Len(ev2), ev2[i].type = t
               PROVE  Queues(ev, t)
    BY DEF Queues
  <2>1. i + 1 \in 1 .. Len(ev) /\ ev2[i] = ev[i + 1]
    BY <1>1, <1>4
  <2> QED BY <2>1 DEF Queues
<1>10. InTurn(status, ev2)
  <2> SUFFICES ASSUME NEW i \in 1 .. Len(ev2)
               PROVE  /\ Tells(ev2[i].type, ev2[i].sub.status)
                      /\ ev2[i].type = "checkout.session.completed" =>
                           Follows(ev2, i, "invoice.paid")
                      /\ status \in Paying =>
                           ev2[i].sub.status = status \/ Follows(ev2, i, Cure(status))
    BY DEF InTurn, Tells
  <2>1. i + 1 \in 1 .. Len(ev) /\ ev2[i] = ev[i + 1]
    BY <1>1, <1>4
  <2> QED BY <1>5, <2>1 DEF InTurn, Tells
<1> QED BY <1>7, <1>8, <1>9, <1>10

-----------------------------------------------------------------------------
(* The queue grows *)

LEMMA StripeUpdateFollows ==
  ASSUME AllSubscribed, IInv, OInv, FInv, Calm, NEW r \in Request, StripeUpdate(r)
  PROVE  FInv'
<1>1. PICK sub : sub = [stripe EXCEPT !.cancel = req[r].sub.cancel]
  OBVIOUS
<1>2. /\ InFlight(r) /\ NextCall(r) = "stripeUpdate" /\ req[r] \in Handler
      /\ UNCHANGED <<billing, operator, plans>> /\ TypeOK
  BY DEF StripeUpdate, Waits, IInv, TypeOK
<1>3. sub \in Subscription /\ sub.status = stripe.status
  BY <1>1, <1>2 DEF TypeOK, Handler, Subscription
<1>4. /\ Ends(NextCall(r)) /\ NextCall(r) \notin Plan
      /\ NextCall(r) \notin FindBilling \union {"save", "clearBilling", "saveOperator"}
  BY <1>2 DEF Ends, FindBilling, Plan
<1>5. ~At(req[r], {"save"}) /\ ~At(req[r], {"checkout"})
  BY <1>2 DEF At, NextCall
<1>6. /\ InTurn(stripe.status, events) /\ Alone(r)
      /\ Fits(req[r], billing, operator, plans, stripe.status, events)
  BY <1>2, TheOne
<1>7. plans["pilot"] + plans["corporate"] = 1
  BY <1>2, <1>4, <1>6 DEF Fits, OnePlan, At, NextCall
<1>8. CASE stripe.status \in {"active", "past_due"}
  <2>1. /\ stripe' = sub /\ Continue(r, req[r], Rest(r))
        /\ events' = events \o Queued(sub, "customer.subscription.updated")
    BY <1>1, <1>8 DEF StripeUpdate
  <2>2. InTurn(stripe.status, events')
    <3>1. InTurn(sub.status, events \o Queued(sub, "customer.subscription.updated"))
      BY <1>2, <1>3, <1>6, OneInTurn DEF Tells, EventType, TypeOK
    <3> QED BY <1>3, <2>1, <3>1
  <2>3. \A type : Queues(events, type) => Queues(events', type)
    BY <1>2, <1>3, <2>1, OneQueued DEF Joins, EventType, TypeOK
  <2>4. PICK k : k = [req[r] EXCEPT !.calls = Rest(r)]
    OBVIOUS
  <2>5. k.calls = Rest(r) /\ ~At(k, {"saveOperator"})
    <3>1. k.calls = Rest(r)
      BY <1>2, <2>4 DEF Handler
    <3> QED BY <1>2, <3>1, SavedFirst DEF At
  <2>6. ASSUME stripe.status \in Paying, Harmless(req[r], stripe.status),
               Mended(req[r], stripe.status, billing, operator)
        PROVE  /\ req[r].sub.status \in {"none", stripe.status}
               /\ Mended(k, stripe.status, billing', operator')
    <3>1. Mended(k, stripe.status, billing, operator)
      BY <1>2, <1>4, <2>6, StillRight
    <3> QED BY <1>2, <2>6, <3>1 DEF Harmless, InFlight
  <2>7. stripe'.status = stripe.status /\ plans'["pilot"] + plans'["corporate"] = 1
    BY <1>2, <1>3, <1>7, <2>1
  <2> QED BY <1>2, <1>4, <1>5, <2>1, <2>2, <2>3, <2>4, <2>5, <2>6, <2>7, RestFollows, StepFollows
<1>9. CASE stripe.status \notin {"active", "past_due"}
  <2>1. Continue(r, Idle, << >>) /\ UNCHANGED <<stripe, events>>
    BY <1>9 DEF StripeUpdate
  <2>2. PICK k : k = [Idle EXCEPT !.calls = << >>]
    OBVIOUS
  <2>3. k.calls = << >> /\ Idle \in Handler /\ << >> \in Seq(Call)
    BY <2>2, IdleOK DEF Idle
  <2>4. Fresh(k.calls) /\ k.calls \in Seq(NoOuter)
    BY <2>3, OthersFresh
  <2>5. stripe.status # "none" =>
          billing.subscribed \/ Queues(events, "checkout.session.completed") \/ At(k, {"checkout"})
    BY <1>5, <1>6 DEF Fits, Linked
  <2>6. Fits(k, billing, operator, plans, stripe.status, events)
    BY <1>7, <1>9, <2>4, <2>5, FreshFits DEF Paying
  <2>7. Fits(k, billing', operator', plans', stripe'.status, events')
        /\ InTurn(stripe'.status, events')
    BY <1>2, <1>6, <2>1, <2>6
  <2> QED BY <1>2, <1>6, <2>1, <2>2, <2>3, <2>7, ContinueFollows
<1> QED BY <1>8, <1>9

(* Nothing of what a handler holds or of a row changes. *)
LEMMA QueueFollows ==
  ASSUME FInv, Calm, UNCHANGED <<billing, operator, plans, req>>,
         InTurn(stripe'.status, events'),
         \A type : Queues(events, type) => Queues(events', type),
         stripe'.status \in Paying => Queues(events', Cure(stripe'.status)),
         stripe.status = "none" => Queues(events', "checkout.session.completed")
  PROVE  FInv'
<1>1. PICK r \in Request :
        Alone(r) /\ Fits(req[r], billing, operator, plans, stripe.status, events)
  BY DEF FInv
<1>2. PICK h : h = req[r]
  OBVIOUS
<1>3. Linked(h, billing, stripe'.status, events')
  BY <1>1, <1>2 DEF Fits, Linked
<1>4. Fits(h, billing, operator, plans, stripe'.status, events')
  BY <1>1, <1>2, <1>3 DEF Fits
<1>5. Fits(req'[r], billing', operator', plans', stripe'.status, events')
  BY <1>2, <1>4
<1>6. Alone(r)'
  BY <1>1 DEF Alone, InFlight
<1> QED BY <1>5, <1>6 DEF FInv

LEMMA StripeFollows ==
  ASSUME AllSubscribed, IInv, FInv, Calm, Stripe
  PROVE  FInv'
<1>1. TypeOK /\ InTurn(stripe.status, events) /\ events \in Seq(Event)
  BY DEF IInv, TypeOK, FInv
<1>2. ASSUME NEW from, NEW to \in StripeStatus, Moves(from, to)
      PROVE  /\ stripe' \in Subscription /\ stripe'.status = to /\ stripe.status \in from
             /\ UNCHANGED <<billing, operator, plans, req>>
  BY <1>1, <1>2 DEF Moves, TypeOK, Subscription
<1>3. ASSUME NEW sub \in Subscription, sub = stripe', sub.status \in Paying,
             UNCHANGED <<billing, operator, plans, req>>,
             NEW a \in EventType, NEW b \in EventType, Tells(a, sub.status), Tells(b, sub.status),
             a = "checkout.session.completed" => b = "invoice.paid",
             b # "checkout.session.completed", Cure(sub.status) \in {a, b},
             events' = events \o Queued(sub, a) \o Queued(sub, b),
             stripe.status = "none" => a = "checkout.session.completed"
      PROVE  FInv'
  <2>1. /\ InTurn(sub.status, events')
        /\ \A t : Queues(events, t) \/ t \in {a, b} => Queues(events', t)
    BY <1>1, <1>3, TwoInTurn
  <2>2. /\ InTurn(stripe'.status, events')
        /\ stripe'.status \in Paying => Queues(events', Cure(stripe'.status))
        /\ stripe.status = "none" => Queues(events', "checkout.session.completed")
        /\ \A type : Queues(events, type) => Queues(events', type)
    BY <1>3, <2>1
  <2> QED BY <1>3, <2>2, QueueFollows
<1>4. CASE Checkout
  <2>1. Moves({"none", "canceled"}, "active") /\ "active" \in StripeStatus
    BY <1>4 DEF Checkout, StripeStatus
  <2>2. PICK sub \in Subscription : sub = stripe' /\ sub.status = "active"
    BY <1>2, <2>1
  <2>3. stripe.status \in {"none", "canceled"} /\ UNCHANGED <<billing, operator, plans, req>>
    BY <1>2, <2>1
  <2>4. events' = events \o Queued(sub, "checkout.session.completed")
                          \o Queued(sub, "invoice.paid")
    BY <1>4, <2>2 DEF Checkout
  <2> QED BY <1>3, <2>2, <2>3, <2>4 DEF EventType, Tells, Cure, Paying
<1>5. CASE PaymentFails
  <2>1. Moves({"active"}, "past_due") /\ "past_due" \in StripeStatus
    BY <1>5 DEF PaymentFails, StripeStatus
  <2>2. PICK sub \in Subscription : sub = stripe' /\ sub.status = "past_due"
    BY <1>2, <2>1
  <2>3. stripe.status = "active" /\ UNCHANGED <<billing, operator, plans, req>>
    BY <1>2, <2>1
  <2>4. CASE events' = events \o Queued(stripe', "invoice.payment_failed")
                              \o Queued(stripe', "customer.subscription.updated")
    BY <1>3, <2>2, <2>3, <2>4 DEF EventType, Tells, Cure, Paying
  <2>5. CASE events' = events \o Queued(stripe', "customer.subscription.updated")
                              \o Queued(stripe', "invoice.payment_failed")
    BY <1>3, <2>2, <2>3, <2>5 DEF EventType, Tells, Cure, Paying
  <2> QED BY <1>5, <2>4, <2>5 DEF PaymentFails
<1>6. CASE PaymentRecovers
  <2>1. Moves({"past_due"}, "active") /\ "active" \in StripeStatus
    BY <1>6 DEF PaymentRecovers, StripeStatus
  <2>2. PICK sub \in Subscription : sub = stripe' /\ sub.status = "active"
    BY <1>2, <2>1
  <2>3. stripe.status = "past_due" /\ UNCHANGED <<billing, operator, plans, req>>
    BY <1>2, <2>1
  <2>4. events' = events \o Queued(sub, "customer.subscription.updated")
                          \o Queued(sub, "invoice.paid")
    BY <1>6, <2>2 DEF PaymentRecovers
  <2> QED BY <1>3, <2>2, <2>3, <2>4 DEF EventType, Tells, Cure, Paying
<1>7. CASE SubscriptionEnds
  <2>1. Moves({"active", "past_due"}, "canceled") /\ "canceled" \in StripeStatus
    BY <1>7 DEF SubscriptionEnds, StripeStatus
  <2>2. PICK sub \in Subscription : sub = stripe' /\ sub.status = "canceled"
    BY <1>2, <2>1
  <2>3. events' = events \o Queued(sub, "customer.subscription.updated")
    BY <1>7, <2>2 DEF SubscriptionEnds
  <2>4. InTurn(sub.status, events')
    BY <1>1, <2>2, <2>3, OneInTurn DEF Tells, EventType, Paying
  <2>5. \A type : Queues(events, type) => Queues(events', type)
    BY <1>1, <2>2, <2>3, OneQueued DEF Joins, EventType
  <2>6. stripe.status # "none" /\ UNCHANGED <<billing, operator, plans, req>>
    BY <1>2, <2>1
  <2> QED BY <2>2, <2>4, <2>5, <2>6, QueueFollows DEF Paying
<1> QED BY <1>4, <1>5, <1>6, <1>7 DEF Stripe

-----------------------------------------------------------------------------
(* The handlers start *)

LEMMA StartFollows ==
  ASSUME IInv, FInv, Calm, NEW r \in Request, MayStart(r), NEW h \in Handler,
         NEW calls, Fresh(calls), Continue(r, h, calls),
         UNCHANGED <<billing, operator, plans, stripe, events>>,
         calls # << >> => Head(calls) # "saveOperator",
         calls \in Seq(NoOuter) \/ h.outer.subscribed,
         /\ stripe.status \in Paying
         /\ ~Queues(events, Cure(stripe.status))
         /\ billing.lifecycleStatus \in Right(stripe.status)
         => /\ calls \in Seq(Safe(stripe.status))
            /\ h.sub.status \in {"none", stripe.status}
            /\ calls \in Seq(NoOuter) \/ h.outer.lifecycleStatus \in Right(stripe.status)
  PROVE  FInv'
<1>1. /\ InTurn(stripe.status, events) /\ Alone(r) /\ req[r].calls = << >>
      /\ Fits(req[r], billing, operator, plans, stripe.status, events)
      /\ TypeOK /\ req[r] \in Handler
  BY NoneYet DEF IInv, TypeOK
<1>2. PICK k : k = [h EXCEPT !.calls = calls]
  OBVIOUS
<1>3. /\ k.calls = calls /\ k.outer = h.outer /\ k.sub = h.sub /\ ~At(k, {"saveOperator"})
  <2>1. k.calls = calls /\ k.outer = h.outer /\ k.sub = h.sub
    BY <1>2 DEF Handler
  <2> QED BY <2>1 DEF At
<1>4. plans["pilot"] + plans["corporate"] = 1
  BY <1>1 DEF Fits, OnePlan, At
<1>5. stripe.status # "none" =>
        billing.subscribed \/ Queues(events, "checkout.session.completed") \/ At(k, {"checkout"})
  BY <1>1 DEF Fits, Linked, At
<1>6. ASSUME stripe.status \in Paying, ~Queues(events, Cure(stripe.status))
      PROVE  /\ billing.lifecycleStatus \in Right(stripe.status)
             /\ Mended(k, stripe.status, billing, operator)
  <2>1. Mended(req[r], stripe.status, billing, operator)
    BY <1>1, <1>6 DEF Fits
  <2>2. /\ billing.lifecycleStatus \in Right(stripe.status)
        /\ stripe.status = "active" => operator.suspendReason # "billing"
    BY <1>1, <2>1, RowsRight
  <2> QED BY <2>2 DEF Mended
<1>7. Fits(k, billing, operator, plans, stripe.status, events)
  BY <1>3, <1>4, <1>5, <1>6, FreshFits
<1>8. Fits(k, billing', operator', plans', stripe'.status, events')
      /\ InTurn(stripe'.status, events')
  BY <1>1, <1>7
<1>9. calls \in Seq(Call)
  BY DEF Fresh
<1> QED BY <1>1, <1>2, <1>8, <1>9, ContinueFollows

LEMMA NotSaveOperator ==
  ASSUME NEW s \in Seq(Made), s # << >>
  PROVE  Head(s) # "saveOperator"
BY TailTyped DEF Made

LEMMA ExpireGraceFollows ==
  ASSUME IInv, FInv, Calm, NEW r \in Request, ExpireGrace(r)
  PROVE  FInv'
<1>1. PICK calls : calls = Expire
  OBVIOUS
<1>2. /\ MayStart(r) /\ Continue(r, Idle, calls) /\ calls # << >>
      /\ UNCHANGED <<billing, operator, plans, stripe, events>>
  BY <1>1 DEF ExpireGrace
<1>3. GraceOver /\ calls = Downgrade("past_due")
  BY <1>1, <1>2 DEF Expire
<1>4. /\ Fresh(calls) /\ calls \in Seq(Made) /\ calls \in Seq(NoOuter)
      /\ calls \in Seq(Safe("past_due"))
  BY <1>3, MethodsFresh, MethodsMade, MethodsSafe
<1>5. Idle \in Handler /\ Idle.sub.status = "none"
  BY IdleOK DEF Idle, NoEvent
<1>6. ASSUME stripe.status \in Paying, billing.lifecycleStatus \in Right(stripe.status)
      PROVE  calls \in Seq(Safe(stripe.status))
  BY <1>3, <1>4, <1>6 DEF GraceOver, Right, Paying
<1> QED BY <1>2, <1>4, <1>5, <1>6, NotSaveOperator, StartFollows

(* Unless the payment is still queued, the row knows its subscription. *)
LEMMA KnowsSubscription ==
  ASSUME FInv, Calm, NEW r \in Request, MayStart(r),
         stripe.status \in Paying, ~Queues(events, Cure(stripe.status))
  PROVE  billing.subscribed
<1>1. /\ InTurn(stripe.status, events) /\ req[r].calls = << >>
      /\ Fits(req[r], billing, operator, plans, stripe.status, events)
  BY NoneYet
<1>2. \A i \in 1 .. Len(events) : ~Follows(events, i, Cure(stripe.status))
  BY DEF Queues, Follows
<1>3. ~Queues(events, "checkout.session.completed")
  BY <1>1, <1>2 DEF InTurn, Queues, Paying, Cure
<1> QED BY <1>1, <1>3 DEF Fits, Linked, At, Paying

LEMMA ConsoleFollows ==
  ASSUME IInv, FInv, Calm, NEW r \in Request, Console(r)
  PROVE  FInv'
<1>1. MayStart(r) /\ UNCHANGED <<billing, operator, plans, stripe, events>>
  BY DEF Console
<1>2. Idle \in Handler /\ Idle.sub.status = "none" /\ TypeOK
  BY IdleOK DEF Idle, NoEvent, IInv
<1>3. ASSUME NEW cancel \in BOOLEAN, CancelOrResume(r, cancel) PROVE FInv'
  <2>1. PICK outer : outer = [billing EXCEPT !.cancelAtPeriodEnd = cancel]
    OBVIOUS
  <2>2. /\ outer \in Billing /\ outer.subscribed = billing.subscribed
        /\ outer.lifecycleStatus = billing.lifecycleStatus
    BY <1>2, <2>1 DEF TypeOK, Billing
  <2>3. PICK sub : sub = [status |-> "none", cancel |-> cancel]
    OBVIOUS
  <2>4. sub \in Subscription /\ sub.status = "none"
    BY <2>3 DEF Subscription, StripeStatus
  <2>5. PICK h : h = [Idle EXCEPT !.outer = outer, !.sub = sub]
    OBVIOUS
  <2>6. h \in Handler /\ h.outer = outer /\ h.sub = sub
    BY <1>2, <2>2, <2>4, <2>5 DEF Handler
  <2>7. CASE billing.subscribed
    <3>1. PICK calls : calls = <<"stripeUpdate", "saveOuter", "retrieve", "apply", "view">>
      OBVIOUS
    <3>2. Continue(r, h, calls)
      BY <1>3, <2>1, <2>3, <2>5, <2>7, <3>1 DEF CancelOrResume
    <3>3. Fresh(calls) /\ (calls # << >> => Head(calls) # "saveOperator")
      BY <3>1, OthersFresh
    <3>4. \A x \in Paying : calls \in Seq(Safe(x))
      BY <3>1 DEF Paying, Safe, Wrong, Call
    <3> QED BY <1>1, <2>2, <2>4, <2>6, <2>7, <3>2, <3>3, <3>4, StartFollows
  <2>8. CASE ~billing.subscribed
    <3>1. PICK calls : calls = Downgrade("canceled") \o <<"view">>
      OBVIOUS
    <3>2. Continue(r, h, calls)
      BY <1>3, <2>1, <2>3, <2>5, <2>8, <3>1 DEF CancelOrResume
    <3>3. Fresh(calls)
      BY <3>1, MethodsFresh, OthersFresh, FreshCat
    <3>4. calls \in Seq(Made) /\ calls \in Seq(NoOuter)
      <4>1. <<"view">> \in Seq(Made) /\ <<"view">> \in Seq(NoOuter)
        BY DEF Made, NoOuter, Call
      <4> QED BY <3>1, <4>1, MethodsMade, MethodsSafe, CatTyped
    <3>5. ~(stripe.status \in Paying /\ ~Queues(events, Cure(stripe.status)))
      BY <1>1, <2>8, KnowsSubscription
    <3> QED BY <1>1, <2>6, <3>2, <3>3, <3>4, <3>5, NotSaveOperator, StartFollows
  <2> QED BY <2>7, <2>8
<1>4. ASSUME NEW plan \in Plan, Continue(r, Idle, SelectPlan(plan)) PROVE FInv'
  <2>1. PICK calls : calls = SelectPlan(plan)
    OBVIOUS
  <2>2. /\ Fresh(calls) /\ calls \in Seq(Made) /\ calls \in Seq(NoOuter)
        /\ \A x \in Paying : calls \in Seq(Safe(x))
    BY <2>1, MethodsFresh, MethodsMade, MethodsSafe
  <2>3. Continue(r, Idle, calls)
    BY <1>4, <2>1
  <2> QED BY <1>1, <1>2, <2>2, <2>3, NotSaveOperator, StartFollows
<1>5. ASSUME NEW call \in {"suspendOperator", "liftOperator"}, Continue(r, Idle, <<call>>)
      PROVE  FInv'
  <2>1. PICK calls : calls = <<call>>
    OBVIOUS
  <2>2. /\ Fresh(calls) /\ calls \in Seq(NoOuter) /\ Head(calls) # "saveOperator"
        /\ \A x \in Paying : calls \in Seq(Safe(x))
    BY <2>1, OthersFresh DEF NoOuter, Safe, Wrong, Paying, Call, FindOperator
  <2>3. Continue(r, Idle, calls)
    BY <1>5, <2>1
  <2> QED BY <1>1, <1>2, <2>2, <2>3, StartFollows
<1> QED BY <1>3, <1>4, <1>5 DEF Console

(* What an event's handler begins with. *)
LEMMA WebhookBegins ==
  /\ CheckoutCompleted # << >> /\ Head(CheckoutCompleted) = "checkout"
  /\ \A type \in EventType : Webhook(type) \in Seq(NoOuter)
<1>1. PICK a, b, c :
        a = <<"checkout", "save">> /\ b = <<"clearBilling">> /\ c = <<"retrieve", "apply">>
  OBVIOUS
<1>8. /\ a \in Seq(Call) /\ b \in Seq(Call) /\ c \in Seq(Call)
      /\ a # << >> /\ Head(a) = "checkout"
  BY <1>1 DEF Call, FindBilling, FindOperator
<1>2. Assign("corporate") \in Seq(Call)
  BY CallsTyped DEF Plan
<1>3. \A s, t \in Seq(Call) : s # << >> /\ Head(s) = "checkout" =>
        s \o t \in Seq(Call) /\ s \o t # << >> /\ Head(s \o t) = "checkout"
  <2> SUFFICES ASSUME NEW s \in Seq(Call), NEW t \in Seq(Call), s # << >>, Head(s) = "checkout"
               PROVE  s \o t \in Seq(Call) /\ s \o t # << >> /\ Head(s \o t) = "checkout"
    OBVIOUS
  <2>1. /\ Len(s) \in Nat \ {0} /\ Len(t) \in Nat /\ Len(s \o t) = Len(s) + Len(t)
        /\ s \o t \in Seq(Call) /\ (s \o t)[1] = s[1]
    BY ConcatProperties, LenProperties, EmptySeq
  <2> QED BY <2>1, EmptySeq
<1>4. PICK s \in Seq(Call) : s = a \o b /\ s # << >> /\ Head(s) = "checkout"
  BY <1>8, <1>3
<1>5. PICK t \in Seq(Call) : t = s \o Assign("corporate") /\ t # << >> /\ Head(t) = "checkout"
  BY <1>2, <1>3, <1>4
<1>6. CheckoutCompleted = t \o c
  BY <1>1, <1>4, <1>5 DEF CheckoutCompleted, ClearBillingAutomatedSuspend
<1>7. \A type \in EventType : Webhook(type) \in Seq(NoOuter)
  <2>1. <<"apply">> \in Seq(NoOuter)
    BY DEF NoOuter, Call
  <2> QED BY <2>1, MethodsSafe DEF Webhook, EventType
<1> QED BY <1>8, <1>3, <1>5, <1>6, <1>7

LEMMA DeliverFollows ==
  ASSUME IInv, FInv, Calm, NEW r \in Request, Deliver(r)
  PROVE  FInv'
<1>1. PICK i \in 1 .. Len(events) :
        /\ inOrder => i = 1
        /\ events' = RemoveAt(events, i)
        /\ Continue(r, [Idle EXCEPT !.event = events[i], !.sub = events[i].sub],
                    Webhook(events[i].type))
  BY DEF Deliver
<1>2. /\ MayStart(r) /\ UNCHANGED <<billing, operator, plans, stripe>> /\ i = 1
      /\ TypeOK /\ events \in Seq(Event) /\ events # << >>
  <2>1. i = 1 /\ TypeOK /\ events \in Seq(Event)
    BY <1>1 DEF Calm, IInv, TypeOK
  <2>2. events # << >>
    BY <1>1, <2>1
  <2> QED BY <2>1, <2>2 DEF Deliver
<1>3. PICK e : e = events[1]
  OBVIOUS
<1>4. e \in Event /\ e.type \in EventType /\ e.sub \in Subscription
  <2>1. e \in Event
    BY <1>2, <1>3, ElementOfSeq
  <2> QED BY <2>1 DEF Event
<1>5. PICK h : h = [Idle EXCEPT !.event = e, !.sub = e.sub]
  OBVIOUS
<1>6. /\ h \in Handler /\ h.sub = e.sub
  BY <1>4, <1>5, IdleOK DEF Handler
<1>7. PICK calls : calls = Webhook(e.type)
  OBVIOUS
<1>8. /\ Continue(r, h, calls) /\ events' = RemoveAt(events, 1)
  BY <1>1, <1>2, <1>3, <1>5, <1>7
<1>9. PICK k : k = [h EXCEPT !.calls = calls]
  OBVIOUS
<1>10. k.calls = calls /\ k.sub = e.sub
  BY <1>6, <1>9 DEF Handler
<1>11. /\ Fresh(calls) /\ calls \in Seq(Made) /\ calls \in Seq(NoOuter) /\ calls \in Seq(Call)
  BY <1>4, <1>7, WebhookFresh, WebhookMade, WebhookBegins DEF Fresh
<1>12. /\ InTurn(stripe.status, events) /\ Alone(r) /\ req[r].calls = << >>
       /\ Fits(req[r], billing, operator, plans, stripe.status, events)
       /\ req[r] \in Handler
  BY <1>2, NoneYet DEF TypeOK
<1>13. PICK ev2 : ev2 = RemoveAt(events, 1)
  OBVIOUS
<1>14. /\ InTurn(stripe.status, ev2)
       /\ \A t : Queues(events, t) => Queues(ev2, t) \/ e.type = t
       /\ \A t : Follows(events, 1, t) => Queues(ev2, t)
  BY <1>2, <1>3, <1>12, <1>13, FirstLeaves
<1>15. plans["pilot"] + plans["corporate"] = 1
  BY <1>12 DEF Fits, OnePlan, At
<1>16. stripe.status # "none" =>
         billing.subscribed \/ Queues(ev2, "checkout.session.completed") \/ At(k, {"checkout"})
  <2>1. CASE e.type = "checkout.session.completed"
    BY <1>7, <1>10, <2>1, WebhookBegins DEF Webhook, At
  <2>2. CASE e.type # "checkout.session.completed"
    BY <1>12, <1>14, <2>2 DEF Fits, Linked, At
  <2> QED BY <2>1, <2>2
<1>17. ~At(k, {"saveOperator"})
  BY <1>10, <1>11, NotSaveOperator DEF At
<1>18. ASSUME stripe.status \in Paying, ~Queues(ev2, Cure(stripe.status))
       PROVE  /\ calls \in Seq(Safe(stripe.status))
              /\ e.sub.status = stripe.status
              /\ Mended(k, stripe.status, billing, operator)
  <2>1. /\ e.type \in {"checkout.session.completed", "invoice.paid"} => e.sub.status = "active"
        /\ e.type = "invoice.payment_failed" => e.sub.status = "past_due"
        /\ e.type = "checkout.session.completed" => Queues(ev2, "invoice.paid")
        /\ e.sub.status = stripe.status
    <3>1. 1 \in 1 .. Len(events)
      BY <1>2
    <3> QED BY <1>3, <1>12, <1>14, <1>18, <3>1 DEF InTurn
  <2>2. CASE e.type = Cure(stripe.status)
    <3>1. CASE stripe.status = "active"
      <4>1. calls = InvoicePaid
        BY <1>7, <2>2, <3>1 DEF Webhook, Cure
      <4>2. At(k, FindBilling \union {"save"}) /\ Clears(k.calls)
        BY <1>10, <4>1, PaidClears DEF At, FindBilling
      <4> QED BY <2>1, <3>1, <4>1, <4>2, MethodsSafe DEF Mended
    <3>2. CASE stripe.status = "past_due"
      <4>1. calls = PaymentFailed
        BY <1>7, <2>2, <3>2 DEF Webhook, Cure
      <4>2. At(k, FindBilling \union {"save"})
        BY <1>10, <4>1, PaidClears DEF At, FindBilling
      <4> QED BY <2>1, <3>2, <4>1, <4>2, MethodsSafe DEF Mended
    <3> QED BY <1>18, <3>1, <3>2 DEF Paying
  <2>3. CASE e.type # Cure(stripe.status)
    <3>1. e.type = "customer.subscription.updated"
      BY <1>4, <1>18, <2>1, <2>3 DEF Cure, EventType, Paying
    <3>2. calls = <<"apply">>
      BY <1>7, <3>1 DEF Webhook
    <3>3. calls \in Seq(Safe(stripe.status))
      BY <1>18, <3>2 DEF Safe, Wrong, Call, Paying
    <3>4. ~Queues(events, Cure(stripe.status))
      BY <1>14, <1>18, <2>3
    <3>5. Mended(req[r], stripe.status, billing, operator)
      BY <1>12, <1>18, <3>4 DEF Fits
    <3>6. /\ billing.lifecycleStatus \in Right(stripe.status)
          /\ stripe.status = "active" => operator.suspendReason # "billing"
      BY <1>12, <3>5, RowsRight
    <3>7. Mended(k, stripe.status, billing, operator)
      BY <3>6 DEF Mended
    <3> QED BY <2>1, <3>3, <3>7
  <2> QED BY <2>2, <2>3
<1>19. Fits(k, billing, operator, plans, stripe.status, ev2)
  BY <1>10, <1>11, <1>15, <1>16, <1>17, <1>18, FreshFits
<1>20. Fits(k, billing', operator', plans', stripe'.status, events')
       /\ InTurn(stripe'.status, events')
  BY <1>2, <1>8, <1>13, <1>14, <1>19
<1> QED BY <1>2, <1>6, <1>8, <1>9, <1>11, <1>12, <1>20, ContinueFollows

-----------------------------------------------------------------------------
(* The invariant *)

LEMMA NextFollows ==
  ASSUME AllSubscribed, IInv, OInv, FInv, [Next]_vars
  PROVE  FInv'
<1> SUFFICES ASSUME Calm' PROVE FInv'
  BY DEF FInv
<1>1. CASE UNCHANGED vars
  BY <1>1 DEF FInv, Calm, vars, moving, InTurn, Follows, Fits, Alone, InFlight
<1>2. CASE Next
  <2>1. serial' = serial /\ inOrder' = inOrder
    BY <1>2 DEF Next
  <2>2. IInv /\ spent \in [moves : Nat, calls : Nat, failures : Nat] /\ req \in [Request -> Handler]
    BY DEF IInv, TypeOK
  <2>3. ASSUME spent'.failures = spent.failures PROVE Calm
    BY <2>1, <2>3 DEF Calm
  <2>4. CASE Tick
    <3>1. Calm
      BY <2>3, <2>4 DEF Tick
    <3>2. PICK r \in Request :
            /\ InTurn(stripe.status, events) /\ Alone(r)
            /\ Fits(req[r], billing, operator, plans, stripe.status, events)
      BY <3>1 DEF FInv
    <3>3. UNCHANGED <<billing, operator, plans, stripe, events, req>>
      BY <2>4 DEF Tick
    <3>4. Alone(r)'
      BY <3>2, <3>3 DEF Alone, InFlight
    <3>5. /\ InTurn(stripe'.status, events')
          /\ Fits(req'[r], billing', operator', plans', stripe'.status, events')
      BY <3>2, <3>3
    <3> QED BY <3>4, <3>5 DEF FInv
  <2>5. CASE Stripe
    <3>1. PICK from, to : Moves(from, to)
      BY <2>5 DEF Stripe, Checkout, PaymentFails, PaymentRecovers, SubscriptionEnds
    <3>2. spent'.failures = spent.failures
      BY <2>2, <3>1 DEF Moves
    <3> QED BY <2>3, <2>5, <3>2, StripeFollows
  <2>6. ASSUME NEW r \in Request, Deliver(r) PROVE FInv'
    <3>1. Calm
      BY <2>3, <2>6 DEF Deliver
    <3> QED BY <2>6, <3>1, DeliverFollows
  <2>7. ASSUME NEW r \in Request, ExpireGrace(r) PROVE FInv'
    <3>1. Calm
      BY <2>3, <2>7 DEF ExpireGrace
    <3> QED BY <2>7, <3>1, ExpireGraceFollows
  <2>8. ASSUME NEW r \in Request, Console(r) PROVE FInv'
    <3>1. Calm
      BY <2>2, <2>3, <2>8 DEF Console
    <3> QED BY <2>8, <3>1, ConsoleFollows
  <2>9. ASSUME NEW r \in Request, Step(r) PROVE FInv'
    <3>1. spent' = spent
      BY <2>9 DEF Step, Find, Save, Apply, View, FindSuspension, SaveSuspension, ChangePlan,
                  StripeUpdate, Retrieve
    <3>2. Calm
      BY <2>3, <3>1
    <3> QED BY <2>9, <3>2, FindFollows, SaveFollows, ApplyFollows, ViewFollows,
               FindSuspensionFollows, SaveSuspensionFollows, ChangePlanFollows,
               StripeUpdateFollows, RetrieveFollows DEF Step
  <2>10. ASSUME NEW r \in Request, Fail(r) PROVE FALSE
    <3>1. spent'.failures = spent.failures + 1 /\ spent.failures \in Nat
      BY <2>2, <2>10 DEF Fail
    <3> QED BY <3>1 DEF Calm
  <2> QED BY <1>2, <2>4, <2>5, <2>6, <2>7, <2>8, <2>9, <2>10 DEF Next
<1> QED BY <1>1, <1>2

LEMMA InitFollows == Init => FInv
<1> SUFFICES ASSUME Init PROVE FInv
  OBVIOUS
<1>1. Timer \in Request /\ req[Timer].calls = << >> /\ \A q \in Request : ~InFlight(q)
  BY RequestAssumption DEF Init, Idle, InFlight
<1>2. events = << >> /\ Len(events) = 0 /\ stripe.status = "none"
  BY DEF Init
<1>3. InTurn(stripe.status, events)
  BY <1>2 DEF InTurn
<1>4. plans["pilot"] + plans["corporate"] = 1
  BY DEF Init, Plan
<1>5. Fresh(req[Timer].calls) /\ req[Timer].calls \in Seq(NoOuter)
  BY <1>1, OthersFresh
<1>6. Fits(req[Timer], billing, operator, plans, stripe.status, events)
  BY <1>2, <1>4, <1>5, FreshFits DEF Paying
<1> QED BY <1>1, <1>3, <1>6 DEF FInv, Alone

(* When nothing is in flight and nothing queued, nothing is left to mend. *)
LEMMA SettledFollows ==
  ASSUME IInv, FInv
  PROVE  FollowsSubscriptionSerially
<1> SUFFICES ASSUME Calm, Settled PROVE PaidTenantsCanSend /\ GraceFollowsFailure
  BY DEF FollowsSubscriptionSerially, Calm, PaidTenantsCanSend, GraceFollowsFailure
<1>1. PICK r \in Request : Fits(req[r], billing, operator, plans, stripe.status, events)
  BY DEF FInv
<1>2. req[r].calls = << >> /\ req[r] \in Handler /\ events = << >>
  BY DEF Settled, Quiescent, InFlight, IInv, TypeOK
<1>3. plans["pilot"] + plans["corporate"] = 1
  BY <1>1, <1>2 DEF Fits, OnePlan, At
<1>4. ASSUME stripe.status \in Paying
      PROVE  /\ billing.lifecycleStatus \in Right(stripe.status)
             /\ stripe.status = "active" => operator.suspendReason # "billing"
  <2>1. ~Queues(events, Cure(stripe.status))
    BY <1>2 DEF Queues
  <2>2. Mended(req[r], stripe.status, billing, operator)
    BY <1>1, <1>4, <2>1 DEF Fits
  <2> QED BY <1>2, <2>2, RowsRight
<1> QED BY <1>3, <1>4 DEF PaidTenantsCanSend, GraceFollowsFailure, Paying, Right

(* While handlers run one at a time, events come in the order of their     *)
(* queue, all of them are subscribed to and no call throws, the rows, the  *)
(* plan and the suspension have followed the Stripe subscription whenever  *)
(* the last event is handled (handleStripeWebhook with                     *)
(* MailSubscriptionLifecycleService), however many handlers, requests and  *)
(* moves of the subscription there are.                                    *)
THEOREM SubscriptionIsFollowed ==
  ASSUME AllSubscribed
  PROVE  Spec => []FollowsSubscriptionSerially
<1>1. Init => IInv /\ OInv /\ FInv
  BY InitOK, InitFits, InitFollows
<1>2. IInv /\ OInv /\ FInv /\ [Next]_vars => (IInv /\ OInv /\ FInv)'
  BY StepKeeps, NextFits, NextFollows
<1>3. IInv /\ FInv => FollowsSubscriptionSerially
  BY SettledFollows
<1> QED BY <1>1, <1>2, <1>3, PTL DEF Spec
=============================================================================
