---------------------------- MODULE MailBilling -----------------------------
(***************************************************************************)
(* The subscription of one mail organization                               *)
(* (apps/api/src/modules/notification: MailSubscriptionLifecycleService,   *)
(* MailTenantSuspensionService, MailBillingGraceScheduler, the webhook of  *)
(* MailBillingService) and the plan it pays for.                           *)
(*                                                                         *)
(* A handler (a webhook delivery, a console request or the timer) is a     *)
(* list of calls still to be made; every awaited call is a step.  A find   *)
(* changes the entity it has read at once, the save that follows writes    *)
(* the entity back whatever the row has become.  Stripe is external: its   *)
(* subscription moves by itself and it queues the events the endpoint is   *)
(* subscribed to; an event whose handler throws is delivered again.        *)
(***************************************************************************)
EXTENDS Integers, Sequences, SequencesExt, FiniteSets

CONSTANTS
  Request,      \* handlers that may be in flight at once
  Timer,        \* the handler of MailBillingGraceScheduler, one of Request
  Subscribed,   \* event types the webhook endpoint is configured for
  Operator,     \* TRUE: the platform operator suspends and lifts
  GraceDays,    \* MAIL_BILLING_GRACE_DAYS, in ticks
  MaxTime,      \* bound of the clock
  MaxMoves,     \* bound of the moves of the Stripe subscription
  MaxCalls,     \* bound of the console's requests
  MaxFailures   \* bound of the calls that throw

ASSUME RequestAssumption == Timer \in Request
ASSUME BoundAssumption ==
  /\ GraceDays \in Nat \ {0} /\ MaxTime \in Nat /\ MaxMoves \in Nat
  /\ MaxCalls \in Nat /\ MaxFailures \in Nat
ASSUME FlagAssumption == Operator \in BOOLEAN

VARIABLES
  billing,    \* row of mail_organization_billing_state
  operator,   \* row of mail_organization_operator_state
  plans,      \* active rows of company_subscriptions, counted by plan
  stripe,     \* the Stripe subscription (external)
  events,     \* webhook events on their way
  req,        \* the handlers in flight and what they hold in memory
  now,        \* Date.now()
  spent,      \* how much of the bounds is used up
              \* whether, in this behaviour,
  serial,     \*   a handler starts only when none is in flight
  inOrder     \*   events are delivered in the order of their queue

moving == <<billing, operator, plans, stripe, events, req, now, spent>>
vars == <<moving, serial, inOrder>>

-----------------------------------------------------------------------------
(* Rows, events and handlers *)

Null == 0          \* a timestamp that is not set; the clock starts at 1

Billing == [lifecycleStatus : {"trialing", "active", "grace", "past_due", "canceled"},
            subscribed : BOOLEAN,         \* stripeSubscriptionId is set
            cancelAtPeriodEnd : BOOLEAN,
            graceEndsAt : Nat]

NewBilling == [lifecycleStatus |-> "trialing", subscribed |-> FALSE,
               cancelAtPeriodEnd |-> FALSE, graceEndsAt |-> Null]

(* suspendReason: of whom the text says it comes.  A slip of lifting       *)
(* leaves an empty text instead of null.                                   *)
OperatorRow == [suspended : BOOLEAN, suspendReason : {"none", "billing", "operator"}]
Lifted_Empty == [suspended |-> FALSE, suspendReason |-> ""]
Lifted == [suspended |-> FALSE, suspendReason |-> "none"]
SuspendedBy(whom) == [suspended |-> TRUE, suspendReason |-> whom]

Plan == {"pilot", "corporate"}
StripeStatus == {"none", "active", "past_due", "canceled"}
Subscription == [status : StripeStatus, cancel : BOOLEAN]

EventType == {"checkout.session.completed", "invoice.paid", "invoice.payment_failed",
              "customer.subscription.updated"}
Event == [type : EventType, sub : Subscription]
NoEvent == [type |-> "none", sub |-> [status |-> "none", cancel |-> FALSE]]

(* The awaited calls.  A find's name says what becomes of the entity.      *)
FindBilling == {"checkout", "active", "grace", "canceled", "past_due", "trialing"}
FindOperator == {"clearBilling", "suspendBilling", "suspendOperator", "liftOperator"}
Call == FindBilling \union FindOperator \union
        {"save", "saveOuter", "saveOperator", "apply", "view",
         "stripeUpdate", "retrieve", "planOff", "pilot", "corporate"}

Handler == [calls : Seq(Call),
            outer : Billing,          \* entity of the calling method
            inner : Billing,          \* entity of the method it calls
            operator : OperatorRow,
            sub : Subscription,       \* what Stripe has said of the subscription
            event : Event \union {NoEvent}]

Idle == [calls |-> << >>, outer |-> NewBilling, inner |-> NewBilling,
         operator |-> Lifted, sub |-> NoEvent.sub, event |-> NoEvent]

TypeOK ==
  /\ billing \in Billing
  /\ operator \in OperatorRow
  /\ plans \in [Plan -> Nat]
  /\ stripe \in Subscription
  /\ events \in Seq(Event)
  /\ req \in [Request -> Handler]
  /\ now \in Nat \ {0}
  /\ spent \in [moves : Nat, calls : Nat, failures : Nat]

(* The organization has selected the pilot plan and no subscription yet. *)
Init ==
  /\ billing = NewBilling
  /\ operator = Lifted
  /\ plans = [p \in Plan |-> IF p = "pilot" THEN 1 ELSE 0]
  /\ stripe = [status |-> "none", cancel |-> FALSE]
  /\ events = << >>
  /\ req = [r \in Request |-> Idle]
  /\ now = 1
  /\ spent = [moves |-> 0, calls |-> 0, failures |-> 0]
  /\ serial \in BOOLEAN /\ inOrder \in BOOLEAN

-----------------------------------------------------------------------------
(* The methods, as the calls they make *)

(* assignActivePlan: every active row is switched off, a new one inserted. *)
Assign(plan) == <<"planOff", plan>>

(* downgradeToPilot. *)
Downgrade(status) == Assign("pilot") \o <<status, "save", "suspendBilling">>

ClearBillingAutomatedSuspend == <<"clearBilling">>

(* recordStripeInvoicePaid, then the plan of the invoice. *)
InvoicePaid == <<"active", "save">> \o ClearBillingAutomatedSuspend \o Assign("corporate")

(* recordStripeCheckoutCompleted with syncStripeSubscription *)
CheckoutCompleted ==
  <<"checkout", "save">> \o ClearBillingAutomatedSuspend \o Assign("corporate")
    \o <<"retrieve", "apply">>

(* recordStripePaymentFailed.  A slip only logs. *)
PaymentFailed_Ignored == << >>
PaymentFailed == <<"grace", "save">>

(* handleStripeWebhook *)
Webhook(type) ==
  CASE type = "checkout.session.completed" -> CheckoutCompleted
    [] type = "invoice.paid" -> InvoicePaid
    [] type = "invoice.payment_failed" -> PaymentFailed
    [] type = "customer.subscription.updated" -> <<"apply">>

(* selectMailPlan *)
SelectPlan(plan) == Assign(plan) \o <<"trialing", "save">>

(* The entity a find leaves in memory. *)
Found(call) ==
  CASE call = "checkout" -> [billing EXCEPT !.lifecycleStatus = "active", !.subscribed = TRUE,
                                            !.cancelAtPeriodEnd = FALSE, !.graceEndsAt = Null]
    [] call = "active" -> [billing EXCEPT !.lifecycleStatus = "active", !.graceEndsAt = Null]
    [] call = "grace" -> [billing EXCEPT !.lifecycleStatus = "grace",
                                         !.graceEndsAt = now + GraceDays]
    [] call = "trialing" -> [billing EXCEPT !.lifecycleStatus = "trialing",
                                            !.cancelAtPeriodEnd = FALSE, !.graceEndsAt = Null]
    [] call \in {"canceled", "past_due"} ->
         [billing EXCEPT !.lifecycleStatus = call, !.cancelAtPeriodEnd = FALSE,
                         !.graceEndsAt = Null]

Applied(sub) ==
  [billing EXCEPT !.subscribed = TRUE, !.cancelAtPeriodEnd = sub.cancel,
     !.lifecycleStatus = IF sub.status = "active" THEN "active" ELSE @,
     !.graceEndsAt = IF sub.status = "active" /\ ~sub.cancel THEN Null ELSE @]

CallsToApply(sub) ==
  CASE sub.status \in {"active", "none"} -> <<"saveOuter">>
    [] sub.status = "past_due" ->
         (IF billing.graceEndsAt = Null THEN PaymentFailed ELSE << >>) \o <<"saveOuter">>
    [] sub.status = "canceled" -> Downgrade("canceled")

(* processAllGraceExpiries and applyGraceExpiryIfNeeded: the grace is over *)
(* when its end has come.  A slip misses it unless it looks at that very   *)
(* moment.                                                                 *)
GraceOver_Moment == billing.lifecycleStatus = "grace" /\ billing.graceEndsAt = now
GraceOver == /\ billing.lifecycleStatus = "grace"
             /\ billing.graceEndsAt # Null /\ billing.graceEndsAt <= now

Expire == IF GraceOver THEN Downgrade("past_due") ELSE << >>

InFlight(r) == req[r].calls # << >>
MayStart(r) == ~InFlight(r) /\ (serial => \A o \in Request : ~InFlight(o))
NextCall(r) == Head(req[r].calls)
Rest(r) == Tail(req[r].calls)

(* The handler has made its next call and holds h; calls are left. *)
Continue(r, h, calls) ==
  req' = [req EXCEPT ![r] = IF calls = << >> THEN Idle ELSE [h EXCEPT !.calls = calls]]

(* Handlers that want to make one of these calls next *)
Waits(r, calls) == InFlight(r) /\ NextCall(r) \in calls

-----------------------------------------------------------------------------
(* The calls *)

Find(r) ==
  /\ Waits(r, FindBilling)
  /\ Continue(r, [req[r] EXCEPT !.inner = Found(NextCall(r))], Rest(r))
  /\ UNCHANGED <<billing, operator, plans, stripe, events, now, spent>>

Save(r) ==
  /\ \/ Waits(r, {"save"}) /\ billing' = req[r].inner
     \/ Waits(r, {"saveOuter"}) /\ billing' = req[r].outer
  /\ Continue(r, req[r], Rest(r))
  /\ UNCHANGED <<operator, plans, stripe, events, now, spent>>

Apply(r) ==
  /\ Waits(r, {"apply"})
  /\ Continue(r, [req[r] EXCEPT !.outer = Applied(req[r].sub)],
              CallsToApply(req[r].sub) \o Rest(r))
  /\ UNCHANGED <<billing, operator, plans, stripe, events, now, spent>>

(* getLifecycleView at the end of a request *)
View(r) ==
  /\ Waits(r, {"view"})
  /\ Continue(r, req[r], Expire \o Rest(r))
  /\ UNCHANGED <<billing, operator, plans, stripe, events, now, spent>>

(* clearBillingAutomatedSuspend lifts only a suspension whose reason names *)
(* billing; setBillingAutomatedSuspend and the operator write their own.   *)
(* A slip of the former lifts whatever there is.                           *)
FoundOperator(call) ==
  CASE call = "suspendBilling" -> SuspendedBy("billing")
    [] call = "suspendOperator" -> SuspendedBy("operator")
    [] call \in {"clearBilling", "liftOperator"} -> Lifted

IsNotBillings_Any == ~operator.suspended
IsNotBillings == operator.suspendReason # "billing"

FindSuspension(r) ==
  /\ Waits(r, FindOperator)
  /\ IF NextCall(r) = "clearBilling" /\ IsNotBillings
     THEN Continue(r, req[r], Rest(r))
     ELSE Continue(r, [req[r] EXCEPT !.operator = FoundOperator(NextCall(r))],
                   <<"saveOperator">> \o Rest(r))
  /\ UNCHANGED <<billing, operator, plans, stripe, events, now, spent>>

SaveSuspension(r) ==
  /\ Waits(r, {"saveOperator"})
  /\ operator' = req[r].operator
  /\ Continue(r, req[r], Rest(r))
  /\ UNCHANGED <<billing, plans, stripe, events, now, spent>>

(* assignActivePlan: the UPDATE, then the insert *)
ChangePlan(r) ==
  /\ \/ Waits(r, {"planOff"}) /\ plans' = [p \in Plan |-> 0]
     \/ Waits(r, Plan) /\ plans' = [plans EXCEPT ![NextCall(r)] = @ + 1]
  /\ Continue(r, req[r], Rest(r))
  /\ UNCHANGED <<billing, operator, stripe, events, now, spent>>

(* Stripe queues the events the endpoint is subscribed to. *)
Queued(sub, type) == IF type \in Subscribed THEN <<[type |-> type, sub |-> sub]>> ELSE << >>

(* stripe.subscriptions.update: a subscription that has ended refuses. *)
StripeUpdate(r) ==
  LET sub == [stripe EXCEPT !.cancel = req[r].sub.cancel]
  IN  /\ Waits(r, {"stripeUpdate"})
      /\ IF stripe.status \in {"active", "past_due"}
         THEN /\ stripe' = sub
              /\ events' = events \o Queued(sub, "customer.subscription.updated")
              /\ Continue(r, req[r], Rest(r))
         ELSE Continue(r, Idle, << >>) /\ UNCHANGED <<stripe, events>>
      /\ UNCHANGED <<billing, operator, plans, now, spent>>

Retrieve(r) ==
  /\ Waits(r, {"retrieve"})
  /\ Continue(r, [req[r] EXCEPT !.sub = stripe], Rest(r))
  /\ UNCHANGED <<billing, operator, plans, stripe, events, now, spent>>

-----------------------------------------------------------------------------
(* The handlers *)

(* A webhook event is delivered. *)
Deliver(r) ==
  /\ MayStart(r) /\ r # Timer
  /\ \E i \in 1 .. Len(events) :
       /\ inOrder => i = 1
       /\ events' = RemoveAt(events, i)
       /\ Continue(r, [Idle EXCEPT !.event = events[i], !.sub = events[i].sub],
                   Webhook(events[i].type))
  /\ UNCHANGED <<billing, operator, plans, stripe, now, spent>>

(* The timer, or a request that looks at the lifecycle, finds the grace    *)
(* over: the list is read once, what follows does not look again.          *)
ExpireGrace(r) ==
  /\ MayStart(r)
  /\ Expire # << >>
  /\ Continue(r, Idle, Expire)
  /\ UNCHANGED <<billing, operator, plans, stripe, events, now, spent>>

(* requestCancelAtPeriodEnd and requestResumeSubscription *)
CancelOrResume(r, cancel) ==
  /\ billing.subscribed \/ cancel
  /\ Continue(r, [Idle EXCEPT !.outer = [billing EXCEPT !.cancelAtPeriodEnd = cancel],
                              !.sub = [status |-> "none", cancel |-> cancel]],
       IF billing.subscribed
       THEN <<"stripeUpdate", "saveOuter", "retrieve", "apply", "view">>
       ELSE Downgrade("canceled") \o <<"view">>)

(* The requests of the organization's and the operator's consoles *)
Console(r) ==
  /\ MayStart(r) /\ r # Timer
  /\ spent.calls < MaxCalls
  /\ \/ \E cancel \in BOOLEAN : CancelOrResume(r, cancel)
     \/ \E plan \in Plan : Continue(r, Idle, SelectPlan(plan))
     \/ Operator /\ Continue(r, Idle, <<"suspendOperator">>)
     \/ Operator /\ Continue(r, Idle, <<"liftOperator">>)
  /\ spent' = [spent EXCEPT !.calls = @ + 1]
  /\ UNCHANGED <<billing, operator, plans, stripe, events, now>>

(* A call throws, or the process ends: the handler is gone.  Stripe        *)
(* delivers an event again whose delivery was not answered.                *)
Fail(r) ==
  /\ InFlight(r) /\ spent.failures < MaxFailures
  /\ spent' = [spent EXCEPT !.failures = @ + 1]
  /\ events' = IF req[r].event = NoEvent THEN events ELSE Append(events, req[r].event)
  /\ Continue(r, Idle, << >>)
  /\ UNCHANGED <<billing, operator, plans, stripe, now>>

(* The Stripe subscription moves and queues its events. *)
Moves(from, to) ==
  /\ spent.moves < MaxMoves
  /\ stripe.status \in from
  /\ stripe' = [status |-> to, cancel |-> stripe.cancel /\ to # "canceled"]
  /\ spent' = [spent EXCEPT !.moves = @ + 1]
  /\ UNCHANGED <<billing, operator, plans, req, now>>

Checkout ==
  /\ Moves({"none", "canceled"}, "active")
  /\ events' = events \o Queued(stripe', "checkout.session.completed")
                      \o Queued(stripe', "invoice.paid")

(* Stripe does not promise which of the two events comes first. *)
PaymentFails ==
  /\ Moves({"active"}, "past_due")
  /\ \/ events' = events \o Queued(stripe', "invoice.payment_failed")
                         \o Queued(stripe', "customer.subscription.updated")
     \/ events' = events \o Queued(stripe', "customer.subscription.updated")
                         \o Queued(stripe', "invoice.payment_failed")

PaymentRecovers ==
  /\ Moves({"past_due"}, "active")
  /\ events' = events \o Queued(stripe', "customer.subscription.updated")
                      \o Queued(stripe', "invoice.paid")

SubscriptionEnds ==
  /\ stripe.status = "past_due" \/ stripe.cancel
  /\ Moves({"active", "past_due"}, "canceled")
  /\ events' = events \o Queued(stripe', "customer.subscription.updated")

Tick ==
  /\ now < MaxTime
  /\ now' = now + 1
  /\ UNCHANGED <<billing, operator, plans, stripe, events, req, spent>>

Step(r) ==
  \/ Find(r) \/ Save(r) \/ Apply(r) \/ View(r) \/ FindSuspension(r) \/ SaveSuspension(r)
  \/ ChangePlan(r) \/ StripeUpdate(r) \/ Retrieve(r)

Stripe == Checkout \/ PaymentFails \/ PaymentRecovers \/ SubscriptionEnds

Next ==
  /\ \/ Tick \/ Stripe
     \/ \E r \in Request : Deliver(r) \/ ExpireGrace(r) \/ Console(r) \/ Step(r) \/ Fail(r)
  /\ UNCHANGED <<serial, inOrder>>

Spec == Init /\ [][Next]_vars

(* Calls are answered and the timer fires again and again. *)
FairSpec ==
  /\ Spec
  /\ WF_moving(ExpireGrace(Timer))
  /\ \A r \in Request : WF_moving(Step(r))

-----------------------------------------------------------------------------
(* Properties under every interleaving *)

(* A grace has an end: whatever stale entity is saved, the timer can find  *)
(* the row (it looks at both columns).                                     *)
HasDeadline(row) == row.lifecycleStatus = "grace" => row.graceEndsAt # Null
GraceHasDeadline == HasDeadline(billing)

(* A grace that is over does not stay so for good. *)
GraceEnds == []<>~(billing.lifecycleStatus = "grace" /\ billing.graceEndsAt <= now)

(* The inductive invariant: what handlers hold in memory has a deadline    *)
(* where it needs one, so it may be saved at any time.                     *)
IInv ==
  /\ TypeOK
  /\ HasDeadline(billing)
  /\ \A r \in Request : HasDeadline(req[r].inner) /\ HasDeadline(req[r].outer)

-----------------------------------------------------------------------------
(* Properties of handlers that run one at a time *)

Quiescent == \A r \in Request : ~InFlight(r)
Settled == Quiescent /\ events = << >>

(* Once every event has been handled, an organization whose subscription   *)
(* is active is neither called unpaid nor suspended for it, and has one    *)
(* active plan.                                                            *)
PaidTenantsCanSend ==
  Settled /\ stripe.status = "active" =>
    /\ billing.lifecycleStatus \in {"active", "trialing"}
    /\ operator.suspendReason # "billing"
    /\ plans["pilot"] + plans["corporate"] = 1

(* Once every event has been handled, a subscription whose payment failed  *)
(* has put the organization into its grace, or the grace is over.          *)
GraceFollowsFailure ==
  Settled /\ stripe.status = "past_due" =>
    billing.lifecycleStatus \in {"grace", "past_due", "trialing"}

(* Once every event has been handled in its turn, row, plan and suspension *)
(* follow the subscription, unless a call has thrown.                      *)
FollowsSubscriptionSerially ==
  serial /\ inOrder /\ spent.failures = 0 => PaidTenantsCanSend /\ GraceFollowsFailure

(* The operator's suspension does not end with a payment: while its reason *)
(* is the operator's, only the operator's own request lifts it.            *)
OperatorSuspensionStandsSerially ==
  [][serial /\ operator.suspendReason = "operator" /\ ~operator'.suspended =>
       \E r \in Request : Waits(r, {"saveOperator"}) /\ req[r].event = NoEvent]_vars
=============================================================================
