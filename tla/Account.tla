------------------------------- MODULE Account -------------------------------
(***************************************************************************)
(* A user's credits and alert channels together: the low-balance warning   *)
(* of a deduction is what sends the notifier to the channels.              *)
(***************************************************************************)
EXTENDS Credits, AlertChannels

accountVars == <<creditVars, alertVars>>

AccountInit == CreditInit /\ ChannelInit

\* fireCreditLow's goroutine: the notice is taken and the channels are loaded.
NotifyCreditLow == TakeNotice /\ LoadChannels

\* The goroutine is lost with its process.
LoseNotice == TakeNotice /\ UNCHANGED alertVars

\* A job or an item that was given up has its alert too, at any time.
NotifyFailure == LoadChannels /\ UNCHANGED creditVars

CreditStep ==
    \/ Midnight \/ CheckAtCreation
    \/ \E r \in Run : CheckAtExecution(r) \/ ProceedAnyway(r) \/ Deduct(r) \/ GoUncharged(r)
    \/ \E p \in Purchase : \/ CreateCheckoutSession(p) \/ SaveCustomer(p) \/ Pay(p)
                           \/ TopUp(p) \/ UpdatePlan(p) \/ LoseHandler(p)

AccountNext ==
    \/ CreditStep /\ UNCHANGED alertVars
    \/ NotifyCreditLow \/ LoseNotice \/ NotifyFailure
    \/ (\E c \in Channel : ChannelStep(c)) /\ UNCHANGED creditVars
    \/ GiveUp /\ UNCHANGED creditVars

AccountSpec == AccountInit /\ [][AccountNext]_accountVars

\* An API server always comes back, and Stripe delivers until it gets a 200.
AccountFairness ==
    \A p \in Purchase :
        /\ WF_creditVars(session[p] = "paid" /\ TopUp(p) /\ UNCHANGED alertVars)
        /\ WF_creditVars(UpdatePlan(p) /\ UNCHANGED alertVars)

AccountFairSpec == AccountSpec /\ AccountFairness

-----------------------------------------------------------------------------
\* Every variable of both parts keeps its type.
AccountTypeOK == CreditTypeOK /\ ChannelTypeOK

\* A payment is credited and acknowledged in the end, whatever handlers die.
EveryPaymentCredited ==
    \A p \in Purchase : session[p] = "paid" ~> session[p] = "acked" /\ credited[p] > 0
=============================================================================
