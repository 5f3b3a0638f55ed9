------------------------------- MODULE System -------------------------------
(***************************************************************************)
(* The services, a user's credits and alert channels, and cron schedules   *)
(* side by side.  They share no variable, so an interleaving of theirs     *)
(* shows nothing that one at a time does not: part says which is in        *)
(* motion, and the others stand still.                                     *)
(***************************************************************************)
EXTENDS Services, Account, Schedules

VARIABLE part
systemVars == <<serviceVars, accountVars, scheduleVars, part>>

SystemInit ==
    /\ part \in {"services", "credits", "channels", "schedules"}
    /\ ServicesInit /\ AccountInit /\ ScheduleInit
    /\ part # "services" => focus = "lease"

ServicesPart ==
    part = "services" /\ ServicesNext /\ UNCHANGED <<accountVars, scheduleVars>>
CreditsPart ==
    part = "credits" /\ CreditNext /\ UNCHANGED <<serviceVars, alertVars, scheduleVars>>
ChannelsPart ==
    part = "channels" /\ ChannelNext /\ UNCHANGED <<serviceVars, creditVars, scheduleVars>>
SchedulesPart ==
    part = "schedules" /\ ScheduleNext /\ UNCHANGED <<serviceVars, accountVars>>

SystemNext ==
    /\ ServicesPart \/ CreditsPart \/ ChannelsPart \/ SchedulesPart
    /\ UNCHANGED part

SystemSpec == SystemInit /\ [][SystemNext]_systemVars

\* A goroutine of the outbox writes an outcome, whatever the answer, or a
\* dispatcher gets through its batch.
Finishes ==
    \/ /\ focus = "outbox"
       /\ \E w \in WebhookDispatcher, d \in Delivery :
            RecordOutcome(<<w, d>>) /\ attempts'[d] > attempts[d]
       /\ UNCHANGED scheduleVars
    \/ /\ part = "schedules"
       /\ \E d \in Dispatcher : Fire(d)
       /\ UNCHANGED outboxVars

\* Dispatchers poll, goroutines go on, time passes, and a row that nobody has in
\* hand grows old.  Crashes, panics, failing statements and lost replies may happen
\* any number of times, but not every time.
SystemFairness ==
    /\ \A d \in Delivery :
        /\ WF_outboxVars(focus = "outbox" /\ BecomeDue(d))
        /\ WF_outboxVars(focus = "outbox" /\ Abandoned(d) /\ GrowOld(d))
        /\ SF_outboxVars(/\ focus = "outbox"
                         /\ \E w \in WebhookDispatcher :
                              ClaimDue(w) /\ pc'[<<w, d>>] = "post")
        /\ SF_outboxVars(/\ focus = "outbox"
                         /\ \E w \in WebhookDispatcher : Deliver(<<w, d>>))
    /\ \A d \in Dispatcher : WF_scheduleVars(part = "schedules" /\ Claim(d))
    /\ SF_<<outboxVars, scheduleVars>>(Finishes)
    /\ AccountFairness

SystemFairSpec == SystemSpec /\ SystemFairness
=============================================================================
