---------------------------- MODULE ServicesProofs ----------------------------
(***************************************************************************)
(* Theorems on the webhook outbox, the lease of a run, signing secrets,    *)
(* partitions and lists, for all values of their constants, and on         *)
(* Services, which puts them side by side.                                 *)
(***************************************************************************)
EXTENDS Services, FiniteSetTheorems, TLAPS

-----------------------------------------------------------------------------
(* The outbox *)

\* What a goroutine knows is old but true: attempts only grow, an answer stands.
KnowledgeInv ==
    \A g \in Goroutine : /\ snapshot[g] <= attempts[g[2]]
                         /\ answer[g] = "2xx" => g[2] \in acked

\* In a timely behaviour a goroutine owns its row, and its snapshot is exact.
OwnerInv ==
    timely = "yes" =>
        /\ \A d \in Delivery : /\ attempts[d] <= MaxAttempts
                               /\ status[d] \notin Settled => attempts[d] < MaxAttempts
        /\ \A g \in Goroutine : pc[g] # "idle" => /\ status[g[2]] = "delivering"
                                                  /\ g[2] \notin old
                                                  /\ snapshot[g] = attempts[g[2]]
        /\ \A g, h \in Goroutine : pc[g] # "idle" /\ pc[h] # "idle" /\ g[2] = h[2] => g = h

OutboxInv == OutboxTypeOK /\ KnowledgeInv /\ OutcomeIsEarned /\ OwnerInv

LEMMA GoroutineParts ==
    /\ \A g \in Goroutine : g[1] \in WebhookDispatcher /\ g[2] \in Delivery /\ g = <<g[1], g[2]>>
    /\ \A w \in WebhookDispatcher, d \in Delivery :
         <<w, d>> \in Goroutine /\ <<w, d>>[1] = w /\ <<w, d>>[2] = d
  BY DEF Goroutine

LEMMA InitOutbox == OutboxInit => OutboxInv
<1> SUFFICES ASSUME OutboxInit PROVE OutboxInv
  BY Zenon
<1>1. OutboxTypeOK
  BY Zenon, GoroutineParts DEF OutboxInit, OutboxTypeOK
<1>2. KnowledgeInv
  BY GoroutineParts DEF OutboxInit, KnowledgeInv
<1>3. OutcomeIsEarned
  BY Zenon DEF OutboxInit, OutcomeIsEarned
<1>4. OwnerInv
  BY AttemptsAssumption DEF OutboxInit, OwnerInv
<1> QED
  BY Zenon, <1>1, <1>2, <1>3, <1>4 DEF OutboxInv

\* The insert and the passage of time.
LEMMA RowStepPreserves ==
    ASSUME OutboxInv, NEW d \in Delivery,
           insertWebhookDelivery(d) \/ BecomeDue(d) \/ GrowOld(d)
    PROVE  OutboxInv'
<1>1. CASE insertWebhookDelivery(d)
  <2>1. /\ status[d] = "none" /\ status' = [status EXCEPT ![d] = "pending"]
        /\ due' = due \cup {d}
        /\ UNCHANGED <<timely, attempts, old, acked, pc, snapshot, answer>>
    BY Zenon, <1>1 DEF insertWebhookDelivery, routine
  <2>2. OutboxTypeOK'
    BY Zenon, <2>1 DEF OutboxInv, OutboxTypeOK
  <2>3. KnowledgeInv'
    BY Zenon, <2>1 DEF OutboxInv, KnowledgeInv
  <2>4. OutcomeIsEarned'
    BY ZenonT(30), <2>1 DEF OutboxInv, OutboxTypeOK, OutcomeIsEarned
  <2>5. OwnerInv'
    BY <2>1, GoroutineParts DEF OutboxInv, OutboxTypeOK, OwnerInv, Settled
  <2> QED
    BY Zenon, <2>2, <2>3, <2>4, <2>5 DEF OutboxInv
<1>2. CASE BecomeDue(d)
  <2>1. due' = due \cup {d} /\ UNCHANGED <<timely, status, attempts, old, acked, pc, snapshot, answer>>
    BY Zenon, <1>2 DEF BecomeDue, routine
  <2> QED
    BY <2>1 DEF OutboxInv, OutboxTypeOK, KnowledgeInv, OutcomeIsEarned, OwnerInv
<1>3. CASE GrowOld(d)
  <2>1. /\ timely = "yes" => \A w \in WebhookDispatcher : pc[<<w, d>>] = "idle"
        /\ old' = old \cup {d}
        /\ UNCHANGED <<timely, status, attempts, due, acked, pc, snapshot, answer>>
    BY Zenon, <1>3 DEF GrowOld, Abandoned, routine
  <2>2. OutboxTypeOK' /\ KnowledgeInv' /\ OutcomeIsEarned'
    BY Zenon, <2>1 DEF OutboxInv, OutboxTypeOK, KnowledgeInv, OutcomeIsEarned
  <2>3. timely = "yes" => \A g \in Goroutine : g[2] = d => pc[g] = "idle"
    BY <2>1, GoroutineParts
  <2>4. OwnerInv'
    BY Zenon, <2>1, <2>3 DEF OutboxInv, OwnerInv
  <2> QED
    BY Zenon, <2>2, <2>4 DEF OutboxInv
<1> QED
  BY Zenon, <1>1, <1>2, <1>3

\* A claim takes rows that nobody has in hand, if the behaviour is timely.
LEMMA ClaimPreserves ==
    ASSUME OutboxInv, NEW w \in WebhookDispatcher, ClaimDue(w)
    PROVE  OutboxInv'
<1>1. PICK S \in SUBSET {d \in Delivery : Claimable(d)} :
        /\ status' = [d \in Delivery |-> IF d \in S THEN "delivering" ELSE status[d]]
        /\ old' = old \ S
        /\ \/ /\ pc' = [g \in Goroutine |-> IF g \in {w} \X S THEN "post" ELSE pc[g]]
              /\ snapshot' = [g \in Goroutine |-> IF g \in {w} \X S THEN attempts[g[2]]
                                                                    ELSE snapshot[g]]
           \/ UNCHANGED <<pc, snapshot>>
  BY Zenon DEF ClaimDue
<1>2. UNCHANGED <<timely, attempts, due, acked, answer>>
  BY Zenon DEF ClaimDue
<1>3. /\ S \subseteq Delivery
      /\ \A d \in S : \/ status[d] = "pending"
                      \/ status[d] = "delivering" /\ d \in old
  BY Zenon DEF Claimable
<1>4. \A g \in Goroutine : g \in {w} \X S <=> g[1] = w /\ g[2] \in S
  BY GoroutineParts
<1>5. \A g \in Goroutine : g[1] = w => pc[g] = "idle"
  BY GoroutineParts DEF ClaimDue
<1>6. \A g \in Goroutine :
        \/ pc'[g] = pc[g] /\ snapshot'[g] = snapshot[g]
        \/ g[1] = w /\ g[2] \in S /\ pc[g] = "idle" /\ pc'[g] = "post" /\ snapshot'[g] = attempts[g[2]]
  BY <1>1, <1>4, <1>5
<1>7. /\ pc' \in [Goroutine -> {"idle", "post", "mark"}]
      /\ snapshot' \in [Goroutine -> Nat]
  BY <1>1, GoroutineParts DEF OutboxInv, OutboxTypeOK
<1>8. OutboxTypeOK'
  <2>1. status' \in [Delivery -> {"none", "pending", "delivering"} \cup Settled]
    BY Zenon, <1>1 DEF OutboxInv, OutboxTypeOK
  <2>2. \A g \in Goroutine : answer'[g] # "none" <=> pc'[g] = "mark"
    BY <1>2, <1>6 DEF OutboxInv, OutboxTypeOK
  <2> QED
    BY Zenon, <1>1, <1>2, <1>7, <2>1, <2>2 DEF OutboxInv, OutboxTypeOK
<1>9. KnowledgeInv'
  BY <1>2, <1>6, GoroutineParts DEF OutboxInv, OutboxTypeOK, KnowledgeInv
<1>10. OutcomeIsEarned'
  BY Zenon, <1>1, <1>2 DEF OutboxInv, OutboxTypeOK, OutcomeIsEarned
<1>11. OwnerInv'
  <2> SUFFICES ASSUME timely = "yes" PROVE OwnerInv'
    BY Zenon, <1>2 DEF OwnerInv
  <2>1. \A g \in Goroutine : g[2] \in S => pc[g] = "idle"
    BY Zenon, <1>3 DEF OutboxInv, OwnerInv
  <2>2. \A d \in Delivery : /\ attempts'[d] <= MaxAttempts
                            /\ status'[d] \notin Settled => attempts'[d] < MaxAttempts
    BY ZenonT(30), <1>1, <1>2, <1>3 DEF OutboxInv, OutboxTypeOK, OwnerInv, Settled
  <2>3. ASSUME NEW g \in Goroutine, pc'[g] # "idle"
        PROVE  status'[g[2]] = "delivering" /\ g[2] \notin old' /\ snapshot'[g] = attempts'[g[2]]
    BY <1>1, <1>2, <1>6, <2>1, <2>3, GoroutineParts DEF OutboxInv, OutboxTypeOK, OwnerInv
  <2>4. ASSUME NEW g \in Goroutine, NEW h \in Goroutine,
               pc'[g] # "idle", pc'[h] # "idle", g[2] = h[2]
        PROVE  g = h
    BY <1>6, <2>1, <2>4, GoroutineParts DEF OutboxInv, OwnerInv
  <2> QED
    BY Zenon, <2>2, <2>3, <2>4 DEF OwnerInv
<1> QED
  BY Zenon, <1>8, <1>9, <1>10, <1>11 DEF OutboxInv

LEMMA DeliverPreserves ==
    ASSUME OutboxInv, NEW g \in Goroutine, Deliver(g)
    PROVE  OutboxInv'
<1>1. PICK a \in {"2xx", "other"} :
        /\ answer' = [answer EXCEPT ![g] = a]
        /\ acked' = IF a = "2xx" THEN acked \cup {g[2]} ELSE acked
  BY Zenon DEF Deliver
<1>2. /\ pc[g] = "post" /\ pc' = [pc EXCEPT ![g] = "mark"]
      /\ UNCHANGED <<timely, status, attempts, due, old, snapshot>>
  BY Zenon DEF Deliver, table
<1>3. OutboxTypeOK'
  BY <1>1, <1>2, GoroutineParts DEF OutboxInv, OutboxTypeOK
<1>4. KnowledgeInv'
  BY Zenon, <1>1, <1>2 DEF OutboxInv, OutboxTypeOK, KnowledgeInv
<1>5. OutcomeIsEarned'
  BY Zenon, <1>1, <1>2 DEF OutboxInv, OutcomeIsEarned
<1>6. \A h \in Goroutine : pc'[h] # "idle" <=> pc[h] # "idle"
  BY Zenon, <1>2 DEF OutboxInv, OutboxTypeOK
<1>7. OwnerInv'
  BY <1>2, <1>6 DEF OutboxInv, OwnerInv
<1> QED
  BY Zenon, <1>3, <1>4, <1>5, <1>7 DEF OutboxInv

\* Goroutines end without a word to the database.
LEMMA SilentEndPreserves ==
    ASSUME OutboxInv, NEW E \in SUBSET Goroutine,
           pc' = [h \in Goroutine |-> IF h \in E THEN "idle" ELSE pc[h]],
           snapshot' = [h \in Goroutine |-> IF h \in E THEN 0 ELSE snapshot[h]],
           answer' = [h \in Goroutine |-> IF h \in E THEN "none" ELSE answer[h]],
           UNCHANGED <<timely, status, attempts, due, old, acked>>
    PROVE  OutboxInv'
<1>1. OutboxTypeOK'
  BY Zenon DEF OutboxInv, OutboxTypeOK
<1>2. KnowledgeInv'
  BY GoroutineParts DEF OutboxInv, OutboxTypeOK, KnowledgeInv
<1>3. OutcomeIsEarned'
  BY Zenon DEF OutboxInv, OutcomeIsEarned
<1>4. OwnerInv'
  BY Zenon DEF OutboxInv, OwnerInv
<1> QED
  BY Zenon, <1>1, <1>2, <1>3, <1>4 DEF OutboxInv

LEMMA EndPreserves ==
    ASSUME OutboxInv, NEW g \in Goroutine, EndGoroutine(g), UNCHANGED <<timely, table, acked>>
    PROVE  OutboxInv'
<1>1. /\ pc' = [h \in Goroutine |-> IF h \in {g} THEN "idle" ELSE pc[h]]
      /\ snapshot' = [h \in Goroutine |-> IF h \in {g} THEN 0 ELSE snapshot[h]]
      /\ answer' = [h \in Goroutine |-> IF h \in {g} THEN "none" ELSE answer[h]]
  BY Zenon DEF EndGoroutine, OutboxInv, OutboxTypeOK
<1> QED
  BY Zenon, <1>1, SilentEndPreserves DEF table

LEMMA CrashPreserves ==
    ASSUME OutboxInv, NEW w \in WebhookDispatcher, Crash(w)
    PROVE  OutboxInv'
<1> DEFINE E == {h \in Goroutine : h[1] = w}
<1>1. /\ pc' = [h \in Goroutine |-> IF h \in E THEN "idle" ELSE pc[h]]
      /\ snapshot' = [h \in Goroutine |-> IF h \in E THEN 0 ELSE snapshot[h]]
      /\ answer' = [h \in Goroutine |-> IF h \in E THEN "none" ELSE answer[h]]
  BY Zenon DEF Crash
<1>2. E \in SUBSET Goroutine /\ UNCHANGED <<timely, status, attempts, due, old, acked>>
  BY Zenon DEF Crash, table
<1> HIDE DEF E
<1> QED
  BY Zenon, <1>1, <1>2, SilentEndPreserves

\* An outcome is written, by id alone.  The owner is the only one that knows of
\* the row in a timely behaviour; in the others the snapshot is a lower bound.
LEMMA OutcomePreserves ==
    ASSUME OutboxInv, NEW g \in Goroutine, RecordOutcome(g)
    PROVE  OutboxInv'
<1> DEFINE d == g[2]
<1>0. /\ d \in Delivery /\ pc[g] = "mark" /\ EndGoroutine(g) /\ UNCHANGED <<timely, acked>>
  BY Zenon, GoroutineParts DEF RecordOutcome
<1>1. CASE UNCHANGED table
  BY Zenon, <1>0, <1>1, EndPreserves
<1>2. ASSUME NEW s \in {"pending", "delivered", "failed"},
             status' = [status EXCEPT ![d] = s],
             attempts' = [attempts EXCEPT ![d] = @ + 1],
             old' = old \ {d}, due' \subseteq Delivery,
             s = "delivered" => answer[g] = "2xx",
             s = "failed" => snapshot[g] + 1 >= MaxAttempts,
             s = "pending" => snapshot[g] + 1 < MaxAttempts
      PROVE  OutboxInv'
  <2>1. /\ pc' = [pc EXCEPT ![g] = "idle"]
        /\ snapshot' = [snapshot EXCEPT ![g] = 0]
        /\ answer' = [answer EXCEPT ![g] = "none"]
    BY Zenon, <1>0 DEF EndGoroutine
  <2>2. /\ attempts[d] \in Nat /\ snapshot[g] \in Nat /\ snapshot[g] <= attempts[d]
        /\ answer[g] = "2xx" => d \in acked
    BY Zenon, <1>0 DEF OutboxInv, OutboxTypeOK, KnowledgeInv
  <2>3. \A e \in Delivery : /\ attempts'[e] = IF e = d THEN attempts[d] + 1 ELSE attempts[e]
                            /\ status'[e] = IF e = d THEN s ELSE status[e]
    BY Zenon, <1>2 DEF OutboxInv, OutboxTypeOK
  <2>4. \A h \in Goroutine : /\ pc'[h] = IF h = g THEN "idle" ELSE pc[h]
                             /\ snapshot'[h] = IF h = g THEN 0 ELSE snapshot[h]
                             /\ answer'[h] = IF h = g THEN "none" ELSE answer[h]
    BY Zenon, <2>1 DEF OutboxInv, OutboxTypeOK
  <2>5. OutboxTypeOK'
    <3>1. /\ status' \in [Delivery -> {"none", "pending", "delivering"} \cup Settled]
          /\ attempts' \in [Delivery -> Nat]
      <4>1. status \in [Delivery -> {"none", "pending", "delivering"} \cup Settled]
            /\ attempts \in [Delivery -> Nat]
        BY Zenon DEF OutboxInv, OutboxTypeOK
      <4>2. s \in {"none", "pending", "delivering"} \cup Settled
        BY Zenon DEF Settled
      <4>3. attempts[d] + 1 \in Nat
        BY <2>2
      <4> QED
        BY ZenonT(30), <1>2, <4>1, <4>2, <4>3
    <3>2. /\ pc' \in [Goroutine -> {"idle", "post", "mark"}]
          /\ snapshot' \in [Goroutine -> Nat]
          /\ answer' \in [Goroutine -> {"none", "2xx", "other"}]
      BY Zenon, <2>1 DEF OutboxInv, OutboxTypeOK
    <3>3. \A h \in Goroutine : answer'[h] # "none" <=> pc'[h] = "mark"
      BY ZenonT(30), <2>4 DEF OutboxInv, OutboxTypeOK
    <3> QED
      BY ZenonT(30), <1>0, <1>2, <3>1, <3>2, <3>3 DEF OutboxInv, OutboxTypeOK
  <2>6. KnowledgeInv'
    BY <1>0, <2>2, <2>3, <2>4, GoroutineParts DEF OutboxInv, OutboxTypeOK, KnowledgeInv
  <2>7. OutcomeIsEarned'
    BY <1>0, <1>2, <2>2, <2>3, AttemptsAssumption DEF OutboxInv, OutboxTypeOK, OutcomeIsEarned
  <2>8. OwnerInv'
    <3> SUFFICES ASSUME timely = "yes" PROVE OwnerInv'
      BY Zenon, <1>0 DEF OwnerInv
    <3>1. /\ status[d] = "delivering" /\ snapshot[g] = attempts[d]
          /\ attempts[d] < MaxAttempts
          /\ \A h \in Goroutine : pc[h] # "idle" /\ h[2] = d => h = g
      <4>1. pc[g] # "idle"
        BY Zenon, <1>0
      <4>2. status[d] = "delivering" /\ snapshot[g] = attempts[d]
        BY Zenon, <4>1 DEF OutboxInv, OwnerInv
      <4>3. attempts[d] < MaxAttempts
        BY Zenon, <1>0, <4>2 DEF OutboxInv, OwnerInv, Settled
      <4>4. \A h \in Goroutine : pc[h] # "idle" /\ h[2] = d => h = g
        BY Zenon, <4>1 DEF OutboxInv, OwnerInv
      <4> QED
        BY Zenon, <4>2, <4>3, <4>4
    <3>2. ASSUME NEW e \in Delivery
          PROVE  /\ attempts'[e] <= MaxAttempts
                 /\ status'[e] \notin Settled => attempts'[e] < MaxAttempts
      <4>1. CASE e = d
        <5>1. attempts'[e] = attempts[d] + 1 /\ status'[e] = s
          BY Zenon, <2>3, <4>1
        <5> QED
          BY <1>2, <2>2, <3>1, <5>1, AttemptsAssumption DEF Settled
      <4>2. CASE e # d
        BY ZenonT(30), <2>3, <4>2 DEF OutboxInv, OwnerInv
      <4> QED
        BY ZenonT(30), <4>1, <4>2
    <3>3. ASSUME NEW h \in Goroutine, pc'[h] # "idle"
          PROVE  status'[h[2]] = "delivering" /\ h[2] \notin old' /\ snapshot'[h] = attempts'[h[2]]
      <4>1. h # g /\ pc[h] # "idle" /\ h[2] # d /\ h[2] \in Delivery
        BY ZenonT(30), <2>4, <3>1, <3>3, GoroutineParts
      <4> QED
        BY <1>2, <2>3, <2>4, <4>1 DEF OutboxInv, OwnerInv
    <3>4. \A h, k \in Goroutine : pc'[h] # "idle" /\ pc'[k] # "idle" /\ h[2] = k[2] => h = k
      BY <2>4 DEF OutboxInv, OwnerInv
    <3> QED
      BY ZenonT(30), <3>2, <3>3, <3>4 DEF OwnerInv
  <2> QED
    BY Zenon, <2>5, <2>6, <2>7, <2>8 DEF OutboxInv
<1>3. CASE answer[g] = "2xx" /\ MarkDelivered(d)
  BY Zenon, <1>0, <1>2, <1>3 DEF MarkDelivered, OutboxInv, OutboxTypeOK
<1>4. CASE answer[g] # "2xx" /\ Exhausted(g) /\ MarkFailed(d)
  BY ZenonT(30), <1>0, <1>2, <1>4 DEF MarkFailed, Exhausted, OutboxInv, OutboxTypeOK
<1>5. CASE answer[g] # "2xx" /\ ~Exhausted(g) /\ Reschedule(d)
  BY <1>0, <1>2, <1>5, AttemptsAssumption DEF Reschedule, Exhausted, OutboxInv, OutboxTypeOK
<1> QED
  BY Zenon, <1>1, <1>3, <1>4, <1>5 DEF RecordOutcome

LEMMA NextOutbox == OutboxInv /\ [OutboxNext]_outboxVars => OutboxInv'
<1> SUFFICES ASSUME OutboxInv, [OutboxNext]_outboxVars PROVE OutboxInv'
  BY Zenon
<1>1. CASE \E d \in Delivery : insertWebhookDelivery(d) \/ BecomeDue(d) \/ GrowOld(d)
  BY Zenon, <1>1, RowStepPreserves
<1>2. CASE \E w \in WebhookDispatcher : ClaimDue(w) \/ Crash(w)
  BY ZenonT(30), <1>2, ClaimPreserves, CrashPreserves
<1>3. CASE \E g \in Goroutine : Deliver(g) \/ RecordOutcome(g)
  BY Zenon, <1>3, DeliverPreserves, OutcomePreserves
<1>4. CASE \E g \in Goroutine : Panic(g)
  BY Zenon, <1>4, EndPreserves DEF Panic
<1>5. CASE UNCHANGED outboxVars
  BY Zenon, <1>5 DEF outboxVars, table, routine, OutboxInv, OutboxTypeOK, KnowledgeInv, OutcomeIsEarned, OwnerInv
<1> QED
  BY ZenonT(30), <1>1, <1>2, <1>3, <1>4, <1>5 DEF OutboxNext

LEMMA OutboxInvariant == OutboxSpec => []OutboxInv
  BY InitOutbox, NextOutbox, PTL DEF OutboxSpec

\* OutboxTypeOK is an invariant of the outbox.
THEOREM OutboxTypeCorrect == OutboxSpec => []OutboxTypeOK
  BY OutboxInvariant, PTL DEF OutboxInv

\* OutcomeIsEarned: MarkDelivered and MarkFailed write by id alone and may be
\* late, and still a row says delivered or failed only if it is so.
THEOREM OutcomesAreEarned == OutboxSpec => []OutcomeIsEarned
  BY OutboxInvariant, PTL DEF OutboxInv

\* NeverConcurrent: with attempts that keep within the in-flight timeout ClaimDue
\* never hands a delivery to two dispatchers.
THEOREM OneDispatcherAtATime == OutboxSpec => []NeverConcurrent
<1>1. OutboxInv => NeverConcurrent
  <2> SUFFICES ASSUME OutboxInv, timely = "yes", NEW d \in Delivery,
                      NEW v \in WebhookDispatcher, NEW w \in WebhookDispatcher
               PROVE  /\ attempts[d] <= MaxAttempts
                      /\ pc[<<v, d>>] # "idle" /\ pc[<<w, d>>] # "idle" => v = w
    BY ZenonT(30) DEF NeverConcurrent, OutboxInv, OwnerInv
  <2> QED
    BY Zenon, GoroutineParts DEF OutboxInv, OwnerInv
<1> QED
  BY <1>1, OutboxInvariant, PTL

\* SettledForGood: with timely attempts none of the statements, which match on the
\* id alone, touches a settled row.
THEOREM SettledRowsRest == OutboxSpec => SettledForGood
<1> DEFINE Rest == \A d \in Delivery : timely = "yes" /\ status[d] \in Settled
                                        => status'[d] = status[d]
<1>1. OutboxInv /\ [OutboxNext]_outboxVars => [Rest]_outboxVars
  <2> SUFFICES ASSUME OutboxInv, OutboxNext, NEW d \in Delivery, timely = "yes",
                      status[d] \in Settled
               PROVE  status'[d] = status[d]
    BY Zenon
  <2>1. CASE \E e \in Delivery : insertWebhookDelivery(e) \/ BecomeDue(e) \/ GrowOld(e)
    BY ZenonT(30), <2>1 DEF insertWebhookDelivery, BecomeDue, GrowOld, OutboxInv, OutboxTypeOK, Settled
  <2>2. CASE \E w \in WebhookDispatcher : ClaimDue(w) \/ Crash(w)
    BY <2>2 DEF ClaimDue, Claimable, Crash, table, OutboxInv, OutboxTypeOK, Settled
  <2>3. ASSUME NEW g \in Goroutine, RecordOutcome(g)
        PROVE  status'[d] = status[d]
    <3>1. status[g[2]] = "delivering" /\ g[2] # d
      BY Zenon, <2>3 DEF RecordOutcome, OutboxInv, OwnerInv, Settled
    <3> QED
      BY ZenonT(30), <2>3, <3>1 DEF RecordOutcome, MarkDelivered, MarkFailed, Reschedule, table, OutboxInv, OutboxTypeOK
  <2>4. CASE \E g \in Goroutine : Deliver(g) \/ Panic(g)
    BY Zenon, <2>4 DEF Deliver, Panic, table
  <2> QED
    BY Zenon, <2>1, <2>2, <2>3, <2>4 DEF OutboxNext
<1> QED
  BY <1>1, OutboxInvariant, PTL DEF OutboxSpec, SettledForGood

-----------------------------------------------------------------------------
(* The lease *)

\* The cutoff covers a lease, one more interval before it is looked at again,
\* the call that finds it expired, and what the row was older than the lease.
LeaseBudget ==
    /\ LeaseTimeout + HeartbeatInterval + MaxLatency + MaxLatency <= StaleCutoff + 1
    /\ LeaseTimeout + HeartbeatInterval + MaxLatency + StartDelay <= StaleCutoff + 1

\* A row written by the present call is not older than the call.
CallInv ==
    /\ call # "none" => callAge <= MaxLatency
    /\ call = "written" => rowAge <= callAge

\* The row is older than lastSuccess by at most a call, or the start of the run.
RowInv ==
    /\ phase = "starting" => rowAge <= StartDelay
    /\ phase = "executing" =>
         rowAge <= leaseAge + MaxLatency \/ rowAge <= leaseAge + StartDelay

\* The loop looks at the lease again within one interval.
LoopInv ==
    phase = "executing" =>
        /\ call # "none" => leaseAge < LeaseTimeout + HeartbeatInterval + callAge
        /\ call = "none" /\ ticks = 1 => leaseAge < LeaseTimeout + HeartbeatInterval
        /\ call = "none" /\ ticks = 0 => leaseAge + nextTick < LeaseTimeout + HeartbeatInterval

LeaseInv == TypeOK /\ CallInv /\ RowInv /\ LoopInv /\ ExclusiveDelivery

LEMMA LeaseInvInit == Init => LeaseInv
BY LeaseAssumption
   DEF Init, LeaseInv, TypeOK, Phase, Call, CallInv, RowInv, LoopInv, ExclusiveDelivery

\* While the job is executed its row is never old enough for the reaper.
LEMMA RowStaysFresh ==
    ASSUME LeaseBudget, LeaseInv, phase \in {"starting", "executing"}
    PROVE  rowAge <= StaleCutoff
<1> USE LeaseAssumption DEF LeaseInv, TypeOK, LeaseBudget
<1>1. CASE phase = "starting"
  BY <1>1 DEF RowInv
<1>2. CASE phase = "executing"
  <2>1. leaseAge < LeaseTimeout + HeartbeatInterval + MaxLatency
    <3>1. CASE call = "none"
      BY <1>2, <3>1 DEF LoopInv
    <3>2. CASE call # "none"
      <4>1. callAge <= MaxLatency /\ leaseAge < LeaseTimeout + HeartbeatInterval + callAge
        BY Zenon, <1>2, <3>2 DEF LoopInv, CallInv
      <4> QED BY <4>1
    <3> QED BY Zenon, <3>1, <3>2
  <2> QED BY <1>2, <2>1 DEF RowInv
<1> QED BY Zenon, <1>1, <1>2

LEMMA LeaseInvStep ==
    ASSUME LeaseBudget, LeaseInv, [Next]_vars
    PROVE  LeaseInv'
<1> USE LeaseAssumption
<1> USE DEF LeaseInv, TypeOK, Phase, CallInv, RowInv, LoopInv, ExclusiveDelivery, Call, loop
<1>1. CASE StartHeartbeat
  BY <1>1 DEF StartHeartbeat
<1>2. CASE Pass
  <2>1. TypeOK' /\ CallInv' /\ RowInv' /\ ExclusiveDelivery'
    BY <1>2 DEF Pass, AdvanceTicker
  <2>2. LoopInv'
    BY <1>2 DEF Pass, AdvanceTicker
  <2> QED BY Zenon, <2>1, <2>2
<1>3. CASE BeginUpdate
  BY <1>3 DEF BeginUpdate
<1>4. CASE WriteRow
  BY <1>4 DEF WriteRow
<1>5. CASE UpdateOK
  BY <1>5 DEF UpdateOK, EndCall
<1>6. CASE UpdateError
  BY <1>6 DEF UpdateError, EndCall
<1>7. CASE Leave
  BY Zenon, <1>7 DEF Leave, EndCall
<1>8. CASE Reap
  <2>1. phase \notin {"starting", "executing"}
    BY <1>8, RowStaysFresh DEF Reap
  <2> QED BY ZenonT(30), <1>8, <2>1 DEF Reap
<1>9. CASE UNCHANGED vars
  BY Zenon, <1>9 DEF vars
<1> QED
  BY ZenonT(30), <1>1, <1>2, <1>3, <1>4, <1>5, <1>6, <1>7, <1>8, <1>9 DEF Next

\* For every choice of the constants with that room, the owner has relinquished
\* the job before the reaper hands it on: heartbeatLeaseTimeout does its work.
THEOREM LeaseIsExclusive == LeaseBudget /\ Spec => []ExclusiveDelivery
<1>1. LeaseBudget /\ LeaseInv /\ [Next]_vars => LeaseInv'
  BY Zenon, LeaseInvStep
<1>2. LeaseInv => ExclusiveDelivery
  BY Zenon DEF LeaseInv
<1>3. ASSUME LeaseBudget PROVE Spec => []ExclusiveDelivery
  <2>1. LeaseInv /\ [Next]_vars => LeaseInv'
    BY Zenon, <1>1, <1>3
  <2> QED BY <1>2, <2>1, LeaseInvInit, PTL DEF Spec
<1> QED BY Zenon, <1>3

\* TypeOK of the lease, whatever the latencies.
THEOREM LeaseTypeCorrect == Spec => []TypeOK
<1>1. Init => TypeOK
  BY LeaseAssumption DEF Init, TypeOK, Phase, Call
<1>2. TypeOK /\ [Next]_vars => TypeOK'
  <2> USE LeaseAssumption DEF TypeOK, Phase, Call, loop
  <2> SUFFICES ASSUME TypeOK, [Next]_vars PROVE TypeOK'
    BY Zenon
  <2>1. CASE StartHeartbeat \/ BeginUpdate
    BY <2>1 DEF StartHeartbeat, BeginUpdate
  <2>2. CASE Pass
    BY <2>2 DEF Pass, AdvanceTicker
  <2>3. CASE WriteRow \/ UpdateOK \/ UpdateError
    BY <2>3 DEF WriteRow, UpdateOK, UpdateError, EndCall
  <2>4. CASE Leave \/ Reap
    BY <2>4 DEF Leave, Reap, EndCall
  <2>5. CASE UNCHANGED vars
    BY Zenon, <2>5 DEF vars
  <2> QED
    BY ZenonT(30), <2>1, <2>2, <2>3, <2>4, <2>5 DEF Next
<1> QED
  BY <1>1, <1>2, PTL DEF Spec

-----------------------------------------------------------------------------
(* Signing secrets *)

\* NewestSecretActive: the partial unique index and the transaction of rotate keep
\* exactly the newest secret active, for any number of overlapping requests.
THEOREM OneSecretInUse == SecretSpec => []NewestSecretActive
<1> DEFINE Inv == made \in Nat /\ NewestSecretActive
<1>1. SecretInit => Inv
  BY DEF SecretInit, NewestSecretActive
<1>2. Inv /\ [SecretNext]_secretVars => Inv'
  <2> SUFFICES ASSUME Inv, [SecretNext]_secretVars PROVE Inv'
    BY Zenon
  <2>1. ASSUME NEW rest, Insert(rest) PROVE Inv'
    BY <2>1 DEF Insert, NewestSecretActive
  <2>2. CASE UNCHANGED <<made, active>>
    BY Zenon, <2>2 DEF NewestSecretActive
  <2>3. \/ UNCHANGED <<made, active>>
        \/ \E rest : Insert(rest)
    BY Zenon DEF SecretNext, secretVars, FindNone, Create, Deactivate, Rotate, Rollback
  <2> QED
    BY Zenon, <2>1, <2>2, <2>3
<1> QED
  BY <1>1, <1>2, PTL DEF SecretSpec

-----------------------------------------------------------------------------
(* Partitions *)

CalendarType ==
    /\ month \in Nat /\ covered \in Nat
    /\ partitions \subseteq Nat /\ default \subseteq Nat
    /\ began \in [Maintainer -> Nat]
    /\ offset \in [Maintainer -> Nat \cup {-1}]
    /\ lapsed \in {"yes", "no"}
    /\ \A m \in Maintainer : began[m] <= month /\ offset[m] <= MonthsAhead + 1

\* What the finished passes, and a pass under way, have provided from the current
\* month on is still there, whatever was dropped since.
Provision ==
    /\ \A p \in Nat : month <= p /\ p <= covered => p \in partitions
    /\ \A m \in Maintainer : \A p \in Nat :
         month <= p /\ began[m] <= p /\ p < began[m] + offset[m] => p \in partitions

PartitionInv ==
    /\ CalendarType
    /\ Provision
    /\ lapsed = "no" => month <= covered /\ default = {}

\* Only months before the current one expire, also when AddDate overflows: the
\* retention is at least one month.
LEMMA ExpiredIsPast ==
    ASSUME CalendarType, NEW m \in Maintainer, NEW o \in {0, 1}, NEW p \in Expired(m, o)
    PROVE  p \in Nat /\ p < month
<1>1. /\ Retention # 0 /\ p \in partitions
      /\ p < began[m] - Retention + o
  BY Zenon DEF Expired
<1>2. p \in Nat /\ began[m] \in Nat /\ began[m] <= month /\ month \in Nat
  BY ZenonT(30), <1>1 DEF CalendarType
<1> QED
  BY <1>1, <1>2, PartitionAssumption

\* Dropping therefore takes away nothing that is needed from now on.
LEMMA DropPreserves ==
    ASSUME PartitionInv, NEW m \in Maintainer, Drop(m),
           UNCHANGED <<month, default, began, lapsed>>,
           covered' = covered \/ (/\ offset[m] = MonthsAhead + 1
                                  /\ covered' = began[m] + MonthsAhead
                                  /\ covered' > covered)
    PROVE  PartitionInv'
<1> USE PartitionAssumption
<1>1. PICK o \in {0, 1} : \E gone \in SUBSET Expired(m, o) : partitions' = partitions \ gone
  BY Zenon DEF Drop
<1>2. \A p \in Nat : p \in partitions /\ month <= p => p \in partitions'
  BY <1>1, ExpiredIsPast DEF PartitionInv, CalendarType
<1>3. offset' = [offset EXCEPT ![m] = -1]
  BY Zenon DEF Drop
<1>4. covered' >= covered
  BY DEF PartitionInv, CalendarType
<1>5. CalendarType'
  <2>1. partitions' \subseteq Nat
    BY Zenon, <1>1 DEF PartitionInv, CalendarType
  <2>2. covered' \in Nat
    BY DEF PartitionInv, CalendarType
  <2> QED
    BY <1>3, <2>1, <2>2 DEF PartitionInv, CalendarType
<1>6. ASSUME NEW p \in Nat, month <= p, p <= covered'
      PROVE  p \in partitions
  <2>1. CASE p <= covered
    BY ZenonT(30), <1>6, <2>1 DEF PartitionInv, Provision
  <2>2. CASE p > covered
    BY <1>6, <2>2 DEF PartitionInv, Provision, CalendarType
  <2> QED
    BY <1>6, <2>1, <2>2 DEF PartitionInv, CalendarType
<1>7. Provision'
  BY <1>2, <1>3, <1>6 DEF PartitionInv, Provision, CalendarType
<1> QED
  BY <1>4, <1>5, <1>7 DEF PartitionInv, CalendarType

LEMMA PassPreserves ==
    ASSUME PartitionInv, NEW m \in Maintainer,
           Maintain(m) \/ EnsurePartition(m) \/ EndPass(m) \/ FailPass(m)
    PROVE  PartitionInv'
<1> USE PartitionAssumption
<1>1. CASE Maintain(m)
  <2>1. CalendarType'
    BY <1>1 DEF Maintain, PartitionInv, CalendarType
  <2>2. Provision'
    BY <1>1 DEF Maintain, PartitionInv, CalendarType, Provision
  <2> QED
    BY ZenonT(30), <1>1, <2>1, <2>2 DEF Maintain, PartitionInv
<1>2. CASE EnsurePartition(m)
  <2>1. /\ offset[m] \in Nat /\ offset[m] <= MonthsAhead
        /\ partitions' = partitions \cup {began[m] + offset[m]}
        /\ offset' = [offset EXCEPT ![m] = offset[m] + 1]
        /\ UNCHANGED <<month, default, began, covered, lapsed>>
    BY <1>2 DEF EnsurePartition, InLoop
  <2>2. CalendarType'
    <3>0. began[m] \in Nat /\ partitions \subseteq Nat
      BY Zenon DEF PartitionInv, CalendarType
    <3>1. partitions' \subseteq Nat
      <4>1. began[m] + offset[m] \in Nat
        BY <2>1, <3>0
      <4> QED
        BY ZenonT(30), <2>1, <3>0, <4>1
    <3>2. offset[m] + 1 \in Nat /\ offset[m] + 1 <= MonthsAhead + 1
      BY <2>1
    <3>3. /\ offset' \in [Maintainer -> Nat \cup {-1}]
          /\ \A n \in Maintainer : offset'[n] <= MonthsAhead + 1
      BY Zenon, <2>1, <3>2 DEF PartitionInv, CalendarType
    <3> QED
      BY Zenon, <2>1, <3>1, <3>3 DEF PartitionInv, CalendarType
  <2>3. Provision'
    <3>1. \A p \in Nat : month' <= p /\ p <= covered' => p \in partitions'
      BY Zenon, <2>1 DEF PartitionInv, Provision
    <3>2. ASSUME NEW n \in Maintainer, NEW p \in Nat,
                 month <= p, began[n] <= p, p < began[n] + offset'[n]
          PROVE  p \in partitions'
      <4>1. offset'[n] = IF n = m THEN offset[m] + 1 ELSE offset[n]
        BY Zenon, <2>1 DEF PartitionInv, CalendarType
      <4>2. began[n] \in Nat /\ offset[m] \in Nat
        BY ZenonT(30), <2>1 DEF PartitionInv, CalendarType
      <4>3. p < began[n] + offset[n] \/ p = began[m] + offset[m]
        BY <3>2, <4>1, <4>2
      <4> QED
        BY Zenon, <2>1, <3>2, <4>3 DEF PartitionInv, Provision
    <3> QED
      BY Zenon, <2>1, <3>1, <3>2 DEF Provision
  <2> QED
    BY ZenonT(30), <2>1, <2>2, <2>3 DEF PartitionInv
<1>3. CASE EndPass(m)
  <2>1. offset[m] = MonthsAhead + 1
    <3>1. offset[m] >= 0 /\ offset[m] \notin 0..MonthsAhead
      BY Zenon, <1>3 DEF EndPass, InLoop
    <3>2. offset[m] \in Nat \cup {-1} /\ offset[m] <= MonthsAhead + 1
      BY Zenon DEF PartitionInv, CalendarType
    <3> QED
      BY <3>1, <3>2
  <2> QED
    BY <1>3, <2>1, DropPreserves DEF EndPass
<1>4. CASE FailPass(m)
  BY Zenon, <1>4, DropPreserves DEF FailPass
<1> QED
  BY ZenonT(30), <1>1, <1>2, <1>3, <1>4

LEMMA NextPartition == PartitionInv /\ [PartitionNext]_partitionVars => PartitionInv'
<1> SUFFICES ASSUME PartitionInv, [PartitionNext]_partitionVars PROVE PartitionInv'
  BY Zenon
<1>1. CASE NextMonth
  <2>1. CalendarType'
    BY <1>1 DEF NextMonth, PartitionInv, CalendarType
  <2>2. Provision'
    BY <1>1 DEF NextMonth, PartitionInv, CalendarType, Provision
  <2>3. lapsed' = "no" => lapsed = "no" /\ month' <= covered'
    BY <1>1 DEF NextMonth, PartitionInv, CalendarType
  <2> QED
    BY ZenonT(30), <1>1, <2>1, <2>2, <2>3 DEF NextMonth, PartitionInv
<1>2. CASE CreateAttempt
  <2>1. lapsed # "no"
    BY <1>2 DEF CreateAttempt, PartitionInv, CalendarType, Provision
  <2>2. CalendarType'
    BY Zenon, <1>2 DEF CreateAttempt, PartitionInv, CalendarType
  <2>3. Provision'
    BY Zenon, <1>2 DEF CreateAttempt, PartitionInv, Provision
  <2> QED
    BY ZenonT(30), <1>2, <2>1, <2>2, <2>3 DEF CreateAttempt, PartitionInv
<1>3. CASE \E m \in Maintainer : Maintain(m) \/ EnsurePartition(m) \/ EndPass(m) \/ FailPass(m)
  BY Zenon, <1>3, PassPreserves
<1>4. CASE UNCHANGED partitionVars
  BY Zenon, <1>4 DEF partitionVars, PartitionInv, CalendarType, Provision
<1> QED
  BY ZenonT(30), <1>1, <1>2, <1>3, <1>4 DEF PartitionNext

\* DefaultStaysEmpty: overlapping, failing and pruning passes of any number of
\* maintainers never leave the current month without its partition, as long as
\* some pass went through in time.
THEOREM DefaultIsUnused == PartitionSpec => []DefaultStaysEmpty
<1>1. PartitionInit => PartitionInv
  BY PartitionAssumption DEF PartitionInit, PartitionInv, CalendarType, Provision
<1>2. PartitionInv => DefaultStaysEmpty
  BY Zenon DEF PartitionInv, DefaultStaysEmpty
<1> QED
  BY <1>1, <1>2, NextPartition, PTL DEF PartitionSpec

-----------------------------------------------------------------------------
(* Lists *)

\* The rest of the list: what the next page may show.
Ahead(r) == cursor = <<>> \/ Before(r, cursor)
Rest == {r \in rows : Ahead(r)}

\* The rows of the rest that come before r on the pages.
Above(r) == {q \in Rest : Before(r, q)}

LEMMA RowParts ==
    ASSUME NEW r \in Row
    PROVE  /\ r[1] \in Nat /\ r[2] \in Nat /\ r[1] \in Time /\ r[2] \in Id
           /\ r = <<r[1], r[2]>> /\ r # <<>>
<1>1. PICK t \in Time, i \in Id : r = <<t, i>>
  BY DEF Row
<1>2. <<t, i>> # <<>>
  BY ZenonT(30)
<1> QED
  BY Zenon, <1>1, <1>2, ListAssumption

\* The sort order is a strict total order.
LEMMA BeforeOrders ==
    ASSUME NEW p \in Row, NEW q \in Row
    PROVE  /\ ~Before(p, p)
           /\ Before(p, q) => ~Before(q, p)
           /\ p = q \/ Before(p, q) \/ Before(q, p)
           /\ \A r \in Row : Before(p, q) /\ Before(q, r) => Before(p, r)
  BY RowParts DEF Before

\* A set of naturals has a least element.
LEMMA Least ==
    ASSUME NEW T \in SUBSET Nat, T # {}
    PROVE  \E x \in T : \A y \in T : x <= y
<1>1. PICK x \in T : \A y \in T : ~(<<y, x>> \in OpToRel(<, Nat))
  BY NatLessThanWellFounded, WFMin
<1>2. ASSUME NEW y \in T PROVE x <= y
  <2>1. ~(y < x)
    BY Zenon, <1>1 DEF OpToRel
  <2> QED
    BY <2>1
<1> QED
  BY <1>1, <1>2

\* Oldest finds the last row of a page in the sort order.
LEMMA OldestIs ==
    ASSUME NEW R \in SUBSET Row, R # {}
    PROVE  Oldest(R) \in R /\ \A q \in R : Oldest(R) = q \/ Before(Oldest(R), q)
<1> DEFINE times == {r[1] : r \in R}
<1>1. times \in SUBSET Nat /\ times # {}
  BY ZenonT(30), RowParts
<1>2. PICK t \in times : \A u \in times : t <= u
  BY Zenon, <1>1, Least
<1> DEFINE ids == {r[2] : r \in {q \in R : q[1] = t}}
<1>3. ids \in SUBSET Nat /\ ids # {}
  BY <1>2, RowParts
<1>4. PICK i \in ids : \A j \in ids : i <= j
  BY Zenon, <1>3, Least
<1>5. PICK r \in R : r[1] = t /\ r[2] = i
  BY Zenon, <1>4
<1>6. ASSUME NEW q \in R PROVE r = q \/ Before(r, q)
  <2>1. t <= q[1] /\ (q[1] = t => i <= q[2])
    BY Zenon, <1>2, <1>4
  <2> QED
    BY <1>5, <2>1, RowParts DEF Before
<1> QED
  BY Zenon, <1>5, <1>6 DEF Oldest

LEMMA RestFinite ==
    ASSUME rows \subseteq Row
    PROVE  /\ IsFiniteSet(Rest)
           /\ \A S \in SUBSET Rest : IsFiniteSet(S) /\ Cardinality(S) \in Nat
<1>1. IsFiniteSet(Row)
  BY Zenon, ListAssumption, FS_Product DEF Row
<1>2. IsFiniteSet(Rest)
  BY Zenon, <1>1, FS_Subset DEF Rest
<1> QED
  BY Zenon, <1>2, FS_Subset, FS_CardinalityType

LEMMA FetchMeans ==
    ASSUME NEW n
    PROVE  Fetch(n) = {r \in Rest : Cardinality(Above(r)) < n}
  BY Zenon DEF Fetch, Rest, Ahead, Above

\* A page leaves out nothing that is newer than one of its rows.
LEMMA PageIsNewest ==
    ASSUME rows \subseteq Row, NEW n \in Nat,
           NEW p \in Fetch(n), NEW r \in Rest, r \notin Fetch(n)
    PROVE  Before(r, p)
<1>1. p \in Rest /\ p \in Row /\ r \in Row /\ Cardinality(Above(p)) < n
  BY ZenonT(30), FetchMeans DEF Rest
<1>2. CASE Before(p, r)
  <2>1. Above(r) \subseteq Above(p)
    BY Zenon, <1>1, <1>2, BeforeOrders DEF Above, Rest
  <2>2. IsFiniteSet(Above(p)) /\ Cardinality(Above(p)) \in Nat /\ Cardinality(Above(r)) \in Nat
    BY Zenon, RestFinite DEF Above
  <2>3. Cardinality(Above(r)) <= Cardinality(Above(p))
    BY ZenonT(30), <2>1, <2>2, FS_Subset
  <2> QED
    BY <1>1, <2>2, <2>3, FetchMeans
<1> QED
  BY Zenon, <1>1, <1>2, BeforeOrders

\* A page that is not full is the rest of the list.
LEMMA ShortPageIsLast ==
    ASSUME rows \subseteq Row, NEW n \in Nat, Cardinality(Fetch(n + 1)) # n + 1
    PROVE  Fetch(n + 1) = Rest
<1> DEFINE page == Fetch(n + 1)
<1>0. page \subseteq Rest /\ Rest \subseteq Row
  BY Zenon, FetchMeans DEF Rest
<1> SUFFICES ASSUME Rest \ page # {} PROVE FALSE
  BY Zenon, <1>0
<1>1. \A r \in Rest : IsFiniteSet(Above(r)) /\ Cardinality(Above(r)) \in Nat
  BY Zenon, RestFinite DEF Above
<1>2. IsFiniteSet(page) /\ Cardinality(page) \in Nat
  BY Zenon, <1>0, RestFinite
<1> DEFINE ranks == {Cardinality(Above(r)) : r \in Rest \ page}
<1>3. PICK z \in Rest \ page :
         \A r \in Rest \ page : Cardinality(Above(z)) <= Cardinality(Above(r))
  <2>1. ranks \in SUBSET Nat /\ ranks # {}
    BY Zenon, <1>1
  <2>2. PICK k \in ranks : \A j \in ranks : k <= j
    BY Zenon, <2>1, Least
  <2> QED
    BY ZenonT(30), <2>2
<1>4. Above(z) \subseteq page
  <2> SUFFICES ASSUME NEW q \in Above(z), q \notin page PROVE FALSE
    BY Zenon
  <2>1. q \in Rest /\ Before(z, q) /\ q \in Row /\ z \in Row
    BY Zenon, <1>0 DEF Above
  <2>2. Above(q) \subseteq Above(z) /\ q \notin Above(q)
    BY Zenon, <1>0, <2>1, BeforeOrders DEF Above
  <2>3. Cardinality(Above(q)) <= Cardinality(Above(z)) /\ Cardinality(Above(q)) # Cardinality(Above(z))
    BY ZenonT(30), <1>1, <2>2, FS_Subset
  <2> QED
    BY <1>1, <1>3, <2>1, <2>3
<1>5. page \subseteq Above(z)
  BY <1>0, <1>3, PageIsNewest DEF Above
<1>6. Cardinality(page) >= n + 1
  <2>1. ~(Cardinality(Above(z)) < n + 1)
    BY Zenon, <1>3, FetchMeans
  <2>2. page = Above(z)
    BY ZenonT(30), <1>4, <1>5
  <2> QED
    BY <1>2, <2>1, <2>2
<1>7. page # {}
  BY <1>2, <1>6, FS_EmptySet
<1> DEFINE o == Oldest(page)
<1>8. o \in page /\ \A q \in page : o = q \/ Before(o, q)
  BY Zenon, <1>0, <1>7, OldestIs
<1>9. o \in Rest /\ Cardinality(Above(o)) < n + 1 /\ Cardinality(Above(o)) \in Nat
      /\ IsFiniteSet(Above(o))
  BY ZenonT(30), <1>0, <1>1, <1>8, FetchMeans
<1>10. page \subseteq Above(o) \cup {o}
  BY ZenonT(30), <1>0, <1>8 DEF Above
<1>11. /\ IsFiniteSet(Above(o) \cup {o})
       /\ Cardinality(Above(o) \cup {o}) <= Cardinality(Above(o)) + 1
  <2> HIDE DEF o, page
  <2>1. o \notin Above(o)
    BY Zenon, <1>0, <1>9, BeforeOrders DEF Above
  <2>2. /\ IsFiniteSet(Above(o) \cup {o})
        /\ Cardinality(Above(o) \cup {o}) = Cardinality(Above(o)) + 1
    BY Zenon, <1>9, <2>1, FS_AddElement
  <2> QED
    BY <1>9, <2>2
<1>12. Cardinality(page) <= Cardinality(Above(o) \cup {o})
  BY Zenon, <1>10, <1>11, FS_Subset
<1>13. Cardinality(Above(o) \cup {o}) \in Nat
  BY Zenon, <1>11, FS_CardinalityType
<1> QED
  BY <1>2, <1>6, <1>9, <1>11, <1>12, <1>13

\* What SentinelPage and LastRowPage cut a full page at.
LEMMA FullPageCut ==
    ASSUME rows \subseteq Row, NEW n \in Nat \ {0}, Cardinality(Fetch(n + 1)) = n + 1
    PROVE  LET page == Fetch(n + 1)
               last == Oldest(page)
               cut  == Oldest(page \ {last})
           IN  /\ page \subseteq Rest /\ page \subseteq Row
               /\ last \in page /\ \A q \in page : last = q \/ Before(last, q)
               /\ cut \in page \ {last} /\ \A q \in page \ {last} : cut = q \/ Before(cut, q)
<1> DEFINE page == Fetch(n + 1)
           last == Oldest(page)
           cut  == Oldest(page \ {last})
<1>1. page \subseteq Rest /\ page \subseteq Row
  BY Zenon, FetchMeans DEF Rest
<1>2. IsFiniteSet(page)
  BY Zenon, <1>1, RestFinite
<1>3. page # {}
  BY <1>2, FS_EmptySet
<1>4. last \in page /\ \A q \in page : last = q \/ Before(last, q)
  BY Zenon, <1>1, <1>3, OldestIs
<1>5. page \ {last} # {}
  <2>1. IsFiniteSet(page \ {last}) /\ Cardinality(page \ {last}) = n
    BY <1>2, <1>4, FS_RemoveElement
  <2> QED
    BY ZenonT(30), <2>1, FS_EmptySet
<1>6. cut \in page \ {last} /\ \A q \in page \ {last} : cut = q \/ Before(cut, q)
  BY Zenon, <1>1, <1>5, OldestIs
<1> QED
  BY Zenon, <1>1, <1>4, <1>6

ListType ==
    /\ endpoint \in Sentinel \cup LastRow
    /\ asked \in Asked
    /\ rows \subseteq Row /\ steady \subseteq rows
    /\ shown \subseteq Row /\ breaks \subseteq Row
    /\ cursor \in Row \cup {<<>>}
    /\ reading \in {"yes", "no"}

\* The rows that a walk may leave out for good.
Forgone == IF endpoint \in Sentinel THEN breaks ELSE {}

\* A steady row has been shown or is still ahead, unless a page was cut at it,
\* and what has been shown is not ahead.
WalkInv ==
    /\ ListType
    /\ reading = "yes" => /\ \A r \in steady : r \in shown \cup Forgone \/ Ahead(r)
                          /\ \A r \in shown \cup Forgone : ~Ahead(r)
    /\ reading = "no" => steady \subseteq shown \cup Forgone
    /\ shown \cap Forgone = {}

LEMMA InitWalk == ListInit => WalkInv
  BY Zenon DEF ListInit, WalkInv, ListType, Forgone, Ahead

\* Rows come and go without disturbing a walk: a row that comes is not steady.
LEMMA RowsPreserve ==
    ASSUME WalkInv, NEW r \in Row, InsertRow(r) \/ DeleteRow(r)
    PROVE  WalkInv'
<1>1. /\ UNCHANGED <<endpoint, asked, cursor, reading, shown, breaks>>
      /\ rows' \subseteq Row /\ steady' \subseteq rows' /\ steady' \subseteq steady
  BY Zenon DEF InsertRow, DeleteRow, walk, WalkInv, ListType
<1>2. Forgone' = Forgone /\ \A q : Ahead(q)' = Ahead(q)
  BY Zenon, <1>1 DEF Forgone, Ahead, Before
<1>3. ListType'
  BY Zenon, <1>1 DEF WalkInv, ListType
<1> QED
  BY Zenon, <1>1, <1>2, <1>3 DEF WalkInv

\* The last page shows all that is left.
LEMMA LastPagePreserves ==
    ASSUME WalkInv, reading = "yes", NEW n \in Nat,
           Cardinality(Fetch(n + 1)) # n + 1, LastPage(Fetch(n + 1)),
           UNCHANGED <<endpoint, asked, rows, steady>>
    PROVE  WalkInv'
<1>1. rows \subseteq Row /\ steady \subseteq rows
  BY Zenon DEF WalkInv, ListType
<1>2. shown' = shown \cup Rest /\ reading' = "no" /\ UNCHANGED <<cursor, breaks>>
  BY Zenon, <1>1, ShortPageIsLast DEF LastPage
<1>3. Forgone' = Forgone
  BY Zenon, <1>2 DEF Forgone
<1>4. ListType'
  BY Zenon, <1>1, <1>2 DEF WalkInv, ListType, Rest
<1>5. steady' \subseteq shown' \cup Forgone'
  BY Zenon, <1>1, <1>2, <1>3 DEF WalkInv, Rest
<1>6. shown' \cap Forgone' = {}
  BY Zenon, <1>2, <1>3 DEF WalkInv, Rest
<1> QED
  BY Zenon, <1>2, <1>4, <1>5, <1>6 DEF WalkInv

\* After a full page all that is left over is ahead of the new cursor.  The row
\* that was kept back is ahead of it too if the cursor is the last row shown, and
\* is forgone if the cursor is that row itself.
LEMMA FullPagePreserves ==
    ASSUME WalkInv, reading = "yes", NEW n \in Nat \ {0},
           Cardinality(Fetch(n + 1)) = n + 1, NEW next,
           FullPage(Fetch(n + 1), next),
           \/ endpoint \in Sentinel /\ next = Oldest(Fetch(n + 1))
           \/ endpoint \in LastRow /\ next = Oldest(Fetch(n + 1) \ {Oldest(Fetch(n + 1))}),
           UNCHANGED <<endpoint, asked, rows, steady>>
    PROVE  WalkInv'
<1> DEFINE page == Fetch(n + 1)
           last == Oldest(page)
           cut  == Oldest(page \ {last})
<1>1. rows \subseteq Row /\ steady \subseteq rows
  BY Zenon DEF WalkInv, ListType
<1>2. /\ page \subseteq Rest /\ page \subseteq Row
      /\ last \in page /\ \A q \in page : last = q \/ Before(last, q)
      /\ cut \in page \ {last} /\ \A q \in page \ {last} : cut = q \/ Before(cut, q)
  BY Zenon, <1>1, FullPageCut
<1>3. /\ shown' = shown \cup (page \ {last}) /\ breaks' = breaks \cup {last}
      /\ cursor' = next /\ reading' = "yes"
  BY ZenonT(30) DEF FullPage
<1>4. \A r \in Rest \ page : Before(r, last) /\ Before(r, cut)
  BY <1>1, <1>2, PageIsNewest
<1>5. next \in page /\ next \in Row /\ next # <<>>
  BY Zenon, <1>2, RowParts
<1>6. \A r : Ahead(r)' <=> Before(r, next)
  BY Zenon, <1>3, <1>5 DEF Ahead, Before
<1>7. \A r \in Rest \ page : Ahead(r)'
  BY ZenonT(30), <1>4, <1>6
<1>8. Sentinel \cap LastRow = {}
  BY DEF Sentinel, LastRow
<1>9. \/ Forgone' = Forgone \cup {last} /\ next = last
      \/ Forgone' = Forgone /\ next = cut /\ Forgone = {}
  BY Zenon, <1>3, <1>8 DEF Forgone
<1>10. \A r \in page : r \in shown' \cup Forgone' \/ Ahead(r)'
  BY ZenonT(30), <1>2, <1>3, <1>6, <1>9
<1>11. ASSUME NEW r \in page, r \in shown' \cup Forgone', Ahead(r)' PROVE FALSE
  <2>1. r # last \/ next = last
    BY ZenonT(30), <1>2, <1>3, <1>9, <1>11 DEF WalkInv, Rest
  <2>2. r = next \/ Before(next, r)
    BY ZenonT(30), <1>2, <1>9, <1>11, <2>1
  <2> QED
    BY <1>2, <1>5, <1>6, <1>11, <2>2, BeforeOrders
<1>12. ASSUME NEW r \in shown \cup Forgone PROVE ~Ahead(r)'
  <2>1. ~Ahead(r) /\ Ahead(next) /\ r \in Row /\ cursor \in Row
    BY Zenon, <1>2, <1>5 DEF WalkInv, ListType, Ahead, Forgone, Rest
  <2>2. ~Before(r, cursor) /\ Before(next, cursor)
    BY Zenon, <2>1 DEF Ahead
  <2> QED
    BY ZenonT(30), <1>5, <1>6, <2>1, <2>2, BeforeOrders
<1>13. \A r \in shown' \cup Forgone' : ~Ahead(r)'
  BY ZenonT(30), <1>2, <1>3, <1>9, <1>11, <1>12
<1>14. \A r \in steady' : r \in shown' \cup Forgone' \/ Ahead(r)'
  <2>1. \A r \in steady : r \in shown \cup Forgone \/ r \in page \/ r \in Rest \ page
    BY Zenon, <1>1 DEF WalkInv, Rest
  <2>2. shown \cup Forgone \subseteq shown' \cup Forgone'
    BY Zenon, <1>3, <1>9
  <2> QED
    BY ZenonT(30), <1>7, <1>10, <2>1, <2>2
<1>15. shown' \cap Forgone' = {}
  <2>1. page \cap (shown \cup Forgone) = {} /\ shown \cap Forgone = {}
    BY Zenon, <1>2 DEF WalkInv, Rest
  <2> QED
    BY ZenonT(30), <1>2, <1>3, <1>9, <2>1
<1>16. ListType'
  BY ZenonT(30), <1>2, <1>3, <1>5 DEF WalkInv, ListType
<1> QED
  BY ZenonT(30), <1>3, <1>13, <1>14, <1>15, <1>16 DEF WalkInv

\* The page sizes that the endpoints come to.
LEMMA PageSizes ==
    ASSUME asked \in Asked
    PROVE  /\ Clamped \in Nat \ {0}
           /\ (IF asked = 0 \/ asked > MaxPage THEN DefaultPage ELSE asked) \in Nat \ {0}
  BY Zenon, ListAssumption DEF Clamped

LEMMA PagePreserves ==
    ASSUME WalkInv, NEW n \in Nat \ {0}, NEW list, Read(list),
           \/ list \in Sentinel /\ SentinelPage(n)
           \/ list \in LastRow /\ LastRowPage(n)
    PROVE  WalkInv'
<1>1. reading = "yes" /\ endpoint = list /\ UNCHANGED <<endpoint, asked, rows, steady>>
  BY Zenon DEF Read
<1>2. CASE Cardinality(Fetch(n + 1)) # n + 1
  <2>1. LastPage(Fetch(n + 1))
    BY Zenon, <1>2 DEF SentinelPage, LastRowPage
  <2> QED
    BY ZenonT(30), <1>1, <1>2, <2>1, LastPagePreserves
<1>3. CASE Cardinality(Fetch(n + 1)) = n + 1
  <2>1. CASE list \in Sentinel /\ SentinelPage(n)
    BY ZenonT(30), <1>1, <1>3, <2>1, FullPagePreserves DEF SentinelPage
  <2>2. CASE list \in LastRow /\ LastRowPage(n)
    BY ZenonT(30), <1>1, <1>3, <2>2, FullPagePreserves DEF LastRowPage
  <2> QED
    BY Zenon, <2>1, <2>2
<1> QED
  BY Zenon, <1>2, <1>3

LEMMA NextWalk == WalkInv /\ [ListNext]_listVars => WalkInv'
<1> SUFFICES ASSUME WalkInv, [ListNext]_listVars PROVE WalkInv'
  BY Zenon
<1>1. CASE \E r \in Row : InsertRow(r) \/ DeleteRow(r)
  BY Zenon, <1>1, RowsPreserve
<1>2. asked \in Asked
  BY Zenon DEF WalkInv, ListType
<1>3. CASE ListJobs \/ ListSchedules \/ ListScheduleJobs \/ ListBuffers \/ ListItems
  <2>1. \E list \in Sentinel : Read(list) /\ SentinelPage(Clamped)
    BY <1>3 DEF ListJobs, ListSchedules, ListScheduleJobs, ListBuffers, ListItems, Sentinel
  <2> QED
    BY ZenonT(30), <1>2, <2>1, PageSizes, PagePreserves
<1>4. CASE ListDeliveries \/ ListTransactions
  <2>1. \E list \in LastRow, n \in Nat \ {0} : Read(list) /\ LastRowPage(n)
    BY Zenon, <1>2, <1>4, PageSizes DEF ListDeliveries, ListTransactions, LastRow
  <2> QED
    BY Zenon, <2>1, PagePreserves
<1>5. CASE UNCHANGED listVars
  BY ZenonT(30), <1>5 DEF listVars, walk, WalkInv, ListType, Forgone, Ahead, Before
<1> QED
  BY ZenonT(30), <1>1, <1>3, <1>4, <1>5 DEF ListNext

LEMMA WalkInvariant == ListSpec => []WalkInv
  BY InitWalk, NextWalk, PTL DEF ListSpec

\* WalkComplete: for lists of any length, pages of any size and rows that come and
\* go at any time, the cursors of the ledger and of the deliveries lead a client
\* past every row that stays, once.
THEOREM WalksAreComplete == ListSpec => []WalkComplete
<1>1. WalkInv => WalkComplete
  BY DEF WalkInv, ListType, WalkComplete, Forgone, Ahead, Sentinel, LastRow
<1> QED
  BY <1>1, WalkInvariant, PTL

\* How far ItemsComplete fails, and its like for the other lists with that kind of
\* cursor: the row a page is cut at is on neither page, and no other row is lost.
OnlyBreaksLost ==
    endpoint \in Sentinel =>
        /\ reading = "no" => steady \ shown \subseteq breaks
        /\ shown \cap breaks = {}

\* OnlyBreaksLost: the other lists leave out the rows that pages were cut at, and
\* no other.
THEOREM NothingElseIsLost == ListSpec => []OnlyBreaksLost
<1>1. WalkInv => OnlyBreaksLost
  BY Zenon DEF WalkInv, OnlyBreaksLost, Forgone
<1> QED
  BY <1>1, WalkInvariant, PTL

-----------------------------------------------------------------------------
(* All together *)

LEMMA ServicesSteps ==
    [ServicesNext]_serviceVars =>
        /\ [Next]_vars /\ [OutboxNext]_outboxVars /\ [SecretNext]_secretVars
        /\ [ListNext]_listVars /\ [PartitionNext]_partitionVars
  BY Zenon DEF ServicesNext, serviceVars, LeaseStep, OutboxStep, SecretStep, ListStep,
                    PartitionStep

\* In Services each part behaves as its own specification says, so that what is
\* proved of the parts holds of the whole.
THEOREM ServicesKeepTheirSpecs ==
    ServicesSpec => Spec /\ OutboxSpec /\ SecretSpec /\ ListSpec /\ PartitionSpec
<1>1. ServicesInit => Init /\ OutboxInit /\ SecretInit /\ ListInit /\ PartitionInit
  BY Zenon DEF ServicesInit
<1> QED
  BY <1>1, ServicesSteps, PTL
     DEF ServicesSpec, Spec, OutboxSpec, SecretSpec, ListSpec, PartitionSpec

\* ServicesTypeOK is an invariant of Services.
THEOREM ServicesTypeCorrect == ServicesSpec => []ServicesTypeOK
  BY ServicesKeepTheirSpecs, LeaseTypeCorrect, OutboxTypeCorrect, PTL DEF ServicesTypeOK

\* What is proved of the parts holds of the whole.
THEOREM ServicesAreSound ==
    ServicesSpec => /\ [](NeverConcurrent /\ OutcomeIsEarned) /\ SettledForGood
                    /\ [](NewestSecretActive /\ DefaultStaysEmpty)
                    /\ [](WalkComplete /\ OnlyBreaksLost)
                    /\ LeaseBudget => []ExclusiveDelivery
  BY ServicesKeepTheirSpecs, OneDispatcherAtATime, OutcomesAreEarned, SettledRowsRest,
     OneSecretInUse, DefaultIsUnused, WalksAreComplete, NothingElseIsLost,
     LeaseIsExclusive, PTL
=============================================================================
