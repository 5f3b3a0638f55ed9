--------------------------- MODULE SigningSecrets ---------------------------
(***************************************************************************)
(* One user's signing secrets: GET, which makes the first one, and rotate, *)
(* from several requests at once.                                          *)
(* internal/infrastructure/postgres/signing.go over                        *)
(* user_signing_secrets and its partial unique index.                      *)
(*                                                                         *)
(* Secrets are numbered as they are committed.  Rotate's UPDATE locks the  *)
(* row it deactivates until its transaction ends.                          *)
(***************************************************************************)
EXTENDS Naturals, FiniteSets

CONSTANTS
    Request,    \* API requests under way
    MaxSecrets  \* bound on the secrets ever made

VARIABLES
    made,    \* number of secrets so far
    active,  \* those with is_active
    step,    \* what each request does next
    locked   \* the rows its transaction has deactivated and not yet committed

secretVars == <<made, active, step, locked>>

SecretInit ==
    /\ made = 0 /\ active = {}
    /\ step = [q \in Request |-> "idle"]
    /\ locked = [q \in Request |-> {}]

EndRequest(q) ==
    /\ step' = [step EXCEPT ![q] = "idle"]
    /\ locked' = [locked EXCEPT ![q] = {}]

\* Bug: the index is not unique.
FaultyInsert(rest) ==
    /\ made' = made + 1
    /\ active' = rest \cup {made + 1}
\* The row is inserted next to those that stay active; the index allows one.
Insert(rest) ==
    /\ rest = {}
    /\ made' = made + 1
    /\ active' = {made + 1}

\* Create: a request that finds an active secret returns it, and goes on to
\* insert one otherwise.
FindNone(q) ==
    /\ step[q] = "idle" /\ made < MaxSecrets
    /\ active = {}
    /\ step' = [step EXCEPT ![q] = "create"]
    /\ UNCHANGED <<made, active, locked>>

Create(q) ==
    /\ step[q] = "create" /\ made < MaxSecrets
    /\ Insert(active)
    /\ EndRequest(q)

\* Rotate's first statement, when no other transaction has locked the row.  If
\* it had to wait for another rotation, it finds nothing left to deactivate.
Deactivate(q) ==
    /\ step[q] = "idle" /\ made < MaxSecrets
    /\ \A r \in Request : locked[r] = {}
    /\ step' = [step EXCEPT ![q] = "rotate"]
    /\ \E rows \in {active, {}} : locked' = [locked EXCEPT ![q] = rows]
    /\ UNCHANGED <<made, active>>

\* Its second statement and the commit.
Rotate(q) ==
    /\ step[q] = "rotate" /\ made < MaxSecrets
    /\ Insert(active \ locked[q])
    /\ EndRequest(q)

\* The index or the database refuses, or the server dies: rolled back.
Rollback(q) ==
    /\ step[q] # "idle"
    /\ EndRequest(q)
    /\ UNCHANGED <<made, active>>

SecretNext == \E q \in Request : FindNone(q) \/ Create(q) \/ Deactivate(q) \/ Rotate(q) \/ Rollback(q)

SecretSpec == SecretInit /\ [][SecretNext]_secretVars

-----------------------------------------------------------------------------
(* Correctness property *)

\* Whoever asks and however requests overlap, exactly one secret is active from
\* the first one on, and it is the newest: GetActive never finds none in the
\* middle of a rotation, so no webhook or job goes out unsigned, and the answer
\* to the last successful request is the secret in use.
NewestSecretActive == active = IF made = 0 THEN {} ELSE {made}
=============================================================================
