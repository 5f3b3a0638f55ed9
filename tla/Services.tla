------------------------------ MODULE Services ------------------------------
(***************************************************************************)
(* Five parts of the system that share no state with one another: the      *)
(* lease of a run, the webhook outbox, signing secrets, lists and          *)
(* partitions.  A behaviour of the whole is an interleaving of theirs, so  *)
(* nothing is lost by looking at one at a time: focus says which, and the  *)
(* others stand still.                                                     *)
(***************************************************************************)
EXTENDS JobLease, WebhookOutbox, SigningSecrets, Listing, Partitions

VARIABLE focus
serviceVars == <<vars, outboxVars, secretVars, listVars, partitionVars, focus>>

ServicesInit ==
    /\ focus \in {"lease", "outbox", "secrets", "lists", "partitions"}
    /\ Init /\ OutboxInit /\ SecretInit /\ ListInit /\ PartitionInit
    /\ focus # "outbox" => timely = "yes"
    /\ focus # "lists" => endpoint = "jobs" /\ asked = 0 /\ rows = {}

LeaseStep ==
    focus = "lease" /\ Next /\ UNCHANGED <<outboxVars, secretVars, listVars, partitionVars>>
OutboxStep ==
    focus = "outbox" /\ OutboxNext /\ UNCHANGED <<vars, secretVars, listVars, partitionVars>>
SecretStep ==
    focus = "secrets" /\ SecretNext /\ UNCHANGED <<vars, outboxVars, listVars, partitionVars>>
ListStep ==
    focus = "lists" /\ ListNext /\ UNCHANGED <<vars, outboxVars, secretVars, partitionVars>>
PartitionStep ==
    focus = "partitions" /\ PartitionNext /\ UNCHANGED <<vars, outboxVars, secretVars, listVars>>

ServicesNext ==
    /\ LeaseStep \/ OutboxStep \/ SecretStep \/ ListStep \/ PartitionStep
    /\ UNCHANGED focus

ServicesSpec == ServicesInit /\ [][ServicesNext]_serviceVars

-----------------------------------------------------------------------------
\* Every variable of the lease and of the outbox keeps its type.
ServicesTypeOK == TypeOK /\ OutboxTypeOK
=============================================================================
