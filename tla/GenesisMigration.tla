-------------------------- MODULE GenesisMigration --------------------------
(***************************************************************************)
(* The one-time migration beside the append workflow: one concurrency      *)
(* group, one main branch, an index that starts empty                      *)
(* (.github/workflows/migrate-encrypted-genesis.yml,                       *)
(* scripts/migrate-encrypted-genesis.mjs, createGenesisState).             *)
(*                                                                         *)
(* An anchor of the frozen public log commits to a prefix of the private   *)
(* registry: its root is modelled by the prefix itself.                    *)
(***************************************************************************)
EXTENDS AppendWorkflow

CONSTANTS
  Anchors,            \* the frozen public log
  PrivateRegistries   \* what the private repository may hold when it is read

(* The registry the last anchor commits to is the one that is migrated;    *)
(* each anchor commits to a history of at least one event.                 *)
ASSUME AnchorsAssumption ==
  /\ Anchors # <<>> /\ Last(Anchors).root = Genesis
  /\ \A a \in Range(Anchors) : a.root \in Seq(Event) \ {<<>>}

MigrationInit ==
  /\ main = <<<<>>>>
  /\ run = [i \in Runs |-> [status |-> "idle"]]
  /\ receipts = {}
  /\ succeeded = {}

DispatchMigration(i) ==
  /\ run[i].status = "idle"
  /\ Enqueue(i, [status |-> "pending", kind |-> "migrate", step |-> "check",
                 attempt |-> 1, sha |-> Len(main), outcome |-> "none", index |-> <<>>])
  /\ UNCHANGED <<main, receipts, succeeded>>

(* validateLegacyLog: each anchor commits to more events than the one before. *)
FrozenLogOk ==
  \A n \in 2 .. Len(Anchors) : Len(Anchors[n - 1].root) < Len(Anchors[n].root)

(* validateAnchorBindings *)
AnchorsBind(registry) ==
  \A a \in Range(Anchors) :
    IsPrefix(a.root, registry) /\ Last(a.root).eventType = a.kind

\* Faulty variant: the private registry is validated, its root is not compared.
ValidAlone(registry) == registry # <<>> /\ RegistryValid(registry)

\* Faulty variant: events after the last anchor are migrated with the rest.
AnchoredPrefix(registry) == ValidAlone(registry) /\ AnchorsBind(registry)

(* createGenesisState: the private registry is exactly what was anchored. *)
GenesisOk(registry) ==
  /\ FrozenLogOk
  /\ RegistryValid(registry) /\ registry # <<>>
  /\ registry = Last(Anchors).root
  /\ AnchorsBind(registry)

\* Faulty variant: a migration runs again on an index that has a genesis.
MigratedBefore(i) == FALSE

(* Refuse repeat migration. *)
AlreadyMigrated(i) == TreeIndex(i) # <<>>

(* Fetch the private registry, validate, bind and encrypt it as envelope 1. *)
Migrate(i) ==
  /\ At(i, "migrate")
  /\ IF AlreadyMigrated(i) THEN Fail(i)
     ELSE \E registry \in PrivateRegistries, now \in Time :
       IF GenesisOk(registry)
       THEN /\ run' = [run EXCEPT ![i].step = "commit", ![i].outcome = "migrated",
                         ![i].index = <<Envelope(registry, now, i, run[i].attempt)>>]
            /\ UNCHANGED <<main, receipts, succeeded>>
       ELSE Fail(i)

MigrationNext ==
  \/ Next
  \/ \E i \in Runs : DispatchMigration(i) \/ Migrate(i)

MigrationSpec == MigrationInit /\ [][MigrationNext]_vars

-----------------------------------------------------------------------------
(* The custody workflows together implement the registry: the committed     *)
(* history is the anchored private one until the migration, is the same     *)
(* right after it, and grows by one accepted event at a time.               *)
MigrationImplementsRegistry == R!Spec

(* Every frozen public anchor stays bound to a prefix of the registry that  *)
(* main holds, whatever the private repository held when it was read, and   *)
(* however many migrations and appends were queued, lost or run again.      *)
AnchorsStayBound ==
  Last(main) # <<>> =>
    \A a \in Range(Anchors) : \A n \in DOMAIN Last(main) :
      IsPrefix(a.root, Last(main)[n].snapshot)

(* The genesis is committed once: an index that has one keeps it, although  *)
(* a migration may be queued behind another one and a run of it may be      *)
(* tried again after its push ("cannot be replaced").                       *)
GenesisCommittedOnce ==
  [][Last(main) # <<>> => Last(main)' # <<>> /\ Last(main)'[1] = Last(main)[1]]_main

=============================================================================
