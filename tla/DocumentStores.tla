--------------------------- MODULE DocumentStores ---------------------------
(***************************************************************************)
(* The two places a document can be in, written by the vector indexer and  *)
(* by the admin API: the silo's `embeddings` table in Postgres, keyed by   *)
(* source_id, and the pending-documents table in DynamoDB, keyed by        *)
(* (agentId, sourceId).                                                    *)
(*                                                                         *)
(*   rows      the embeddings row of each document; version 0: no row      *)
(*   pending   the version staged for review; 0: no item                   *)
(*   recorded  the versions the indexer ever persisted or staged           *)
(*             (history, read by properties only)                          *)
(*                                                                         *)
(* Content is a version number; its embedding is a function of it.         *)
(***************************************************************************)
EXTENDS Naturals, Silos

CONSTANT Versions   \* the versions a document may have: a bound for TLC

ASSUME VersionsArePositive == Versions \subseteq Nat \ {0}

VARIABLES rows, pending, recorded

storeVars == <<rows, pending, recorded>>

Row == [version : Versions \cup {0}, roles : SUBSET Roles]
NoRow == [version |-> 0, roles |-> {}]

StoresTypeOK ==
  /\ rows \in [Docs -> Row]
  /\ pending \in [Docs -> Versions \cup {0}]
  /\ recorded \in [Docs -> SUBSET Versions]

StoresInit ==
  /\ rows = [d \in Docs |-> NoRow]
  /\ pending = [d \in Docs |-> 0]
  /\ recorded = [d \in Docs |-> {}]

\* INSERT ... ON CONFLICT (source_id) DO UPDATE, the indexer's and the admin's.
Upsert(d, v, R) == rows' = [rows EXCEPT ![d] = [version |-> v, roles |-> R]]

\* put_item and delete_item: unconditional, whatever the table holds.
PutItem(d, v) == pending' = [pending EXCEPT ![d] = v]
DeleteItem(d) == pending' = [pending EXCEPT ![d] = 0]
=============================================================================
