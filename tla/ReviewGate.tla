----------------------------- MODULE ReviewGate -----------------------------
(***************************************************************************)
(* What ingest and review promise together, without queues, attempts or    *)
(* requests: the tags a row may carry and the content it may hold.  A      *)
(* document its silo classifies by itself gets exactly the tags of that    *)
(* classification; any other is staged first, and only an admin's choice   *)
(* of some of the silo's roles turns a staged version into a row.          *)
(*                                                                         *)
(* DocumentFlow implements this module.                                    *)
(***************************************************************************)
EXTENDS Naturals, Silos

CONSTANT Versions

VARIABLES rows, staged

vars == <<rows, staged>>

Init ==
  /\ rows = [d \in Docs |-> [version |-> 0, roles |-> {}]]
  /\ staged = [d \in Docs |-> {}]

Write(d, v, R) ==
  /\ rows' = [rows EXCEPT ![d] = [version |-> v, roles |-> R]]
  /\ UNCHANGED staged

StoreClassified(d, v) ==
  /\ ~NeedsReview(d)
  /\ Tags(d) # {}
  /\ Write(d, v, Tags(d))

Stage(d, v) ==
  /\ NeedsReview(d)
  /\ staged' = [staged EXCEPT ![d] = @ \cup {v}]
  /\ UNCHANGED rows

Release(d, v, R) ==
  /\ NeedsReview(d)
  /\ v \in staged[d]
  /\ R # {} /\ R \subseteq SiloRoles[SiloOf[d]]
  /\ Write(d, v, R)

Next ==
  \E d \in Docs, v \in Versions :
    \/ StoreClassified(d, v) \/ Stage(d, v)
    \/ \E R \in SUBSET Roles : Release(d, v, R)

Spec == Init /\ [][Next]_vars

-----------------------------------------------------------------------------
\* What the gate is for: a row carries at least one role, all of them roles of
\* its own silo, so it is visible to somebody and to no other silo's users; a
\* reviewable document's row holds a version that went through the queue, and
\* any other carries exactly its classification, an AllUser one the full set.
RowIsLawful(d) ==
  rows[d].version # 0 =>
    /\ rows[d].roles # {} /\ rows[d].roles \subseteq SiloRoles[SiloOf[d]]
    /\ IF NeedsReview(d) THEN rows[d].version \in staged[d] ELSE rows[d].roles = Tags(d)

RowsAreLawful == \A d \in Docs : RowIsLawful(d)
=============================================================================
