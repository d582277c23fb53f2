------------------------------- MODULE MCAudit -------------------------------
(***************************************************************************)
(* Audit for TLC.  The maps of the four kinds are disjoint, and only       *)
(* statuses of leaders touch the progress timer: a behaviour has messages  *)
(* of one kind, or of primaries and their commits.  Leaders are recorded   *)
(* as raft commits are, and the timers do not depend on terms: statuses of *)
(* leaders are all of term 1, of one leader or of two that claim it.       *)
(***************************************************************************)
EXTENDS Audit

OneKind == ~use_pbft => Cardinality({h[1] : h \in heard}) <= 1
OneTerm == \A h \in heard : h[1] = "leader" => h[2] = 1
=============================================================================
