------------------------------- MODULE MCRaft -------------------------------
(* Instances of Raft for TLC. *)
EXTENDS Raft, Bags, TLC

CONSTANTS MaxMessages,   \* bound: messages under way at the same time
          Candidates     \* peers whose election timer may run out

\* One message about joining, besides.
FewMessages ==
    LET joins == {m \in BagToSet(network) : m.cmd \in JoinCommands}
    IN  /\ BagCardinality(network) <= MaxMessages + Cardinality(joins)
        /\ \A m \in joins : joins = {m} /\ CopiesIn(m, network) = 1

\* The election timer of the other peers does not run out.
OnlyCandidates == \A n \in Peers \ Candidates : raft[n].current_state # "candidate"

\* No timer callback is overtaken once a process has restarted.
LateOrRestarted == restarts > 0 => \A n \in Peers : raft[n].late = {}

\* States are told apart without what no step reads: the votes of a peer that is not a
\* candidate and, unless somebody joins, whom it takes for the leader; and whether a
\* peer is in a swarm, if it never gets to ask.
View ==
    <<[n \in Peers |-> [raft[n] EXCEPT
           !.yes_votes = IF raft[n].current_state = "candidate" THEN @ ELSE {},
           !.no_votes = IF raft[n].current_state = "candidate" THEN @ ELSE {},
           !.leader = IF Joining = {} THEN Nobody ELSE @,
           !.in_a_swarm = raft[n].asks /\ @]],
      log, network, highest_term, restarts, committed>>
=============================================================================
