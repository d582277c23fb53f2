------------------------------- MODULE RaftLog -------------------------------
(***************************************************************************)
(* raft/raft_log: the log of a raft peer, in memory and, flushed with      *)
(* every entry, in its .dat file.  Indices are those of the code, which    *)
(* count from 0.  An entry holds a database message or the peers of a      *)
(* quorum; a single quorum has the same peers twice, where a joint quorum  *)
(* has the old and the new ones.                                           *)
(***************************************************************************)
EXTENDS Naturals, Sequences

CONSTANTS NoValue   \* the database message of an entry that is not one

database(v, term) == [entry_type |-> "database", term |-> term, msg |-> v,
                      old |-> {}, new |-> {}]
single_quorum(peers, term) == [entry_type |-> "single_quorum", term |-> term,
                               msg |-> NoValue, old |-> peers, new |-> peers]
joint_quorum(old, new, term) == [entry_type |-> "joint_quorum", term |-> term,
                                 msg |-> NoValue, old |-> old, new |-> new]

size(log) == Len(log)
entry_at(log, i) == log[i + 1]

\* The constructor reads the file or, when there is none, the one that
\* raft::create_dat_file made.
create_dat_file(peers) == <<single_quorum(peers, 0)>>

last_quorum_entry(log) ==
    LET quorums == {i \in 0..(size(log) - 1) : entry_at(log, i).entry_type # "database"}
    IN  entry_at(log, CHOOSE i \in quorums : \A j \in quorums : j <= i)

leader_append_entry(log, entry) == Append(log, entry)

\* Not called for an index beyond the end of the log (it would throw).
follower_insert_entry(log, index, entry) ==
    IF index < size(log) /\ entry.term = entry_at(log, index).term THEN log
    ELSE Append(SubSeq(log, 1, index), entry)

\* Mutant: the previous entry may be anywhere in the log.
entry_accepted_anywhere(log, previous_index, previous_term) ==
    /\ previous_index < size(log)
    /\ previous_term = entry_at(log, previous_index).term

\* Only the last entry of the log can be the previous one.  (For an index beyond the
\* end, the code reads past the end of the vector.)
entry_accepted(log, previous_index, previous_term) ==
    /\ previous_index = size(log) - 1
    /\ previous_term = entry_at(log, previous_index).term
=============================================================================
