------------------------ MODULE PbftExecutionProofs ------------------------
(***************************************************************************)
(* What the swarm agrees on and executes, for any number of peers,         *)
(* requests and sequence numbers.  Where FaultsTolerated holds, peers      *)
(* never commit different requests at one sequence number; because all     *)
(* that is posted, stored and executed has been committed, they execute    *)
(* the same requests in the same order, and the swarm implements           *)
(* ReplicatedLog.  A configuration that commits never erases the current   *)
(* one.                                                                    *)
(***************************************************************************)
EXTENDS PbftAgreementProofs, FiniteSetTheorems

\* Two quorums of prepares have a peer in common that does not restart.
LEMMA QuorumsMeet ==
    ASSUME 2 * (2 * faulty_nodes_bound + 1) > N + Cardinality(MayRestart),
           NEW Q \in SUBSET Peers, Cardinality(Q) > 2 * faulty_nodes_bound,
           NEW R \in SUBSET Peers, Cardinality(R) > 2 * faulty_nodes_bound
    PROVE  \E q \in Q \cap R : q \notin MayRestart
<1>1. /\ IsFiniteSet(Peers) /\ IsFiniteSet(MayRestart) /\ IsFiniteSet(Q) /\ IsFiniteSet(R)
      /\ IsFiniteSet(Q \cap R) /\ IsFiniteSet(Q \cup R)
  BY ServiceAssumption, PbftAssumption, FS_Subset, Zenon
<1>2. /\ Cardinality(Peers) \in Nat /\ Cardinality(MayRestart) \in Nat
      /\ Cardinality(Q) \in Nat /\ Cardinality(R) \in Nat
      /\ Cardinality(Q \cap R) \in Nat /\ Cardinality(Q \cup R) \in Nat
  BY <1>1, FS_CardinalityType, Zenon
<1>3. faulty_nodes_bound \in Int /\ N = Cardinality(Peers)
  BY <1>2 DEF faulty_nodes_bound, N
<1>4. Cardinality(Q \cup R) <= Cardinality(Peers)
  BY <1>1, FS_Subset, Zenon
<1>5. Cardinality(Q \cup R) = Cardinality(Q) + Cardinality(R) - Cardinality(Q \cap R)
  BY <1>1, FS_Union, Zenon
<1>6. Cardinality(Q \cap R) > Cardinality(MayRestart)
  BY <1>2, <1>3, <1>4, <1>5
<1>7. ~(Q \cap R \subseteq MayRestart)
  BY <1>1, <1>2, <1>6, FS_Subset
<1>. QED
  BY <1>7, Zenon

\* Two commits at a sequence number rest on quorums that meet in a peer, or on the one
\* proposal of the primary.
LEMMA InvariantImpliesAgreement ==
    ASSUME FaultsTolerated, TypeOK, AgreementInvariant
    PROVE  Agreement
<1> SUFFICES ASSUME NEW x \in committed, NEW y \in committed, x[2] = y[2]
             PROVE  x[3] = y[3]
  BY Zenon DEF Agreement
<1>1. x[2] \in SequenceNumbers /\ x[3] \in Requests /\ y[3] \in Requests
  BY Zenon DEF TypeOK
<1>2. CASE Primary \notin MayRestart
  <2>1. proposed(x[2], x[3]) /\ proposed(x[2], y[3])
    BY Zenon DEF proposed
  <2>. QED
    BY <1>1, <1>2, <2>1 DEF AgreementInvariant, ProposedOnce
<1>3. CASE 2 * (2 * faulty_nodes_bound + 1) > N + Cardinality(MayRestart)
  <2>1. PICK Q \in SUBSET Peers :
            /\ Cardinality(Q) > 2 * faulty_nodes_bound
            /\ \A q \in Q \ MayRestart : accepted_preprepares[q][x[2]] = x[3]
    BY Zenon DEF AgreementInvariant, CommittedByQuorum
  <2>2. PICK R \in SUBSET Peers :
            /\ Cardinality(R) > 2 * faulty_nodes_bound
            /\ \A q \in R \ MayRestart : accepted_preprepares[q][y[2]] = y[3]
    BY Zenon DEF AgreementInvariant, CommittedByQuorum
  <2>3. \E q \in Q \cap R : q \notin MayRestart
    BY <1>3, <2>1, <2>2, QuorumsMeet, Zenon
  <2>. QED
    BY <2>1, <2>2, <2>3
<1>. QED
  BY <1>2, <1>3, Zenon DEF FaultsTolerated

\* No two peers ever commit different requests at the same sequence number, if the
\* primary does not restart or the quorums of prepares outweigh the peers that do.
THEOREM AgreementHolds == FaultsTolerated => (Spec => []Agreement)
<1> SUFFICES ASSUME FaultsTolerated PROVE Spec => []Agreement
  BY Zenon
<1>1. TypeOK /\ AgreementInvariant => Agreement
  BY InvariantImpliesAgreement, Zenon
<1>. QED
  BY <1>1, AgreementInvariance, PTL

-----------------------------------------------------------------------------
(***************************************************************************)
(* Execution.                                                              *)
(***************************************************************************)
ExecutionInvariant ==
    \A n \in Peers :
        /\ \A x \in posted_applies[n] : <<n, x[1], x[2]>> \in committed
        /\ \A s \in SequenceNumbers : unstable_storage[n][s] # NoRequest
                                          => <<n, s, unstable_storage[n][s]>> \in committed
        /\ \A i \in DOMAIN executed[n] : <<n, i, executed[n][i]>> \in committed

\* The steps as the service sees them: an operation commits and is posted, a posted
\* apply_operation runs, the process starts again, or nothing happens.
Quiet == UNCHANGED <<posted_applies, unstable_storage, next_request_sequence, executed, committed>>

Commit(n, s, r) ==
    /\ posted_applies' = [posted_applies EXCEPT ![n] = @ \cup {<<s, r>>}]
    /\ committed' = committed \cup {<<n, s, r>>}
    /\ UNCHANGED <<unstable_storage, next_request_sequence, executed>>

Apply(n, s, r) == apply_operation(n, s, r) /\ committed' = committed

Restart(n) == ServiceRestart(n) /\ committed' = committed

\* maybe_advance_operation_state posts what it commits.
LEMMA AdvanceServiceStep ==
    ASSUME NEW n, NEW s, NEW r, NEW op, NEW store, NEW others,
           TypeOK, maybe_advance_operation_state(n, s, r, op, store, others),
           UNCHANGED <<unstable_storage, next_request_sequence, executed>>
    PROVE  Quiet \/ Commit(n, s, r)
<1>1. PICK commits \in BOOLEAN :
          /\ posted_applies' = [posted_applies EXCEPT ![n] =
                                   IF commits THEN @ \cup {<<s, r>>} ELSE @]
          /\ committed' = IF commits THEN committed \cup {<<n, s, r>>} ELSE committed
  BY Zenon DEF maybe_advance_operation_state, advance
<1>2. CASE commits
  BY <1>1, <1>2, Zenon DEF Commit
<1>3. CASE ~commits
  BY <1>1, <1>3, Zenon DEF Quiet, TypeOK, ServiceTypeOK
<1>. QED
  BY <1>2, <1>3, Zenon

\* So do the handlers of the three phases.
LEMMA PhaseServiceStep ==
    ASSUME TypeOK, NEW n \in Peers, NEW m \in PhaseMessages, NEW others,
           handle_phase_message(n, m, others)
    PROVE  Quiet \/ Commit(n, m.sequence, m.request)
<1>1. UNCHANGED <<unstable_storage, next_request_sequence, executed>>
  BY Zenon DEF handle_phase_message
<1>2. CASE handle_preprepare(n, m, others)
  <2>1. CASE UNCHANGED <<operations, accepted_preprepares, configurations, committed,
                         posted_applies>>
    BY <1>1, <2>1, Zenon DEF Quiet
  <2>2. CASE \E op, store, sent :
                 maybe_advance_operation_state(n, m.sequence, m.request, op, store, sent)
    BY <1>1, <2>2, AdvanceServiceStep, Zenon
  <2>. QED
    BY <1>2, <2>1, <2>2, Zenon DEF handle_preprepare
<1>3. CASE handle_prepare(n, m, others)
  BY <1>1, <1>3, AdvanceServiceStep, Zenon DEF handle_prepare
<1>4. CASE handle_commit(n, m, others)
  BY <1>1, <1>4, AdvanceServiceStep, Zenon DEF handle_commit
<1>. QED
  BY <1>2, <1>3, <1>4, Zenon DEF handle_phase_message

\* Every step of the swarm is one of the four for the service of some peer.
LEMMA ServiceStep ==
    ASSUME TypeOK, [Next]_vars
    PROVE  \/ Quiet
           \/ \E n \in Peers, s \in SequenceNumbers, r \in Requests :
                  Commit(n, s, r) \/ Apply(n, s, r)
           \/ \E n \in Peers : Restart(n)
<1>1. CASE UNCHANGED vars
  BY <1>1, Zenon DEF vars, replicaVars, serviceVars, Quiet
<1>2. ASSUME NEW n \in Peers, NEW r, NEW others, handle_request(n, r, others) PROVE Quiet
  BY <1>2, Zenon DEF handle_request, serviceVars, Quiet
<1>3. ASSUME NEW n \in Peers, NEW r, handle_join_or_leave(n, r) PROVE Quiet
  BY <1>3, Zenon DEF handle_join_or_leave, serviceVars, Quiet
<1>4. ASSUME NEW n \in Peers, NEW m \in PhaseMessages, NEW others,
             handle_phase_message(n, m, others)
      PROVE  Quiet \/ \E s \in SequenceNumbers, r \in Requests : Commit(n, s, r)
  BY <1>4, PhaseServiceStep, Zenon DEF PhaseMessages
<1>5. ASSUME NEW n \in Peers, NEW m \in network, handle_message(n, m)
      PROVE  Quiet \/ \E s \in SequenceNumbers, r \in Requests : Commit(n, s, r)
  <2>1. CASE UNCHANGED <<replicaVars, checkpointVars, past_filter, serviceVars>>
    BY <2>1, Zenon DEF replicaVars, serviceVars, Quiet
  <2>2. CASE handle_phase_message(n, m, network \ {m})
    <3>1. m \in PhaseMessages
      BY <2>2, PhaseMessage, Zenon DEF handle_phase_message, TypeOK
    <3>. QED
      BY <1>4, <2>2, <3>1, Zenon
  <2>3. CASE handle_checkpoint(n, m, network \ {m})
    BY <2>3, Zenon DEF handle_checkpoint, serviceVars, Quiet
  <2>. QED
    BY <1>5, <2>1, <2>2, <2>3, Zenon DEF handle_message
<1>6. ASSUME NEW n \in Peers, NEW m, pass_filter(n, m) PROVE Quiet
  BY <1>6, Zenon DEF pass_filter, replicaVars, serviceVars, Quiet
<1>7. ASSUME NEW n \in Peers, handle_past_filter(n)
      PROVE  Quiet \/ \E s \in SequenceNumbers, r \in Requests : Commit(n, s, r)
  <2>1. past_filter[n] \in PhaseMessages
    BY <1>7, Zenon DEF handle_past_filter, TypeOK
  <2>. QED
    BY <1>4, <1>7, <2>1, Zenon DEF handle_past_filter
<1>8. ASSUME NEW n, NEW s, NEW r, run_apply_operation(n, s, r) PROVE Apply(n, s, r)
  BY <1>8, Zenon DEF run_apply_operation, replicaVars, Apply
<1>9. ASSUME NEW n, NEW s, execute_handler(n, s) PROVE Quiet
  BY <1>9, Zenon DEF execute_handler, Quiet
<1>10. ASSUME NEW n, restart(n) PROVE Restart(n)
  BY <1>10, Zenon DEF restart, Restart
<1>11. ASSUME NEW n \in Peers, work(n) \/ client(n) \/ restart(n)
       PROVE  \/ Quiet
              \/ \E s \in SequenceNumbers, r \in Requests : Commit(n, s, r) \/ Apply(n, s, r)
              \/ Restart(n)
  BY <1>2, <1>3, <1>5, <1>6, <1>7, <1>8, <1>9, <1>10, <1>11, Zenon
           DEF work, client, handle_database_message, handle_forwarded_request
<1>. QED
  BY <1>1, <1>11, Zenon DEF Next

\* Each of the four steps keeps the invariant.
LEMMA NextExecution == TypeOK /\ ExecutionInvariant /\ [Next]_vars => ExecutionInvariant'
<1> SUFFICES ASSUME TypeOK, ExecutionInvariant, [Next]_vars PROVE ExecutionInvariant'
  BY Zenon
<1>1. CASE Quiet
  <2>1. /\ posted_applies' = posted_applies /\ unstable_storage' = unstable_storage
        /\ executed' = executed /\ committed' = committed
    BY <1>1, Zenon DEF Quiet
  <2>. QED
    BY <2>1, Zenon DEF ExecutionInvariant
<1>2. ASSUME NEW n \in Peers, NEW s \in SequenceNumbers, NEW r \in Requests, Commit(n, s, r)
      PROVE  ExecutionInvariant'
  <2>1. \A p \in Peers : \A x \in posted_applies'[p] :
            x \in posted_applies[p] \/ (p = n /\ x = <<s, r>>)
    BY <1>2, Zenon DEF Commit, TypeOK, ServiceTypeOK
  <2>2. /\ unstable_storage' = unstable_storage /\ executed' = executed
        /\ committed \subseteq committed' /\ <<n, s, r>> \in committed'
    BY <1>2, Zenon DEF Commit
  <2>3. ASSUME NEW p \in Peers, NEW x \in posted_applies'[p]
        PROVE  <<p, x[1], x[2]>> \in committed'
    <3>1. CASE x \in posted_applies[p]
      BY <2>2, <3>1, Zenon DEF ExecutionInvariant
    <3>2. CASE p = n /\ x = <<s, r>>
      BY <2>2, <3>2, Zenon
    <3>. QED
      BY <2>1, <3>1, <3>2, Zenon
  <2>. QED
    BY <2>2, <2>3, Zenon DEF ExecutionInvariant
<1>3. ASSUME NEW n \in Peers, NEW s \in SequenceNumbers, NEW r \in Requests, Apply(n, s, r)
      PROVE  ExecutionInvariant'
  <2>1. /\ apply_operation(n, s, r) /\ committed' = committed
        /\ \A p \in Peers : posted_applies'[p] \subseteq posted_applies[p]
        /\ <<n, s, r>> \in committed
    BY <1>3, Zenon DEF Apply, apply_operation, ExecutionInvariant, TypeOK, ServiceTypeOK
  <2>2. CASE unstable_storage[n][s] # NoRequest
    <3>1. UNCHANGED <<unstable_storage, executed>>
      BY <2>1, <2>2, Zenon DEF apply_operation
    <3>. QED
      BY <2>1, <3>1, Zenon DEF ExecutionInvariant
  <2>3. CASE unstable_storage[n][s] = NoRequest
    <3> DEFINE rows == stored(n, s, r)
    <3>loop. PICK from, stop : from = next_request_sequence[n] /\ Drains(n, s, r, from, stop)
      BY <2>1, <2>3, ApplyFacts, Zenon
    <3>drains. Drains(n, s, r, from, stop)
      BY <3>loop, Zenon
    <3>1. /\ from \in 1..(MaxSequence + 1) /\ stop \in from..(MaxSequence + 1)
          /\ \A k \in from..(stop - 1) : k \in SequenceNumbers /\ rows[k] \in Requests
          /\ unstable_storage' = [unstable_storage EXCEPT ![n] =
                  [k \in SequenceNumbers |-> IF k \in from..(stop - 1) THEN NoRequest
                                                                  ELSE rows[k]]]
          /\ \A p \in Peers \ {n} : executed'[p] = executed[p]
          /\ DOMAIN executed[n] = 1..(from - 1) /\ DOMAIN executed'[n] = 1..(stop - 1)
          /\ \A i \in 1..(from - 1) : executed'[n][i] = executed[n][i]
          /\ \A i \in from..(stop - 1) : executed'[n][i] = rows[i]
      BY <3>drains, Zenon DEF Drains
    <3>2. \A k \in SequenceNumbers : rows[k] # NoRequest => <<n, k, rows[k]>> \in committed
      BY <2>1, Zenon DEF stored, ExecutionInvariant, TypeOK, ServiceTypeOK
    <3>. HIDE DEF rows
    <3>3. \A p \in Peers, k \in SequenceNumbers : unstable_storage'[p][k] # NoRequest
              => <<p, k, unstable_storage'[p][k]>> \in committed
      <4>1. \A p \in Peers \ {n} : unstable_storage'[p] = unstable_storage[p]
        BY <3>1, Zenon DEF TypeOK, ServiceTypeOK
      <4>2. \A k \in SequenceNumbers : unstable_storage'[n][k] \in {NoRequest, rows[k]}
        BY <3>1, Zenon DEF TypeOK, ServiceTypeOK
      <4>. QED
        BY <3>2, <4>1, <4>2 DEF ExecutionInvariant
    <3>4. ASSUME NEW i \in DOMAIN executed'[n]
          PROVE  <<n, i, executed'[n][i]>> \in committed
      <4>1. CASE i \in 1..(from - 1)
        BY <3>1, <4>1, Zenon DEF ExecutionInvariant
      <4>2. CASE i \in from..(stop - 1)
        BY <3>1, <3>2, <4>2, ServiceAssumption, Zenon
      <4>3. i \in 1..(from - 1) \/ i \in from..(stop - 1)
        <5>1. MaxSequence \in Nat /\ i \in 1..(stop - 1)
          BY <3>1, ServiceAssumption, Zenon
        <5>. QED
          BY <3>1, <5>1
      <4>. QED
        BY <4>1, <4>2, <4>3, Zenon
    <3>. QED
      BY <2>1, <3>1, <3>3, <3>4 DEF ExecutionInvariant
  <2>. QED
    BY <2>2, <2>3, Zenon
<1>4. ASSUME NEW n \in Peers, Restart(n) PROVE ExecutionInvariant'
  <2>1. /\ posted_applies'[n] = {} /\ unstable_storage'[n] = EmptyStorage
        /\ executed'[n] = << >> /\ committed' = committed
    BY <1>4, Zenon DEF Restart, ServiceRestart, TypeOK, ServiceTypeOK
  <2>2. \A p \in Peers \ {n} : /\ posted_applies'[p] = posted_applies[p]
                               /\ unstable_storage'[p] = unstable_storage[p]
                               /\ executed'[p] = executed[p]
    BY <1>4, Zenon DEF Restart, ServiceRestart, TypeOK, ServiceTypeOK
  <2>. QED
    BY <2>1, <2>2 DEF ExecutionInvariant, EmptyStorage
<1>. QED
  BY <1>1, <1>2, <1>3, <1>4, ServiceStep, Zenon

\* All that any peer has posted, stored or executed has been committed there.
THEOREM ExecutedIsCommitted == Spec => [](TypeOK /\ ExecutionInvariant)
<1>1. Init => ExecutionInvariant
  BY DEF Init, ServiceInit, ExecutionInvariant, EmptyStorage
<1>. QED
  BY <1>1, InitTypeOK, NextTypeOK, NextExecution, PTL DEF Spec

\* Any two peers have executed the same requests in the same order, as far as both have
\* come, if the primary does not restart or the quorums outweigh the peers that do.
THEOREM PeersExecuteAlike == FaultsTolerated => (Spec => []ExecutionsAgree)
<1> SUFFICES ASSUME FaultsTolerated PROVE Spec => []ExecutionsAgree
  BY Zenon
<1>1. ExecutionInvariant /\ Agreement => ExecutionsAgree
  <2> SUFFICES ASSUME ExecutionInvariant, Agreement, NEW a \in Peers, NEW b \in Peers,
                      NEW i \in DOMAIN executed[a] \cap DOMAIN executed[b]
               PROVE  executed[a][i] = executed[b][i]
    BY Zenon DEF ExecutionsAgree
  <2> DEFINE x == <<a, i, executed[a][i]>>
             y == <<b, i, executed[b][i]>>
  <2>1. x \in committed /\ y \in committed /\ x[2] = y[2]
    BY Zenon DEF ExecutionInvariant
  <2>2. x[3] = y[3]
    BY <2>1, Zenon DEF Agreement
  <2>. QED
    BY <2>2, Zenon
<1>. QED
  BY <1>1, AgreementHolds, ExecutedIsCommitted, PTL

(***************************************************************************)
(* The swarm implements ReplicatedLog: a commit settles its position or    *)
(* finds it settled alike, an apply_operation executes settled positions.  *)
(***************************************************************************)

\* The log of the refinement mapping, and how far each peer has come in it.
settledLog == [s \in SequenceNumbers |-> settled(s)]
executedTo == [n \in Peers |-> next_request_sequence[n] - 1]

\* A commit settles its position.
LEMMA CommitSettles ==
    ASSUME Agreement, NEW x \in committed PROVE settled(x[2]) = x[3]
<1> DEFINE y == CHOOSE z \in committed : z[2] = x[2]
<1>1. y \in committed /\ y[2] = x[2]
  BY Zenon
<1>2. settled(x[2]) = y[3]
  BY Zenon DEF settled
<1>. QED
  BY <1>1, <1>2, Zenon DEF Agreement

\* The log starts empty and nobody has executed any of it.
LEMMA InitRefines == Init => Log!Init
<1> SUFFICES ASSUME Init PROVE Log!Init
  BY Zenon
<1>1. \A s : settled(s) = NoRequest
  BY Zenon DEF Init, settled
<1>2. \A n \in Peers : next_request_sequence[n] - 1 = 0
  BY DEF Init, ServiceInit
<1>. QED
  BY <1>1, <1>2, Zenon DEF Log!Init, SequenceNumbers

\* A step that leaves log and progress alone is a stutter of the log.
LEMMA Stutter ==
    ASSUME committed' = committed, next_request_sequence' = next_request_sequence
    PROVE  settledLog' = settledLog /\ executedTo' = executedTo
<1>1. \A s : settled(s)' = settled(s)
  BY Zenon DEF settled
<1>. QED
  BY <1>1, Zenon DEF settledLog, executedTo

\* Every step of the swarm is a step of the log.
LEMMA NextRefines ==
    ASSUME TypeOK, TypeOK', ExecutionInvariant', Agreement, Agreement', [Next]_vars
    PROVE  [Log!Next]_<<settledLog, executedTo>>
<1>1. CASE Quiet
  BY <1>1, Stutter, Zenon DEF Quiet
<1>2. ASSUME NEW n \in Peers, NEW s \in SequenceNumbers, NEW r \in Requests, Commit(n, s, r)
      PROVE  [Log!Next]_<<settledLog, executedTo>>
  <2>1. /\ committed' = committed \cup {<<n, s, r>>}
        /\ next_request_sequence' = next_request_sequence
    BY <1>2, Zenon DEF Commit
  <2>2. executedTo' = executedTo
    BY <2>1, Zenon DEF executedTo
  <2>3. \A y \in committed' : settled(y[2])' = y[3]
    <3> SUFFICES ASSUME NEW y \in committed' PROVE settled(y[2])' = y[3]
      BY Zenon
    <3> DEFINE z == CHOOSE w \in committed' : w[2] = y[2]
    <3>1. z \in committed' /\ z[2] = y[2] /\ settled(y[2])' = z[3]
      BY Zenon DEF settled
    <3>. QED
      BY <3>1, Zenon DEF Agreement
  <2>4. settled(s)' = r
    <3> DEFINE y == <<n, s, r>>
    <3>1. y \in committed' /\ y[2] = s /\ y[3] = r
      BY <2>1, Zenon
    <3>. HIDE DEF y
    <3>. QED
      BY <2>3, <3>1, Zenon
  <2>5. \A x \in committed : settled(x[2])' = settled(x[2])
    BY <2>1, <2>3, CommitSettles, Zenon
  <2>6. ASSUME NEW t \in SequenceNumbers, t # s PROVE settled(t)' = settled(t)
    <3>1. CASE \E x \in committed : x[2] = t
      BY <2>5, <3>1, Zenon
    <3>2. CASE \A x \in committed : x[2] # t
      <4>1. \A x \in committed' : x[2] # t
        BY <2>1, <2>6, <3>2
      <4>. QED
        BY <3>2, <4>1, Zenon DEF settled
    <3>. QED
      BY <3>1, <3>2, Zenon
  <2>7. CASE \E x \in committed : x[2] = s
    <3>1. \A t \in SequenceNumbers : settled(t)' = settled(t)
      BY <2>5, <2>6, <2>7, Zenon
    <3>. QED
      BY <2>2, <3>1, Zenon DEF settledLog
  <2>8. CASE \A x \in committed : x[2] # s
    <3>1. settled(s) = NoRequest
      BY <2>8, Zenon DEF settled
    <3>2. settledLog' = [settledLog EXCEPT ![s] = r]
      BY <2>4, <2>6, Zenon DEF settledLog
    <3>3. settledLog[s] = NoRequest
      BY <3>1, Zenon DEF settledLog
    <3>4. Log!Settle(s, r)
      BY <2>2, <3>2, <3>3, Zenon DEF Log!Settle, settledLog, executedTo
    <3>. QED
      BY <3>4, Zenon DEF Log!Next, SequenceNumbers
  <2>. QED
    BY <2>7, <2>8, Zenon
<1>3. ASSUME NEW n \in Peers, NEW s \in SequenceNumbers, NEW r \in Requests, Apply(n, s, r)
      PROVE  [Log!Next]_<<settledLog, executedTo>>
  <2>1. apply_operation(n, s, r) /\ committed' = committed
    BY <1>3, Zenon DEF Apply
  <2>2. settledLog' = settledLog
    BY <2>1, Zenon DEF settledLog, settled
  <2>3. CASE next_request_sequence' = next_request_sequence
    BY <2>1, <2>3, Stutter, Zenon
  <2>4. CASE next_request_sequence' # next_request_sequence
    <3>1. unstable_storage[n][s] = NoRequest
      BY <2>1, <2>4, Zenon DEF apply_operation
    <3>loop. PICK from, stop : from = next_request_sequence[n] /\ Drains(n, s, r, from, stop)
      BY <2>1, <3>1, ApplyFacts, Zenon
    <3>drains. Drains(n, s, r, from, stop)
      BY <3>loop, Zenon
    <3>2. /\ from \in 1..(MaxSequence + 1) /\ stop \in from..(MaxSequence + 1)
          /\ next_request_sequence' = [next_request_sequence EXCEPT ![n] = stop]
          /\ DOMAIN executed'[n] = 1..(stop - 1)
      BY <3>drains, Zenon DEF Drains
    <3>3. stop # from
      BY <2>4, <3>loop, <3>2 DEF TypeOK, ServiceTypeOK
    <3>4. MaxSequence \in Nat
      BY ServiceAssumption, Zenon
    <3>5. PICK last \in 1..MaxSequence : last = stop - 1 /\ last > from - 1
      BY <3>2, <3>3, <3>4
    <3>6. executedTo[n] = from - 1 /\ executedTo' = [executedTo EXCEPT ![n] = last]
      BY <3>loop, <3>2, <3>5, Zenon DEF executedTo, TypeOK, ServiceTypeOK
    <3>7. ASSUME NEW t \in 1..last PROVE settledLog[t] # NoRequest
      <4> DEFINE x == <<n, t, executed'[n][t]>>
      <4>1. x \in committed /\ x[2] = t
        BY <2>1, <3>2, <3>5, <3>7, Zenon DEF ExecutionInvariant
      <4>2. t \in SequenceNumbers
        BY <3>2, <3>4, <3>7 DEF SequenceNumbers
      <4>. HIDE DEF x
      <4>3. settled(t) = x[3] /\ x[3] \in Requests
        BY <4>1, CommitSettles, Zenon DEF TypeOK
      <4>. QED
        BY <4>2, <4>3, ServiceAssumption, Zenon DEF settledLog
    <3>8. Log!Execute(n, last)
      BY <2>2, <3>5, <3>6, <3>7, Zenon DEF Log!Execute, settledLog, executedTo
    <3>. QED
      BY <3>5, <3>8, Zenon DEF Log!Next
  <2>. QED
    BY <2>3, <2>4, Zenon
<1>4. ASSUME NEW n \in Peers, Restart(n) PROVE [Log!Next]_<<settledLog, executedTo>>
  <2>1. /\ committed' = committed
        /\ next_request_sequence' = [next_request_sequence EXCEPT ![n] = 1]
    BY <1>4, Zenon DEF Restart, ServiceRestart
  <2>2. settledLog' = settledLog
    BY <2>1, Zenon DEF settledLog, settled
  <2>3. executedTo' = [executedTo EXCEPT ![n] = 0]
    <3>1. next_request_sequence \in [Peers -> 1..(MaxSequence + 1)]
      BY Zenon DEF TypeOK, ServiceTypeOK
    <3>2. \A p \in Peers : next_request_sequence'[p] = IF p = n THEN 1 ELSE next_request_sequence[p]
      BY <2>1, <3>1, Zenon
    <3>3. \A p \in Peers : next_request_sequence'[p] - 1
                               = IF p = n THEN 0 ELSE next_request_sequence[p] - 1
      BY <3>1, <3>2
    <3>. QED
      BY <3>3, Zenon DEF executedTo
  <2>4. Log!StartOver(n)
    BY <2>2, <2>3, Zenon DEF Log!StartOver, settledLog, executedTo
  <2>. QED
    BY <2>4, Zenon DEF Log!Next
<1>. QED
  BY <1>1, <1>2, <1>3, <1>4, ServiceStep, Zenon

\* The swarm implements the replicated log under the same condition: every position is
\* settled once, and every peer executes the positions in order and without gaps.
THEOREM SwarmImplementsLog == FaultsTolerated => (Spec => ImplementsReplicatedLog)
<1> SUFFICES ASSUME FaultsTolerated PROVE Spec => ImplementsReplicatedLog
  BY Zenon
<1>1. Init => Log!Init
  BY InitRefines, Zenon
<1>2. /\ TypeOK /\ TypeOK' /\ ExecutionInvariant' /\ Agreement /\ Agreement' /\ [Next]_vars
      => [Log!Next]_<<settledLog, executedTo>>
  BY NextRefines, Zenon
<1>3. Spec => [](TypeOK /\ ExecutionInvariant)
  BY ExecutedIsCommitted, Zenon
<1>4. Spec => []Agreement
  BY AgreementHolds, Zenon
<1>. QED
  BY <1>1, <1>2, <1>3, <1>4, PTL
     DEF Spec, ImplementsReplicatedLog, Log!Spec, settledLog, executedTo

-----------------------------------------------------------------------------
(* Configurations *)

\* A store in use: every index it holds has been given out, so that add never finds the
\* next one taken, and the current one is among them.
GoodStore(store) ==
    /\ store \in [configs : {store.configs}, current_index : Nat, next_index : Nat]
    /\ DOMAIN store.configs \subseteq 1..(store.next_index - 1)
    /\ has_current(store)

ConfigurationsInvariant ==
    configurations = [n \in Peers |-> configurations[n]]
    /\ \A n \in Peers : GoodStore(configurations[n])

\* What the operations of the store do to the indices it holds.
LEMMA StoreFields ==
    ASSUME NEW store, store \in [configs : {store.configs}, current_index : Nat, next_index : Nat],
           NEW f
    PROVE  /\ [store EXCEPT !.configs = f] \in
                  [configs : {f}, current_index : Nat, next_index : Nat]
           /\ [store EXCEPT !.configs = f].configs = f
           /\ [store EXCEPT !.configs = f].current_index = store.current_index
           /\ [store EXCEPT !.configs = f].next_index = store.next_index
  OBVIOUS

Added(store, config) ==
    [i \in DOMAIN store.configs \cup {store.next_index} |->
        IF i = store.next_index THEN [config |-> config, enabled |-> FALSE]
                                ELSE store.configs[i]]

LEMMA AddFields ==
    ASSUME NEW store, store \in [configs : {store.configs}, current_index : Nat, next_index : Nat],
           NEW config
    PROVE  add(store, config) = [configs |-> Added(store, config),
                                 current_index |-> store.current_index,
                                 next_index |-> store.next_index + 1]
<1>1. PICK f, k, x : /\ f = Added(store, config) /\ k = store.next_index + 1
                     /\ x = store.current_index
  BY Zenon
<1>2. add(store, config) = [store EXCEPT !.configs = f, !.next_index = k]
  BY <1>1, Zenon DEF add, Added
<1>3. DOMAIN store = {"configs", "current_index", "next_index"}
  OBVIOUS
<1>4. [store EXCEPT !.configs = f, !.next_index = k]
          = [configs |-> f, current_index |-> x, next_index |-> k]
  <2>1. PICK u : u = [store EXCEPT !.configs = f, !.next_index = k]
    BY Zenon
  <2>2. /\ u = [i \in {"configs", "current_index", "next_index"} |-> u[i]]
        /\ u.configs = f /\ u.current_index = x /\ u.next_index = k
    BY <1>1, <1>3, <2>1, Zenon
  <2> QED BY <2>1, <2>2, Zenon
<1> QED BY <1>1, <1>2, <1>4, Zenon

LEMMA AddGood ==
    ASSUME NEW store, GoodStore(store), NEW config
    PROVE  GoodStore(add(store, config))
<1>1. PICK f : f = Added(store, config)
  BY Zenon
<1>2. PICK a : a = add(store, config)
  BY Zenon
<1>3. a = [configs |-> f, current_index |-> store.current_index,
           next_index |-> store.next_index + 1]
  BY <1>1, <1>2, AddFields, Zenon DEF GoodStore
<1>4. /\ store.next_index \in Nat /\ DOMAIN store.configs \subseteq 1..(store.next_index - 1)
      /\ store.current_index \in DOMAIN store.configs /\ store.current_index \in Nat
  BY DEF GoodStore, has_current
<1>5. DOMAIN f \subseteq 1..(store.next_index + 1 - 1) /\ store.current_index \in DOMAIN f
  <2>1. DOMAIN f = DOMAIN store.configs \cup {store.next_index}
    BY <1>1, Zenon DEF Added
  <2> QED BY <1>4, <2>1
<1> QED BY <1>2, <1>3, <1>4, <1>5 DEF GoodStore, has_current

LEMMA EnableGood ==
    ASSUME NEW store, GoodStore(store), NEW config
    PROVE  GoodStore(enable(store, config))
<1>1. CASE indices(store, config) = {}
  BY <1>1, Zenon DEF enable
<1>2. CASE indices(store, config) # {}
  <2> DEFINE f == [store.configs EXCEPT ![find_by_hash(store, config)].enabled = TRUE]
  <2>1. enable(store, config) = [store EXCEPT !.configs = f]
    BY <1>2, Zenon DEF enable, GoodStore
  <2>2. DOMAIN f = DOMAIN store.configs
    BY Zenon
  <2> HIDE DEF f
  <2> QED BY <2>1, <2>2, StoreFields DEF GoodStore, has_current
<1> QED BY <1>1, <1>2, Zenon

LEMMA RemoveGood ==
    ASSUME NEW store, GoodStore(store), NEW config
    PROVE  GoodStore(remove_prior_to(store, config))
<1>1. CASE indices(store, config) = {}
  BY <1>1, Zenon DEF remove_prior_to
<1>2. CASE indices(store, config) # {}
  <2> DEFINE erased == {i \in DOMAIN store.configs : /\ i < find_by_hash(store, config)
                                                     /\ i # store.current_index}
             f == erase(store.configs, erased)
  <2>1. remove_prior_to(store, config) = [store EXCEPT !.configs = f]
    BY <1>2, Zenon DEF remove_prior_to, GoodStore
  <2>2. /\ DOMAIN f \subseteq DOMAIN store.configs
        /\ store.current_index \in DOMAIN store.configs => store.current_index \in DOMAIN f
    BY Zenon DEF erase
  <2> HIDE DEF f
  <2> QED BY <2>1, <2>2, StoreFields DEF GoodStore, has_current
<1> QED BY <1>1, <1>2, Zenon

LEMMA InitialGood == GoodStore(InitialConfigurations)
<1> DEFINE c == [config |-> InitialConfig, enabled |-> FALSE]
           f == [i \in {1} |-> c]
           added == add(EmptyStore, InitialConfig)
           enabled == enable(added, InitialConfig)
<1>1. added = [configs |-> f, current_index |-> 0, next_index |-> 2]
  <2>1. /\ EmptyStore.next_index = 1 /\ EmptyStore.configs = [i \in {} |-> {}]
        /\ EmptyStore.current_index = 0
        /\ EmptyStore \in [configs : {EmptyStore.configs}, current_index : Nat,
                           next_index : Nat]
    BY DEF EmptyStore
  <2>2. Added(EmptyStore, InitialConfig) = f
    BY <2>1 DEF Added
  <2> HIDE DEF f
  <2>3. added = [configs |-> f, current_index |-> 0, next_index |-> 1 + 1]
    BY <2>1, <2>2, AddFields
  <2> QED BY <2>3
<1>2. indices(added, InitialConfig) = {1}
  BY <1>1 DEF indices
<1>3. find_by_hash(added, InitialConfig) = 1
  BY <1>2 DEF find_by_hash
<1> HIDE DEF added
<1> DEFINE g == [f EXCEPT ![1].enabled = TRUE]
<1>4. enabled = [configs |-> g, current_index |-> 0, next_index |-> 2]
  BY <1>1, <1>2, <1>3, Zenon DEF enable
<1>5. DOMAIN g = {1} /\ g[1].config = InitialConfig
  BY Zenon
<1> HIDE DEF g, enabled
<1>6. indices(enabled, InitialConfig) = {1}
  BY <1>4, <1>5 DEF indices
<1>7. find_by_hash(enabled, InitialConfig) = 1
  BY <1>6 DEF find_by_hash
<1>8. InitialConfigurations = [configs |-> g, current_index |-> 1, next_index |-> 2]
  BY <1>4, <1>6, <1>7 DEF InitialConfigurations, set_current, enabled, added
<1> QED BY <1>5, <1>8 DEF GoodStore, has_current

\* A peer changes no store but its own.
LEMMA StoreChanged ==
    ASSUME ConfigurationsInvariant, NEW n \in Peers, NEW store, GoodStore(store),
           configurations' = [configurations EXCEPT ![n] = store]
    PROVE  ConfigurationsInvariant'
<1>1. /\ configurations' = [p \in Peers |-> configurations'[p]]
      /\ \A p \in Peers : configurations'[p] = IF p = n THEN store ELSE configurations[p]
  BY Zenon DEF ConfigurationsInvariant
<1>2. \A p \in Peers : GoodStore(configurations'[p])
  BY <1>1, Zenon DEF ConfigurationsInvariant
<1>3. \A p \in Peers : GoodStore(configurations[p])'
  BY <1>2, Zenon DEF GoodStore, has_current
<1> QED BY <1>1, <1>3, Zenon DEF ConfigurationsInvariant

LEMMA AdvanceGood ==
    ASSUME ConfigurationsInvariant, NEW n \in Peers, NEW s, NEW r, NEW op, NEW store,
           GoodStore(store), NEW others, maybe_advance_operation_state(n, s, r, op, store, others)
    PROVE  ConfigurationsInvariant'
<1> DEFINE enabled(e) == IF e /\ r \in ConfigRequests THEN enable(store, r) ELSE store
           final(e, c) == IF c /\ r \in ConfigRequests THEN remove_prior_to(enabled(e), r)
                                                       ELSE enabled(e)
<1>1. PICK e, c : configurations' = [configurations EXCEPT ![n] = final(e, c)]
  BY Zenon DEF maybe_advance_operation_state, advance
<1>2. GoodStore(enabled(e))
  BY EnableGood, Zenon
<1> HIDE DEF enabled
<1>3. GoodStore(final(e, c))
  BY <1>2, RemoveGood, Zenon
<1> HIDE DEF final
<1> QED BY <1>1, <1>3, StoreChanged, Zenon

LEMMA PhaseGood ==
    ASSUME ConfigurationsInvariant, NEW n \in Peers, NEW m, NEW others,
           handle_phase_message(n, m, others)
    PROVE  ConfigurationsInvariant' \/ configurations' = configurations
<1>1. GoodStore(configurations[n])
  BY Zenon DEF ConfigurationsInvariant
<1>2. ASSUME handle_preprepare(n, m, others)
      PROVE  ConfigurationsInvariant' \/ configurations' = configurations
  <2>1. \/ configurations' = configurations
        \/ \E op, sent : maybe_advance_operation_state(n, m.sequence, m.request, op,
               IF m.request \in ConfigRequests THEN add(configurations[n], m.request)
                                               ELSE configurations[n], sent)
    BY <1>2, Zenon DEF handle_preprepare
  <2>2. GoodStore(IF m.request \in ConfigRequests THEN add(configurations[n], m.request)
                                                  ELSE configurations[n])
    BY <1>1, AddGood, Zenon
  <2> QED BY <2>1, <2>2, AdvanceGood, Zenon
<1>3. handle_prepare(n, m, others) \/ handle_commit(n, m, others) =>
          \E op : maybe_advance_operation_state(n, m.sequence, m.request, op,
                                                configurations[n], others)
  BY Zenon DEF handle_prepare, handle_commit
<1> QED BY <1>1, <1>2, <1>3, AdvanceGood, Zenon DEF handle_phase_message

LEMMA ConfigurationsNext ==
    ASSUME ConfigurationsInvariant, [Next]_vars
    PROVE  ConfigurationsInvariant'
<1>1. ASSUME configurations' = configurations PROVE ConfigurationsInvariant'
  <2>1. \A p \in Peers : GoodStore(configurations[p])'
    BY <1>1, Zenon DEF ConfigurationsInvariant, GoodStore, has_current
  <2> QED BY <1>1, <2>1, Zenon DEF ConfigurationsInvariant
<1>2. ASSUME NEW n \in Peers, work(n) PROVE ConfigurationsInvariant'
  <2>1. ASSUME NEW m, handle_forwarded_request(n, m) \/ pass_filter(n, m)
        PROVE  configurations' = configurations
    BY <2>1, Zenon DEF handle_forwarded_request, handle_request, pass_filter, replicaVars
  <2>2. ASSUME NEW m, handle_message(n, m) PROVE ConfigurationsInvariant'
    <3>1. \/ configurations' = configurations
          \/ \E others : handle_phase_message(n, m, others)
      BY <2>2, Zenon DEF handle_message, handle_checkpoint, replicaVars
    <3> QED BY <1>1, <3>1, PhaseGood, Zenon
  <2>3. ASSUME handle_past_filter(n) PROVE ConfigurationsInvariant'
    <3>1. \E m, others : handle_phase_message(n, m, others)
      BY <2>3, Zenon DEF handle_past_filter
    <3> QED BY <1>1, <3>1, PhaseGood, Zenon
  <2>4. ASSUME NEW s, NEW r, run_apply_operation(n, s, r) \/ execute_handler(n, s)
        PROVE  configurations' = configurations
    BY <2>4, Zenon DEF run_apply_operation, execute_handler, replicaVars
  <2> QED BY <1>1, <1>2, <2>1, <2>2, <2>3, <2>4, Zenon DEF work
<1>3. ASSUME NEW n \in Peers, client(n) PROVE ConfigurationsInvariant'
  <2>1. ASSUME NEW r, handle_database_message(n, r) PROVE configurations' = configurations
    BY <2>1, Zenon DEF handle_database_message, handle_request
  <2>2. ASSUME NEW r, handle_join_or_leave(n, r) PROVE ConfigurationsInvariant'
    <3>1. configurations' = [configurations EXCEPT ![n] = add(configurations[n], r)]
      BY <2>2, Zenon DEF handle_join_or_leave
    <3>2. GoodStore(add(configurations[n], r))
      BY AddGood, Zenon DEF ConfigurationsInvariant
    <3> QED BY <3>1, <3>2, StoreChanged, Zenon
  <2> QED BY <1>1, <1>3, <2>1, <2>2, Zenon DEF client
<1>4. ASSUME NEW n \in Peers, restart(n) PROVE ConfigurationsInvariant'
  <2>1. configurations' = [configurations EXCEPT ![n] = InitialConfigurations]
    BY <1>4, Zenon DEF restart
  <2> QED BY <2>1, InitialGood, StoreChanged, Zenon
<1>5. UNCHANGED vars => configurations' = configurations
  BY Zenon DEF vars, replicaVars
<1> QED BY <1>1, <1>2, <1>3, <1>4, <1>5, Zenon DEF Next

\* remove_prior_to, called for every configuration that commits, in whatever order they
\* do and however often they were added, leaves the current configuration in the store:
\* current_peers_ptr always finds the peers.
THEOREM CurrentConfigurationAlwaysKept == Spec => []CurrentConfigurationKept
<1>1. Init => ConfigurationsInvariant
  <2>1. Init => /\ configurations = [n \in Peers |-> configurations[n]]
                /\ \A n \in Peers : configurations[n] = InitialConfigurations
    BY Zenon DEF Init
  <2> QED BY <2>1, InitialGood, Zenon DEF ConfigurationsInvariant
<1>2. ConfigurationsInvariant /\ [Next]_vars => ConfigurationsInvariant'
  BY ConfigurationsNext, Zenon
<1>3. ConfigurationsInvariant => CurrentConfigurationKept
  BY Zenon DEF ConfigurationsInvariant, CurrentConfigurationKept, GoodStore
<1> QED BY <1>1, <1>2, <1>3, PTL DEF Spec

=============================================================================
