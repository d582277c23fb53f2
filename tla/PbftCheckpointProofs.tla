------------------------ MODULE PbftCheckpointProofs ------------------------
(***************************************************************************)
(* Checkpoints, for any number of peers, requests and sequence numbers:    *)
(* the water marks follow the stable checkpoint, which never goes back,    *)
(* and without restarts a quorum has executed what it covers.  And what a  *)
(* late message may do after a checkpoint: an operation that a checkpoint  *)
(* cleared does not run a second time, and so apply_operation is posted    *)
(* once per sequence number.  All but the quorum is said of the peers that *)
(* have not misread a freed checkpoint: what follows from that does not    *)
(* reach the others.                                                       *)
(***************************************************************************)
EXTENDS PbftAgreementProofs

(***************************************************************************)
(* A checkpoint is local only when it was executed, and no messages are    *)
(* kept for those up to the stable one, so that an execute handler that    *)
(* comes late cannot make an older checkpoint stable.                      *)
(***************************************************************************)
PeerCheckpoints(n) ==
    /\ stable_checkpoint[n] < next_request_sequence[n]
    /\ \A s \in local_unstable_checkpoints[n] \cup posted_executes[n] :
           s < next_request_sequence[n]
    /\ n \notin misread =>
           /\ low_water_mark[n] = stable_checkpoint[n]
           /\ high_water_mark[n] = stable_checkpoint[n] + high_water_interval
           /\ \A s \in SequenceNumbers :
                  s <= stable_checkpoint[n] => unstable_checkpoint_proofs[n][s] = {}

CheckpointInvariant == \A n \in Peers : PeerCheckpoints(n)

\* What maybe_stabilize_checkpoint is called with: local checkpoints that were
\* executed, and no messages for the stable checkpoint or an older one.
Sound(n, local, proofs) ==
    /\ local \in SUBSET SequenceNumbers
    /\ \A s \in local : s < next_request_sequence[n]
    /\ proofs \in [SequenceNumbers -> SUBSET Peers]
    /\ n \notin misread =>
           \A s \in SequenceNumbers : s <= stable_checkpoint[n] => proofs[s] = {}

\* The step in which cp becomes the stable checkpoint of n, and is what all reads give.
Stabilized(n, cp, local, proofs) ==
    /\ cp \in local /\ cp > stable_checkpoint[n]
    /\ stable_checkpoint' = [stable_checkpoint EXCEPT ![n] = cp]
    /\ local_unstable_checkpoints' = [local_unstable_checkpoints EXCEPT ![n] =
           clear_local_checkpoints_until(local, cp)]
    /\ unstable_checkpoint_proofs' = [unstable_checkpoint_proofs EXCEPT ![n] =
           clear_checkpoint_messages_until(proofs, cp)]
    /\ operations' = [operations EXCEPT ![n] = clear_operations_until(@, cp)]
    /\ low_water_mark' = [low_water_mark EXCEPT ![n] = max(@, cp)]
    /\ high_water_mark' = [high_water_mark EXCEPT ![n] = max(@, cp + high_water_interval)]
    /\ misread' = misread

\* The two numbers of a peer that the proofs compare.
LEMMA SequenceTypes ==
    TypeOK => \A p \in Peers : next_request_sequence[p] \in Nat /\ stable_checkpoint[p] \in Nat
  BY DEF TypeOK, ServiceTypeOK

\* Checkpoint messages make a quorum.
LEMMA QuorumNotEmpty == quorum_size \in Nat /\ quorum_size >= 1 /\ max_faulty_nodes \in Nat
<1>1. N \in Nat
  BY ServiceAssumption, Zenon DEF N
<1>2. max_faulty_nodes \in Nat
  BY <1>1 DEF max_faulty_nodes
<1>. QED
  BY <1>2 DEF quorum_size

\* Only a checkpoint beyond the stable one is made stable.
LEMMA StabilizesForward ==
    ASSUME TypeOK, NEW n \in Peers, n \notin misread, NEW cp \in SequenceNumbers, NEW local,
           NEW proofs, Sound(n, local, proofs),
           cp \in local, Cardinality(proofs[cp]) >= quorum_size
    PROVE  cp > stable_checkpoint[n]
<1>1. CASE cp <= stable_checkpoint[n]
  <2>1. proofs[cp] = {}
    BY <1>1, Zenon DEF Sound
  <2>2. Cardinality(proofs[cp]) = 0
    BY <2>1, NoVotes, Zenon
  <2>. QED
    BY <2>2, QuorumNotEmpty
<1>2. cp \in Nat /\ stable_checkpoint[n] \in Nat
  BY DEF TypeOK, SequenceNumbers
<1>. QED
  BY <1>1, <1>2

\* The water marks after that step: max is its second argument.
LEMMA WaterMarksMove ==
    ASSUME TypeOK, CheckpointInvariant, NEW n \in Peers, n \notin misread,
           NEW cp \in SequenceNumbers, NEW local, NEW proofs, Stabilized(n, cp, local, proofs)
    PROVE  /\ low_water_mark' = [low_water_mark EXCEPT ![n] = cp]
           /\ high_water_mark' = [high_water_mark EXCEPT ![n] = cp + high_water_interval]
<1>1. high_water_interval \in Nat
  BY PbftAssumption DEF high_water_interval
<1>2. /\ cp \in Nat /\ stable_checkpoint[n] \in Nat
      /\ low_water_mark[n] \in Nat /\ high_water_mark[n] \in Nat
  BY DEF TypeOK, SequenceNumbers
<1>3. /\ low_water_mark[n] < cp
      /\ high_water_mark[n] < cp + high_water_interval
  BY <1>1, <1>2 DEF CheckpointInvariant, PeerCheckpoints, Stabilized
<1>4. /\ max(low_water_mark[n], cp) = cp
      /\ max(high_water_mark[n], cp + high_water_interval) = cp + high_water_interval
  BY <1>1, <1>2, <1>3 DEF max
<1>. QED
  BY <1>4, Zenon DEF Stabilized

(***************************************************************************)
(* The steps of a peer, as far as the invariants below tell them apart:    *)
(* nothing changes but the posted execute handlers, a message passes the   *)
(* filter, a record is made for a new proposal, a message of one of the    *)
(* phases counts, a checkpoint is recorded or made stable, or it is at a   *)
(* peer that misreads it or has misread one before, and a posted           *)
(* apply_operation runs.                                                   *)
(***************************************************************************)
ExecutesRun == \A p \in Peers : posted_executes'[p] \subseteq posted_executes[p]

Nothing == /\ ExecutesRun
           /\ UNCHANGED <<operations, accepted_preprepares, checkpointVars, posted_applies,
                          unstable_storage, next_request_sequence, failed>>

Rests == Nothing /\ UNCHANGED past_filter

Passes(n, m) == /\ Nothing
                /\ low_water_mark[n] < m.sequence
                /\ past_filter' = [past_filter EXCEPT ![n] = m]

Proposes(n, s, r) == /\ operations' = [operations EXCEPT ![n][s][r] = find_operation(n, s, r)]
                     /\ UNCHANGED <<accepted_preprepares, checkpointVars, past_filter,
                                    serviceVars>>

Votes(n, m) ==
    /\ \E others : handle_phase_message(n, m, others)
    /\ \/ /\ past_filter[n] = NoMessage /\ low_water_mark[n] < m.sequence
          /\ UNCHANGED past_filter
       \/ /\ past_filter[n] = m /\ m # NoMessage
          /\ past_filter' = [past_filter EXCEPT ![n] = NoMessage]

Reaches(n, cp, local, proofs) ==
    /\ n \notin misread
    /\ Sound(n, local, proofs)
    /\ Stabilized(n, cp, local, proofs) \/ record_checkpoint(n, local, proofs)
    /\ ExecutesRun
    /\ UNCHANGED <<accepted_preprepares, past_filter, posted_applies, unstable_storage,
                   next_request_sequence, failed>>

\* Of n only what a misread number does not decide.
Misreads(n) ==
    /\ misread' = misread \cup {n}
    /\ \A p \in Peers \ {n} :
           /\ stable_checkpoint'[p] = stable_checkpoint[p]
           /\ local_unstable_checkpoints'[p] = local_unstable_checkpoints[p]
           /\ unstable_checkpoint_proofs'[p] = unstable_checkpoint_proofs[p]
           /\ operations'[p] = operations[p]
           /\ low_water_mark'[p] = low_water_mark[p]
           /\ high_water_mark'[p] = high_water_mark[p]
    /\ stable_checkpoint'[n] < next_request_sequence[n]
    /\ n \notin misread => stable_checkpoint'[n] > stable_checkpoint[n]
    /\ \A s \in local_unstable_checkpoints'[n] : s < next_request_sequence[n]
    /\ ExecutesRun
    /\ UNCHANGED <<accepted_preprepares, past_filter, posted_applies, unstable_storage,
                   next_request_sequence, failed>>

Runs(n, s, r) == /\ apply_operation(n, s, r)
                 /\ UNCHANGED <<operations, accepted_preprepares, checkpointVars, past_filter>>

PeerStep(n) ==
    \/ Rests
    \/ \E m \in PhaseMessages : Passes(n, m) \/ Votes(n, m)
    \/ \E s \in SequenceNumbers, r \in Requests : Proposes(n, s, r) \/ Runs(n, s, r)
    \/ \E cp \in SequenceNumbers : \E local, proofs : Reaches(n, cp, local, proofs)
    \/ Misreads(n)

\* A request is proposed or forwarded.
LEMMA RequestKind ==
    ASSUME TypeOK, NEW n \in Peers, NEW r \in Requests, NEW others,
           \/ handle_request(n, r, others)
           \/ /\ issue(n, r, others)
              /\ UNCHANGED <<accepted_preprepares, checkpointVars, past_filter, serviceVars>>
    PROVE  PeerStep(n)
<1>1. CASE issue(n, r, others) /\ UNCHANGED <<accepted_preprepares, checkpointVars, past_filter,
                                              serviceVars>>
  <2> DEFINE s == next_issued_sequence_number[n]
  <2>1. s \in SequenceNumbers
    BY <1>1, ServiceAssumption DEF issue, TypeOK, SequenceNumbers
  <2>2. Proposes(n, s, r)
    BY <1>1, Zenon DEF issue, Proposes
  <2>. QED
    BY <2>1, <2>2, Zenon DEF PeerStep
<1>2. CASE /\ UNCHANGED operations
           /\ UNCHANGED <<accepted_preprepares, checkpointVars, past_filter, serviceVars>>
  BY <1>2, Zenon DEF PeerStep, Rests, Nothing, ExecutesRun, serviceVars
<1>. QED
  BY <1>1, <1>2, Zenon DEF handle_request

\* A checkpoint is recorded or made stable, and what is read is its number or not.
LEMMA ReachedKind ==
    ASSUME TypeOK, NEW n \in Peers, PeerCheckpoints(n), NEW cp \in SequenceNumbers,
           NEW local, NEW proofs, NEW reads, Sound(n, local, proofs),
           maybe_stabilize_checkpoint(n, cp, local, proofs, reads), ExecutesRun,
           UNCHANGED <<accepted_preprepares, past_filter, posted_applies, unstable_storage,
                       next_request_sequence, failed>>
    PROVE  PeerStep(n)
<1>1. CASE record_checkpoint(n, local, proofs)
  <2>1. CASE n \notin misread
    BY <1>1, <2>1, Zenon DEF Reaches, PeerStep
  <2>2. CASE n \in misread
    <3>1. misread' = misread \cup {n} /\ stable_checkpoint' = stable_checkpoint
          /\ operations' = operations
          /\ low_water_mark' = low_water_mark /\ high_water_mark' = high_water_mark
      BY <1>1, <2>2, Zenon DEF record_checkpoint
    <3>2. /\ local_unstable_checkpoints'[n] = local
          /\ \A p \in Peers \ {n} :
                 /\ local_unstable_checkpoints'[p] = local_unstable_checkpoints[p]
                 /\ unstable_checkpoint_proofs'[p] = unstable_checkpoint_proofs[p]
      BY <1>1, Zenon DEF record_checkpoint, TypeOK
    <3>3. Misreads(n)
      BY <2>2, <3>1, <3>2, Zenon DEF Misreads, Sound, PeerCheckpoints
    <3>. QED
      BY <3>3, Zenon DEF PeerStep
  <2>. QED
    BY <2>1, <2>2, Zenon
<1>2. CASE /\ cp \in local /\ Cardinality(proofs[cp]) >= quorum_size
           /\ stabilize(n, cp, local, proofs, reads)
  <2>1. n \notin misread => cp > stable_checkpoint[n]
    BY <1>2, StabilizesForward, Zenon
  <2>2. PICK until \in reads, last \in reads, low \in reads, high \in reads :
            /\ unstable_checkpoint_proofs' = [unstable_checkpoint_proofs EXCEPT ![n] =
                   clear_checkpoint_messages_until(proofs, until)]
            /\ operations' = [operations EXCEPT ![n] = clear_operations_until(@, last)]
            /\ low_water_mark' = [low_water_mark EXCEPT ![n] = max(@, low)]
            /\ high_water_mark' = [high_water_mark EXCEPT ![n] =
                   max(@, high + high_water_interval)]
            /\ misread' = IF {until, last, low, high} = {cp} THEN misread
                                                             ELSE misread \cup {n}
    BY <1>2, Zenon DEF stabilize
  <2>3. CASE n \notin misread /\ {until, last, low, high} = {cp}
    <3>1. until = cp /\ last = cp /\ low = cp /\ high = cp /\ misread' = misread
      BY <2>2, <2>3, Zenon
    <3>2. Stabilized(n, cp, local, proofs)
      BY <1>2, <2>1, <2>2, <2>3, <3>1, Zenon DEF Stabilized, stabilize
    <3>. QED
      BY <2>3, <3>2, Zenon DEF Reaches, PeerStep
  <2>4. CASE ~(n \notin misread /\ {until, last, low, high} = {cp})
    <3>1. misread' = misread \cup {n}
      BY <2>2, <2>4, Zenon
    <3>2. /\ stable_checkpoint'[n] = cp
          /\ local_unstable_checkpoints'[n] = clear_local_checkpoints_until(local, cp)
          /\ \A p \in Peers \ {n} :
                 /\ stable_checkpoint'[p] = stable_checkpoint[p]
                 /\ local_unstable_checkpoints'[p] = local_unstable_checkpoints[p]
      BY <1>2, Zenon DEF stabilize, TypeOK
    <3>3. \A p \in Peers \ {n} :
              /\ unstable_checkpoint_proofs'[p] = unstable_checkpoint_proofs[p]
              /\ operations'[p] = operations[p]
              /\ low_water_mark'[p] = low_water_mark[p]
              /\ high_water_mark'[p] = high_water_mark[p]
      BY <2>2, Zenon DEF TypeOK
    <3>4. local_unstable_checkpoints'[n] \subseteq local
      BY <3>2, Zenon DEF clear_local_checkpoints_until
    <3>5. Misreads(n)
      BY <1>2, <2>1, <3>1, <3>2, <3>3, <3>4, Zenon DEF Misreads, Sound
    <3>. QED
      BY <3>5, Zenon DEF PeerStep
  <2>. QED
    BY <2>3, <2>4, Zenon
<1>. QED
  BY <1>1, <1>2, Zenon DEF maybe_stabilize_checkpoint

\* A checkpoint message is ignored, recorded, or the last of a quorum.
LEMMA CheckpointKind ==
    ASSUME TypeOK, CheckpointInvariant, NEW n \in Peers, NEW m \in Messages,
           m.type = "checkpoint", NEW others, handle_checkpoint(n, m, others)
    PROVE  PeerStep(n)
<1>1. m.sequence \in SequenceNumbers /\ m.sender \in Peers
  BY Zenon DEF Messages, PhaseMessages
<1>2. /\ UNCHANGED <<accepted_preprepares, past_filter, posted_applies, unstable_storage,
                     next_request_sequence, failed>>
      /\ ExecutesRun
  BY Zenon DEF handle_checkpoint, serviceVars, ExecutesRun
<1>3. CASE m.sequence <= stable_checkpoint[n]
  BY <1>2, <1>3, Zenon DEF handle_checkpoint, PeerStep, Rests, Nothing
<1>4. CASE ~(m.sequence <= stable_checkpoint[n])
  <2> DEFINE proofs == [unstable_checkpoint_proofs[n] EXCEPT ![m.sequence] = @ \cup {m.sender}]
             local == local_unstable_checkpoints[n]
  <2>1. Sound(n, local, proofs)
    BY <1>1, <1>4 DEF Sound, TypeOK, CheckpointInvariant, PeerCheckpoints
  <2>2. maybe_stabilize_checkpoint(n, m.sequence, local, proofs, {m.sequence})
    BY <1>4, Zenon DEF handle_checkpoint
  <2>. HIDE DEF local, proofs
  <2>. QED
    BY <1>1, <1>2, <2>1, <2>2, ReachedKind, Zenon DEF CheckpointInvariant
<1>. QED
  BY <1>3, <1>4, Zenon

\* An execute handler runs, at a checkpoint or not.
LEMMA ExecuteKind ==
    ASSUME TypeOK, CheckpointInvariant, NEW n \in Peers, NEW s \in SequenceNumbers,
           execute_handler(n, s)
    PROVE  PeerStep(n)
<1>1. /\ UNCHANGED <<accepted_preprepares, past_filter, posted_applies, unstable_storage,
                     next_request_sequence, failed>>
      /\ s \in posted_executes[n]
      /\ ExecutesRun
  BY Zenon DEF execute_handler, ExecutesRun, TypeOK, ServiceTypeOK
<1>2. CASE UNCHANGED <<operations, checkpointVars, network>>
  BY <1>1, <1>2, Zenon DEF PeerStep, Rests, Nothing
<1>3. CASE checkpoint_reached_locally(n, s)
  <2> DEFINE proofs == unstable_checkpoint_proofs[n]
             local == local_unstable_checkpoints[n] \cup {s}
  <2>1. Sound(n, local, proofs)
    BY <1>1 DEF Sound, TypeOK, CheckpointInvariant, PeerCheckpoints
  <2>2. maybe_stabilize_checkpoint(n, s, local, proofs, {s} \cup Freed)
    BY <1>3, Zenon DEF checkpoint_reached_locally
  <2>. HIDE DEF local, proofs
  <2>. QED
    BY <1>1, <2>1, <2>2, ReachedKind, Zenon DEF CheckpointInvariant
<1>. QED
  BY <1>2, <1>3, Zenon DEF execute_handler

\* A message is dropped by the filter, counts, or is a checkpoint.
LEMMA MessageKind ==
    ASSUME TypeOK, CheckpointInvariant, NEW n \in Peers, NEW m \in network, handle_message(n, m)
    PROVE  PeerStep(n)
<1>0. m \in Messages
  BY Zenon DEF TypeOK
<1>1. CASE UNCHANGED <<replicaVars, checkpointVars, past_filter, serviceVars>>
  BY <1>1, Zenon DEF PeerStep, Rests, Nothing, ExecutesRun, replicaVars, serviceVars
<1>2. CASE /\ preliminary_filter_msg(n, m) /\ handle_phase_message(n, m, network \ {m})
           /\ UNCHANGED past_filter
  <2>1. m \in PhaseMessages /\ m.type \in {"preprepare", "prepare", "commit"}
    BY <1>0, <1>2, PhaseMessage, Zenon DEF handle_phase_message
  <2>2. past_filter[n] = NoMessage /\ low_water_mark[n] < m.sequence
    BY <1>2, <2>1, Zenon DEF handle_message, idle, preliminary_filter_msg
  <2>3. Votes(n, m)
    BY <1>2, <2>2, Zenon DEF Votes
  <2>. QED
    BY <2>1, <2>3, Zenon DEF PeerStep
<1>3. CASE m.type = "checkpoint" /\ handle_checkpoint(n, m, network \ {m})
  BY <1>0, <1>3, CheckpointKind, Zenon
<1>. QED
  BY <1>1, <1>2, <1>3, Zenon DEF handle_message

\* Every step is one of these or a restart.
LEMMA StepKinds ==
    ASSUME TypeOK, CheckpointInvariant, [Next]_vars
    PROVE  \/ Rests
           \/ \E n \in Peers : PeerStep(n)
           \/ \E n \in MayRestart : restart(n)
<1>1. CASE UNCHANGED vars
  BY <1>1, Zenon DEF vars, replicaVars, serviceVars, Rests, Nothing, ExecutesRun
<1>2. ASSUME NEW n \in Peers, NEW r \in Requests, handle_database_message(n, r)
      PROVE  PeerStep(n)
  BY <1>2, RequestKind, Zenon DEF handle_database_message
<1>3. ASSUME NEW n \in Peers, NEW r \in Requests, handle_join_or_leave(n, r)
      PROVE  PeerStep(n)
  BY <1>3, RequestKind, Zenon DEF handle_join_or_leave
<1>4. ASSUME NEW n \in Peers, NEW m \in network, handle_forwarded_request(n, m)
      PROVE  PeerStep(n)
  <2>1. m \in Messages /\ m.type = "request"
    BY <1>4, Zenon DEF handle_forwarded_request, TypeOK
  <2>2. m.request \in Requests
    BY <2>1, Zenon DEF Messages, PhaseMessages
  <2>. QED
    BY <1>4, <2>2, RequestKind, Zenon DEF handle_forwarded_request
<1>5. ASSUME NEW n \in Peers, NEW m \in network, handle_message(n, m) PROVE PeerStep(n)
  BY <1>5, MessageKind, Zenon
<1>6. ASSUME NEW n \in Peers, NEW m \in network, pass_filter(n, m) PROVE PeerStep(n)
  <2>1. m \in PhaseMessages
    BY <1>6, PhaseMessage, Zenon DEF pass_filter, TypeOK
  <2>2. Passes(n, m)
    BY <1>6, Zenon DEF pass_filter, preliminary_filter_msg, Passes, Nothing, ExecutesRun, replicaVars,
                serviceVars
  <2>. QED
    BY <2>1, <2>2, Zenon DEF PeerStep
<1>7. ASSUME NEW n \in Peers, handle_past_filter(n) PROVE PeerStep(n)
  <2>1. past_filter[n] \in PhaseMessages
    BY <1>7, Zenon DEF handle_past_filter, TypeOK
  <2>2. PICK m \in PhaseMessages : m = past_filter[n]
    BY <2>1, Zenon
  <2>3. \E others : handle_phase_message(n, m, others)
    BY <1>7, <2>2, Zenon DEF handle_past_filter
  <2>4. Votes(n, m)
    BY <1>7, <2>2, <2>3, Zenon DEF handle_past_filter, Votes
  <2>. QED
    BY <2>4, Zenon DEF PeerStep
<1>8. ASSUME NEW n \in Peers, NEW s \in SequenceNumbers, NEW r \in Requests,
             run_apply_operation(n, s, r)
      PROVE  PeerStep(n)
  <2>1. Runs(n, s, r)
    BY <1>8, Zenon DEF run_apply_operation, replicaVars, Runs
  <2>. QED
    BY <2>1, Zenon DEF PeerStep
<1>9. ASSUME NEW n \in Peers, NEW s \in SequenceNumbers, execute_handler(n, s)
      PROVE  PeerStep(n)
  BY <1>9, ExecuteKind, Zenon
<1>10. ASSUME NEW n \in Peers, work(n) \/ client(n) PROVE PeerStep(n)
  BY <1>2, <1>3, <1>4, <1>5, <1>6, <1>7, <1>8, <1>9, <1>10, PbftAssumption, Zenon DEF work, client
<1>. QED
  BY <1>1, <1>10, PbftAssumption, Zenon DEF Next

-----------------------------------------------------------------------------
\* A checkpoint is recorded or made stable.
LEMMA ReachesCheckpoints ==
    ASSUME TypeOK, CheckpointInvariant, NEW n \in Peers, NEW cp \in SequenceNumbers,
           NEW local, NEW proofs, Reaches(n, cp, local, proofs)
    PROVE  /\ CheckpointInvariant'
           /\ \A p \in Peers : stable_checkpoint'[p] >= stable_checkpoint[p]
<1>1. /\ Sound(n, local, proofs) /\ n \notin misread
      /\ next_request_sequence' = next_request_sequence
      /\ \A p \in Peers : posted_executes'[p] \subseteq posted_executes[p]
  BY Zenon DEF Reaches, ExecutesRun
<1>2. \A p \in Peers : stable_checkpoint[p] \in Nat /\ next_request_sequence[p] \in Nat
  BY SequenceTypes, Zenon
<1>3. CASE record_checkpoint(n, local, proofs)
  <2>1. /\ stable_checkpoint' = stable_checkpoint
        /\ low_water_mark' = low_water_mark /\ high_water_mark' = high_water_mark
        /\ misread' = misread
    BY <1>3, Zenon DEF record_checkpoint
  <2>2. \A p \in Peers :
            /\ local_unstable_checkpoints'[p] = IF p = n THEN local
                                                         ELSE local_unstable_checkpoints[p]
            /\ unstable_checkpoint_proofs'[p] = IF p = n THEN proofs
                                                         ELSE unstable_checkpoint_proofs[p]
    BY <1>3, Zenon DEF record_checkpoint, TypeOK
  <2>3. ASSUME NEW p \in Peers PROVE PeerCheckpoints(p)'
    <3>1. PeerCheckpoints(p)
      BY Zenon DEF CheckpointInvariant
    <3>2. CASE p = n
      BY <1>1, <2>1, <2>2, <3>1, <3>2 DEF PeerCheckpoints, Sound
    <3>3. CASE p # n
      BY <1>1, <2>1, <2>2, <3>1, <3>3, Zenon DEF PeerCheckpoints
    <3>. QED
      BY <3>2, <3>3, Zenon
  <2>. QED
    BY <1>2, <2>1, <2>3 DEF CheckpointInvariant
<1>4. CASE Stabilized(n, cp, local, proofs)
  <2>1. /\ cp \in Nat /\ cp > stable_checkpoint[n] /\ cp \in local
        /\ cp < next_request_sequence[n]
    BY <1>1, <1>4 DEF Stabilized, Sound, SequenceNumbers
  <2>2. \A p \in Peers :
            /\ stable_checkpoint'[p] = IF p = n THEN cp ELSE stable_checkpoint[p]
            /\ low_water_mark'[p] = IF p = n THEN cp ELSE low_water_mark[p]
            /\ high_water_mark'[p] = IF p = n THEN cp + high_water_interval
                                              ELSE high_water_mark[p]
    <3>1. /\ low_water_mark' = [low_water_mark EXCEPT ![n] = cp]
          /\ high_water_mark' = [high_water_mark EXCEPT ![n] = cp + high_water_interval]
      BY <1>1, <1>4, WaterMarksMove, Zenon
    <3>2. stable_checkpoint' = [stable_checkpoint EXCEPT ![n] = cp]
      BY <1>4, Zenon DEF Stabilized
    <3>. QED
      BY <3>1, <3>2, Zenon DEF TypeOK
  <2>3. /\ \A p \in Peers \ {n} :
               /\ local_unstable_checkpoints'[p] = local_unstable_checkpoints[p]
               /\ unstable_checkpoint_proofs'[p] = unstable_checkpoint_proofs[p]
        /\ local_unstable_checkpoints'[n] = clear_local_checkpoints_until(local, cp)
        /\ unstable_checkpoint_proofs'[n] = clear_checkpoint_messages_until(proofs, cp)
    BY <1>4, Zenon DEF Stabilized, TypeOK
  <2>4. /\ local_unstable_checkpoints'[n] \subseteq local
        /\ \A s \in SequenceNumbers : s <= cp => unstable_checkpoint_proofs'[n][s] = {}
    BY <2>1, <2>3 DEF clear_local_checkpoints_until, clear_checkpoint_messages_until,
                      SequenceNumbers
  <2>5. PeerCheckpoints(n)'
    <3>1. /\ stable_checkpoint'[n] = cp /\ low_water_mark'[n] = cp
          /\ high_water_mark'[n] = cp + high_water_interval
          /\ next_request_sequence'[n] = next_request_sequence[n]
      BY <1>1, <2>2, Zenon
    <3>2. \A s \in local_unstable_checkpoints'[n] \cup posted_executes'[n] :
              s < next_request_sequence[n]
      BY <1>1, <2>4, Zenon DEF CheckpointInvariant, PeerCheckpoints, Sound
    <3>. QED
      BY <2>1, <2>4, <3>1, <3>2, Zenon DEF PeerCheckpoints
  <2>6. ASSUME NEW p \in Peers, p # n PROVE PeerCheckpoints(p)'
    <3>1. misread' = misread
      BY <1>4, Zenon DEF Stabilized
    <3>. QED
      BY <1>1, <2>2, <2>3, <2>6, <3>1 DEF PeerCheckpoints, CheckpointInvariant
  <2>7. \A p \in Peers : stable_checkpoint'[p] >= stable_checkpoint[p]
    BY <1>2, <2>1, <2>2
  <2>. QED
    BY <2>5, <2>6, <2>7, Zenon DEF CheckpointInvariant
<1>. QED
  BY <1>3, <1>4, Zenon DEF Reaches

\* A peer that misreads a checkpoint has executed it all the same.
LEMMA MisreadsCheckpoints ==
    ASSUME TypeOK, TypeOK', CheckpointInvariant, NEW n \in Peers, Misreads(n)
    PROVE  /\ CheckpointInvariant'
           /\ \A p \in Peers \ misread : stable_checkpoint'[p] >= stable_checkpoint[p]
<1>1. \A p \in Peers : stable_checkpoint[p] \in Nat /\ stable_checkpoint'[p] \in Nat
  <2>1. /\ stable_checkpoint \in [Peers -> 0..MaxSequence]
        /\ stable_checkpoint' \in [Peers -> 0..MaxSequence]
        /\ MaxSequence \in Nat
    BY ServiceAssumption, Zenon DEF TypeOK
  <2>. QED
    BY <2>1
<1>2. PeerCheckpoints(n)'
  <2>1. /\ n \in misread' /\ next_request_sequence' = next_request_sequence
        /\ posted_executes'[n] \subseteq posted_executes[n]
    BY Zenon DEF Misreads, ExecutesRun
  <2>2. /\ stable_checkpoint'[n] < next_request_sequence[n]
        /\ \A s \in local_unstable_checkpoints'[n] : s < next_request_sequence[n]
        /\ \A s \in posted_executes[n] : s < next_request_sequence[n]
    BY Zenon DEF Misreads, CheckpointInvariant, PeerCheckpoints
  <2>. QED
    BY <2>1, <2>2, Zenon DEF PeerCheckpoints
<1>3. ASSUME NEW p \in Peers, p # n PROVE PeerCheckpoints(p)'
  <2>1. /\ stable_checkpoint'[p] = stable_checkpoint[p]
        /\ local_unstable_checkpoints'[p] = local_unstable_checkpoints[p]
        /\ unstable_checkpoint_proofs'[p] = unstable_checkpoint_proofs[p]
        /\ low_water_mark'[p] = low_water_mark[p]
        /\ high_water_mark'[p] = high_water_mark[p]
        /\ next_request_sequence'[p] = next_request_sequence[p]
        /\ posted_executes'[p] \subseteq posted_executes[p]
        /\ p \notin misread' => p \notin misread
    BY <1>3, Zenon DEF Misreads, ExecutesRun
  <2>. QED
    BY <2>1, Zenon DEF CheckpointInvariant, PeerCheckpoints
<1>4. ASSUME NEW p \in Peers \ misread PROVE stable_checkpoint'[p] >= stable_checkpoint[p]
  <2>1. stable_checkpoint'[p] = stable_checkpoint[p] \/ stable_checkpoint'[p] > stable_checkpoint[p]
    BY Zenon DEF Misreads
  <2>. QED
    BY <1>1, <2>1
<1>. QED
  BY <1>2, <1>3, <1>4, Zenon DEF CheckpointInvariant

\* A posted apply_operation moves next_request_sequence up and posts what it executed.
LEMMA RunsForward ==
    ASSUME TypeOK, NEW n \in Peers, NEW s \in SequenceNumbers, NEW r \in Requests,
           apply_operation(n, s, r)
    PROVE  \A p \in Peers :
               /\ next_request_sequence'[p] >= next_request_sequence[p]
               /\ \A k \in posted_executes'[p] :
                      k \in posted_executes[p] \/ k < next_request_sequence'[p]
<1>1. next_request_sequence \in [Peers -> 1..(MaxSequence + 1)] /\ MaxSequence \in Nat
  BY ServiceAssumption, Zenon DEF TypeOK, ServiceTypeOK
<1>2. CASE unstable_storage[n][s] # NoRequest
  <2>1. next_request_sequence' = next_request_sequence /\ posted_executes' = posted_executes
    BY <1>2, Zenon DEF apply_operation
  <2>. QED
    BY <1>1, <2>1
<1>3. CASE unstable_storage[n][s] = NoRequest
  <2>1. PICK from, stop : from = next_request_sequence[n] /\ Drains(n, s, r, from, stop)
    BY <1>3, ApplyFacts, Zenon
  <2>2. /\ from \in 1..(MaxSequence + 1) /\ stop \in from..(MaxSequence + 1)
        /\ next_request_sequence' = [next_request_sequence EXCEPT ![n] = stop]
        /\ posted_executes' = [posted_executes EXCEPT ![n] = @ \cup (from..(stop - 1))]
    BY <2>1, Zenon DEF Drains
  <2>3. \A k \in from..(stop - 1) : k < stop
    BY <1>1, <2>2
  <2>4. posted_executes'[n] = posted_executes[n] \cup (from..(stop - 1))
        /\ \A p \in Peers \ {n} : posted_executes'[p] = posted_executes[p]
    BY <2>2, Zenon DEF TypeOK, ServiceTypeOK
  <2>5. next_request_sequence'[n] = stop
        /\ \A p \in Peers \ {n} : next_request_sequence'[p] = next_request_sequence[p]
    BY <1>1, <2>2, Zenon
  <2>. QED
    BY <1>1, <2>1, <2>2, <2>3, <2>4, <2>5
<1>. QED
  BY <1>2, <1>3, Zenon

\* A peer whose checkpoints do not change, and which at most executed more.
LEMMA KeepsCheckpoints ==
    ASSUME TypeOK, CheckpointInvariant, UNCHANGED checkpointVars,
           \A p \in Peers :
               /\ next_request_sequence'[p] \in Nat
               /\ next_request_sequence'[p] >= next_request_sequence[p]
               /\ \A k \in posted_executes'[p] :
                      k \in posted_executes[p] \/ k < next_request_sequence'[p]
    PROVE  /\ CheckpointInvariant'
           /\ \A p \in Peers : stable_checkpoint'[p] >= stable_checkpoint[p]
<1>1. /\ stable_checkpoint' = stable_checkpoint
      /\ local_unstable_checkpoints' = local_unstable_checkpoints
      /\ unstable_checkpoint_proofs' = unstable_checkpoint_proofs
      /\ low_water_mark' = low_water_mark /\ high_water_mark' = high_water_mark
      /\ misread' = misread
  BY Zenon DEF checkpointVars
<1>2. \A p \in Peers : /\ stable_checkpoint[p] \in Nat /\ next_request_sequence[p] \in Nat
                       /\ local_unstable_checkpoints[p] \subseteq Nat
                       /\ posted_executes[p] \subseteq Nat
  BY DEF TypeOK, ServiceTypeOK, SequenceNumbers
<1>3. ASSUME NEW p \in Peers PROVE PeerCheckpoints(p)'
  BY <1>1, <1>2 DEF PeerCheckpoints, CheckpointInvariant
<1>. QED
  BY <1>1, <1>2, <1>3 DEF CheckpointInvariant

\* Every step keeps the invariant, and takes no stable checkpoint back unless it is
\* a restart of that peer, or the peer has misread one before.
LEMMA NextCheckpoint ==
    ASSUME TypeOK, CheckpointInvariant, [Next]_vars
    PROVE  /\ CheckpointInvariant'
           /\ \A p \in Peers \ (MayRestart \cup misread) :
                  stable_checkpoint'[p] >= stable_checkpoint[p]
<1>1. TypeOK'
  BY NextTypeOK, Zenon
<1>2. \A p \in Peers : next_request_sequence[p] \in Nat /\ next_request_sequence'[p] \in Nat
  <2>1. next_request_sequence \in [Peers -> 1..(MaxSequence + 1)] /\ MaxSequence \in Nat
    BY ServiceAssumption, Zenon DEF TypeOK, ServiceTypeOK
  <2>2. next_request_sequence' \in [Peers -> 1..(MaxSequence + 1)]
    BY <1>1, Zenon DEF TypeOK, ServiceTypeOK
  <2>. QED
    BY <2>1, <2>2
<1>3. ASSUME UNCHANGED checkpointVars, ExecutesRun, next_request_sequence' = next_request_sequence
      PROVE  /\ CheckpointInvariant'
             /\ \A p \in Peers : stable_checkpoint'[p] >= stable_checkpoint[p]
  BY <1>2, <1>3, KeepsCheckpoints DEF ExecutesRun
<1>4. ASSUME Nothing
      PROVE  /\ CheckpointInvariant'
             /\ \A p \in Peers : stable_checkpoint'[p] >= stable_checkpoint[p]
  BY <1>3, <1>4, Zenon DEF Nothing
<1>5. ASSUME NEW n \in Peers, NEW m \in PhaseMessages, Votes(n, m)
      PROVE  /\ UNCHANGED checkpointVars /\ ExecutesRun
             /\ next_request_sequence' = next_request_sequence
  BY <1>5, Zenon DEF Votes, handle_phase_message, ExecutesRun
<1>6. ASSUME NEW n \in Peers, NEW s, NEW r, Proposes(n, s, r)
      PROVE  /\ UNCHANGED checkpointVars /\ ExecutesRun
             /\ next_request_sequence' = next_request_sequence
  BY <1>6, Zenon DEF Proposes, serviceVars, ExecutesRun
<1>7. ASSUME NEW n \in Peers, NEW s \in SequenceNumbers, NEW r \in Requests, Runs(n, s, r)
      PROVE  /\ CheckpointInvariant'
             /\ \A p \in Peers : stable_checkpoint'[p] >= stable_checkpoint[p]
  BY <1>2, <1>7, RunsForward, KeepsCheckpoints, Zenon DEF Runs
<1>8. ASSUME NEW n \in Peers, PeerStep(n)
      PROVE  /\ CheckpointInvariant'
             /\ \A p \in Peers \ misread : stable_checkpoint'[p] >= stable_checkpoint[p]
  BY <1>1, <1>3, <1>4, <1>5, <1>6, <1>7, <1>8, ReachesCheckpoints, MisreadsCheckpoints, Zenon
           DEF PeerStep, Rests, Passes
<1>9. ASSUME NEW n \in MayRestart, restart(n)
      PROVE  /\ CheckpointInvariant'
             /\ \A p \in Peers \ {n} : stable_checkpoint'[p] >= stable_checkpoint[p]
  <2>1. n \in Peers
    BY PbftAssumption, Zenon
  <2>2. \A p \in Peers \ {n} :
            /\ stable_checkpoint'[p] = stable_checkpoint[p]
            /\ local_unstable_checkpoints'[p] = local_unstable_checkpoints[p]
            /\ unstable_checkpoint_proofs'[p] = unstable_checkpoint_proofs[p]
            /\ low_water_mark'[p] = low_water_mark[p]
            /\ high_water_mark'[p] = high_water_mark[p]
            /\ next_request_sequence'[p] = next_request_sequence[p]
            /\ posted_executes'[p] = posted_executes[p]
            /\ p \notin misread' => p \notin misread
    BY <1>9, <2>1 DEF restart, ServiceRestart, TypeOK, ServiceTypeOK
  <2>3. /\ stable_checkpoint'[n] = 0 /\ low_water_mark'[n] = 0
        /\ high_water_mark'[n] = high_water_interval
        /\ local_unstable_checkpoints'[n] = {} /\ posted_executes'[n] = {}
        /\ next_request_sequence'[n] = 1 /\ unstable_checkpoint_proofs'[n] = NoProofs
    BY <1>9, <2>1, Zenon DEF restart, ServiceRestart, TypeOK, ServiceTypeOK
  <2>4. high_water_interval \in Nat
    BY PbftAssumption DEF high_water_interval
  <2>5. PeerCheckpoints(n)'
    BY <2>3, <2>4 DEF PeerCheckpoints, NoProofs
  <2>6. ASSUME NEW p \in Peers \ {n} PROVE PeerCheckpoints(p)'
    BY <2>2, <2>6 DEF PeerCheckpoints, CheckpointInvariant
  <2>7. \A p \in Peers : stable_checkpoint[p] \in Nat
    BY SequenceTypes, Zenon
  <2>8. CheckpointInvariant'
    BY <2>5, <2>6, Zenon DEF CheckpointInvariant
  <2>9. \A p \in Peers \ {n} : stable_checkpoint'[p] >= stable_checkpoint[p]
    BY <2>2, <2>7
  <2>. QED
    BY <2>8, <2>9, Zenon
<1>. QED
  BY <1>4, <1>8, <1>9, StepKinds, Zenon DEF Rests

\* The invariant holds at the start.
LEMMA InitCheckpoint == Init => CheckpointInvariant
<1>1. high_water_interval \in Nat
  BY PbftAssumption DEF high_water_interval
<1>. QED
  BY <1>1 DEF Init, ServiceInit, CheckpointInvariant, PeerCheckpoints, NoProofs

\* CheckpointInvariant is inductive on top of the types, whatever the schedule of
\* messages, execute handlers and restarts.
THEOREM CheckpointInvariance == Spec => [](TypeOK /\ CheckpointInvariant)
<1>1. Init => TypeOK /\ CheckpointInvariant
  BY InitTypeOK, InitCheckpoint, Zenon
<1>2. TypeOK /\ CheckpointInvariant /\ [Next]_vars => (TypeOK /\ CheckpointInvariant)'
  BY NextTypeOK, NextCheckpoint, Zenon
<1>. QED
  BY <1>1, <1>2, PTL DEF Spec

\* maybe_stabilize_checkpoint: a peer has executed what its stable checkpoint covers, in
\* any order of messages and execute handlers, and the water marks are those of the
\* stable checkpoint unless the peer has read another number from the checkpoint that
\* clear_local_checkpoints_until had freed.
THEOREM WaterMarksAlwaysFollow == Spec => []WaterMarksFollow
<1>1. CheckpointInvariant => WaterMarksFollow
  BY Zenon DEF CheckpointInvariant, PeerCheckpoints, WaterMarksFollow
<1>. QED
  BY <1>1, CheckpointInvariance, PTL

\* No execute handler or checkpoint message that comes late takes the stable checkpoint
\* of a peer back, unless the peer has misread one and kept proofs it should have cleared.
THEOREM StableCheckpointsAdvance == Spec => StableCheckpointAdvances
<1>1. TypeOK /\ CheckpointInvariant /\ [Next]_vars
          => [\A n \in Peers \ (MayRestart \cup misread) :
                  stable_checkpoint'[n] >= stable_checkpoint[n]]_vars
  BY NextCheckpoint, Zenon
<1>. QED
  BY <1>1, CheckpointInvariance, PTL DEF Spec, StableCheckpointAdvances

-----------------------------------------------------------------------------
(***************************************************************************)
(* Without restarts, whoever sends a checkpoint message has executed up to *)
(* it, and so have those whose messages were counted.                      *)
(***************************************************************************)
ProofsHeld ==
    \A n \in Peers, s \in SequenceNumbers : \A q \in unstable_checkpoint_proofs[n][s] :
        s < next_request_sequence[q]

MessagesHeld ==
    \A m \in network : m.type = "checkpoint" => m.sequence < next_request_sequence[m.sender]

HeldInvariant == MessagesHeld /\ ProofsHeld /\ StableCheckpointHeld

LEMMA StillBefore == \A a, b, c \in Nat : a < b /\ c >= b => a < c
  OBVIOUS

\* What broadcast says, and who says it.
LEMMA BroadcastSays ==
    ASSUME NEW n, NEW type, NEW s, NEW r, NEW x \in broadcast(n, type, s, r)
    PROVE  x.type = type /\ x.sequence = s /\ x.sender = n
  BY DEF broadcast

\* The checkpoints stay as they are, and the peers at most execute more.
LEMMA HeldKept ==
    ASSUME TypeOK, HeldInvariant,
           UNCHANGED <<stable_checkpoint, unstable_checkpoint_proofs>>,
           \A p \in Peers : /\ next_request_sequence'[p] \in Nat
                            /\ next_request_sequence'[p] >= next_request_sequence[p]
    PROVE  ProofsHeld' /\ StableCheckpointHeld'
<1>1. /\ stable_checkpoint' = stable_checkpoint
      /\ unstable_checkpoint_proofs' = unstable_checkpoint_proofs
  BY Zenon
<1>2. \A p \in Peers : next_request_sequence[p] \in Nat /\ stable_checkpoint[p] \in Nat
  BY SequenceTypes, Zenon
<1>3. ProofsHeld'
  <2> SUFFICES ASSUME NEW n \in Peers, NEW s \in SequenceNumbers,
                      NEW q \in unstable_checkpoint_proofs[n][s]
               PROVE  s < next_request_sequence'[q]
    <3>1. \A n1 \in Peers, s1 \in SequenceNumbers : \A q1 \in unstable_checkpoint_proofs[n1][s1] :
              s1 < next_request_sequence'[q1]
      BY Zenon
    <3>. QED
      BY <1>1, <3>1, Zenon DEF ProofsHeld
  <2>1. q \in Peers /\ s \in Nat
    <3>1. unstable_checkpoint_proofs \in [Peers -> [SequenceNumbers -> SUBSET Peers]]
      BY Zenon DEF TypeOK
    <3>2. unstable_checkpoint_proofs[n][s] \in SUBSET Peers
      BY <3>1, Zenon
    <3>. QED
      BY <3>2 DEF SequenceNumbers
  <2>2. s < next_request_sequence[q]
    BY Zenon DEF HeldInvariant, ProofsHeld
  <2>3. /\ next_request_sequence[q] \in Nat /\ next_request_sequence'[q] \in Nat
        /\ next_request_sequence'[q] >= next_request_sequence[q]
    BY <1>2, <2>1, Zenon
  <2>. QED
    BY <2>1, <2>2, <2>3, StillBefore, Zenon
<1>4. ASSUME NEW n \in Peers, stable_checkpoint[n] > 0
      PROVE  \E Q \in SUBSET Peers : /\ Cardinality(Q) >= 2 * max_faulty_nodes + 1
                                     /\ \A q \in Q : next_request_sequence'[q] > stable_checkpoint[n]
  <2>1. PICK Q \in SUBSET Peers :
            /\ Cardinality(Q) >= 2 * max_faulty_nodes + 1
            /\ \A q \in Q : next_request_sequence[q] > stable_checkpoint[n]
    BY <1>4, Zenon DEF HeldInvariant, StableCheckpointHeld
  <2>2. \A q \in Q : next_request_sequence'[q] > stable_checkpoint[n]
    BY <1>2, <2>1
  <2>. QED
    BY <2>1, <2>2, Zenon
<1>5. StableCheckpointHeld'
  BY <1>1, <1>4, Zenon DEF StableCheckpointHeld
<1>. QED
  BY <1>3, <1>5, Zenon

\* A checkpoint is recorded or made stable on the word of those who have reached it.
LEMMA HeldStabilizes ==
    ASSUME TypeOK, HeldInvariant, NEW n \in Peers, NEW cp \in SequenceNumbers,
           NEW local, NEW proofs \in [SequenceNumbers -> SUBSET Peers],
           \A s \in SequenceNumbers : \A q \in proofs[s] : s < next_request_sequence[q],
           NEW reads, maybe_stabilize_checkpoint(n, cp, local, proofs, reads),
           next_request_sequence' = next_request_sequence
    PROVE  ProofsHeld' /\ StableCheckpointHeld'
<1>1. /\ \A p \in Peers \ {n} : unstable_checkpoint_proofs'[p] = unstable_checkpoint_proofs[p]
      /\ \A s \in SequenceNumbers : unstable_checkpoint_proofs'[n][s] \subseteq proofs[s]
  <2>1. PICK kept : /\ kept = proofs \/ \E until : kept = clear_checkpoint_messages_until(proofs, until)
                    /\ unstable_checkpoint_proofs' = [unstable_checkpoint_proofs EXCEPT ![n] = kept]
    BY Zenon DEF maybe_stabilize_checkpoint, stabilize, record_checkpoint
  <2>2. \A s \in SequenceNumbers : kept[s] \subseteq proofs[s]
    BY <2>1, Zenon DEF clear_checkpoint_messages_until
  <2>3. /\ unstable_checkpoint_proofs'[n] = kept
        /\ \A p \in Peers \ {n} : unstable_checkpoint_proofs'[p] = unstable_checkpoint_proofs[p]
    BY <2>1, Zenon DEF TypeOK
  <2>. QED
    BY <2>2, <2>3, Zenon
<1>2. ProofsHeld'
  BY <1>1, Zenon DEF HeldInvariant, ProofsHeld
<1>3. CASE record_checkpoint(n, local, proofs)
  <2>1. stable_checkpoint' = stable_checkpoint
    BY <1>3, Zenon DEF record_checkpoint
  <2>. QED
    BY <1>2, <2>1, Zenon DEF HeldInvariant, StableCheckpointHeld
<1>4. CASE stabilize(n, cp, local, proofs, reads) /\ Cardinality(proofs[cp]) >= quorum_size
  <2>1. \A p \in Peers : stable_checkpoint'[p] = IF p = n THEN cp ELSE stable_checkpoint[p]
    BY <1>4, Zenon DEF stabilize, TypeOK
  <2>2. \A q \in proofs[cp] : next_request_sequence[q] > cp
    <3>1. \A q \in proofs[cp] : cp < next_request_sequence[q]
      BY Zenon
    <3>2. cp \in Nat /\ \A q \in proofs[cp] : next_request_sequence[q] \in Nat
      BY SequenceTypes DEF SequenceNumbers
    <3>. QED
      BY <3>1, <3>2, Zenon
  <2>3. proofs[cp] \in SUBSET Peers /\ Cardinality(proofs[cp]) >= 2 * max_faulty_nodes + 1
    <3>1. quorum_size = 2 * max_faulty_nodes + 1
      BY QuorumNotEmpty DEF quorum_size
    <3>. QED
      BY <1>4, <3>1, Zenon
  <2>4. StableCheckpointHeld'
    BY <2>1, <2>2, <2>3, Zenon DEF HeldInvariant, StableCheckpointHeld
  <2>. QED
    BY <1>2, <2>4, Zenon
<1>. QED
  BY <1>3, <1>4, Zenon DEF maybe_stabilize_checkpoint

\* What a step puts on the network is not a checkpoint message.
NoneAnnounced == \A m \in network' : m.type = "checkpoint" => m \in network

\* A message of one of the phases is answered by prepares and commits.
LEMMA PhaseAnnouncesNone ==
    ASSUME NEW n \in Peers, NEW m, NEW others \in SUBSET network,
           handle_phase_message(n, m, others)
    PROVE  NoneAnnounced
<1>1. /\ \A s, r : \A x \in broadcast(n, "prepare", s, r) : x.type = "prepare"
      /\ \A s, r : \A x \in broadcast(n, "commit", s, r) : x.type = "commit"
  BY BroadcastSays
<1>2. ASSUME NEW s, NEW r, NEW op, NEW store, NEW rest,
             maybe_advance_operation_state(n, s, r, op, store, rest)
      PROVE  network' \subseteq rest \cup broadcast(n, "commit", s, r)
  BY <1>2, Zenon DEF maybe_advance_operation_state, advance
<1>3. \E s, r : network' \subseteq others \cup broadcast(n, "prepare", s, r)
                                         \cup broadcast(n, "commit", s, r)
  BY <1>2 DEF handle_phase_message, handle_preprepare, handle_prepare, handle_commit
<1>. QED
  BY <1>1, <1>3, Zenon DEF NoneAnnounced

\* A request is proposed with preprepares, or forwarded.
LEMMA RequestAnnouncesNone ==
    ASSUME NEW n \in Peers, NEW r, NEW others \in SUBSET network,
           handle_request(n, r, others) \/ issue(n, r, others)
    PROVE  NoneAnnounced
<1>1. \A s : \A x \in broadcast(n, "preprepare", s, r) : x.type = "preprepare"
  BY BroadcastSays
<1>2. CASE issue(n, r, others)
  BY <1>1, <1>2, Zenon DEF issue, NoneAnnounced
<1>3. CASE network' = others \cup {[type |-> "request", sequence |-> 0, request |-> r,
                                    sender |-> n, dest |-> Primary]}
  BY <1>3 DEF NoneAnnounced
<1>. QED
  BY <1>2, <1>3, Zenon DEF handle_request

\* Nothing about the checkpoints changes, and the peers at most execute more.
LEMMA QuietHeld ==
    ASSUME TypeOK, HeldInvariant, UNCHANGED checkpointVars, NoneAnnounced,
           \A p \in Peers : /\ next_request_sequence'[p] \in Nat
                            /\ next_request_sequence'[p] >= next_request_sequence[p]
    PROVE  HeldInvariant'
<1>1. UNCHANGED <<stable_checkpoint, unstable_checkpoint_proofs>>
  BY Zenon DEF checkpointVars
<1>2. ASSUME NEW m \in network', m.type = "checkpoint"
      PROVE  m.sequence < next_request_sequence'[m.sender]
  <2>1. m \in network /\ m \in Messages
    BY <1>2, Zenon DEF NoneAnnounced, TypeOK
  <2>2. m.sender \in Peers /\ m.sequence \in Nat
    BY <1>2, <2>1 DEF Messages, PhaseMessages, SequenceNumbers
  <2>3. m.sequence < next_request_sequence[m.sender]
    BY <1>2, <2>1, Zenon DEF HeldInvariant, MessagesHeld
  <2>4. /\ next_request_sequence[m.sender] \in Nat /\ next_request_sequence'[m.sender] \in Nat
        /\ next_request_sequence'[m.sender] >= next_request_sequence[m.sender]
    BY <2>2 DEF TypeOK, ServiceTypeOK
  <2>. QED
    BY <2>2, <2>3, <2>4, StillBefore, Zenon
<1>3. MessagesHeld'
  BY <1>2, Zenon DEF MessagesHeld
<1>. QED
  BY <1>1, <1>3, HeldKept, Zenon DEF HeldInvariant

\* A checkpoint message is counted for a sender that has reached the checkpoint.
LEMMA CheckpointHeld ==
    ASSUME TypeOK, HeldInvariant, NEW n \in Peers, NEW m \in network, m.type = "checkpoint",
           handle_checkpoint(n, m, network \ {m})
    PROVE  HeldInvariant'
<1>1. m.sequence \in SequenceNumbers /\ m.sender \in Peers
  BY Zenon DEF TypeOK, Messages, PhaseMessages
<1>2. next_request_sequence' = next_request_sequence /\ network' = network \ {m}
  BY Zenon DEF handle_checkpoint, serviceVars
<1>3. MessagesHeld'
  BY <1>2, Zenon DEF HeldInvariant, MessagesHeld
<1>4. \A p \in Peers : next_request_sequence[p] \in Nat
  BY SequenceTypes, Zenon
<1>5. CASE m.sequence <= stable_checkpoint[n]
  <2>1. UNCHANGED checkpointVars /\ NoneAnnounced
    BY <1>2, <1>5, Zenon DEF handle_checkpoint, NoneAnnounced
  <2>. QED
    BY <1>2, <1>4, <2>1, QuietHeld
<1>6. CASE ~(m.sequence <= stable_checkpoint[n])
  <2> DEFINE old == unstable_checkpoint_proofs[n]
             proofs == [old EXCEPT ![m.sequence] = @ \cup {m.sender}]
  <2>1. old \in [SequenceNumbers -> SUBSET Peers]
    BY Zenon DEF TypeOK
  <2>2. maybe_stabilize_checkpoint(n, m.sequence, local_unstable_checkpoints[n], proofs,
                                   {m.sequence})
    BY <1>6, Zenon DEF handle_checkpoint
  <2>3. \A s \in SequenceNumbers : \A q \in old[s] : s < next_request_sequence[q]
    BY Zenon DEF HeldInvariant, ProofsHeld
  <2>4. m.sequence < next_request_sequence[m.sender]
    BY Zenon DEF HeldInvariant, MessagesHeld
  <2>. HIDE DEF old
  <2>5. /\ proofs \in [SequenceNumbers -> SUBSET Peers]
        /\ \A s \in SequenceNumbers : \A q \in proofs[s] :
               q \in old[s] \/ (s = m.sequence /\ q = m.sender)
    BY <1>1, <2>1, Zenon
  <2>6. \A s \in SequenceNumbers : \A q \in proofs[s] : s < next_request_sequence[q]
    BY <2>3, <2>4, <2>5, Zenon
  <2>. HIDE DEF proofs
  <2>. QED
    BY <1>1, <1>2, <1>3, <2>2, <2>5, <2>6, HeldStabilizes, Zenon DEF HeldInvariant
<1>. QED
  BY <1>5, <1>6, Zenon

\* A replica announces a checkpoint it has executed.
LEMMA ExecuteHeld ==
    ASSUME TypeOK, CheckpointInvariant, HeldInvariant, NEW n \in Peers,
           NEW s \in SequenceNumbers, execute_handler(n, s)
    PROVE  HeldInvariant'
<1>1. next_request_sequence' = next_request_sequence
  BY Zenon DEF execute_handler
<1>2. \A p \in Peers : next_request_sequence[p] \in Nat
  BY SequenceTypes, Zenon
<1>3. CASE UNCHANGED <<operations, checkpointVars, network>>
  <2>1. UNCHANGED checkpointVars /\ NoneAnnounced
    BY <1>3, Zenon DEF NoneAnnounced
  <2>. QED
    BY <1>1, <1>2, <2>1, QuietHeld
<1>4. CASE checkpoint_reached_locally(n, s)
  <2>1. s < next_request_sequence[n]
    BY Zenon DEF execute_handler, CheckpointInvariant, PeerCheckpoints
  <2>2. \A m \in network' : m \in network \/ (m.sequence = s /\ m.sender = n)
    BY <1>4, BroadcastSays DEF checkpoint_reached_locally
  <2>3. MessagesHeld'
    BY <1>1, <2>1, <2>2, Zenon DEF HeldInvariant, MessagesHeld
  <2>4. PICK local, proofs, reads : /\ proofs = unstable_checkpoint_proofs[n]
                                    /\ maybe_stabilize_checkpoint(n, s, local, proofs, reads)
    BY <1>4, Zenon DEF checkpoint_reached_locally
  <2>5. /\ proofs \in [SequenceNumbers -> SUBSET Peers]
        /\ \A k \in SequenceNumbers : \A q \in proofs[k] : k < next_request_sequence[q]
    BY <2>4, Zenon DEF HeldInvariant, ProofsHeld, TypeOK
  <2>. QED
    BY <1>1, <2>3, <2>4, <2>5, HeldStabilizes, Zenon DEF HeldInvariant
<1>. QED
  BY <1>3, <1>4, Zenon DEF execute_handler

\* Without restarts every step keeps the invariant.
LEMMA NextHeld ==
    ASSUME MayRestart = {}, TypeOK, CheckpointInvariant, HeldInvariant, [Next]_vars
    PROVE  HeldInvariant'
<1>0. TypeOK'
  BY NextTypeOK, Zenon
<1>1. \A p \in Peers : next_request_sequence[p] \in Nat /\ next_request_sequence'[p] \in Nat
  <2>1. next_request_sequence \in [Peers -> 1..(MaxSequence + 1)] /\ MaxSequence \in Nat
    BY ServiceAssumption, Zenon DEF TypeOK, ServiceTypeOK
  <2>2. next_request_sequence' \in [Peers -> 1..(MaxSequence + 1)]
    BY <1>0, Zenon DEF TypeOK, ServiceTypeOK
  <2>. QED
    BY <2>1, <2>2
<1>2. ASSUME UNCHANGED checkpointVars, NoneAnnounced,
             next_request_sequence' = next_request_sequence
      PROVE  HeldInvariant'
  BY <1>1, <1>2, QuietHeld
<1>3. CASE UNCHANGED vars
  BY <1>2, <1>3, Zenon DEF vars, serviceVars, NoneAnnounced
<1>4. ASSUME NEW n \in Peers, NEW r, handle_database_message(n, r) \/ handle_join_or_leave(n, r)
      PROVE  HeldInvariant'
  <2>1. handle_request(n, r, network) \/ issue(n, r, network)
    BY <1>4, Zenon DEF handle_database_message, handle_join_or_leave
  <2>2. UNCHANGED checkpointVars /\ next_request_sequence' = next_request_sequence
    BY <1>4, Zenon DEF handle_database_message, handle_join_or_leave, handle_request, serviceVars
  <2>. QED
    BY <1>2, <2>1, <2>2, RequestAnnouncesNone, Zenon
<1>5. ASSUME NEW n \in Peers, NEW m \in network, handle_forwarded_request(n, m)
      PROVE  HeldInvariant'
  <2>1. handle_request(n, m.request, network \ {m})
    BY <1>5, Zenon DEF handle_forwarded_request
  <2>2. UNCHANGED checkpointVars /\ next_request_sequence' = next_request_sequence
    BY <2>1, Zenon DEF handle_request, serviceVars
  <2>. QED
    BY <1>2, <2>1, <2>2, RequestAnnouncesNone, Zenon
<1>6. ASSUME NEW n \in Peers, NEW m, NEW others \in SUBSET network,
             handle_phase_message(n, m, others)
      PROVE  HeldInvariant'
  <2>1. UNCHANGED checkpointVars /\ next_request_sequence' = next_request_sequence
    BY <1>6, Zenon DEF handle_phase_message
  <2>. QED
    BY <1>2, <1>6, <2>1, PhaseAnnouncesNone, Zenon
<1>7. ASSUME NEW n \in Peers, NEW m \in network, handle_message(n, m) PROVE HeldInvariant'
  <2>1. ASSUME UNCHANGED <<replicaVars, checkpointVars, past_filter, serviceVars>>,
               network' = network \ {m}
        PROVE  HeldInvariant'
    BY <1>2, <2>1, Zenon DEF serviceVars, NoneAnnounced
  <2>. QED
    BY <1>6, <1>7, <2>1, CheckpointHeld, Zenon DEF handle_message
<1>8. ASSUME NEW n \in Peers, NEW m \in network, pass_filter(n, m) PROVE HeldInvariant'
  BY <1>2, <1>8, Zenon DEF pass_filter, serviceVars, NoneAnnounced
<1>9. ASSUME NEW n \in Peers, handle_past_filter(n) PROVE HeldInvariant'
  BY <1>6, <1>9, Zenon DEF handle_past_filter
<1>10. ASSUME NEW n \in Peers, NEW s \in SequenceNumbers, NEW r \in Requests,
              run_apply_operation(n, s, r)
       PROVE  HeldInvariant'
  <2>1. apply_operation(n, s, r) /\ UNCHANGED checkpointVars /\ NoneAnnounced
    BY <1>10, Zenon DEF run_apply_operation, NoneAnnounced
  <2>. QED
    BY <1>1, <2>1, RunsForward, QuietHeld, Zenon
<1>11. ASSUME NEW n \in Peers, NEW s \in SequenceNumbers, execute_handler(n, s)
       PROVE  HeldInvariant'
  BY <1>11, ExecuteHeld, Zenon
<1>12. ASSUME NEW n \in Peers, work(n) PROVE HeldInvariant'
  BY <1>5, <1>7, <1>8, <1>9, <1>10, <1>11, <1>12, Zenon DEF work
<1>13. ASSUME NEW n \in Peers, client(n) PROVE HeldInvariant'
  BY <1>4, <1>13, Zenon DEF client
<1>. QED
  BY <1>3, <1>12, <1>13, Zenon DEF Next

\* Without restarts, a checkpoint that maybe_stabilize_checkpoint makes stable, and before
\* which the peer forgets everything, has been executed by 2f + 1 peers.
THEOREM StableCheckpointsHeld == MayRestart = {} => (Spec => []StableCheckpointHeld)
<1> SUFFICES ASSUME MayRestart = {} PROVE Spec => []StableCheckpointHeld
  BY Zenon
<1>1. Init => HeldInvariant
  <2> SUFFICES ASSUME Init PROVE HeldInvariant
    BY Zenon
  <2>1. MessagesHeld
    BY Zenon DEF Init, MessagesHeld
  <2>2. ProofsHeld
    BY Zenon DEF Init, NoProofs, ProofsHeld
  <2>3. StableCheckpointHeld
    BY DEF Init, StableCheckpointHeld
  <2>. QED
    BY <2>1, <2>2, <2>3, Zenon DEF HeldInvariant
<1>2. TypeOK /\ CheckpointInvariant /\ HeldInvariant /\ [Next]_vars => HeldInvariant'
  BY NextHeld, Zenon
<1>3. HeldInvariant => StableCheckpointHeld
  BY Zenon DEF HeldInvariant
<1>. QED
  BY <1>1, <1>2, <1>3, CheckpointInvariance, PTL DEF Spec

-----------------------------------------------------------------------------
(* Late messages *)

(***************************************************************************)
(* After a checkpoint has cleared an operation, a handler that was past    *)
(* the filter may make a new record of it and count its one message; the   *)
(* filter stops all that come later.  One message is either a preprepare   *)
(* or a prepare, so the record never gets out of its first phase.          *)
(***************************************************************************)
PeerLate(n) ==
    \A s \in SequenceNumbers, r \in Requests : s <= low_water_mark[n] =>
        /\ operations[n][s][r].state \in {"none", "prepare"}
        /\ operations[n][s][r].preprepare_seen => operations[n][s][r].prepares_seen = {}
        /\ past_filter[n] # NoMessage /\ past_filter[n].sequence <= low_water_mark[n] =>
               ~operations[n][s][r].preprepare_seen /\ operations[n][s][r].prepares_seen = {}

LateInvariant == \A n \in Peers \ misread : PeerLate(n)

\* The bound is a number: there is at least one peer, the primary.
LEMMA FaultyNodesBound == faulty_nodes_bound \in Nat
<1>1. N \in Nat /\ N # 0
  BY ServiceAssumption, Zenon DEF N
<1>2. N - 1 \in Nat
  BY <1>1
<1>. QED
  BY <1>2 DEF faulty_nodes_bound

\* How an operation moves through its phases.
LEMMA AdvancedPhase ==
    ASSUME NEW op \in Operations
    PROVE  /\ op.state = "prepare" /\ (op.preprepare_seen => op.prepares_seen = {})
                  => advanced(op).state = "prepare"
           /\ op.state = "committed" => advanced(op).state = "committed"
           /\ advanced(op).state \in {"commit", "committed"}
                  => op.state \in {"commit", "committed"} \/ op.preprepare_seen
<1>1. op.prepares_seen = {} => ~is_prepared(op)
  BY FaultyNodesBound, NoVotes DEF is_prepared
<1>2. op.state = "prepare" /\ (op.preprepare_seen => op.prepares_seen = {})
          => begin_commit_phase(op) = op
  BY <1>1, Zenon DEF begin_commit_phase, is_prepared
<1>3. op.state # "prepare" => begin_commit_phase(op) = op
  BY Zenon DEF begin_commit_phase
<1>4. op.state # "commit" => end_commit_phase(op) = op
  BY Zenon DEF end_commit_phase
<1>5. ~op.preprepare_seen => begin_commit_phase(op) = op
  BY Zenon DEF begin_commit_phase, is_prepared
<1>. QED
  BY <1>2, <1>3, <1>4, <1>5, Zenon DEF advanced, Operations

\* The record a message of one of the phases leaves before it is advanced: one
\* kind of vote of the old record is added to.
Counted(old, op) ==
    /\ op \in Operations /\ op.state = old.state
    /\ old.preprepare_seen => op.preprepare_seen
    /\ op.preprepare_seen = old.preprepare_seen \/ op.prepares_seen = old.prepares_seen

Advances(n, s, r, op) ==
    /\ operations' = [operations EXCEPT ![n][s][r] = advanced(op)]
    /\ \/ posted_applies' = posted_applies
       \/ /\ posted_applies' = [posted_applies EXCEPT ![n] = @ \cup {<<s, r>>}]
          /\ advanced(op).state = "committed" /\ op.state # "committed"

LEMMA AdvancePosts ==
    ASSUME TypeOK, NEW n \in Peers, NEW s, NEW r, NEW op \in Operations, NEW store, NEW others,
           maybe_advance_operation_state(n, s, r, op, store, others)
    PROVE  Advances(n, s, r, op)
<1> DEFINE prepared == begin_commit_phase(op)
           done == end_commit_phase(prepared)
<1>1. /\ operations' = [operations EXCEPT ![n][s][r] = done]
      /\ posted_applies' = [posted_applies EXCEPT ![n] =
                               IF done.state # prepared.state THEN @ \cup {<<s, r>>} ELSE @]
  BY Zenon DEF maybe_advance_operation_state, advance
<1>2. done.state # prepared.state => done.state = "committed" /\ op.state # "committed"
  <2>1. prepared \in Operations
    BY PhaseType, Zenon
  <2>2. op.state = "committed" => prepared = op
    BY Zenon DEF begin_commit_phase
  <2>3. done.state # prepared.state => done.state = "committed" /\ prepared.state = "commit"
    BY <2>1, Zenon DEF end_commit_phase, Operations
  <2>. QED
    BY <2>2, <2>3, Zenon
<1>3. done = advanced(op)
  BY Zenon DEF advanced
<1>. HIDE DEF prepared, done
<1>4. CASE done.state # prepared.state
  BY <1>1, <1>2, <1>3, <1>4, Zenon DEF Advances
<1>5. CASE done.state = prepared.state
  BY <1>1, <1>3, <1>5, Zenon DEF Advances, TypeOK, ServiceTypeOK
<1>. QED
  BY <1>4, <1>5, Zenon

\* A message of one of the phases is dropped or counts.
LEMMA PhaseCounts ==
    ASSUME TypeOK, NEW n \in Peers, NEW m \in PhaseMessages, NEW others,
           handle_phase_message(n, m, others)
    PROVE  \/ UNCHANGED <<operations, posted_applies>>
           \/ \E op : /\ Counted(find_operation(n, m.sequence, m.request), op)
                      /\ Advances(n, m.sequence, m.request, op)
<1> DEFINE s == m.sequence
           r == m.request
           old == find_operation(n, s, r)
<1>1. s \in SequenceNumbers /\ r \in Requests /\ m.sender \in Peers
  BY Zenon DEF PhaseMessages
<1>2. old \in Operations
  BY <1>1, FindOperationType, Zenon
<1>3. CASE handle_preprepare(n, m, others)
  <2> DEFINE op == [old EXCEPT !.preprepare_seen = TRUE]
  <2>1. \/ UNCHANGED <<operations, posted_applies>>
        \/ \E store, sent : maybe_advance_operation_state(n, s, r, op, store, sent)
    BY <1>3, Zenon DEF handle_preprepare
  <2>2. op \in Operations /\ Counted(old, op)
    BY <1>2, Zenon DEF Counted, Operations
  <2>. HIDE DEF op, old, s, r
  <2>3. UNCHANGED <<operations, posted_applies>> \/ Advances(n, s, r, op)
    BY <2>1, <2>2, AdvancePosts, Zenon
  <2>. QED
    BY <2>2, <2>3, Zenon DEF old, s, r
<1>4. CASE handle_prepare(n, m, others)
  <2> DEFINE op == [old EXCEPT !.prepares_seen = @ \cup {m.sender}]
  <2>1. \E store, sent : maybe_advance_operation_state(n, s, r, op, store, sent)
    BY <1>4, Zenon DEF handle_prepare
  <2>2. op \in Operations /\ Counted(old, op)
    BY <1>1, <1>2, Zenon DEF Counted, Operations
  <2>. HIDE DEF op, old, s, r
  <2>3. Advances(n, s, r, op)
    BY <2>1, <2>2, AdvancePosts, Zenon
  <2>. QED
    BY <2>2, <2>3, Zenon DEF old, s, r
<1>5. CASE handle_commit(n, m, others)
  <2> DEFINE op == [old EXCEPT !.commits_seen = @ \cup {m.sender}]
  <2>1. \E store, sent : maybe_advance_operation_state(n, s, r, op, store, sent)
    BY <1>5, Zenon DEF handle_commit
  <2>2. op \in Operations /\ Counted(old, op)
    BY <1>1, <1>2, Zenon DEF Counted, Operations
  <2>. HIDE DEF op, old, s, r
  <2>3. Advances(n, s, r, op)
    BY <2>1, <2>2, AdvancePosts, Zenon
  <2>. QED
    BY <2>2, <2>3, Zenon DEF old, s, r
<1>. QED
  BY <1>3, <1>4, <1>5, Zenon DEF handle_phase_message

\* A peer for which nothing changes that PeerLate speaks of, but that its handler is done.
LEMMA LateKept ==
    ASSUME NEW p \in Peers, PeerLate(p),
           operations'[p] = operations[p], low_water_mark'[p] = low_water_mark[p],
           past_filter'[p] \in {past_filter[p], NoMessage}
    PROVE  PeerLate(p)'
  BY DEF PeerLate

\* A message counts, before or after the checkpoint that covers it.
LEMMA VoteLate ==
    ASSUME TypeOK, LateInvariant, NEW n \in Peers, n \notin misread,
           NEW m \in PhaseMessages, Votes(n, m)
    PROVE  LateInvariant'
<1> DEFINE s == m.sequence
           r == m.request
           old == find_operation(n, s, r)
<1>1. PICK others : handle_phase_message(n, m, others)
  BY Zenon DEF Votes
<1>2. low_water_mark' = low_water_mark /\ misread' = misread
  BY <1>1, Zenon DEF handle_phase_message, checkpointVars
<1>3. \A p \in Peers : past_filter'[p] \in {past_filter[p], NoMessage}
  BY Zenon DEF Votes, TypeOK
<1>4. past_filter'[n] = NoMessage
  BY Zenon DEF Votes, TypeOK
<1>5. s \in SequenceNumbers /\ r \in Requests
  BY Zenon DEF PhaseMessages
<1>6. CASE UNCHANGED operations
  BY <1>2, <1>3, <1>6, LateKept, Zenon DEF LateInvariant
<1>7. ASSUME NEW op, Counted(old, op), Advances(n, s, r, op)
      PROVE  LateInvariant'
  <2>1. operations' = [operations EXCEPT ![n][s][r] = advanced(op)] /\ op \in Operations
    BY <1>7, Zenon DEF Advances, Counted
  <2>2. ASSUME NEW p \in Peers \ misread, p # n PROVE PeerLate(p)'
    <3>1. operations'[p] = operations[p]
      BY <2>1, <2>2, Zenon DEF TypeOK
    <3>. QED
      BY <1>2, <1>3, <3>1, LateKept, Zenon DEF LateInvariant
  <2>3. ASSUME s <= low_water_mark[n]
        PROVE  /\ advanced(op).state = "prepare"
               /\ advanced(op).preprepare_seen => advanced(op).prepares_seen = {}
    <3>1. past_filter[n] = m /\ past_filter[n] # NoMessage
      BY <1>5, <2>3 DEF Votes, TypeOK, SequenceNumbers
    <3>2. /\ operations[n][s][r].state \in {"none", "prepare"}
          /\ ~operations[n][s][r].preprepare_seen /\ operations[n][s][r].prepares_seen = {}
      BY <1>5, <2>3, <3>1 DEF LateInvariant, PeerLate
    <3>3. old.state = "prepare" /\ ~old.preprepare_seen /\ old.prepares_seen = {}
      BY <3>2, Zenon DEF find_operation, new_operation, NoOperation
    <3>. HIDE DEF old, s, r
    <3>4. op.state = "prepare" /\ (op.preprepare_seen => op.prepares_seen = {})
      BY <1>7, <3>3, Zenon DEF Counted
    <3>. QED
      BY <2>1, <3>4, AdvancedPhase, AdvancedKeepsVotes, Zenon
  <2>4. ASSUME NEW t \in SequenceNumbers, NEW q \in Requests, ~(t = s /\ q = r)
        PROVE  operations'[n][t][q] = operations[n][t][q]
    BY <1>5, <2>1, <2>4 DEF TypeOK
  <2>5. operations'[n][s][r] = advanced(op)
    BY <1>5, <2>1 DEF TypeOK
  <2>. HIDE DEF s, r, old
  <2>6. PeerLate(n)'
    <3> SUFFICES ASSUME NEW t \in SequenceNumbers, NEW q \in Requests, t <= low_water_mark[n]
                 PROVE  /\ operations'[n][t][q].state \in {"none", "prepare"}
                        /\ operations'[n][t][q].preprepare_seen
                               => operations'[n][t][q].prepares_seen = {}
      BY <1>2, <1>4, Zenon DEF PeerLate
    <3>1. CASE t = s /\ q = r
      BY <2>3, <2>5, <3>1, Zenon
    <3>2. CASE ~(t = s /\ q = r)
      BY <2>4, <3>2 DEF LateInvariant, PeerLate
    <3>. QED
      BY <3>1, <3>2, Zenon
  <2>. QED
    BY <1>2, <2>2, <2>6, Zenon DEF LateInvariant
<1>. QED
  BY <1>1, <1>6, <1>7, PhaseCounts, Zenon

\* A checkpoint that becomes stable clears what it covers.
LEMMA ReachesLate ==
    ASSUME TypeOK, CheckpointInvariant, LateInvariant, NEW n \in Peers,
           NEW cp \in SequenceNumbers, NEW local, NEW proofs, Reaches(n, cp, local, proofs)
    PROVE  LateInvariant'
<1>1. n \notin misread /\ past_filter' = past_filter
  BY Zenon DEF Reaches
<1>2. CASE record_checkpoint(n, local, proofs)
  <2>1. operations' = operations /\ low_water_mark' = low_water_mark /\ misread' = misread
    BY <1>2, Zenon DEF record_checkpoint
  <2>. QED
    BY <1>1, <2>1, LateKept, Zenon DEF LateInvariant
<1>3. CASE Stabilized(n, cp, local, proofs)
  <2>1. /\ low_water_mark' = [low_water_mark EXCEPT ![n] = cp]
        /\ operations' = [operations EXCEPT ![n] = clear_operations_until(@, cp)]
        /\ misread' = misread
    <3>1. low_water_mark' = [low_water_mark EXCEPT ![n] = cp]
      BY <1>1, <1>3, WaterMarksMove, Zenon
    <3>2. /\ operations' = [operations EXCEPT ![n] = clear_operations_until(@, cp)]
          /\ misread' = misread
      BY <1>3, Zenon DEF Stabilized
    <3>. QED
      BY <3>1, <3>2, Zenon
  <2>2. ASSUME NEW p \in Peers \ misread, p # n PROVE PeerLate(p)'
    <3>1. operations'[p] = operations[p] /\ low_water_mark'[p] = low_water_mark[p]
      BY <2>1, <2>2, Zenon DEF TypeOK
    <3>. QED
      BY <1>1, <3>1, LateKept, Zenon DEF LateInvariant
  <2>3. low_water_mark'[n] = cp
        /\ operations'[n] = clear_operations_until(operations[n], cp)
    BY <2>1, Zenon DEF TypeOK
  <2>4. ASSUME NEW t \in SequenceNumbers, NEW q \in Requests, t <= cp
        PROVE  operations'[n][t][q] = NoOperation
    <3>1. ~(t > cp)
      BY <2>4 DEF SequenceNumbers
    <3>. QED
      BY <2>3, <3>1 DEF clear_operations_until
  <2>5. PeerLate(n)'
    BY <2>3, <2>4 DEF PeerLate, NoOperation
  <2>. QED
    BY <2>1, <2>2, <2>5, Zenon DEF LateInvariant
<1>. QED
  BY <1>2, <1>3, Zenon DEF Reaches

\* The record for a new proposal has no votes, unless there was one before.
LEMMA ProposalFacts ==
    ASSUME TypeOK, NEW n \in Peers, NEW s \in SequenceNumbers, NEW r \in Requests,
           Proposes(n, s, r)
    PROVE  \A p \in Peers, t \in SequenceNumbers, q \in Requests :
               \/ operations'[p][t][q] = operations[p][t][q]
               \/ operations[p][t][q].state = "none" /\ operations'[p][t][q] = new_operation
<1>1. operations' = [operations EXCEPT ![n][s][r] = find_operation(n, s, r)]
  BY Zenon DEF Proposes
<1>2. operations'[n][s][r] = find_operation(n, s, r)
  BY <1>1 DEF TypeOK
<1>3. \A p \in Peers, t \in SequenceNumbers, q \in Requests :
          ~(p = n /\ t = s /\ q = r) => operations'[p][t][q] = operations[p][t][q]
  BY <1>1 DEF TypeOK
<1>. QED
  BY <1>2, <1>3 DEF find_operation

\* A restart forgets all that PeerLate and PeerApplied speak of.
LEMMA RestartFacts ==
    ASSUME TypeOK, NEW n \in MayRestart, restart(n)
    PROVE  /\ n \in Peers
           /\ \A p \in Peers \ {n} :
                  /\ operations'[p] = operations[p]
                  /\ low_water_mark'[p] = low_water_mark[p]
                  /\ past_filter'[p] = past_filter[p]
                  /\ posted_applies'[p] = posted_applies[p]
                  /\ unstable_storage'[p] = unstable_storage[p]
                  /\ next_request_sequence'[p] = next_request_sequence[p]
                  /\ p \in failed' <=> p \in failed
           /\ misread' = misread \ {n} /\ n \notin failed'
           /\ operations'[n] = NoOperations /\ low_water_mark'[n] = 0
           /\ posted_applies'[n] = {} /\ unstable_storage'[n] = EmptyStorage
           /\ next_request_sequence'[n] = 1
<1>1. n \in Peers
  BY PbftAssumption, Zenon
<1>2. \A p \in Peers \ {n} :
          /\ operations'[p] = operations[p] /\ low_water_mark'[p] = low_water_mark[p]
          /\ past_filter'[p] = past_filter[p]
  BY <1>1, Zenon DEF restart, TypeOK
<1>3. \A p \in Peers \ {n} :
          /\ posted_applies'[p] = posted_applies[p]
          /\ unstable_storage'[p] = unstable_storage[p]
          /\ next_request_sequence'[p] = next_request_sequence[p]
          /\ p \in failed' <=> p \in failed
  BY <1>1, Zenon DEF restart, ServiceRestart, TypeOK, ServiceTypeOK
<1>4. /\ operations'[n] = NoOperations /\ low_water_mark'[n] = 0
      /\ misread' = misread \ {n} /\ n \notin failed'
  BY <1>1, Zenon DEF restart, ServiceRestart, TypeOK
<1>5. /\ posted_applies'[n] = {} /\ unstable_storage'[n] = EmptyStorage
      /\ next_request_sequence'[n] = 1
  BY <1>1, Zenon DEF restart, ServiceRestart, TypeOK, ServiceTypeOK
<1>. QED
  BY <1>1, <1>2, <1>3, <1>4, <1>5, Zenon

\* What a step of a peer that has misread a checkpoint leaves alone.
OnlyHere(n) ==
    /\ misread' = misread \cup {n}
    /\ \A p \in Peers \ {n} :
           /\ operations'[p] = operations[p]
           /\ low_water_mark'[p] = low_water_mark[p]
           /\ past_filter'[p] = past_filter[p]
           /\ posted_applies'[p] = posted_applies[p]
           /\ unstable_storage'[p] = unstable_storage[p]
           /\ next_request_sequence'[p] = next_request_sequence[p]
           /\ p \in failed' <=> p \in failed

LEMMA MisreadStaysHere ==
    ASSUME TypeOK, NEW n \in Peers, PeerStep(n), n \in misread \/ Misreads(n)
    PROVE  OnlyHere(n)
<1>1. CASE Misreads(n)
  BY <1>1, Zenon DEF Misreads, OnlyHere
<1>2. ASSUME n \in misread, UNCHANGED checkpointVars
      PROVE  misread' = misread \cup {n} /\ low_water_mark' = low_water_mark
  BY <1>2, Zenon DEF checkpointVars
<1>3. ASSUME Rests, n \in misread PROVE OnlyHere(n)
  BY <1>2, <1>3, Zenon DEF Rests, Nothing, OnlyHere
<1>4. ASSUME NEW m \in PhaseMessages, Passes(n, m), n \in misread PROVE OnlyHere(n)
  <2>1. \A p \in Peers \ {n} : past_filter'[p] = past_filter[p]
    BY <1>4, Zenon DEF Passes, TypeOK
  <2>. QED
    BY <1>2, <1>4, <2>1, Zenon DEF Passes, Nothing, OnlyHere
<1>5. ASSUME NEW m \in PhaseMessages, Votes(n, m), n \in misread PROVE OnlyHere(n)
  <2>1. PICK others : handle_phase_message(n, m, others)
    BY <1>5, Zenon DEF Votes
  <2>2. /\ UNCHANGED checkpointVars /\ unstable_storage' = unstable_storage
        /\ next_request_sequence' = next_request_sequence /\ failed' = failed
    BY <2>1, Zenon DEF handle_phase_message
  <2>3. \A p \in Peers \ {n} : past_filter'[p] = past_filter[p]
    BY <1>5, Zenon DEF Votes, TypeOK
  <2>4. \A p \in Peers \ {n} : /\ operations'[p] = operations[p]
                               /\ posted_applies'[p] = posted_applies[p]
    <3>1. CASE UNCHANGED <<operations, posted_applies>>
      BY <3>1, Zenon
    <3>2. CASE \E op : Advances(n, m.sequence, m.request, op)
      BY <3>2, Zenon DEF Advances, TypeOK, ServiceTypeOK
    <3>. QED
      BY <2>1, <3>1, <3>2, PhaseCounts, Zenon
  <2>. QED
    BY <1>2, <1>5, <2>2, <2>3, <2>4, Zenon DEF OnlyHere
<1>6. ASSUME NEW s \in SequenceNumbers, NEW r \in Requests, Proposes(n, s, r), n \in misread
      PROVE  OnlyHere(n)
  <2>1. \A p \in Peers \ {n} : operations'[p] = operations[p]
    BY <1>6, Zenon DEF Proposes, TypeOK
  <2>. QED
    BY <1>2, <1>6, <2>1, Zenon DEF Proposes, serviceVars, OnlyHere
<1>7. ASSUME NEW s \in SequenceNumbers, NEW r \in Requests, Runs(n, s, r), n \in misread
      PROVE  OnlyHere(n)
  <2>1. apply_operation(n, s, r)
    BY <1>7, Zenon DEF Runs
  <2>2. \A p \in Peers \ {n} : posted_applies'[p] = posted_applies[p]
    BY <2>1, Zenon DEF apply_operation, TypeOK, ServiceTypeOK
  <2>3. \A p \in Peers \ {n} : /\ unstable_storage'[p] = unstable_storage[p]
                               /\ next_request_sequence'[p] = next_request_sequence[p]
                               /\ p \in failed' <=> p \in failed
    <3>1. CASE unstable_storage[n][s] # NoRequest
      BY <2>1, <3>1, Zenon DEF apply_operation
    <3>2. CASE unstable_storage[n][s] = NoRequest
      <4>1. PICK from, stop : from = next_request_sequence[n] /\ Drains(n, s, r, from, stop)
        BY <2>1, <3>2, ApplyFacts, Zenon
      <4>. QED
        BY <4>1, Zenon DEF Drains, TypeOK, ServiceTypeOK
    <3>. QED
      BY <3>1, <3>2, Zenon
  <2>. QED
    BY <1>2, <1>7, <2>2, <2>3, Zenon DEF Runs, OnlyHere
<1>. QED
  BY <1>1, <1>3, <1>4, <1>5, <1>6, <1>7, Zenon DEF PeerStep, Reaches

\* Every step keeps LateInvariant.
LEMMA NextLate ==
    ASSUME TypeOK, CheckpointInvariant, LateInvariant, [Next]_vars
    PROVE  LateInvariant'
<1>1. ASSUME operations' = operations, low_water_mark' = low_water_mark,
             past_filter' = past_filter, misread' = misread
      PROVE  LateInvariant'
  BY <1>1, LateKept, Zenon DEF LateInvariant
<1>2. CASE Rests
  BY <1>1, <1>2, Zenon DEF Rests, Nothing, checkpointVars
<1>3. ASSUME NEW n \in Peers, n \notin misread, NEW m \in PhaseMessages, Passes(n, m)
      PROVE  LateInvariant'
  <2>1. /\ operations' = operations /\ low_water_mark' = low_water_mark /\ misread' = misread
        /\ low_water_mark[n] < m.sequence
        /\ past_filter' = [past_filter EXCEPT ![n] = m]
    BY <1>3, Zenon DEF Passes, Nothing, checkpointVars
  <2>2. ~(m.sequence <= low_water_mark[n]) /\ past_filter'[n] = m
    BY <2>1 DEF PhaseMessages, SequenceNumbers, TypeOK
  <2>3. PeerLate(n)'
    BY <1>3, <2>1, <2>2, Zenon DEF LateInvariant, PeerLate
  <2>4. ASSUME NEW p \in Peers \ misread, p # n PROVE PeerLate(p)'
    <3>1. past_filter'[p] = past_filter[p]
      BY <2>1, <2>4, Zenon DEF TypeOK
    <3>. QED
      BY <2>1, <3>1, LateKept, Zenon DEF LateInvariant
  <2>. QED
    BY <2>1, <2>3, <2>4, Zenon DEF LateInvariant
<1>4. ASSUME NEW n \in Peers, NEW s \in SequenceNumbers, NEW r \in Requests, Proposes(n, s, r)
      PROVE  LateInvariant'
  <2>1. low_water_mark' = low_water_mark /\ past_filter' = past_filter /\ misread' = misread
    BY <1>4, Zenon DEF Proposes, checkpointVars
  <2>2. \A p \in Peers, t \in SequenceNumbers, q \in Requests :
            \/ operations'[p][t][q] = operations[p][t][q]
            \/ operations[p][t][q].state = "none" /\ operations'[p][t][q] = new_operation
    BY <1>4, ProposalFacts, Zenon
  <2>3. /\ new_operation.state = "prepare" /\ ~new_operation.preprepare_seen
        /\ new_operation.prepares_seen = {}
    BY Zenon DEF new_operation, NoOperation
  <2>. QED
    BY <2>1, <2>2, <2>3 DEF LateInvariant, PeerLate
<1>5. ASSUME NEW n \in Peers, NEW s, NEW r, Runs(n, s, r) PROVE LateInvariant'
  BY <1>1, <1>5, Zenon DEF Runs, checkpointVars
<1>6. ASSUME NEW n \in MayRestart, restart(n) PROVE LateInvariant'
  <2>1. ASSUME NEW p \in Peers \ misread, p # n PROVE PeerLate(p)'
    BY <1>6, <2>1, RestartFacts, LateKept DEF LateInvariant
  <2>2. PeerLate(n)'
    BY <1>6, RestartFacts DEF PeerLate, SequenceNumbers
  <2>3. misread' = misread \ {n}
    BY <1>6, RestartFacts, Zenon
  <2>. QED
    BY <2>1, <2>2, <2>3, Zenon DEF LateInvariant
<1>7. ASSUME NEW n \in Peers, OnlyHere(n) PROVE LateInvariant'
  <2>1. ASSUME NEW p \in Peers \ misread' PROVE PeerLate(p)'
    <3>1. p # n /\ p \notin misread
      BY <1>7, Zenon DEF OnlyHere
    <3>. QED
      BY <1>7, <3>1, LateKept, Zenon DEF OnlyHere, LateInvariant
  <2>. QED
    BY <2>1, Zenon DEF LateInvariant
<1>8. ASSUME NEW n \in Peers, PeerStep(n) PROVE LateInvariant'
  <2>1. CASE n \in misread \/ Misreads(n)
    BY <1>7, <1>8, <2>1, MisreadStaysHere, Zenon
  <2>2. CASE n \notin misread /\ ~Misreads(n)
    BY <1>2, <1>3, <1>4, <1>5, <1>8, <2>2, VoteLate, ReachesLate, Zenon DEF PeerStep
  <2>. QED
    BY <2>1, <2>2, Zenon
<1>. QED
  BY <1>2, <1>6, <1>8, StepKinds, Zenon

\* LateInvariant is inductive on top of CheckpointInvariant.
THEOREM LateInvariance == Spec => [](TypeOK /\ CheckpointInvariant /\ LateInvariant)
<1>1. Init => LateInvariant
  BY DEF Init, LateInvariant, PeerLate, NoOperations, NoOperation
<1>2. TypeOK /\ CheckpointInvariant /\ LateInvariant /\ [Next]_vars => LateInvariant'
  BY NextLate, Zenon
<1>. QED
  BY <1>1, <1>2, CheckpointInvariance, PTL DEF Spec

\* preliminary_filter_msg reads the water marks outside of pbft_lock, and still no
\* operation that a checkpoint cleared gets through its phases again, unless the peer
\* misread what it cleared.
THEOREM ClearedAlwaysStaysCleared == Spec => []ClearedStaysCleared
<1>1. TypeOK /\ CheckpointInvariant /\ LateInvariant => ClearedStaysCleared
  <2> SUFFICES ASSUME TypeOK, CheckpointInvariant, LateInvariant, NEW n \in Peers \ misread,
                      NEW s \in 1..low_water_mark[n], NEW r \in Requests
               PROVE  operations[n][s][r].state \in {"none", "prepare"}
    BY Zenon DEF ClearedStaysCleared
  <2>1. low_water_mark[n] \in 0..MaxSequence /\ MaxSequence \in Nat
    BY ServiceAssumption, Zenon DEF TypeOK, CheckpointInvariant, PeerCheckpoints
  <2>2. s \in SequenceNumbers /\ s <= low_water_mark[n]
    BY <2>1 DEF SequenceNumbers
  <2>. QED
    BY <2>2, Zenon DEF LateInvariant, PeerLate
<1>. QED
  BY <1>1, LateInvariance, PTL

-----------------------------------------------------------------------------
(***************************************************************************)
(* A sequence number that a peer has committed is posted, stored or        *)
(* executed, one of the three; and then either the record that committed   *)
(* it is still there, so that its request does not commit again and no     *)
(* other was accepted, or a stable checkpoint covers it.                   *)
(***************************************************************************)
taken(n, s) ==
    \/ \E r \in Requests : <<s, r>> \in posted_applies[n]
    \/ unstable_storage[n][s] # NoRequest
    \/ s < next_request_sequence[n]

PostedOnce(n, s) ==
    /\ \A r \in Requests : <<s, r>> \in posted_applies[n] =>
           /\ unstable_storage[n][s] = NoRequest
           /\ ~(s < next_request_sequence[n])
           /\ \A q \in Requests : <<s, q>> \in posted_applies[n] => q = r
    /\ s < next_request_sequence[n] => unstable_storage[n][s] = NoRequest

Remembered(n, s) ==
    /\ taken(n, s) => \/ s <= low_water_mark[n]
                      \/ \E r \in Requests : operations[n][s][r].state = "committed"
    /\ \A r \in Requests : operations[n][s][r].state \in {"commit", "committed"}
           => operations[n][s][r].preprepare_seen

PeerApplied(n) ==
    /\ n \in failed => n \in Down
    /\ \A s \in SequenceNumbers : PostedOnce(n, s) /\ Remembered(n, s)

AppliedInvariant == \A n \in Peers \ misread : PeerApplied(n)

\* A replica whose store does not change, and whose operations for a sequence number only
\* move on, keeps what it promises about that number.
LEMMA AppliedKept ==
    ASSUME AppliedInvariant, NEW p \in Peers \ misread, NEW t \in SequenceNumbers,
           posted_applies'[p] = posted_applies[p],
           unstable_storage'[p] = unstable_storage[p],
           next_request_sequence'[p] = next_request_sequence[p],
           low_water_mark'[p] = low_water_mark[p],
           \A q \in Requests :
               /\ operations[p][t][q].state = "committed" => operations'[p][t][q].state = "committed"
               /\ \/ operations'[p][t][q] = operations[p][t][q]
                  \/ operations'[p][t][q].state \in {"commit", "committed"}
                         => operations'[p][t][q].preprepare_seen
    PROVE  PostedOnce(p, t)' /\ Remembered(p, t)'
<1>1. PostedOnce(p, t) /\ Remembered(p, t)
  BY Zenon DEF AppliedInvariant, PeerApplied
<1>2. PostedOnce(p, t)'
  BY <1>1, Zenon DEF PostedOnce
<1>3. taken(p, t)' <=> taken(p, t)
  BY Zenon DEF taken
<1>4. \A q \in Requests : operations'[p][t][q].state \in {"commit", "committed"}
                            => operations'[p][t][q].preprepare_seen
  BY <1>1, Zenon DEF Remembered
<1>5. taken(p, t)' => \/ t <= low_water_mark'[p]
                     \/ \E r \in Requests : operations'[p][t][r].state = "committed"
  BY <1>1, <1>3, Zenon DEF Remembered
<1>. QED
  BY <1>2, <1>4, <1>5, Zenon DEF Remembered

\* A commit is posted for a sequence number that was not taken before.
LEMMA CommitIsNew ==
    ASSUME TypeOK, AppliedInvariant, AgreementInvariant', LateInvariant',
           low_water_mark' = low_water_mark, misread' = misread,
           NEW n \in Peers \ misread, NEW s \in SequenceNumbers, NEW r \in Requests, NEW op,
           Counted(find_operation(n, s, r), op), Advances(n, s, r, op),
           advanced(op).state = "committed", op.state # "committed", advanced(op).preprepare_seen
    PROVE  ~taken(n, s)
<1> SUFFICES ASSUME taken(n, s) PROVE FALSE
  BY Zenon
<1>1. operations' = [operations EXCEPT ![n][s][r] = advanced(op)]
  BY Zenon DEF Advances
<1>2. operations'[n][s][r] = advanced(op)
  BY <1>1 DEF TypeOK
<1>3. ~(s <= low_water_mark[n])
  BY <1>2, Zenon DEF LateInvariant, PeerLate
<1>4. PICK q \in Requests : operations[n][s][q].state = "committed"
  BY <1>3, Zenon DEF AppliedInvariant, PeerApplied, Remembered
<1>5. q # r
  BY <1>4, Zenon DEF Counted, find_operation
<1>6. operations'[n][s][q] = operations[n][s][q]
  BY <1>1, <1>5 DEF TypeOK
<1>7. operations'[n][s][q].preprepare_seen
  BY <1>4, <1>6, Zenon DEF AppliedInvariant, PeerApplied, Remembered
<1>8. accepted_preprepares'[n][s] = q /\ accepted_preprepares'[n][s] = r
  BY <1>2, <1>7 DEF AgreementInvariant, PreparedIsAccepted
<1>. QED
  BY <1>5, <1>8, Zenon

\* A message of one of the phases counts, and perhaps commits its operation.
LEMMA VoteApplied ==
    ASSUME TypeOK, AppliedInvariant, AgreementInvariant', LateInvariant',
           NEW n \in Peers \ misread, NEW m \in PhaseMessages, Votes(n, m)
    PROVE  AppliedInvariant'
<1>1. PICK others : handle_phase_message(n, m, others)
  BY Zenon DEF Votes
<1>2. PICK s \in SequenceNumbers, r \in Requests : s = m.sequence /\ r = m.request
  BY Zenon DEF PhaseMessages
<1>3. /\ unstable_storage' = unstable_storage /\ next_request_sequence' = next_request_sequence
      /\ failed' = failed /\ low_water_mark' = low_water_mark /\ misread' = misread
  BY <1>1, Zenon DEF handle_phase_message, checkpointVars
<1>4. CASE UNCHANGED <<operations, posted_applies>>
  <2>1. operations' = operations /\ posted_applies' = posted_applies
    BY <1>4, Zenon
  <2>2. ASSUME NEW p \in Peers \ misread, NEW t \in SequenceNumbers
        PROVE  PostedOnce(p, t)' /\ Remembered(p, t)'
    <3>1. PostedOnce(p, t) /\ Remembered(p, t)
      BY Zenon DEF AppliedInvariant, PeerApplied
    <3>2. PostedOnce(p, t)'
      BY <1>3, <2>1, <3>1, Zenon DEF PostedOnce
    <3>3. Remembered(p, t)'
      BY <1>3, <2>1, <3>1, Zenon DEF Remembered, taken
    <3>. QED
      BY <3>2, <3>3, Zenon
  <2>. QED
    BY <1>3, <2>2, Zenon DEF AppliedInvariant, PeerApplied
<1>5. ASSUME NEW op, Counted(find_operation(n, s, r), op), Advances(n, s, r, op)
      PROVE  AppliedInvariant'
  <2> DEFINE old == find_operation(n, s, r)
             done == advanced(op)
  <2>1. /\ operations'[n][s][r] = done
        /\ \A p \in Peers, t \in SequenceNumbers, q \in Requests :
               ~(p = n /\ t = s /\ q = r) => operations'[p][t][q] = operations[p][t][q]
    BY <1>5 DEF Advances, TypeOK
  <2>2. /\ done.preprepare_seen = op.preprepare_seen
        /\ op.state = "committed" => done.state = "committed"
        /\ done.state \in {"commit", "committed"}
               => op.state \in {"commit", "committed"} \/ op.preprepare_seen
    BY <1>5, AdvancedPhase, AdvancedKeepsVotes, Zenon DEF Counted
  <2>3. op.state = old.state /\ (old.preprepare_seen => op.preprepare_seen)
    BY <1>5, Zenon DEF Counted
  <2>4. old.state \in {"commit", "committed"} => old = operations[n][s][r]
    BY Zenon DEF find_operation, new_operation, NoOperation
  <2>5. operations[n][s][r].state = "committed" => old = operations[n][s][r]
    BY Zenon DEF find_operation
  <2>6. done.state \in {"commit", "committed"} => done.preprepare_seen
    BY <2>2, <2>3, <2>4, Zenon DEF AppliedInvariant, PeerApplied, Remembered
  <2>7. operations[n][s][r].state = "committed" => done.state = "committed"
    BY <2>2, <2>3, <2>5, Zenon
  <2>. HIDE DEF old, done
  <2>8. CASE posted_applies' = posted_applies
    <3>1. ASSUME NEW p \in Peers \ misread, NEW t \in SequenceNumbers
          PROVE  PostedOnce(p, t)' /\ Remembered(p, t)'
      <4>1. \A q \in Requests :
                /\ operations[p][t][q].state = "committed"
                       => operations'[p][t][q].state = "committed"
                /\ \/ operations'[p][t][q] = operations[p][t][q]
                   \/ operations'[p][t][q].state \in {"commit", "committed"}
                          => operations'[p][t][q].preprepare_seen
        BY <2>1, <2>6, <2>7
      <4>. QED
        BY <1>3, <2>8, <4>1, AppliedKept, Zenon
    <3>. QED
      BY <1>3, <3>1, Zenon DEF AppliedInvariant, PeerApplied
  <2>9. CASE /\ posted_applies' = [posted_applies EXCEPT ![n] = @ \cup {<<s, r>>}]
             /\ done.state = "committed" /\ op.state # "committed"
    <3>1. ~taken(n, s)
      BY <1>3, <1>5, <2>6, <2>9, CommitIsNew, Zenon DEF done
    <3>2. \A p \in Peers, t \in SequenceNumbers, q \in Requests :
              <<t, q>> \in posted_applies'[p] =>
                  <<t, q>> \in posted_applies[p] \/ (p = n /\ t = s /\ q = r)
      BY <2>9, Zenon DEF TypeOK, ServiceTypeOK
    <3>3. ASSUME NEW p \in Peers \ misread, NEW t \in SequenceNumbers PROVE PostedOnce(p, t)'
      <4>1. CASE p = n /\ t = s
        BY <1>3, <3>1, <3>2, <4>1, Zenon DEF taken, PostedOnce
      <4>2. CASE ~(p = n /\ t = s)
        BY <1>3, <3>2, <4>2 DEF AppliedInvariant, PeerApplied, PostedOnce
      <4>. QED
        BY <4>1, <4>2, Zenon
    <3>4. ASSUME NEW p \in Peers \ misread, NEW t \in SequenceNumbers PROVE Remembered(p, t)'
      <4>1. taken(p, t)' => taken(p, t) \/ (p = n /\ t = s)
        BY <1>3, <3>2, Zenon DEF taken
      <4>2. Remembered(p, t)
        BY Zenon DEF AppliedInvariant, PeerApplied
      <4>3. \A q \in Requests : operations'[p][t][q].state \in {"commit", "committed"}
                                  => operations'[p][t][q].preprepare_seen
        BY <2>1, <2>6, <4>2 DEF Remembered
      <4>4. ASSUME p = n, t = s PROVE operations'[p][t][r].state = "committed"
        BY <2>1, <2>9, <4>4, Zenon
      <4>5. ASSUME NEW q \in Requests, operations[p][t][q].state = "committed"
            PROVE  operations'[p][t][q].state = "committed"
        BY <2>1, <2>7, <4>5
      <4>6. taken(p, t)' => \/ t <= low_water_mark'[p]
                           \/ \E q \in Requests : operations'[p][t][q].state = "committed"
        BY <1>3, <4>1, <4>2, <4>4, <4>5, Zenon DEF Remembered
      <4>. QED
        BY <4>3, <4>6, Zenon DEF Remembered
    <3>. QED
      BY <1>3, <3>3, <3>4, Zenon DEF AppliedInvariant, PeerApplied
  <2>. QED
    BY <1>5, <2>8, <2>9, Zenon DEF Advances, done
<1>. QED
  BY <1>1, <1>2, <1>4, <1>5, PhaseCounts, Zenon

\* A posted apply_operation finds no row, and what it executes is no longer stored.
LEMMA RunsApplied ==
    ASSUME TypeOK, AppliedInvariant, NEW n \in Peers \ misread, NEW s \in SequenceNumbers,
           NEW r \in Requests, Runs(n, s, r)
    PROVE  AppliedInvariant'
<1>1. /\ apply_operation(n, s, r) /\ operations' = operations
      /\ low_water_mark' = low_water_mark /\ misread' = misread
  BY Zenon DEF Runs, checkpointVars
<1>2. /\ <<s, r>> \in posted_applies[n]
      /\ posted_applies' = [posted_applies EXCEPT ![n] = @ \ {<<s, r>>}]
  BY <1>1, Zenon DEF apply_operation
<1>3. /\ unstable_storage[n][s] = NoRequest /\ ~(s < next_request_sequence[n])
      /\ \A q \in Requests : <<s, q>> \in posted_applies[n] => q = r
  BY <1>2, Zenon DEF AppliedInvariant, PeerApplied, PostedOnce
<1>4. PICK from, stop : from = next_request_sequence[n] /\ Drains(n, s, r, from, stop)
  BY <1>1, <1>3, ApplyFacts, Zenon
<1>5. Drains(n, s, r, from, stop)
  BY <1>4, Zenon
<1> DEFINE rows == stored(n, s, r)
<1>6. \A k \in SequenceNumbers : rows[k] = IF k = s THEN r ELSE unstable_storage[n][k]
  BY Zenon DEF stored, TypeOK, ServiceTypeOK
<1>. HIDE DEF rows
<1>7. /\ from \in Nat /\ stop \in Nat /\ from <= stop
      /\ \A k \in SequenceNumbers : from <= k /\ k < stop => rows[k] # NoRequest
      /\ failed' = failed
  <2>1. MaxSequence \in Nat
    BY ServiceAssumption, Zenon
  <2>2. /\ from \in 1..(MaxSequence + 1) /\ stop \in from..(MaxSequence + 1)
        /\ \A k \in from..(stop - 1) : rows[k] \in Requests
        /\ failed' = failed
    BY <1>5, Zenon DEF Drains, rows
  <2>. QED
    BY <2>1, <2>2, ServiceAssumption DEF SequenceNumbers
<1>8. /\ \A k \in SequenceNumbers :
             unstable_storage'[n][k] = IF from <= k /\ k < stop THEN NoRequest ELSE rows[k]
      /\ \A p \in Peers \ {n} : unstable_storage'[p] = unstable_storage[p]
  <2>1. unstable_storage' = [unstable_storage EXCEPT ![n] =
            [k \in SequenceNumbers |-> IF k \in from..(stop - 1) THEN NoRequest ELSE rows[k]]]
    BY <1>5, Zenon DEF Drains, rows
  <2>2. \A k \in SequenceNumbers : k \in from..(stop - 1) <=> from <= k /\ k < stop
    BY <1>7 DEF SequenceNumbers
  <2>. QED
    BY <2>1, <2>2, Zenon DEF TypeOK, ServiceTypeOK
<1>9. /\ next_request_sequence'[n] = stop
      /\ \A p \in Peers \ {n} : next_request_sequence'[p] = next_request_sequence[p]
  BY <1>5, Zenon DEF Drains, TypeOK, ServiceTypeOK
<1>10. \A p \in Peers, t \in SequenceNumbers, q \in Requests :
           <<t, q>> \in posted_applies'[p] =>
               <<t, q>> \in posted_applies[p] /\ ~(p = n /\ t = s)
  BY <1>2, <1>3, Zenon DEF TypeOK, ServiceTypeOK
<1>11. ASSUME NEW t \in SequenceNumbers PROVE PostedOnce(n, t)' /\ (taken(n, t)' => taken(n, t))
  <2>1. t \in Nat /\ s \in Nat
    BY DEF SequenceNumbers
  <2>2. ASSUME NEW q \in Requests, <<t, q>> \in posted_applies'[n]
        PROVE  /\ unstable_storage'[n][t] = NoRequest /\ ~(t < stop)
               /\ \A x \in Requests : <<t, x>> \in posted_applies'[n] => x = q
    <3>1. /\ t # s /\ unstable_storage[n][t] = NoRequest /\ ~(t < from)
          /\ \A x \in Requests : <<t, x>> \in posted_applies[n] => x = q
      BY <1>4, <1>10, <2>2 DEF AppliedInvariant, PeerApplied, PostedOnce
    <3>2. rows[t] = NoRequest
      BY <1>6, <3>1, Zenon
    <3>3. ~(t < stop)
      <4>1. from <= t
        BY <1>7, <2>1, <3>1
      <4>. QED
        BY <1>7, <3>2, <4>1, Zenon
    <3>. QED
      BY <1>8, <1>10, <3>1, <3>2, <3>3, Zenon
  <2>3. ASSUME t < stop PROVE unstable_storage'[n][t] = NoRequest
    <3>1. CASE from <= t
      BY <1>8, <2>3, <3>1, Zenon
    <3>2. CASE t < from
      <4>1. t # s /\ unstable_storage[n][t] = NoRequest
        BY <1>3, <1>4, <3>2, Zenon DEF AppliedInvariant, PeerApplied, PostedOnce
      <4>. QED
        BY <1>6, <1>7, <1>8, <2>1, <3>2, <4>1, Zenon
    <3>. QED
      BY <1>7, <2>1, <3>1, <3>2
  <2>4. rows[t] # NoRequest => taken(n, t)
    BY <1>2, <1>6, Zenon DEF taken
  <2>5. taken(n, t)' => taken(n, t)
    <3>1. CASE \E q \in Requests : <<t, q>> \in posted_applies'[n]
      BY <1>10, <3>1, Zenon DEF taken
    <3>2. CASE unstable_storage'[n][t] # NoRequest
      BY <1>8, <2>4, <3>2, Zenon
    <3>3. CASE t < stop
      BY <1>4, <1>7, <2>1, <2>4, <3>3 DEF taken
    <3>. QED
      BY <1>9, <3>1, <3>2, <3>3, Zenon DEF taken
  <2>6. PostedOnce(n, t)'
    BY <1>9, <2>2, <2>3, Zenon DEF PostedOnce
  <2>. QED
    BY <2>5, <2>6, Zenon
<1>12. ASSUME NEW p \in Peers \ misread, p # n, NEW t \in SequenceNumbers
       PROVE  PostedOnce(p, t)' /\ (taken(p, t)' => taken(p, t))
  BY <1>8, <1>9, <1>10, <1>12 DEF AppliedInvariant, PeerApplied, PostedOnce, taken
<1>13. ASSUME NEW p \in Peers \ misread, NEW t \in SequenceNumbers PROVE Remembered(p, t)'
  BY <1>1, <1>11, <1>12 DEF AppliedInvariant, PeerApplied, Remembered
<1>. QED
  BY <1>1, <1>7, <1>11, <1>12, <1>13, Zenon DEF AppliedInvariant, PeerApplied

\* A checkpoint that becomes stable clears records of operations it covers.
LEMMA ReachesApplied ==
    ASSUME TypeOK, CheckpointInvariant, AppliedInvariant, NEW n \in Peers,
           NEW cp \in SequenceNumbers, NEW local, NEW proofs, Reaches(n, cp, local, proofs)
    PROVE  AppliedInvariant'
<1>1. /\ n \notin misread
      /\ posted_applies' = posted_applies /\ unstable_storage' = unstable_storage
      /\ next_request_sequence' = next_request_sequence /\ failed' = failed
  BY Zenon DEF Reaches
<1>2. ASSUME NEW p \in Peers \ misread, NEW t \in SequenceNumbers
      PROVE  PostedOnce(p, t)' /\ (taken(p, t)' => taken(p, t))
  BY <1>1, Zenon DEF AppliedInvariant, PeerApplied, PostedOnce, taken
<1>3. CASE record_checkpoint(n, local, proofs)
  <2>1. operations' = operations /\ low_water_mark' = low_water_mark /\ misread' = misread
    BY <1>3, Zenon DEF record_checkpoint
  <2>2. ASSUME NEW p \in Peers \ misread, NEW t \in SequenceNumbers PROVE Remembered(p, t)'
    BY <1>1, <2>1, AppliedKept, Zenon
  <2>. QED
    BY <1>1, <1>2, <2>1, <2>2, Zenon DEF AppliedInvariant, PeerApplied
<1>4. CASE Stabilized(n, cp, local, proofs)
  <2>1. low_water_mark' = [low_water_mark EXCEPT ![n] = cp]
    BY <1>1, <1>4, WaterMarksMove, Zenon
  <2>2. /\ operations' = [operations EXCEPT ![n] = clear_operations_until(@, cp)]
        /\ misread' = misread
    BY <1>4, Zenon DEF Stabilized
  <2>3. /\ \A p \in Peers \ {n} : /\ operations'[p] = operations[p]
                                  /\ low_water_mark'[p] = low_water_mark[p]
        /\ operations'[n] = clear_operations_until(operations[n], cp)
        /\ low_water_mark'[n] = cp
    BY <2>1, <2>2, Zenon DEF TypeOK
  <2>4. /\ low_water_mark[n] < cp
        /\ low_water_mark[n] \in Nat /\ cp \in Nat
    BY <1>1, <1>4 DEF Stabilized, CheckpointInvariant, PeerCheckpoints, TypeOK,
                      SequenceNumbers
  <2>5. ASSUME NEW t \in SequenceNumbers PROVE Remembered(n, t)'
    <3>1. t \in Nat
      BY DEF SequenceNumbers
    <3>2. CASE t <= cp
      <4>1. \A q \in Requests : operations'[n][t][q] = NoOperation
        BY <2>3, <2>4, <3>1, <3>2 DEF clear_operations_until
      <4>2. NoOperation.state = "none" /\ t <= low_water_mark'[n]
        BY <2>3, <3>2, Zenon DEF NoOperation
      <4>. QED
        BY <4>1, <4>2, Zenon DEF Remembered
    <3>3. CASE t > cp
      <4>1. operations'[n][t] = operations[n][t]
        BY <2>3, <3>3, Zenon DEF clear_operations_until
      <4>2. ~(t <= low_water_mark[n])
        BY <2>4, <3>1, <3>3
      <4>3. Remembered(n, t) /\ (taken(n, t)' => taken(n, t))
        BY <1>1, <1>2, Zenon DEF AppliedInvariant, PeerApplied
      <4>. QED
        BY <4>1, <4>2, <4>3, Zenon DEF Remembered
    <3>. QED
      BY <2>4, <3>1, <3>2, <3>3
  <2>6. ASSUME NEW p \in Peers \ misread, p # n, NEW t \in SequenceNumbers PROVE Remembered(p, t)'
    BY <1>1, <2>3, <2>6, AppliedKept, Zenon
  <2>. QED
    BY <1>1, <1>2, <2>2, <2>5, <2>6, Zenon DEF AppliedInvariant, PeerApplied
<1>. QED
  BY <1>3, <1>4, Zenon DEF Reaches

\* Every step keeps AppliedInvariant, given what is known of the state it leads to.
LEMMA NextApplied ==
    ASSUME TypeOK, CheckpointInvariant, AppliedInvariant, [Next]_vars,
           AgreementInvariant', LateInvariant'
    PROVE  AppliedInvariant'
<1>1. ASSUME /\ operations' = operations /\ low_water_mark' = low_water_mark
             /\ misread' = misread
             /\ posted_applies' = posted_applies /\ unstable_storage' = unstable_storage
             /\ next_request_sequence' = next_request_sequence /\ failed' = failed
      PROVE  AppliedInvariant'
  <2>1. \A n, s : taken(n, s)' = taken(n, s)
    BY <1>1, Zenon DEF taken
  <2>2. ASSUME NEW n \in Peers \ misread, NEW s \in SequenceNumbers
        PROVE  PostedOnce(n, s)' /\ Remembered(n, s)'
    <3>1. PostedOnce(n, s) /\ Remembered(n, s)
      BY Zenon DEF AppliedInvariant, PeerApplied
    <3>2. PostedOnce(n, s)'
      BY <1>1, <3>1, Zenon DEF PostedOnce
    <3>3. Remembered(n, s)'
      BY <1>1, <2>1, <3>1, Zenon DEF Remembered
    <3>. QED
      BY <3>2, <3>3, Zenon
  <2>. QED
    BY <1>1, <2>2, Zenon DEF AppliedInvariant, PeerApplied
<1>2. ASSUME Nothing PROVE AppliedInvariant'
  BY <1>1, <1>2, Zenon DEF Nothing, checkpointVars
<1>3. ASSUME NEW n \in Peers, NEW s \in SequenceNumbers, NEW r \in Requests, Proposes(n, s, r)
      PROVE  AppliedInvariant'
  <2>1. /\ low_water_mark' = low_water_mark /\ misread' = misread
        /\ posted_applies' = posted_applies /\ unstable_storage' = unstable_storage
        /\ next_request_sequence' = next_request_sequence /\ failed' = failed
    BY <1>3, Zenon DEF Proposes, checkpointVars, serviceVars
  <2>2. \A p \in Peers, t \in SequenceNumbers, q \in Requests :
            \/ operations'[p][t][q] = operations[p][t][q]
            \/ operations[p][t][q].state = "none" /\ operations'[p][t][q] = new_operation
    BY <1>3, ProposalFacts, Zenon
  <2>3. new_operation.state = "prepare"
    BY Zenon DEF new_operation, NoOperation
  <2>4. ASSUME NEW p \in Peers \ misread, NEW t \in SequenceNumbers
        PROVE  PostedOnce(p, t)' /\ Remembered(p, t)'
    <3>1. \A q \in Requests :
              /\ operations[p][t][q].state = "committed"
                     => operations'[p][t][q].state = "committed"
              /\ \/ operations'[p][t][q] = operations[p][t][q]
                 \/ operations'[p][t][q].state \in {"commit", "committed"}
                        => operations'[p][t][q].preprepare_seen
      BY <2>2, <2>3
    <3>. QED
      BY <2>1, <3>1, AppliedKept, Zenon
  <2>. QED
    BY <2>1, <2>4, Zenon DEF AppliedInvariant, PeerApplied
<1>4. ASSUME NEW n \in MayRestart, restart(n) PROVE AppliedInvariant'
  <2>1. ASSUME NEW p \in Peers \ misread, p # n, NEW t \in SequenceNumbers
        PROVE  PostedOnce(p, t)' /\ Remembered(p, t)'
    <3>1. /\ operations'[p] = operations[p] /\ low_water_mark'[p] = low_water_mark[p]
          /\ posted_applies'[p] = posted_applies[p]
          /\ unstable_storage'[p] = unstable_storage[p]
          /\ next_request_sequence'[p] = next_request_sequence[p]
      BY <1>4, <2>1, RestartFacts
    <3>. QED
      BY <3>1, AppliedKept, Zenon
  <2>2. ASSUME NEW t \in SequenceNumbers PROVE PostedOnce(n, t)' /\ Remembered(n, t)'
    <3>1. /\ operations'[n] = NoOperations /\ low_water_mark'[n] = 0
          /\ posted_applies'[n] = {} /\ unstable_storage'[n] = EmptyStorage
          /\ next_request_sequence'[n] = 1
      BY <1>4, RestartFacts, Zenon
    <3>2. ~(t < 1) /\ EmptyStorage[t] = NoRequest
      BY DEF SequenceNumbers, EmptyStorage
    <3>3. \A q \in Requests : NoOperations[t][q].state = "none"
      BY Zenon DEF NoOperations, NoOperation
    <3>. QED
      BY <3>1, <3>2, <3>3, Zenon DEF PostedOnce, Remembered, taken
  <2>3. /\ misread' = misread \ {n} /\ n \notin failed'
        /\ \A p \in Peers \ {n} : p \in failed' <=> p \in failed
    BY <1>4, RestartFacts, Zenon
  <2>. QED
    BY <2>1, <2>2, <2>3, Zenon DEF AppliedInvariant, PeerApplied
<1>5. ASSUME NEW n \in Peers, OnlyHere(n) PROVE AppliedInvariant'
  <2>1. ASSUME NEW p \in Peers \ misread' PROVE PeerApplied(p)'
    <3>1. p # n /\ p \notin misread
      BY <1>5, Zenon DEF OnlyHere
    <3>2. /\ operations'[p] = operations[p] /\ low_water_mark'[p] = low_water_mark[p]
          /\ posted_applies'[p] = posted_applies[p]
          /\ unstable_storage'[p] = unstable_storage[p]
          /\ next_request_sequence'[p] = next_request_sequence[p]
          /\ p \in failed' <=> p \in failed
      BY <1>5, <3>1, Zenon DEF OnlyHere
    <3>3. ASSUME NEW t \in SequenceNumbers PROVE PostedOnce(p, t)' /\ Remembered(p, t)'
      BY <3>1, <3>2, AppliedKept, Zenon
    <3>. QED
      BY <3>1, <3>2, <3>3, Zenon DEF AppliedInvariant, PeerApplied
  <2>. QED
    BY <2>1, Zenon DEF AppliedInvariant
<1>6. ASSUME NEW n \in Peers, PeerStep(n) PROVE AppliedInvariant'
  <2>1. CASE n \in misread \/ Misreads(n)
    BY <1>5, <1>6, <2>1, MisreadStaysHere, Zenon
  <2>2. CASE n \notin misread /\ ~Misreads(n)
    BY <1>2, <1>3, <1>6, <2>2, VoteApplied, RunsApplied, ReachesApplied, Zenon
             DEF PeerStep, Rests, Passes
  <2>. QED
    BY <2>1, <2>2, Zenon
<1>. QED
  BY <1>2, <1>4, <1>6, StepKinds, Zenon DEF Rests

\* AppliedInvariant is inductive on top of the invariants for agreement, checkpoints
\* and late messages.
THEOREM AppliedInvariance == Spec => [](TypeOK /\ AppliedInvariant)
<1>1. Init => AppliedInvariant
  <2> SUFFICES ASSUME Init, NEW n \in Peers, NEW s \in SequenceNumbers
               PROVE  failed = Down /\ PostedOnce(n, s) /\ Remembered(n, s)
    BY Zenon DEF AppliedInvariant, PeerApplied, Init
  <2>1. /\ posted_applies[n] = {} /\ unstable_storage[n][s] = NoRequest
        /\ next_request_sequence[n] = 1 /\ failed = Down
    BY Zenon DEF Init, ServiceInit, EmptyStorage
  <2>2. \A r \in Requests : operations[n][s][r].state = "none"
    BY Zenon DEF Init, NoOperations, NoOperation
  <2>3. ~(s < 1)
    BY DEF SequenceNumbers
  <2>. QED
    BY <2>1, <2>2, <2>3, Zenon DEF PostedOnce, Remembered, taken
<1>2. TypeOK /\ CheckpointInvariant /\ AppliedInvariant /\ [Next]_vars
          /\ AgreementInvariant' /\ LateInvariant' => AppliedInvariant'
  BY NextApplied, Zenon
<1>. QED
  BY <1>1, <1>2, AgreementInvariance, LateInvariance, PTL DEF Spec

\* database_pbft_service::apply_operation never throws "something bad": whatever the
\* order of messages, posted calls, checkpoints and restarts, no sequence number is
\* applied twice, and no row is left behind, at the peers that have not misread a freed
\* checkpoint.
THEOREM AppliedAlwaysAtMostOnce == Spec => []AppliedAtMostOnce
<1>1. TypeOK /\ AppliedInvariant => AppliedAtMostOnce
  <2> SUFFICES ASSUME TypeOK, AppliedInvariant, NEW n \in Peers \ misread,
                      NEW s \in 1..(next_request_sequence[n] - 1)
               PROVE  unstable_storage[n][s] = NoRequest
    BY Zenon DEF AppliedAtMostOnce, AppliedInvariant, PeerApplied
  <2>1. next_request_sequence[n] \in 1..(MaxSequence + 1) /\ MaxSequence \in Nat
    BY ServiceAssumption, Zenon DEF TypeOK, ServiceTypeOK
  <2>2. s \in SequenceNumbers /\ s < next_request_sequence[n]
    BY <2>1 DEF SequenceNumbers
  <2>. QED
    BY <2>2, Zenon DEF AppliedInvariant, PeerApplied, PostedOnce
<1>. QED
  BY <1>1, AppliedInvariance, PTL

=============================================================================
