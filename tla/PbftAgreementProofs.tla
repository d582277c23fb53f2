------------------------ MODULE PbftAgreementProofs ------------------------
(***************************************************************************)
(* The types of the pbft swarm, and the invariant behind the agreement of  *)
(* its peers, for any number of peers, requests and sequence numbers, any  *)
(* order and loss of messages and any restarts.                            *)
(*                                                                         *)
(* TypeOK is inductive.  AgreementInvariant is inductive on top of it.  It *)
(* speaks of few variables, so the steps fall into four kinds: those that  *)
(* add no proposal and no vote, the primary's proposals, the three phase   *)
(* messages, and restarts.                                                 *)
(***************************************************************************)
EXTENDS Pbft, TLAPS

-----------------------------------------------------------------------------
(***************************************************************************)
(* Facts about the operators the model is built from.                      *)
(***************************************************************************)

\* No votes are no votes, from the definition of Cardinality.
LEMMA NoVotes == Cardinality({}) = 0
<1> DEFINE CS == CHOOSE CS : CS = [T \in SUBSET {} |->
                     IF T = {} THEN 0 ELSE 1 + CS[T \ {CHOOSE x : x \in T}]]
<1>1. Cardinality({}) = CS[{}]
  BY Zenon DEF Cardinality
<1>2. \E f : f = [T \in SUBSET {} |-> IF T = {} THEN 0 ELSE 1 + f[T \ {CHOOSE x : x \in T}]]
  <2> DEFINE g == [T \in SUBSET {} |-> 0]
  <2>1. g = [T \in SUBSET {} |-> IF T = {} THEN 0 ELSE 1 + g[T \ {CHOOSE x : x \in T}]]
    <3>1. \A T \in SUBSET {} : T = {}
      BY Zenon
    <3>. QED
      BY <3>1, Zenon
  <2>. QED
    BY <2>1, Zenon
<1>3. CS = [T \in SUBSET {} |-> IF T = {} THEN 0 ELSE 1 + CS[T \ {CHOOSE x : x \in T}]]
  BY <1>2, Zenon
<1>. HIDE DEF CS
<1>4. CS[{}] = 0
  BY <1>3, Zenon
<1>. QED
  BY <1>1, <1>4, Zenon

\* What a replica has executed, followed by what it executes next.
LEMMA Concatenation ==
    ASSUME NEW S, NEW done \in Seq(S), NEW more \in Seq(S)
    PROVE  /\ done \o more \in Seq(S)
           /\ Len(done \o more) = Len(done) + Len(more)
           /\ \A i \in 1..Len(done) + Len(more) :
                  (done \o more)[i] = IF i <= Len(done) THEN done[i] ELSE more[i - Len(done)]
  OBVIOUS

\* What broadcast puts on the network is well-formed.
LEMMA BroadcastType ==
    ASSUME NEW n \in Peers, NEW s \in SequenceNumbers
    PROVE  /\ \A r \in Requests, t \in {"preprepare", "prepare", "commit"} :
                  broadcast(n, t, s, r) \subseteq PhaseMessages
           /\ broadcast(n, "checkpoint", s, NoRequest) \subseteq Messages
<1>1. ASSUME NEW r \in Requests, NEW t \in {"preprepare", "prepare", "commit"},
             NEW d \in Peers \ Down
      PROVE  [type |-> t, sequence |-> s, request |-> r, sender |-> n, dest |-> d]
                 \in PhaseMessages
  BY <1>1, Zenon DEF PhaseMessages
<1>2. ASSUME NEW d \in Peers \ Down
      PROVE  [type |-> "checkpoint", sequence |-> s, request |-> NoRequest, sender |-> n,
              dest |-> d] \in Messages
  BY <1>2, Zenon DEF Messages
<1>3. \A r \in Requests, t \in {"preprepare", "prepare", "commit"} :
          broadcast(n, t, s, r) \subseteq PhaseMessages
  BY <1>1, Zenon DEF broadcast
<1>4. broadcast(n, "checkpoint", s, NoRequest) \subseteq Messages
  BY <1>2, Zenon DEF broadcast
<1>. QED
  BY <1>3, <1>4, Zenon

\* find_operation returns a record, found or new.
LEMMA FindOperationType ==
    ASSUME TypeOK, NEW n \in Peers, NEW s \in SequenceNumbers, NEW r \in Requests
    PROVE  find_operation(n, s, r) \in Operations
<1>1. operations[n][s][r] \in Operations
  BY DEF TypeOK
<1>2. new_operation \in Operations
  BY Zenon DEF new_operation, NoOperation, Operations
<1>. QED
  BY <1>1, <1>2, Zenon DEF find_operation

\* The two phase changes keep everything of a record but its state.
LEMMA PhaseType ==
    ASSUME NEW op \in Operations
    PROVE  begin_commit_phase(op) \in Operations /\ end_commit_phase(op) \in Operations
  BY Zenon DEF begin_commit_phase, end_commit_phase, Operations

\* maybe_advance_operation_state keeps the types of what it changes.
LEMMA AdvanceType ==
    ASSUME TypeOK, NEW n \in Peers, NEW s \in SequenceNumbers, NEW r \in Requests,
           NEW op \in Operations, NEW store, NEW others \in SUBSET Messages,
           maybe_advance_operation_state(n, s, r, op, store, others)
    PROVE  /\ operations' \in [Peers -> [SequenceNumbers -> [Requests -> Operations]]]
           /\ network' \subseteq Messages
           /\ posted_applies' \in [Peers -> SUBSET (SequenceNumbers \X Requests)]
           /\ committed' \subseteq Peers \X SequenceNumbers \X Requests
<1> DEFINE done == end_commit_phase(begin_commit_phase(op))
<1>1. done \in Operations
  BY PhaseType, Zenon
<1>2. operations' = [operations EXCEPT ![n][s][r] = done]
  BY Zenon DEF maybe_advance_operation_state, advance
<1>3. operations' \in [Peers -> [SequenceNumbers -> [Requests -> Operations]]]
  BY <1>1, <1>2 DEF TypeOK
<1>4. network' \subseteq others \cup broadcast(n, "commit", s, r)
  BY Zenon DEF maybe_advance_operation_state, advance
<1>5. network' \subseteq Messages
  BY <1>4, BroadcastType, Zenon DEF Messages
<1>6. PICK commits \in BOOLEAN :
          /\ posted_applies' = [posted_applies EXCEPT ![n] =
                                   IF commits THEN @ \cup {<<s, r>>} ELSE @]
          /\ committed' = IF commits THEN committed \cup {<<n, s, r>>} ELSE committed
  BY Zenon DEF maybe_advance_operation_state, advance
<1>7. posted_applies' \in [Peers -> SUBSET (SequenceNumbers \X Requests)]
  BY <1>6 DEF TypeOK, ServiceTypeOK
<1>8. committed' \subseteq Peers \X SequenceNumbers \X Requests
  BY <1>6 DEF TypeOK
<1>. QED
  BY <1>3, <1>5, <1>7, <1>8, Zenon

LEMMA SequenceNumbersNat == SequenceNumbers \subseteq Nat
  BY DEF SequenceNumbers

\* maybe_stabilize_checkpoint keeps the types of what it changes, whatever numbers it
\* reads from its checkpoint.
LEMMA StabilizeType ==
    ASSUME TypeOK, NEW n \in Peers, NEW cp \in SequenceNumbers,
           NEW local \in SUBSET SequenceNumbers,
           NEW proofs \in [SequenceNumbers -> SUBSET Peers], NEW reads \in SUBSET Nat,
           maybe_stabilize_checkpoint(n, cp, local, proofs, reads)
    PROVE  /\ stable_checkpoint' \in [Peers -> 0..MaxSequence]
           /\ local_unstable_checkpoints' \in [Peers -> SUBSET SequenceNumbers]
           /\ unstable_checkpoint_proofs' \in [Peers -> [SequenceNumbers -> SUBSET Peers]]
           /\ operations' \in [Peers -> [SequenceNumbers -> [Requests -> Operations]]]
           /\ low_water_mark' \in [Peers -> Nat]
           /\ high_water_mark' \in [Peers -> Nat]
           /\ misread' \subseteq Peers
<1>1. CASE record_checkpoint(n, local, proofs)
  BY <1>1, Zenon DEF record_checkpoint, TypeOK
<1>2. CASE stabilize(n, cp, local, proofs, reads)
  <2>1. high_water_interval \in Nat /\ MaxSequence \in Nat
    BY ServiceAssumption, PbftAssumption DEF high_water_interval
  <2>2. PICK until \in reads, last \in reads, low \in reads, high \in reads :
            /\ unstable_checkpoint_proofs' = [unstable_checkpoint_proofs EXCEPT ![n] =
                   clear_checkpoint_messages_until(proofs, until)]
            /\ operations' = [operations EXCEPT ![n] = clear_operations_until(@, last)]
            /\ low_water_mark' = [low_water_mark EXCEPT ![n] = max(@, low)]
            /\ high_water_mark' = [high_water_mark EXCEPT ![n] =
                   max(@, high + high_water_interval)]
            /\ misread' \in {misread, misread \cup {n}}
    BY <1>2, Zenon DEF stabilize
  <2>3. /\ cp \in 0..MaxSequence
        /\ max(low_water_mark[n], low) \in Nat
        /\ max(high_water_mark[n], high + high_water_interval) \in Nat
    BY <2>1 DEF TypeOK, max, SequenceNumbers
  <2>4. /\ stable_checkpoint' \in [Peers -> 0..MaxSequence]
        /\ low_water_mark' \in [Peers -> Nat]
        /\ high_water_mark' \in [Peers -> Nat]
        /\ misread' \subseteq Peers
    BY <1>2, <2>2, <2>3, Zenon DEF TypeOK, stabilize
  <2>5. NoOperation \in Operations
    BY Zenon DEF NoOperation, Operations
  <2>6. operations' \in [Peers -> [SequenceNumbers -> [Requests -> Operations]]]
    BY <2>2, <2>5, Zenon DEF TypeOK, clear_operations_until
  <2>7. unstable_checkpoint_proofs' \in [Peers -> [SequenceNumbers -> SUBSET Peers]]
    BY <2>2, Zenon DEF TypeOK, clear_checkpoint_messages_until
  <2>. QED
    BY <1>2, <2>4, <2>6, <2>7, Zenon DEF TypeOK, stabilize, clear_local_checkpoints_until
<1>. QED
  BY <1>1, <1>2, Zenon DEF maybe_stabilize_checkpoint

(***************************************************************************)
(* Type correctness.                                                       *)
(***************************************************************************)

\* A swarm that starts has well-typed state.
LEMMA InitTypeOK == Init => TypeOK
<1> SUFFICES ASSUME Init PROVE TypeOK
  BY Zenon
<1> USE DEF Init
<1>1. MaxSequence \in Nat /\ MaxRestarts \in Nat /\ high_water_interval \in Nat
  BY ServiceAssumption, PbftAssumption DEF high_water_interval
<1>2. ServiceTypeOK
  <2>1. EmptyStorage \in [SequenceNumbers -> Requests \cup {NoRequest}]
    BY Zenon DEF EmptyStorage
  <2>2. \A n \in Peers : executed[n] = << >>
    BY Zenon DEF ServiceInit
  <2>. QED
    BY <1>1, <2>1, <2>2, PbftAssumption DEF ServiceInit, ServiceTypeOK
<1>3. operations \in [Peers -> [SequenceNumbers -> [Requests -> Operations]]]
  <2>1. NoOperation \in Operations
    BY Zenon DEF NoOperation, Operations
  <2>. QED
    BY <2>1, Zenon DEF NoOperations
<1>4. accepted_preprepares \in [Peers -> [SequenceNumbers -> Requests \cup {NoRequest}]]
  BY Zenon DEF EmptyStorage
<1>5. unstable_checkpoint_proofs \in [Peers -> [SequenceNumbers -> SUBSET Peers]]
  BY Zenon DEF NoProofs
<1>. QED
  BY <1>1, <1>2, <1>3, <1>4, <1>5 DEF TypeOK

\* issue, with the messages already under way in "others".
LEMMA IssueType ==
    ASSUME TypeOK, NEW n \in Peers, NEW r \in Requests, NEW others \in SUBSET Messages,
           issue(n, r, others)
    PROVE  /\ next_issued_sequence_number' \in [Peers -> 1..(MaxSequence + 1)]
           /\ operations' \in [Peers -> [SequenceNumbers -> [Requests -> Operations]]]
           /\ network' \subseteq Messages
<1> DEFINE s == next_issued_sequence_number[n]
<1>1. MaxSequence \in Nat
  BY ServiceAssumption, Zenon
<1>2. s \in SequenceNumbers /\ s + 1 \in 1..(MaxSequence + 1)
  BY <1>1 DEF issue, TypeOK, SequenceNumbers
<1>3. find_operation(n, s, r) \in Operations
  BY <1>2, FindOperationType, Zenon
<1>4. next_issued_sequence_number' \in [Peers -> 1..(MaxSequence + 1)]
  BY <1>2, Zenon DEF issue, TypeOK
<1>5. operations' = [operations EXCEPT ![n][s][r] = find_operation(n, s, r)]
  BY Zenon DEF issue
<1>6. operations' \in [Peers -> [SequenceNumbers -> [Requests -> Operations]]]
  BY <1>2, <1>3, <1>5 DEF TypeOK
<1>7. network' = others \cup broadcast(n, "preprepare", s, r)
  BY Zenon DEF issue
<1>8. network' \subseteq Messages
  BY <1>2, <1>7, BroadcastType, Zenon DEF Messages
<1>. QED
  BY <1>4, <1>6, <1>8, Zenon

\* A request, a client's or a forwarded one.
LEMMA RequestType ==
    ASSUME TypeOK, NEW n \in Peers, NEW r \in Requests, NEW others \in SUBSET Messages,
           handle_request(n, r, others), UNCHANGED restarts
    PROVE  TypeOK'
<1>1. CASE n = Primary /\ issue(n, r, others)
  BY <1>1, IssueType, Zenon DEF handle_request, TypeOK, ServiceTypeOK, checkpointVars, serviceVars
<1>2. CASE n # Primary
  <2>1. [type |-> "request", sequence |-> 0, request |-> r, sender |-> n, dest |-> Primary]
            \in Messages
    BY PbftAssumption, Zenon DEF Messages
  <2>2. network' \subseteq Messages
    BY <1>2, <2>1, Zenon DEF handle_request
  <2>. QED
    BY <1>2, <2>2, Zenon DEF handle_request, TypeOK, ServiceTypeOK, checkpointVars, serviceVars
<1>. QED
  BY <1>1, <1>2, Zenon DEF handle_request

\* A preprepare, prepare or commit that has passed the filter.
LEMMA PhaseMessageType ==
    ASSUME TypeOK, NEW n \in Peers, NEW m \in PhaseMessages,
           NEW others \in SUBSET Messages, handle_phase_message(n, m, others),
           past_filter' \in [Peers -> PhaseMessages \cup {NoMessage}], UNCHANGED restarts
    PROVE  TypeOK'
<1> DEFINE s == m.sequence
           r == m.request
           op == find_operation(n, s, r)
<1>1. s \in SequenceNumbers /\ r \in Requests /\ m.sender \in Peers
  BY Zenon DEF PhaseMessages
<1>2. op \in Operations
  BY <1>1, FindOperationType, Zenon
<1>3. SUFFICES /\ operations' \in [Peers -> [SequenceNumbers -> [Requests -> Operations]]]
               /\ accepted_preprepares'
                      \in [Peers -> [SequenceNumbers -> Requests \cup {NoRequest}]]
               /\ network' \subseteq Messages
               /\ posted_applies' \in [Peers -> SUBSET (SequenceNumbers \X Requests)]
               /\ committed' \subseteq Peers \X SequenceNumbers \X Requests
  BY Zenon DEF handle_phase_message, TypeOK, ServiceTypeOK, checkpointVars
<1>4. CASE handle_preprepare(n, m, others)
  <2>1. CASE accepted_preprepares[n][s] \notin {NoRequest, r}
    BY <1>4, <2>1, Zenon DEF handle_preprepare, TypeOK, ServiceTypeOK
  <2>2. CASE accepted_preprepares[n][s] \in {NoRequest, r}
    <3>1. PICK store : maybe_advance_operation_state(n, s, r,
                           [op EXCEPT !.preprepare_seen = TRUE], store,
                           others \cup broadcast(n, "prepare", s, r))
      BY <1>4, <2>2, Zenon DEF handle_preprepare
    <3>2. [op EXCEPT !.preprepare_seen = TRUE] \in Operations
      BY <1>2, Zenon DEF Operations
    <3>3. others \cup broadcast(n, "prepare", s, r) \in SUBSET Messages
      BY <1>1, BroadcastType, Zenon DEF Messages
    <3>4. accepted_preprepares'
              \in [Peers -> [SequenceNumbers -> Requests \cup {NoRequest}]]
      <4>1. accepted_preprepares' = [accepted_preprepares EXCEPT ![n][s] = r]
        BY <1>4, <2>2, Zenon DEF handle_preprepare
      <4>. QED
        BY <1>1, <4>1, Zenon DEF TypeOK
    <3>. QED
      BY <1>1, <3>1, <3>2, <3>3, <3>4, AdvanceType, Zenon
  <2>. QED
    BY <2>1, <2>2, Zenon
<1>5. CASE handle_prepare(n, m, others)
  <2>1. [op EXCEPT !.prepares_seen = @ \cup {m.sender}] \in Operations
    BY <1>1, <1>2, Zenon DEF Operations
  <2>2. PICK store : maybe_advance_operation_state(n, s, r,
                         [op EXCEPT !.prepares_seen = @ \cup {m.sender}], store, others)
    BY <1>5, Zenon DEF handle_prepare
  <2>3. UNCHANGED accepted_preprepares
    BY <1>5, Zenon DEF handle_prepare
  <2>. QED
    BY <1>1, <2>1, <2>2, <2>3, AdvanceType, Zenon DEF TypeOK
<1>6. CASE handle_commit(n, m, others)
  <2>1. [op EXCEPT !.commits_seen = @ \cup {m.sender}] \in Operations
    BY <1>1, <1>2, Zenon DEF Operations
  <2>2. PICK store : maybe_advance_operation_state(n, s, r,
                         [op EXCEPT !.commits_seen = @ \cup {m.sender}], store, others)
    BY <1>6, Zenon DEF handle_commit
  <2>3. UNCHANGED accepted_preprepares
    BY <1>6, Zenon DEF handle_commit
  <2>. QED
    BY <1>1, <2>1, <2>2, <2>3, AdvanceType, Zenon DEF TypeOK
<1>. QED
  BY <1>4, <1>5, <1>6, Zenon DEF handle_phase_message

\* A checkpoint message, whether it is old, recorded or makes a checkpoint stable.
LEMMA CheckpointType ==
    ASSUME TypeOK, NEW n \in Peers, NEW m \in Messages, m.type = "checkpoint",
           NEW others \in SUBSET Messages, handle_checkpoint(n, m, others),
           UNCHANGED restarts
    PROVE  TypeOK'
<1>1. m.sequence \in SequenceNumbers /\ m.sender \in Peers
  BY Zenon DEF Messages, PhaseMessages
<1>2. CASE m.sequence <= stable_checkpoint[n]
  BY <1>2, Zenon DEF handle_checkpoint, TypeOK, ServiceTypeOK, checkpointVars, serviceVars
<1>3. CASE ~(m.sequence <= stable_checkpoint[n])
  <2> DEFINE local == local_unstable_checkpoints[n]
             proofs == [unstable_checkpoint_proofs[n] EXCEPT ![m.sequence] = @ \cup {m.sender}]
  <2>1. local \in SUBSET SequenceNumbers /\ proofs \in [SequenceNumbers -> SUBSET Peers]
    BY <1>1 DEF TypeOK
  <2>2. maybe_stabilize_checkpoint(n, m.sequence, local, proofs, {m.sequence})
    BY <1>3, Zenon DEF handle_checkpoint
  <2>. HIDE DEF local, proofs
  <2>3. /\ stable_checkpoint' \in [Peers -> 0..MaxSequence]
        /\ local_unstable_checkpoints' \in [Peers -> SUBSET SequenceNumbers]
        /\ unstable_checkpoint_proofs' \in [Peers -> [SequenceNumbers -> SUBSET Peers]]
        /\ operations' \in [Peers -> [SequenceNumbers -> [Requests -> Operations]]]
        /\ low_water_mark' \in [Peers -> Nat]
        /\ high_water_mark' \in [Peers -> Nat]
        /\ misread' \subseteq Peers
    <3>1. {m.sequence} \in SUBSET Nat
      BY <1>1, SequenceNumbersNat, Zenon
    <3>. QED
      BY <1>1, <2>1, <2>2, <3>1, StabilizeType, Zenon
  <2>. QED
    BY <2>3, Zenon DEF handle_checkpoint, TypeOK, ServiceTypeOK, serviceVars
<1>. QED
  BY <1>2, <1>3, Zenon

\* An execute handler, with a checkpoint to take and without.
LEMMA ExecuteHandlerType ==
    ASSUME TypeOK, NEW n \in Peers, NEW s \in SequenceNumbers, execute_handler(n, s),
           UNCHANGED restarts
    PROVE  TypeOK'
<1>1. posted_executes' \in [Peers -> SUBSET SequenceNumbers]
  BY Zenon DEF execute_handler, TypeOK, ServiceTypeOK
<1>2. CASE checkpoint_reached_locally(n, s)
  <2> DEFINE local == local_unstable_checkpoints[n] \cup {s}
             proofs == unstable_checkpoint_proofs[n]
  <2>1. local \in SUBSET SequenceNumbers /\ proofs \in [SequenceNumbers -> SUBSET Peers]
    BY Zenon DEF TypeOK
  <2>2. maybe_stabilize_checkpoint(n, s, local, proofs, {s} \cup Freed)
    BY <1>2, Zenon DEF checkpoint_reached_locally
  <2>3. network' \subseteq Messages
    BY <1>2, BroadcastType, Zenon DEF checkpoint_reached_locally, TypeOK
  <2>. HIDE DEF local, proofs
  <2>4. /\ stable_checkpoint' \in [Peers -> 0..MaxSequence]
        /\ local_unstable_checkpoints' \in [Peers -> SUBSET SequenceNumbers]
        /\ unstable_checkpoint_proofs' \in [Peers -> [SequenceNumbers -> SUBSET Peers]]
        /\ operations' \in [Peers -> [SequenceNumbers -> [Requests -> Operations]]]
        /\ low_water_mark' \in [Peers -> Nat]
        /\ high_water_mark' \in [Peers -> Nat]
        /\ misread' \subseteq Peers
    <3>1. ({s} \cup Freed) \in SUBSET Nat
      BY SequenceNumbersNat, PbftAssumption, Zenon
    <3>. QED
      BY <2>1, <2>2, <3>1, StabilizeType, Zenon
  <2>. QED
    BY <1>1, <2>3, <2>4, Zenon DEF execute_handler, TypeOK, ServiceTypeOK
<1>3. CASE UNCHANGED <<operations, checkpointVars, network>>
  BY <1>1, <1>3, Zenon DEF execute_handler, TypeOK, ServiceTypeOK, checkpointVars
<1>. QED
  BY <1>2, <1>3, Zenon DEF execute_handler

\* What a posted apply_operation does when there is no row for its number: it stores
\* the request, and the loop executes the rows from next_request_sequence on.
stored(n, s, r) == [unstable_storage[n] EXCEPT ![s] = r]

\* The loop ran from sequence from up to the missing row stop.
Drains(n, s, r, from, stop) ==
    /\ from \in 1..(MaxSequence + 1) /\ stop \in from..(MaxSequence + 1)
    /\ \A k \in from..(stop - 1) : k \in SequenceNumbers /\ stored(n, s, r)[k] \in Requests
    /\ next_request_sequence' = [next_request_sequence EXCEPT ![n] = stop]
    /\ posted_executes' = [posted_executes EXCEPT ![n] = @ \cup (from..(stop - 1))]
    /\ unstable_storage' = [unstable_storage EXCEPT ![n] =
           [k \in SequenceNumbers |-> IF k \in from..(stop - 1) THEN NoRequest
                                                           ELSE stored(n, s, r)[k]]]
    /\ \A p \in Peers \ {n} : executed'[p] = executed[p]
    /\ executed' \in [Peers -> Seq(Requests)] /\ Len(executed'[n]) = stop - 1
    /\ DOMAIN executed[n] = 1..(from - 1) /\ DOMAIN executed'[n] = 1..(stop - 1)
    /\ \A i \in 1..(from - 1) : executed'[n][i] = executed[n][i]
    /\ \A i \in from..(stop - 1) : executed'[n][i] = stored(n, s, r)[i]
    /\ failed' = failed

LEMMA ApplyFacts ==
    ASSUME TypeOK, NEW n \in Peers, NEW s \in SequenceNumbers, NEW r \in Requests,
           apply_operation(n, s, r), unstable_storage[n][s] = NoRequest
    PROVE  \E stop : Drains(n, s, r, next_request_sequence[n], stop)
<1> DEFINE rows == stored(n, s, r)
           from == next_request_sequence[n]
           rest(stop) == [i \in 1..(stop - from) |-> rows[from + i - 1]]
<1>1. MaxSequence \in Nat
  BY ServiceAssumption, Zenon
<1>2. rows \in [SequenceNumbers -> Requests \cup {NoRequest}] /\ from \in 1..(MaxSequence + 1)
  BY Zenon DEF TypeOK, ServiceTypeOK, stored
<1>3. process_awaiting_operations(n, rows) /\ failed' = failed
  BY Zenon DEF apply_operation, stored
<1>. HIDE DEF rows
<1>4. PICK stop \in from..(MaxSequence + 1) :
      /\ first_missing(rows, from, stop)
      /\ executed' = [executed EXCEPT ![n] = @ \o rest(stop)]
      /\ posted_executes' = [posted_executes EXCEPT ![n] = @ \cup (from..(stop - 1))]
      /\ unstable_storage' = [unstable_storage EXCEPT ![n] =
             [k \in SequenceNumbers |-> IF k \in from..(stop - 1) THEN NoRequest ELSE rows[k]]]
      /\ next_request_sequence' = [next_request_sequence EXCEPT ![n] = stop]
  BY <1>3, Zenon DEF process_awaiting_operations
<1>. HIDE DEF from
<1>5. /\ stop \in from..(MaxSequence + 1)
      /\ \A k \in from..(stop - 1) : k \in SequenceNumbers /\ rows[k] \in Requests
  BY <1>1, <1>2, <1>4 DEF first_missing, SequenceNumbers
<1> DEFINE batch == rest(stop)
<1>6. batch \in Seq(Requests) /\ Len(batch) = stop - from
      /\ \A i \in 1..(stop - from) : batch[i] = rows[from + i - 1]
  <2>1. stop - from \in Nat
    BY <1>1, <1>2, <1>5
  <2>2. \A i \in 1..(stop - from) : rows[from + i - 1] \in Requests
    BY <1>1, <1>2, <1>5
  <2>. QED
    BY <2>1, <2>2
<1>7. executed' = [executed EXCEPT ![n] = @ \o batch]
  BY <1>4, Zenon
<1>. HIDE DEF batch
<1>8. executed'[n] = executed[n] \o batch /\ \A p \in Peers \ {n} : executed'[p] = executed[p]
  BY <1>7, Zenon DEF TypeOK, ServiceTypeOK
<1>9. executed[n] \in Seq(Requests) /\ Len(executed[n]) = from - 1
  BY Zenon DEF TypeOK, ServiceTypeOK, from
<1>10. /\ executed'[n] \in Seq(Requests)
       /\ Len(executed'[n]) = Len(executed[n]) + Len(batch)
       /\ \A i \in 1..Len(executed'[n]) :
              executed'[n][i] = IF i <= Len(executed[n]) THEN executed[n][i]
                                                         ELSE batch[i - Len(executed[n])]
  <2> DEFINE e == executed[n]
             both == e \o batch
  <2>1. e \in Seq(Requests) /\ batch \in Seq(Requests)
    BY <1>6, <1>9, Zenon
  <2>2. executed'[n] = both
    BY <1>8, Zenon
  <2>. HIDE DEF e
  <2>3. /\ both \in Seq(Requests) /\ Len(both) = Len(e) + Len(batch)
        /\ \A i \in 1..Len(e) + Len(batch) :
               both[i] = IF i <= Len(e) THEN e[i] ELSE batch[i - Len(e)]
    BY <2>1, Concatenation, Zenon
  <2>. HIDE DEF both
  <2>4. \A i \in 1..Len(both) : both[i] = IF i <= Len(e) THEN e[i] ELSE batch[i - Len(e)]
    BY <2>3, Zenon
  <2>. QED
    BY <2>2, <2>3, <2>4, Zenon DEF e
<1>11. Len(executed'[n]) = stop - 1
  BY <1>1, <1>2, <1>5, <1>6, <1>9, <1>10
<1>12. DOMAIN executed[n] = 1..(from - 1) /\ DOMAIN executed'[n] = 1..(stop - 1)
  BY <1>9, <1>10, <1>11
<1>13. ASSUME NEW i \in 1..(from - 1) PROVE executed'[n][i] = executed[n][i]
  <2>1. i \in 1..Len(executed'[n]) /\ i <= Len(executed[n])
    BY <1>1, <1>2, <1>5, <1>9, <1>11
  <2>. QED
    BY <1>10, <2>1, Zenon
<1>14. ASSUME NEW i \in from..(stop - 1) PROVE executed'[n][i] = rows[i]
  <2> DEFINE j == i - from + 1
  <2>1. from \in Nat /\ stop \in Nat
    BY <1>1, <1>2, <1>5
  <2>2. /\ i \in 1..(stop - 1) /\ ~(i <= from - 1) /\ i - (from - 1) = j
        /\ j \in 1..(stop - from) /\ from + j - 1 = i
    BY <1>2, <2>1
  <2>3. executed'[n][i] = batch[j]
    BY <1>9, <1>10, <1>11, <2>2, Zenon
  <2>. HIDE DEF j
  <2>. QED
    BY <1>6, <2>2, <2>3, Zenon
<1>15. executed' \in [Peers -> Seq(Requests)]
  BY <1>7, <1>8, <1>10, Zenon DEF TypeOK, ServiceTypeOK
<1>. QED
  BY <1>2, <1>3, <1>4, <1>5, <1>8, <1>11, <1>12, <1>13, <1>14, <1>15, Zenon DEF rows, from, Drains

\* A posted apply_operation: the loop moves next_request_sequence past what it executes.
LEMMA ApplyType ==
    ASSUME TypeOK, NEW n \in Peers, NEW s \in SequenceNumbers, NEW r \in Requests,
           apply_operation(n, s, r)
    PROVE  ServiceTypeOK'
<1>1. posted_applies' \in [Peers -> SUBSET (SequenceNumbers \X Requests)]
  BY Zenon DEF apply_operation, TypeOK, ServiceTypeOK
<1>2. CASE unstable_storage[n][s] # NoRequest
  BY <1>1, <1>2 DEF apply_operation, TypeOK, ServiceTypeOK
<1>3. CASE unstable_storage[n][s] = NoRequest
  <2>1. PICK from, stop : Drains(n, s, r, from, stop)
    BY <1>3, ApplyFacts, Zenon
  <2>2. /\ stored(n, s, r) \in [SequenceNumbers -> Requests \cup {NoRequest}]
        /\ MaxSequence \in Nat
    BY ServiceAssumption, Zenon DEF TypeOK, ServiceTypeOK, stored
  <2>3. /\ next_request_sequence' \in [Peers -> 1..(MaxSequence + 1)]
        /\ next_request_sequence'[n] = stop
        /\ \A p \in Peers \ {n} : next_request_sequence'[p] = next_request_sequence[p]
    <3>1. /\ stop \in 1..(MaxSequence + 1)
          /\ next_request_sequence' = [next_request_sequence EXCEPT ![n] = stop]
      BY <2>1, <2>2 DEF Drains
    <3>2. next_request_sequence \in [Peers -> 1..(MaxSequence + 1)]
      BY Zenon DEF TypeOK, ServiceTypeOK
    <3>. QED
      BY <3>1, <3>2, Zenon
  <2>4. /\ executed' \in [Peers -> Seq(Requests)]
        /\ \A p \in Peers : Len(executed'[p]) = next_request_sequence'[p] - 1
    BY <2>1, <2>3, Zenon DEF Drains, TypeOK, ServiceTypeOK
  <2>5. /\ posted_executes' \in [Peers -> SUBSET SequenceNumbers]
        /\ unstable_storage' \in [Peers -> [SequenceNumbers -> Requests \cup {NoRequest}]]
    BY <2>1, <2>2, Zenon DEF Drains, TypeOK, ServiceTypeOK
  <2>6. failed' \subseteq Peers
    BY <2>1, Zenon DEF Drains, TypeOK, ServiceTypeOK
  <2>. QED
    BY <1>1, <2>3, <2>4, <2>5, <2>6, Zenon DEF ServiceTypeOK
<1>. QED
  BY <1>2, <1>3, Zenon

\* A process that starts again has the state of one that starts.
LEMMA RestartType ==
    ASSUME TypeOK, NEW n \in Peers, restart(n)
    PROVE  TypeOK'
<1>1. MaxSequence \in Nat /\ MaxRestarts \in Nat /\ high_water_interval \in Nat
  BY ServiceAssumption, PbftAssumption DEF high_water_interval
<1>2. ServiceTypeOK'
  <2>1. EmptyStorage \in [SequenceNumbers -> Requests \cup {NoRequest}]
    BY Zenon DEF EmptyStorage
  <2>2. << >> \in Seq(Requests) /\ Len(<< >>) = 0
    OBVIOUS
  <2>3. /\ executed' \in [Peers -> Seq(Requests)]
        /\ \A p \in Peers : Len(executed'[p]) = next_request_sequence'[p] - 1
    <3>1. /\ executed \in [Peers -> Seq(Requests)]
          /\ \A p \in Peers : Len(executed[p]) = next_request_sequence[p] - 1
      BY Zenon DEF TypeOK, ServiceTypeOK
    <3>2. /\ executed' = [executed EXCEPT ![n] = << >>]
          /\ next_request_sequence' = [next_request_sequence EXCEPT ![n] = 1]
      BY Zenon DEF restart, ServiceRestart
    <3>3. \A p \in Peers : next_request_sequence'[p] = IF p = n THEN 1 ELSE next_request_sequence[p]
      BY <3>2, Zenon DEF TypeOK, ServiceTypeOK
    <3>. QED
      BY <2>2, <3>1, <3>2, <3>3
  <2>4. /\ posted_applies' \in [Peers -> SUBSET (SequenceNumbers \X Requests)]
        /\ posted_executes' \in [Peers -> SUBSET SequenceNumbers]
        /\ next_request_sequence' \in [Peers -> 1..(MaxSequence + 1)]
        /\ failed' \subseteq Peers
    BY <1>1 DEF restart, ServiceRestart, TypeOK, ServiceTypeOK
  <2>5. unstable_storage' \in [Peers -> [SequenceNumbers -> Requests \cup {NoRequest}]]
    BY <2>1, Zenon DEF restart, ServiceRestart, TypeOK, ServiceTypeOK
  <2>. QED
    BY <2>3, <2>4, <2>5, Zenon DEF ServiceTypeOK
<1>3. operations' \in [Peers -> [SequenceNumbers -> [Requests -> Operations]]]
  <2>1. NoOperation \in Operations
    BY Zenon DEF NoOperation, Operations
  <2>2. NoOperations \in [SequenceNumbers -> [Requests -> Operations]]
    BY <2>1, Zenon DEF NoOperations
  <2>. QED
    BY <2>2, Zenon DEF restart, TypeOK
<1>4. accepted_preprepares' \in [Peers -> [SequenceNumbers -> Requests \cup {NoRequest}]]
  <2>1. EmptyStorage \in [SequenceNumbers -> Requests \cup {NoRequest}]
    BY Zenon DEF EmptyStorage
  <2>. QED
    BY <2>1, Zenon DEF restart, TypeOK
<1>5. unstable_checkpoint_proofs' \in [Peers -> [SequenceNumbers -> SUBSET Peers]]
  <2>1. NoProofs \in [SequenceNumbers -> SUBSET Peers]
    BY Zenon DEF NoProofs
  <2>. QED
    BY <2>1, Zenon DEF restart, TypeOK
<1>6. /\ next_issued_sequence_number' \in [Peers -> 1..(MaxSequence + 1)]
      /\ stable_checkpoint' \in [Peers -> 0..MaxSequence]
      /\ local_unstable_checkpoints' \in [Peers -> SUBSET SequenceNumbers]
      /\ low_water_mark' \in [Peers -> Nat]
      /\ high_water_mark' \in [Peers -> Nat]
      /\ misread' \subseteq Peers
      /\ restarts' \in 0..MaxRestarts
  BY <1>1 DEF restart, TypeOK
<1>7. /\ past_filter' \in [Peers -> PhaseMessages \cup {NoMessage}]
      /\ network' \subseteq Messages
      /\ committed' \subseteq Peers \X SequenceNumbers \X Requests
  BY Zenon DEF restart, TypeOK
<1>. QED
  BY <1>2, <1>3, <1>4, <1>5, <1>6, <1>7, Zenon DEF TypeOK

\* A message that is not a request or a checkpoint is one of the three phases.
LEMMA PhaseMessage ==
    ASSUME NEW m \in Messages, m.type \in {"preprepare", "prepare", "commit"}
    PROVE  m \in PhaseMessages
  BY Zenon DEF Messages, PhaseMessages

\* Every step of Next keeps the types.
LEMMA NextTypeOK == TypeOK /\ [Next]_vars => TypeOK'
<1> SUFFICES ASSUME TypeOK, [Next]_vars PROVE TypeOK'
  BY Zenon
<1>1. CASE UNCHANGED vars
  BY <1>1, Zenon DEF vars, replicaVars, checkpointVars, serviceVars, TypeOK, ServiceTypeOK
<1>2. ASSUME NEW n \in Peers, NEW r \in Requests, handle_database_message(n, r),
             UNCHANGED restarts
      PROVE  TypeOK'
  BY <1>2, RequestType, Zenon DEF handle_database_message, TypeOK
<1>3. ASSUME NEW n \in Peers, NEW r \in Requests, handle_join_or_leave(n, r),
             UNCHANGED restarts
      PROVE  TypeOK'
  <2>1. issue(n, r, network) /\ network \in SUBSET Messages
    BY <1>3, Zenon DEF handle_join_or_leave, TypeOK
  <2>2. /\ next_issued_sequence_number' \in [Peers -> 1..(MaxSequence + 1)]
        /\ operations' \in [Peers -> [SequenceNumbers -> [Requests -> Operations]]]
        /\ network' \subseteq Messages
    BY <2>1, IssueType, Zenon
  <2>. QED
    BY <1>3, <2>2, Zenon DEF handle_join_or_leave, TypeOK, ServiceTypeOK, checkpointVars,
                             serviceVars
<1>4. ASSUME NEW n \in Peers, NEW m \in network, handle_forwarded_request(n, m),
             UNCHANGED restarts
      PROVE  TypeOK'
  <2>1. m \in Messages /\ m.type = "request"
    BY <1>4, Zenon DEF handle_forwarded_request, TypeOK
  <2>2. m.request \in Requests
    BY <2>1, Zenon DEF Messages, PhaseMessages
  <2>3. network \ {m} \in SUBSET Messages
    BY Zenon DEF TypeOK
  <2>. QED
    BY <1>4, <2>2, <2>3, RequestType, Zenon DEF handle_forwarded_request
<1>5. ASSUME NEW n \in Peers, NEW m \in network, handle_message(n, m), UNCHANGED restarts
      PROVE  TypeOK'
  <2>1. m \in Messages /\ network \ {m} \in SUBSET Messages
    BY Zenon DEF TypeOK
  <2>2. CASE /\ network' = network \ {m}
             /\ UNCHANGED <<replicaVars, checkpointVars, past_filter, serviceVars>>
    BY <1>5, <2>1, <2>2, Zenon DEF TypeOK, ServiceTypeOK, replicaVars, checkpointVars, serviceVars
  <2>3. CASE handle_phase_message(n, m, network \ {m}) /\ UNCHANGED past_filter
    <3>1. m.type \in {"preprepare", "prepare", "commit"}
      BY <2>3, Zenon DEF handle_phase_message
    <3>2. m \in PhaseMessages
      BY <2>1, <3>1, PhaseMessage, Zenon
    <3>. QED
      BY <1>5, <2>1, <2>3, <3>2, PhaseMessageType, Zenon DEF TypeOK
  <2>4. CASE m.type = "checkpoint" /\ handle_checkpoint(n, m, network \ {m})
    BY <1>5, <2>1, <2>4, CheckpointType, Zenon
  <2>. QED
    BY <1>5, <2>2, <2>3, <2>4, Zenon DEF handle_message
<1>6. ASSUME NEW n \in Peers, NEW m \in network, pass_filter(n, m), UNCHANGED restarts
      PROVE  TypeOK'
  <2>1. m \in PhaseMessages
    BY <1>6, PhaseMessage, Zenon DEF pass_filter, TypeOK
  <2>. QED
    BY <1>6, <2>1, Zenon DEF pass_filter, TypeOK, ServiceTypeOK, replicaVars, checkpointVars,
                      serviceVars
<1>7. ASSUME NEW n \in Peers, handle_past_filter(n), UNCHANGED restarts
      PROVE  TypeOK'
  <2>1. past_filter[n] \in PhaseMessages /\ network \in SUBSET Messages
    BY <1>7, Zenon DEF handle_past_filter, TypeOK
  <2>2. past_filter' \in [Peers -> PhaseMessages \cup {NoMessage}]
    BY <1>7, Zenon DEF handle_past_filter, TypeOK
  <2>. QED
    BY <1>7, <2>1, <2>2, PhaseMessageType, Zenon DEF handle_past_filter
<1>8. ASSUME NEW n \in Peers, NEW s \in SequenceNumbers, NEW r \in Requests,
             run_apply_operation(n, s, r), UNCHANGED restarts
      PROVE  TypeOK'
  <2>1. ServiceTypeOK'
    BY <1>8, ApplyType, Zenon DEF run_apply_operation
  <2>. QED
    BY <1>8, <2>1, Zenon DEF run_apply_operation, TypeOK, replicaVars, checkpointVars
<1>9. ASSUME NEW n \in Peers, NEW s \in SequenceNumbers, execute_handler(n, s),
             UNCHANGED restarts
      PROVE  TypeOK'
  BY <1>9, ExecuteHandlerType, Zenon
<1>10. ASSUME NEW n \in Peers, restart(n)
       PROVE  TypeOK'
  BY <1>10, RestartType, Zenon
<1>11. ConfigRequests \subseteq Requests
  BY PbftAssumption, Zenon
<1>. QED
  BY <1>1, <1>2, <1>3, <1>4, <1>5, <1>6, <1>7, <1>8, <1>9, <1>10, <1>11, Zenon
           DEF Next, work, client

\* Every variable of the swarm keeps its type.  In particular the service has
\* executed exactly the sequence numbers before next_request_sequence, all of
\* them requests: the loop of process_awaiting_operations skips no row.
THEOREM TypeCorrectness == Spec => []TypeOK
  BY InitTypeOK, NextTypeOK, PTL DEF Spec

-----------------------------------------------------------------------------
(***************************************************************************)
(* What the phases do, for the proofs that rest on it.                     *)
(***************************************************************************)

\* The record maybe_advance_operation_state leaves: the votes are those of op.
advanced(op) == end_commit_phase(begin_commit_phase(op))

\* The phase changes of an operation touch none of its votes.
LEMMA AdvancedKeepsVotes ==
    ASSUME NEW op \in Operations
    PROVE  /\ advanced(op) \in Operations
           /\ advanced(op).prepares_seen = op.prepares_seen
           /\ advanced(op).preprepare_seen = op.preprepare_seen
<1>1. /\ begin_commit_phase(op) \in Operations
      /\ begin_commit_phase(op).prepares_seen = op.prepares_seen
      /\ begin_commit_phase(op).preprepare_seen = op.preprepare_seen
  BY Zenon DEF begin_commit_phase, Operations
<1>. QED
  BY <1>1, Zenon DEF advanced, end_commit_phase, Operations

\* Steps that leave the votes alone: nothing is accepted, committed or proposed, no
\* preprepare or prepare is sent, and records of operations at most shrink.
LEMMA QuietStep ==
    ASSUME AgreementInvariant,
           \A m \in in_flight' : m \in in_flight \/ m.type \notin {"preprepare", "prepare"},
           \A n \in Peers, s \in SequenceNumbers, r \in Requests :
               /\ operations'[n][s][r].prepares_seen \subseteq operations[n][s][r].prepares_seen
               /\ operations'[n][s][r].preprepare_seen => operations[n][s][r].preprepare_seen,
           UNCHANGED <<accepted_preprepares, committed, next_issued_sequence_number>>
    PROVE  AgreementInvariant'
<1>1. PreparedIsAccepted'
  BY DEF AgreementInvariant, PreparedIsAccepted
<1>2. CommittedByQuorum'
  BY Zenon DEF AgreementInvariant, CommittedByQuorum
<1>3. ProposedOnce'
  BY DEF AgreementInvariant, ProposedOnce, proposed
<1>. QED
  BY <1>1, <1>2, <1>3, Zenon DEF AgreementInvariant

\* What was accepted stays accepted: the condition under which an acceptance, or a
\* restart, keeps the quorums behind the commits.
LEMMA QuorumsKept ==
    ASSUME CommittedByQuorum, TypeOK, committed' = committed,
           \A q \in Peers \ MayRestart, s \in SequenceNumbers, r \in Requests :
               accepted_preprepares[q][s] = r => accepted_preprepares'[q][s] = r
    PROVE  CommittedByQuorum'
<1> SUFFICES ASSUME NEW x \in committed
             PROVE  \E Q \in SUBSET Peers :
                        /\ Cardinality(Q) > 2 * faulty_nodes_bound
                        /\ \A q \in Q \ MayRestart : accepted_preprepares'[q][x[2]] = x[3]
  BY Zenon DEF CommittedByQuorum
<1>1. PICK Q \in SUBSET Peers :
          /\ Cardinality(Q) > 2 * faulty_nodes_bound
          /\ \A q \in Q \ MayRestart : accepted_preprepares[q][x[2]] = x[3]
  BY Zenon DEF CommittedByQuorum
<1>2. x[2] \in SequenceNumbers /\ x[3] \in Requests
  BY Zenon DEF TypeOK
<1>3. \A q \in Q \ MayRestart : accepted_preprepares'[q][x[2]] = x[3]
  BY <1>1, <1>2
<1>. QED
  BY <1>1, <1>3, Zenon

\* The primary gives a request the next sequence number and proposes it.
LEMMA IssueStep ==
    ASSUME AgreementInvariant, TypeOK, NEW r \in Requests, NEW others,
           others \subseteq network, issue(Primary, r, others),
           UNCHANGED <<accepted_preprepares, committed, past_filter>>
    PROVE  AgreementInvariant'
<1> DEFINE s == next_issued_sequence_number[Primary]
           sent == broadcast(Primary, "preprepare", s, r)
<1>1. Primary \in Peers /\ s \in SequenceNumbers
  BY PbftAssumption, ServiceAssumption DEF issue, TypeOK, SequenceNumbers
<1>2. \A m \in sent : m.type = "preprepare" /\ m.sequence = s /\ m.request = r
  BY DEF broadcast
<1>3. in_flight' \subseteq in_flight \cup sent
  BY Zenon DEF issue, in_flight
<1>4. /\ operations' = [operations EXCEPT ![Primary][s][r] = find_operation(Primary, s, r)]
      /\ next_issued_sequence_number' = [next_issued_sequence_number EXCEPT ![Primary] = s + 1]
  BY Zenon DEF issue
<1>. HIDE DEF s, sent
<1>5. \A n \in Peers, t \in SequenceNumbers, q \in Requests :
          /\ operations'[n][t][q].prepares_seen \subseteq operations[n][t][q].prepares_seen
          /\ operations'[n][t][q].preprepare_seen => operations[n][t][q].preprepare_seen
  <2>1. /\ find_operation(Primary, s, r).prepares_seen
               \subseteq operations[Primary][s][r].prepares_seen
        /\ find_operation(Primary, s, r).preprepare_seen
               => operations[Primary][s][r].preprepare_seen
    BY Zenon DEF find_operation, new_operation, NoOperation
  <2>2. ASSUME NEW n \in Peers, NEW t \in SequenceNumbers, NEW q \in Requests
        PROVE  \/ operations'[n][t][q] = operations[n][t][q]
               \/ /\ n = Primary /\ t = s /\ q = r
                  /\ operations'[n][t][q] = find_operation(Primary, s, r)
    BY <1>1, <1>4 DEF TypeOK
  <2>. QED
    BY <2>1, <2>2
<1>6. PreparedIsAccepted'
  BY <1>2, <1>3, <1>5 DEF AgreementInvariant, PreparedIsAccepted
<1>7. CommittedByQuorum'
  BY Zenon DEF AgreementInvariant, CommittedByQuorum
<1>8. ProposedOnce'
  <2> SUFFICES ASSUME Primary \notin MayRestart
               PROVE  \A t \in SequenceNumbers, q \in Requests : proposed(t, q)' =>
                          /\ t < next_issued_sequence_number'[Primary]
                          /\ \A p \in Requests : proposed(t, p)' => p = q
    BY Zenon DEF ProposedOnce
  <2>1. \A t \in SequenceNumbers, q \in Requests :
            proposed(t, q)' => proposed(t, q) \/ (t = s /\ q = r)
    BY <1>2, <1>3, Zenon DEF proposed
  <2>2. \A q \in Requests : ~proposed(s, q)
    BY <1>1 DEF AgreementInvariant, ProposedOnce, s, SequenceNumbers
  <2>3. next_issued_sequence_number'[Primary] = s + 1
    BY <1>1, <1>4, Zenon DEF TypeOK
  <2>4. \A t \in SequenceNumbers, q \in Requests : proposed(t, q) => t < s
    BY Zenon DEF AgreementInvariant, ProposedOnce, s
  <2>5. \A t \in SequenceNumbers, q \in Requests : proposed(t, q) =>
            \A p \in Requests : proposed(t, p) => p = q
    BY Zenon DEF AgreementInvariant, ProposedOnce
  <2>. QED
    BY <1>1, <2>1, <2>2, <2>3, <2>4, <2>5 DEF SequenceNumbers
<1>. QED
  BY <1>6, <1>7, <1>8, Zenon DEF AgreementInvariant

\* A peer restarts: it forgets what it accepted and counted.
LEMMA RestartStep ==
    ASSUME AgreementInvariant, TypeOK, NEW n \in MayRestart, restart(n)
    PROVE  AgreementInvariant'
<1>1. n \in Peers
  BY PbftAssumption, Zenon
<1>2. in_flight' \subseteq in_flight
  BY <1>1, Zenon DEF restart, in_flight, TypeOK
<1>3. \A p \in Peers : p # n => /\ accepted_preprepares'[p] = accepted_preprepares[p]
                                /\ operations'[p] = operations[p]
  BY <1>1, Zenon DEF restart, TypeOK
<1>4. /\ \A s \in SequenceNumbers : accepted_preprepares'[n][s] = NoRequest
      /\ \A s \in SequenceNumbers, r \in Requests : operations'[n][s][r] = NoOperation
  BY <1>1, Zenon DEF restart, TypeOK, EmptyStorage, NoOperations
<1>5. NoOperation.prepares_seen = {} /\ NoOperation.preprepare_seen = FALSE
  BY Zenon DEF NoOperation
<1>6. PreparedIsAccepted'
  <2>1. \A m \in in_flight' : m.type = "prepare" /\ m.sender \notin MayRestart =>
            accepted_preprepares'[m.sender][m.sequence] = m.request
    <3>1. \A m \in in_flight : m.sender \in Peers
      BY Zenon DEF in_flight, TypeOK, Messages, PhaseMessages
    <3>. QED
      BY <1>2, <1>3, <3>1, Zenon DEF AgreementInvariant, PreparedIsAccepted
  <2>2. ASSUME NEW p \in Peers, NEW s \in SequenceNumbers, NEW r \in Requests
        PROVE  /\ \A q \in operations'[p][s][r].prepares_seen \ MayRestart :
                      accepted_preprepares'[q][s] = r
               /\ operations'[p][s][r].preprepare_seen => accepted_preprepares'[p][s] = r
    <3>1. CASE p = n
      BY <1>4, <1>5, <3>1, Zenon
    <3>2. CASE p # n
      <4>1. operations[p][s][r].prepares_seen \subseteq Peers
        BY DEF TypeOK, Operations
      <4>. QED
        BY <1>3, <3>2, <4>1 DEF AgreementInvariant, PreparedIsAccepted
    <3>. QED
      BY <3>1, <3>2, Zenon
  <2>. QED
    BY <2>1, <2>2, Zenon DEF PreparedIsAccepted
<1>7. CommittedByQuorum'
  BY <1>3, QuorumsKept, Zenon DEF AgreementInvariant, restart
<1>8. ProposedOnce'
  <2>1. \A s \in SequenceNumbers, r \in Requests : proposed(s, r)' => proposed(s, r)
    BY <1>2, <1>3, <1>4, ServiceAssumption DEF proposed, restart
  <2>2. Primary # n => next_issued_sequence_number'[Primary] = next_issued_sequence_number[Primary]
    BY <1>1, PbftAssumption, Zenon DEF restart, TypeOK
  <2>. QED
    BY <2>1, <2>2, Zenon DEF AgreementInvariant, ProposedOnce
<1>. QED
  BY <1>6, <1>7, <1>8, Zenon DEF AgreementInvariant

\* What maybe_advance_operation_state does, as far as agreement is concerned.
LEMMA AdvanceFacts ==
    ASSUME NEW n, NEW s, NEW r, NEW op \in Operations, NEW store, NEW others,
           maybe_advance_operation_state(n, s, r, op, store, others)
    PROVE  /\ network' \subseteq others \cup broadcast(n, "commit", s, r)
           /\ \/ committed' = committed
              \/ /\ committed' = committed \cup {<<n, s, r>>}
                 /\ op.preprepare_seen
                 /\ Cardinality(op.prepares_seen) > 2 * faulty_nodes_bound
<1> DEFINE prepared == begin_commit_phase(op)
           done == end_commit_phase(prepared)
<1>1. /\ prepared.prepares_seen = op.prepares_seen
      /\ prepared.preprepare_seen = op.preprepare_seen
  BY Zenon DEF begin_commit_phase, Operations
<1>2. done.state # prepared.state => is_prepared(prepared)
  BY Zenon DEF end_commit_phase, is_committed
<1>3. /\ network' \subseteq others \cup broadcast(n, "commit", s, r)
      /\ committed' = IF done.state # prepared.state THEN committed \cup {<<n, s, r>>}
                                                      ELSE committed
  BY Zenon DEF maybe_advance_operation_state, advance
<1>. QED
  BY <1>1, <1>2, <1>3, Zenon DEF is_prepared

\* A step accepts nothing but request r at sequence s, and that only if it was proposed.
NothingElseAccepted(s, r) ==
    \A q \in Peers, t \in SequenceNumbers, p \in Requests :
        /\ accepted_preprepares[q][t] = p => accepted_preprepares'[q][t] = p
        /\ accepted_preprepares'[q][t] = p => \/ accepted_preprepares[q][t] = p
                                              \/ t = s /\ p = r /\ proposed(s, r)

\* What is in flight after a step was so before, but for n's prepare of what it accepts.
NothingElseSent(n, s, r, messages) ==
    \A m \in messages \cup ({past_filter'[p] : p \in Peers} \ {NoMessage}) :
        \/ m \in in_flight
        \/ /\ m.type = "prepare" /\ m.sequence = s /\ m.request = r /\ m.sender = n
           /\ accepted_preprepares'[n][s] = r

\* A message of one of the phases: peer n records a vote or an acceptance in op, and
\* whatever it accepts has been proposed.
LEMMA VoteStep ==
    ASSUME AgreementInvariant, TypeOK,
           NEW n \in Peers, NEW s \in SequenceNumbers, NEW r \in Requests,
           NEW op \in Operations, NEW store, NEW others,
           maybe_advance_operation_state(n, s, r, op, store, others),
           NothingElseAccepted(s, r), NothingElseSent(n, s, r, others),
           \A q \in op.prepares_seen \ MayRestart : accepted_preprepares'[q][s] = r,
           op.preprepare_seen => accepted_preprepares'[n][s] = r,
           UNCHANGED next_issued_sequence_number
    PROVE  AgreementInvariant'
<1> DEFINE done == advanced(op)
<1>1. /\ operations' = [operations EXCEPT ![n][s][r] = done]
      /\ done.prepares_seen = op.prepares_seen
      /\ done.preprepare_seen = op.preprepare_seen
  <2>1. operations' = [operations EXCEPT ![n][s][r] = done]
    BY Zenon DEF maybe_advance_operation_state, advance, advanced
  <2>2. done.prepares_seen = op.prepares_seen /\ done.preprepare_seen = op.preprepare_seen
    BY AdvancedKeepsVotes, Zenon
  <2>. QED
    BY <2>1, <2>2, Zenon
<1>. HIDE DEF done
<1>2. network' \subseteq others \cup broadcast(n, "commit", s, r)
  BY AdvanceFacts, Zenon
<1>3. \/ committed' = committed
      \/ /\ committed' = committed \cup {<<n, s, r>>}
         /\ op.preprepare_seen
         /\ Cardinality(op.prepares_seen) > 2 * faulty_nodes_bound
  BY AdvanceFacts, Zenon
<1>4. \A m \in broadcast(n, "commit", s, r) : m.type = "commit"
  BY DEF broadcast
<1>5. \A m \in in_flight' :
          \/ m \in in_flight
          \/ m.type = "commit"
          \/ /\ m.type = "prepare" /\ m.sequence = s /\ m.request = r /\ m.sender = n
             /\ accepted_preprepares'[n][s] = r
  BY <1>2, <1>4, Zenon DEF in_flight, NothingElseSent
<1>6. PreparedIsAccepted'
  <2>1. ASSUME NEW m \in in_flight', m.type = "prepare", m.sender \notin MayRestart
        PROVE  accepted_preprepares'[m.sender][m.sequence] = m.request
    <3>1. CASE m \in in_flight
      <4>1. m.sender \in Peers /\ m.sequence \in SequenceNumbers /\ m.request \in Requests
        BY <2>1, <3>1, Zenon DEF in_flight, TypeOK, Messages, PhaseMessages
      <4>2. accepted_preprepares[m.sender][m.sequence] = m.request
        BY <2>1, <3>1, Zenon DEF AgreementInvariant, PreparedIsAccepted
      <4>. QED
        BY <4>1, <4>2 DEF NothingElseAccepted
    <3>. QED
      BY <1>5, <2>1, <3>1, Zenon
  <2>2. ASSUME NEW p \in Peers, NEW t \in SequenceNumbers, NEW q \in Requests
        PROVE  /\ \A v \in operations'[p][t][q].prepares_seen \ MayRestart :
                      accepted_preprepares'[v][t] = q
               /\ operations'[p][t][q].preprepare_seen => accepted_preprepares'[p][t] = q
    <3>1. CASE p = n /\ t = s /\ q = r
      <4>1. operations'[p][t][q] = done
        BY <1>1, <3>1 DEF TypeOK
      <4>. QED
        BY <1>1, <3>1, <4>1, Zenon
    <3>2. CASE ~(p = n /\ t = s /\ q = r)
      <4>1. operations'[p][t][q] = operations[p][t][q]
        BY <1>1, <3>2 DEF TypeOK
      <4>2. operations[p][t][q].prepares_seen \subseteq Peers
        BY DEF TypeOK, Operations
      <4>. QED
        BY <4>1, <4>2 DEF AgreementInvariant, PreparedIsAccepted, NothingElseAccepted
    <3>. QED
      BY <3>1, <3>2, Zenon
  <2>. QED
    BY <2>1, <2>2, Zenon DEF PreparedIsAccepted
<1>7. CommittedByQuorum'
  <2>1. CASE committed' = committed
    BY <2>1, QuorumsKept DEF AgreementInvariant, NothingElseAccepted
  <2>2. CASE /\ committed' = committed \cup {<<n, s, r>>}
             /\ Cardinality(op.prepares_seen) > 2 * faulty_nodes_bound
    <3>1. ASSUME NEW x \in committed
          PROVE  \E Q \in SUBSET Peers :
                     /\ Cardinality(Q) > 2 * faulty_nodes_bound
                     /\ \A q \in Q \ MayRestart : accepted_preprepares'[q][x[2]] = x[3]
      <4>1. PICK Q \in SUBSET Peers :
                /\ Cardinality(Q) > 2 * faulty_nodes_bound
                /\ \A q \in Q \ MayRestart : accepted_preprepares[q][x[2]] = x[3]
        BY <3>1, Zenon DEF AgreementInvariant, CommittedByQuorum
      <4>2. x[2] \in SequenceNumbers /\ x[3] \in Requests
        BY <3>1, Zenon DEF TypeOK
      <4>3. \A q \in Q \ MayRestart : accepted_preprepares'[q][x[2]] = x[3]
        BY <4>1, <4>2 DEF NothingElseAccepted
      <4>. QED
        BY <4>1, <4>3, Zenon
    <3>2. op.prepares_seen \in SUBSET Peers
      BY Zenon DEF Operations
    <3>3. \E Q \in SUBSET Peers :
              /\ Cardinality(Q) > 2 * faulty_nodes_bound
              /\ \A q \in Q \ MayRestart : accepted_preprepares'[q][s] = r
      BY <2>2, <3>2, Zenon
    <3>. QED
      BY <2>2, <3>1, <3>3 DEF CommittedByQuorum
  <2>. QED
    BY <1>3, <2>1, <2>2, Zenon
<1>8. ProposedOnce'
  <2>1. ASSUME NEW t \in SequenceNumbers, NEW q \in Requests, proposed(t, q)'
        PROVE  proposed(t, q)
    <3>1. CASE \E m \in in_flight' : m.type = "preprepare" /\ m.sequence = t /\ m.request = q
      BY <1>5, <3>1, Zenon DEF proposed
    <3>2. CASE \E p \in Peers : accepted_preprepares'[p][t] = q
      BY <3>2 DEF proposed, NothingElseAccepted
    <3>3. CASE \E x \in committed' : x[2] = t /\ x[3] = q
      <4>1. CASE \E x \in committed : x[2] = t /\ x[3] = q
        BY <4>1, Zenon DEF proposed
      <4>2. CASE t = s /\ q = r /\ op.preprepare_seen
        <5>1. accepted_preprepares'[n][s] = r
          BY <4>2, Zenon
        <5>2. accepted_preprepares[n][s] = r \/ proposed(s, r)
          BY <5>1, Zenon DEF NothingElseAccepted
        <5>. QED
          BY <4>2, <5>2, Zenon DEF proposed
      <4>. QED
        BY <1>3, <3>3, <4>1, <4>2
    <3>. QED
      BY <2>1, <3>1, <3>2, <3>3, Zenon DEF proposed
  <2>. QED
    BY <2>1, Zenon DEF AgreementInvariant, ProposedOnce
<1>. QED
  BY <1>6, <1>7, <1>8, Zenon DEF AgreementInvariant

\* A preprepare, prepare or commit that passed the filter.
LEMMA PhaseStep ==
    ASSUME AgreementInvariant, TypeOK, NEW n \in Peers,
           NEW m \in PhaseMessages, m \in in_flight, NEW others,
           handle_phase_message(n, m, others),
           others \cup ({past_filter'[p] : p \in Peers} \ {NoMessage}) \subseteq in_flight
    PROVE  AgreementInvariant'
<1> DEFINE s == m.sequence
           r == m.request
           old == find_operation(n, s, r)
<1>1. s \in SequenceNumbers /\ r \in Requests /\ m.sender \in Peers
  BY Zenon DEF PhaseMessages
<1>2. old \in Operations
  BY <1>1, FindOperationType, Zenon
<1>3. UNCHANGED next_issued_sequence_number
  BY Zenon DEF handle_phase_message
<1>4. /\ \A q \in old.prepares_seen \ MayRestart : accepted_preprepares[q][s] = r
      /\ old.preprepare_seen => accepted_preprepares[n][s] = r
  <2>1. /\ old.prepares_seen \subseteq operations[n][s][r].prepares_seen
        /\ old.preprepare_seen => operations[n][s][r].preprepare_seen
    BY Zenon DEF find_operation, new_operation, NoOperation
  <2>. QED
    BY <1>1, <2>1 DEF AgreementInvariant, PreparedIsAccepted
<1>. HIDE DEF s, r, old
<1>5. CASE m.type = "preprepare" /\ handle_preprepare(n, m, others)
  <2>1. CASE accepted_preprepares[n][s] \notin {NoRequest, r}
    <3>1. network' = others /\ UNCHANGED <<operations, accepted_preprepares, committed>>
      BY <1>5, <2>1, Zenon DEF handle_preprepare, s, r
    <3>2. in_flight' \subseteq in_flight
      BY <3>1, Zenon DEF in_flight
    <3>. QED
      BY <1>3, <3>1, <3>2, QuietStep, Zenon
  <2>2. CASE accepted_preprepares[n][s] \in {NoRequest, r}
    <3> DEFINE op == [old EXCEPT !.preprepare_seen = TRUE]
               sent == broadcast(n, "prepare", s, r)
    <3>1. accepted_preprepares' = [accepted_preprepares EXCEPT ![n][s] = r]
      BY <1>5, <2>2, Zenon DEF handle_preprepare, s, r
    <3>2. PICK store : maybe_advance_operation_state(n, s, r, op, store, others \cup sent)
      BY <1>5, <2>2, Zenon DEF handle_preprepare, s, r, old
    <3>3. /\ op \in Operations
          /\ op.prepares_seen = old.prepares_seen
      BY <1>2, Zenon DEF Operations
    <3>4. accepted_preprepares'[n][s] = r
      BY <1>1, <3>1, Zenon DEF TypeOK
    <3>5. proposed(s, r)
      BY <1>5, Zenon DEF proposed, s, r
    <3>6. \A q \in Peers, t \in SequenceNumbers :
              \/ accepted_preprepares'[q][t] = accepted_preprepares[q][t]
              \/ q = n /\ t = s
      BY <3>1, Zenon DEF TypeOK
    <3>7. NothingElseAccepted(s, r)
      BY <2>2, <3>4, <3>5, <3>6, ServiceAssumption, Zenon DEF NothingElseAccepted
    <3>8. \A x \in sent : x.type = "prepare" /\ x.sequence = s /\ x.request = r /\ x.sender = n
      BY DEF broadcast
    <3>9. \A q \in op.prepares_seen \ MayRestart : accepted_preprepares'[q][s] = r
      <4>1. old.prepares_seen \subseteq Peers
        BY <1>2, Zenon DEF Operations
      <4>. QED
        BY <1>1, <1>4, <3>3, <3>7, <4>1 DEF NothingElseAccepted
    <3>. HIDE DEF op, sent
    <3>10. NothingElseSent(n, s, r, others \cup sent)
      <4> DEFINE filtered == {past_filter'[p] : p \in Peers} \ {NoMessage}
      <4>1. others \cup filtered \subseteq in_flight
        BY Zenon
      <4>. HIDE DEF filtered
      <4>2. SUFFICES ASSUME NEW x \in (others \cup sent) \cup filtered
                     PROVE  x \in in_flight \/ x \in sent
        BY <3>4, <3>8, Zenon DEF filtered, NothingElseSent
      <4>. QED
        BY <4>1, Zenon
    <3>. QED
      BY <1>1, <1>3, <3>2, <3>3, <3>4, <3>7, <3>9, <3>10, VoteStep, Zenon
  <2>. QED
    BY <2>1, <2>2, Zenon
<1>6. CASE m.type = "prepare" /\ handle_prepare(n, m, others)
  <2> DEFINE op == [old EXCEPT !.prepares_seen = @ \cup {m.sender}]
  <2>1. PICK store : maybe_advance_operation_state(n, s, r, op, store, others)
    BY <1>6, Zenon DEF handle_prepare, s, r, old
  <2>2. UNCHANGED accepted_preprepares
    BY <1>6, Zenon DEF handle_prepare
  <2>3. /\ op \in Operations
        /\ op.prepares_seen = old.prepares_seen \cup {m.sender}
        /\ op.preprepare_seen = old.preprepare_seen
    BY <1>1, <1>2, Zenon DEF Operations
  <2>4. m.sender \notin MayRestart => accepted_preprepares[m.sender][s] = r
    BY <1>6, Zenon DEF AgreementInvariant, PreparedIsAccepted, s, r
  <2>. HIDE DEF op
  <2>5. NothingElseAccepted(s, r)
    BY <2>2, Zenon DEF NothingElseAccepted
  <2>6. NothingElseSent(n, s, r, others)
    BY Zenon DEF NothingElseSent
  <2>. QED
    BY <1>1, <1>3, <1>4, <2>1, <2>2, <2>3, <2>4, <2>5, <2>6, VoteStep, Zenon
<1>7. CASE m.type = "commit" /\ handle_commit(n, m, others)
  <2> DEFINE op == [old EXCEPT !.commits_seen = @ \cup {m.sender}]
  <2>1. PICK store : maybe_advance_operation_state(n, s, r, op, store, others)
    BY <1>7, Zenon DEF handle_commit, s, r, old
  <2>2. UNCHANGED accepted_preprepares
    BY <1>7, Zenon DEF handle_commit
  <2>3. /\ op \in Operations
        /\ op.prepares_seen = old.prepares_seen
        /\ op.preprepare_seen = old.preprepare_seen
    BY <1>1, <1>2, Zenon DEF Operations
  <2>. HIDE DEF op
  <2>4. NothingElseAccepted(s, r)
    BY <2>2, Zenon DEF NothingElseAccepted
  <2>5. NothingElseSent(n, s, r, others)
    BY Zenon DEF NothingElseSent
  <2>. QED
    BY <1>1, <1>3, <1>4, <2>1, <2>2, <2>3, <2>4, <2>5, VoteStep, Zenon
<1>. QED
  BY <1>5, <1>6, <1>7, Zenon DEF handle_phase_message

\* At the start nothing is accepted, voted for or committed.
LEMMA InitAgreement == Init => AgreementInvariant
<1> SUFFICES ASSUME Init PROVE AgreementInvariant
  BY Zenon
<1>1. in_flight = {}
  BY Zenon DEF Init, in_flight
<1>2. \A n \in Peers, s \in SequenceNumbers, r \in Requests :
          /\ operations[n][s][r].prepares_seen = {}
          /\ operations[n][s][r].preprepare_seen = FALSE
          /\ accepted_preprepares[n][s] = NoRequest
  BY Zenon DEF Init, NoOperations, NoOperation, EmptyStorage
<1>3. committed = {}
  BY Zenon DEF Init
<1>. QED
  BY <1>1, <1>2, <1>3, ServiceAssumption, Zenon
           DEF AgreementInvariant, PreparedIsAccepted, CommittedByQuorum, ProposedOnce, proposed

\* A checkpoint that becomes stable clears records and adds none.
LEMMA StabilizeShrinks ==
    ASSUME TypeOK, NEW n \in Peers, NEW cp, NEW local, NEW proofs, NEW reads,
           maybe_stabilize_checkpoint(n, cp, local, proofs, reads)
    PROVE  \A p \in Peers, s \in SequenceNumbers, r \in Requests :
               /\ operations'[p][s][r].prepares_seen \subseteq operations[p][s][r].prepares_seen
               /\ operations'[p][s][r].preprepare_seen => operations[p][s][r].preprepare_seen
<1>1. CASE UNCHANGED operations
  BY <1>1, Zenon
<1>2. CASE \E last \in reads :
               operations' = [operations EXCEPT ![n] = clear_operations_until(@, last)]
  <2>1. ASSUME NEW p \in Peers, NEW s \in SequenceNumbers, NEW r \in Requests
        PROVE  operations'[p][s][r] \in {operations[p][s][r], NoOperation}
    <3>1. PICK last \in reads :
              operations' = [operations EXCEPT ![n] = clear_operations_until(@, last)]
      BY <1>2, Zenon
    <3>. QED
      BY <3>1, Zenon DEF TypeOK, clear_operations_until
  <2>2. NoOperation.prepares_seen = {} /\ NoOperation.preprepare_seen = FALSE
    BY Zenon DEF NoOperation
  <2>. QED
    BY <2>1, <2>2, Zenon
<1>. QED
  BY <1>1, <1>2, Zenon DEF maybe_stabilize_checkpoint, stabilize, record_checkpoint

\* A request: a proposal of the primary, or a message to it.
LEMMA RequestStep ==
    ASSUME AgreementInvariant, TypeOK, NEW n \in Peers, NEW r \in Requests,
           NEW others, others \subseteq network, handle_request(n, r, others)
    PROVE  AgreementInvariant'
<1>1. UNCHANGED <<accepted_preprepares, committed, past_filter>>
  BY Zenon DEF handle_request
<1>2. CASE n = Primary /\ issue(n, r, others)
  BY <1>1, <1>2, IssueStep, Zenon
<1>3. CASE n # Primary
  <2>1. UNCHANGED <<next_issued_sequence_number, operations>>
    BY <1>3, Zenon DEF handle_request
  <2>2. network' = others \cup {[type |-> "request", sequence |-> 0, request |-> r,
                                 sender |-> n, dest |-> Primary]}
    BY <1>3, Zenon DEF handle_request
  <2>3. \A m \in in_flight' : m \in in_flight \/ m.type \notin {"preprepare", "prepare"}
    BY <1>1, <2>2 DEF in_flight
  <2>. QED
    BY <1>1, <2>1, <2>3, QuietStep, Zenon
<1>. QED
  BY <1>2, <1>3, Zenon DEF handle_request

\* Every step of Next keeps the invariant behind agreement.
LEMMA NextAgreement == TypeOK /\ AgreementInvariant /\ [Next]_vars => AgreementInvariant'
<1> SUFFICES ASSUME TypeOK, AgreementInvariant, [Next]_vars PROVE AgreementInvariant'
  BY Zenon
<1>1. CASE UNCHANGED vars
  <2>1. UNCHANGED <<network, past_filter, operations, accepted_preprepares, committed,
                    next_issued_sequence_number>>
    BY <1>1, Zenon DEF vars, replicaVars
  <2>2. in_flight' = in_flight
    BY <2>1, Zenon DEF in_flight
  <2>. QED
    BY <2>1, <2>2, QuietStep, Zenon
<1>2. ASSUME NEW n \in Peers, NEW r \in Requests, handle_database_message(n, r)
      PROVE  AgreementInvariant'
  BY <1>2, RequestStep, Zenon DEF handle_database_message
<1>3. ASSUME NEW n \in Peers, NEW r \in Requests, handle_join_or_leave(n, r)
      PROVE  AgreementInvariant'
  BY <1>3, IssueStep, Zenon DEF handle_join_or_leave
<1>4. ASSUME NEW n \in Peers, NEW m \in network, handle_forwarded_request(n, m)
      PROVE  AgreementInvariant'
  <2>1. m \in Messages /\ m.type = "request"
    BY <1>4, Zenon DEF handle_forwarded_request, TypeOK
  <2>2. m.request \in Requests
    BY <2>1, Zenon DEF Messages, PhaseMessages
  <2>. QED
    BY <1>4, <2>2, RequestStep, Zenon DEF handle_forwarded_request
<1>5. ASSUME NEW n \in Peers, NEW m \in network, handle_message(n, m)
      PROVE  AgreementInvariant'
  <2>1. CASE /\ network' = network \ {m}
             /\ UNCHANGED <<replicaVars, checkpointVars, past_filter, serviceVars>>
    <3>1. in_flight' \subseteq in_flight
      BY <2>1, Zenon DEF in_flight
    <3>. QED
      BY <2>1, <3>1, QuietStep, Zenon DEF replicaVars
  <2>2. CASE handle_phase_message(n, m, network \ {m}) /\ UNCHANGED past_filter
    <3>1. m \in PhaseMessages
      BY <2>2, PhaseMessage, Zenon DEF handle_phase_message, TypeOK
    <3>. QED
      BY <2>2, <3>1, PhaseStep, Zenon DEF in_flight
  <2>3. CASE handle_checkpoint(n, m, network \ {m})
    <3>1. /\ network' = network \ {m}
          /\ UNCHANGED <<accepted_preprepares, committed, next_issued_sequence_number,
                         past_filter>>
      BY <2>3, Zenon DEF handle_checkpoint
    <3>2. in_flight' \subseteq in_flight
      BY <3>1, Zenon DEF in_flight
    <3>3. CASE UNCHANGED operations
      BY <3>1, <3>2, <3>3, QuietStep, Zenon
    <3>4. CASE \E cp, local, proofs, reads :
                   maybe_stabilize_checkpoint(n, cp, local, proofs, reads)
      BY <3>1, <3>2, <3>4, StabilizeShrinks, QuietStep, Zenon
    <3>. QED
      BY <2>3, <3>3, <3>4, Zenon DEF handle_checkpoint
  <2>. QED
    BY <1>5, <2>1, <2>2, <2>3, Zenon DEF handle_message
<1>6. ASSUME NEW n \in Peers, NEW m \in network, pass_filter(n, m)
      PROVE  AgreementInvariant'
  <2>1. in_flight' \subseteq in_flight
    BY <1>6, Zenon DEF pass_filter, in_flight, TypeOK
  <2>. QED
    BY <1>6, <2>1, QuietStep, Zenon DEF pass_filter, replicaVars
<1>7. ASSUME NEW n \in Peers, handle_past_filter(n)
      PROVE  AgreementInvariant'
  <2>1. past_filter[n] \in PhaseMessages /\ past_filter[n] \in in_flight
    BY <1>7, Zenon DEF handle_past_filter, TypeOK, in_flight
  <2>2. network \cup ({past_filter'[p] : p \in Peers} \ {NoMessage}) \subseteq in_flight
    BY <1>7, Zenon DEF handle_past_filter, TypeOK, in_flight
  <2>. QED
    BY <1>7, <2>1, <2>2, PhaseStep, Zenon DEF handle_past_filter
<1>8. ASSUME NEW n \in Peers, NEW s \in SequenceNumbers, NEW r \in Requests,
             run_apply_operation(n, s, r)
      PROVE  AgreementInvariant'
  <2>1. in_flight' = in_flight
    BY <1>8, Zenon DEF run_apply_operation, in_flight
  <2>. QED
    BY <1>8, <2>1, QuietStep, Zenon DEF run_apply_operation, replicaVars
<1>9. ASSUME NEW n \in Peers, NEW s \in SequenceNumbers, execute_handler(n, s)
      PROVE  AgreementInvariant'
  <2>1. UNCHANGED <<accepted_preprepares, committed, next_issued_sequence_number, past_filter>>
    BY <1>9, Zenon DEF execute_handler
  <2>2. CASE UNCHANGED <<operations, checkpointVars, network>>
    <3>1. in_flight' = in_flight
      BY <2>1, <2>2, Zenon DEF in_flight
    <3>. QED
      BY <2>1, <2>2, <3>1, QuietStep, Zenon
  <2>3. CASE checkpoint_reached_locally(n, s)
    <3>1. \A m \in broadcast(n, "checkpoint", s, NoRequest) : m.type = "checkpoint"
      BY DEF broadcast
    <3>2. \A m \in in_flight' : m \in in_flight \/ m.type \notin {"preprepare", "prepare"}
      BY <2>1, <2>3, <3>1, Zenon DEF in_flight, checkpoint_reached_locally
    <3>3. \A p \in Peers, t \in SequenceNumbers, r \in Requests :
              /\ operations'[p][t][r].prepares_seen \subseteq operations[p][t][r].prepares_seen
              /\ operations'[p][t][r].preprepare_seen => operations[p][t][r].preprepare_seen
      BY <2>3, StabilizeShrinks, Zenon DEF checkpoint_reached_locally
    <3>. QED
      BY <2>1, <3>2, <3>3, QuietStep, Zenon
  <2>. QED
    BY <1>9, <2>2, <2>3, Zenon DEF execute_handler
<1>10. ASSUME NEW n \in MayRestart, restart(n)
       PROVE  AgreementInvariant'
  BY <1>10, RestartStep, Zenon
<1>11. ConfigRequests \subseteq Requests
  BY PbftAssumption, Zenon
<1>. QED
  BY <1>1, <1>2, <1>3, <1>4, <1>5, <1>6, <1>7, <1>8, <1>9, <1>10, <1>11, Zenon
           DEF Next, work, client

\* The invariant behind agreement holds whatever restarts: prepares come from peers
\* that accepted the request, commits rest on a quorum of them.
THEOREM AgreementInvariance == Spec => [](TypeOK /\ AgreementInvariant)
<1>1. Init => TypeOK /\ AgreementInvariant
  BY InitTypeOK, InitAgreement, Zenon
<1>2. TypeOK /\ AgreementInvariant /\ [Next]_vars => (TypeOK /\ AgreementInvariant)'
  BY NextTypeOK, NextAgreement, Zenon
<1>. QED
  BY <1>1, <1>2, PTL DEF Spec

=============================================================================
