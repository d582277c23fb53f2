-------------------------------- MODULE Pbft --------------------------------
(***************************************************************************)
(* pbft/pbft and pbft/pbft_operation: the peers of a swarm that runs pbft. *)
(* The view is 1 for good (handle_failure does not change it), so the      *)
(* primary, peers[view % n], is a constant.                                *)
(*                                                                         *)
(* node::priv_protobuf_handler and priv_msg_handler hold message_map_mutex *)
(* while they run a handler, so a peer handles one message at a time.  The *)
(* posted apply_operation calls and execute handlers run on any worker     *)
(* thread, between and during those.  Every message travels over a         *)
(* connection of its own: messages arrive in any order, or never.          *)
(***************************************************************************)
EXTENDS DatabasePbftService, PbftConfigStore

CONSTANTS Primary,             \* current_peers()[view % current_peers().size()]
          ConfigRequests,      \* the requests of type PBFT_REQ_NEW_CONFIG
          CHECKPOINT_INTERVAL,
          Contacts,            \* peers that clients send requests to
          Down,                \* configured peers that are never started
          MayRestart,          \* peers whose process may die and start again
          MaxRestarts,         \* bound: restarts in a behaviour
          Freed,               \* what the number of a checkpoint may read as, besides
                               \* itself, once the checkpoint has been freed
          NoMessage

ASSUME PbftAssumption ==
    /\ Primary \in Peers
    /\ ConfigRequests \subseteq Requests
    /\ CHECKPOINT_INTERVAL \in Nat /\ CHECKPOINT_INTERVAL >= 2
    /\ Contacts \subseteq Peers /\ Down \subseteq Peers
    /\ MayRestart \subseteq Peers \ Down
    /\ MaxRestarts \in Nat
    /\ Freed \subseteq Nat

N == Cardinality(Peers)

\* pbft_operation::faulty_nodes_bound and pbft::max_faulty_nodes differ.
\* Mutant: off by one.
faulty_nodes_bound_low == (N - 2) \div 3
faulty_nodes_bound == (N - 1) \div 3
max_faulty_nodes == N \div 3
\* Mutant: f + 1 checkpoint messages are enough.
quorum_size_weak == 1 + max_faulty_nodes
quorum_size == 1 + 2 * max_faulty_nodes

\* CHECKPOINT_INTERVAL * HIGH_WATER_INTERVAL_IN_CHECKPOINTS
high_water_interval == 2 * CHECKPOINT_INTERVAL

InitialConfig == "initial configuration"

VARIABLES next_issued_sequence_number,
          operations,                 \* [peer][sequence][request], the log
          accepted_preprepares,       \* [peer][sequence]: the request, or NoRequest
          stable_checkpoint,          \* its sequence number; the state hash is always ""
          local_unstable_checkpoints,
          unstable_checkpoint_proofs, \* [peer][sequence]: who sent a checkpoint message
          low_water_mark, high_water_mark,
          misread,                    \* history: peers that have read another number from
                                      \* a freed checkpoint than it had
          configurations,
          past_filter,                \* the message a handler has let pass the filter
                                      \* and not yet handled, or NoMessage
          network,                    \* messages under way
          restarts,                   \* restarts so far
          committed                   \* history: <<peer, sequence, request>> that
                                      \* reached do_committed

replicaVars == <<next_issued_sequence_number, operations, accepted_preprepares,
                 configurations, committed>>
checkpointVars == <<stable_checkpoint, local_unstable_checkpoints,
                    unstable_checkpoint_proofs, low_water_mark, high_water_mark, misread>>
vars == <<replicaVars, checkpointVars, past_filter, network, restarts, serviceVars>>

-----------------------------------------------------------------------------
(* pbft_operation *)

Operations == [preprepare_seen : BOOLEAN, prepares_seen : SUBSET Peers,
               commits_seen : SUBSET Peers,
               state : {"none", "prepare", "commit", "committed"}]

\* A record that does not exist, and one as find_operation makes it.
NoOperation == [preprepare_seen |-> FALSE, prepares_seen |-> {},
                commits_seen |-> {}, state |-> "none"]
new_operation == [NoOperation EXCEPT !.state = "prepare"]

is_prepared(op) ==
    op.preprepare_seen /\ Cardinality(op.prepares_seen) > 2 * faulty_nodes_bound

is_committed(op) ==
    is_prepared(op) /\ Cardinality(op.commits_seen) > 2 * faulty_nodes_bound

begin_commit_phase(op) ==
    IF op.state = "prepare" /\ is_prepared(op) THEN [op EXCEPT !.state = "commit"] ELSE op

end_commit_phase(op) ==
    IF op.state = "commit" /\ is_committed(op) THEN [op EXCEPT !.state = "committed"] ELSE op

find_operation(n, s, r) ==
    IF operations[n][s][r].state = "none" THEN new_operation ELSE operations[n][s][r]

-----------------------------------------------------------------------------
(* Messages *)

PhaseMessages == [type : {"preprepare", "prepare", "commit"}, sequence : SequenceNumbers,
                  request : Requests, sender : Peers, dest : Peers]

\* A forwarded request has no sequence number, a checkpoint no request.
Messages ==
    PhaseMessages
    \cup [type : {"request"}, sequence : {0}, request : Requests,
           sender : Peers, dest : Peers]
    \cup [type : {"checkpoint"}, sequence : SequenceNumbers, request : {NoRequest},
           sender : Peers, dest : Peers]

\* broadcast sends to every current peer, the sender included; the connection
\* to a peer that is not up fails and the message is dropped.
broadcast(n, type, s, r) ==
    {[type |-> type, sequence |-> s, request |-> r, sender |-> n, dest |-> d]
        : d \in Peers \ Down}

preliminary_filter_msg(n, m) ==
    m.type \in {"preprepare", "prepare", "commit"} =>
        low_water_mark[n] < m.sequence /\ m.sequence <= high_water_mark[n]

-----------------------------------------------------------------------------
InitialConfigurations == set_current(enable(add(EmptyStore, InitialConfig),
                                            InitialConfig), InitialConfig)

NoOperations == [s \in SequenceNumbers |-> [r \in Requests |-> NoOperation]]
NoProofs == [s \in SequenceNumbers |-> {}]

Init ==
    /\ ServiceInit
    /\ failed = Down
    /\ next_issued_sequence_number = [n \in Peers |-> 1]
    /\ operations = [n \in Peers |-> NoOperations]
    /\ accepted_preprepares = [n \in Peers |-> EmptyStorage]
    /\ configurations = [n \in Peers |-> InitialConfigurations]
    /\ stable_checkpoint = [n \in Peers |-> 0]
    /\ local_unstable_checkpoints = [n \in Peers |-> {}]
    /\ unstable_checkpoint_proofs = [n \in Peers |-> NoProofs]
    /\ low_water_mark = [n \in Peers |-> 0]
    /\ high_water_mark = [n \in Peers |-> high_water_interval]
    /\ misread = {}
    /\ past_filter = [n \in Peers |-> NoMessage]
    /\ network = {}
    /\ restarts = 0
    /\ committed = {}

-----------------------------------------------------------------------------
(* Requests.  A peer takes the next message only when it is done with the  *)
(* last one.                                                               *)

idle(n) == n \notin failed /\ past_filter[n] = NoMessage

\* setup_request_operation and do_preprepare; nothing compares the number
\* with the high water mark.
issue(n, r, others) ==
    LET s == next_issued_sequence_number[n]
    IN  /\ s <= MaxSequence
        /\ next_issued_sequence_number' = [next_issued_sequence_number EXCEPT ![n] = s + 1]
        /\ operations' = [operations EXCEPT ![n][s][r] = find_operation(n, s, r)]
        /\ network' = others \cup broadcast(n, "preprepare", s, r)

\* A request other than the primary's own is forwarded to the primary.
handle_request(n, r, others) ==
    /\ \/ n = Primary /\ issue(n, r, others)
       \/ /\ n # Primary
          /\ network' = others \cup {[type |-> "request", sequence |-> 0, request |-> r,
                                      sender |-> n, dest |-> Primary]}
          /\ UNCHANGED <<next_issued_sequence_number, operations>>
    /\ UNCHANGED <<accepted_preprepares, configurations, committed, checkpointVars,
                   past_filter, serviceVars>>

\* A client's database message, and one that another peer forwarded.
handle_database_message(n, r) ==
    /\ idle(n) /\ n \in Contacts
    /\ handle_request(n, r, network)

handle_forwarded_request(n, m) ==
    /\ idle(n) /\ m \in network /\ m.dest = n /\ m.type = "request"
    /\ handle_request(n, m.request, network \ {m})

\* The primary proposes the configuration that a join or leave leads to;
\* another peer ignores the membership message.
handle_join_or_leave(n, r) ==
    /\ idle(n) /\ n = Primary
    /\ issue(n, r, network)
    /\ configurations' = [configurations EXCEPT ![n] = add(@, r)]
    /\ UNCHANGED <<accepted_preprepares, committed, checkpointVars, past_filter,
                   serviceVars>>

-----------------------------------------------------------------------------
(* The three phases *)

\* Store the record, and what do_prepared (enable a new configuration, broadcast
\* commit) and do_committed (discard the configurations before it, post
\* apply_operation) add when the record enters the commit phase and ends it.
advance(n, s, r, op, enters_commit, commits, store, others) ==
    LET enabled == IF enters_commit /\ r \in ConfigRequests THEN enable(store, r) ELSE store
    IN  /\ operations' = [operations EXCEPT ![n][s][r] = op]
        /\ network' = others \cup (IF enters_commit THEN broadcast(n, "commit", s, r) ELSE {})
        /\ posted_applies' = [posted_applies EXCEPT ![n] =
                                 IF commits THEN @ \cup {<<s, r>>} ELSE @]
        /\ committed' = IF commits THEN committed \cup {<<n, s, r>>} ELSE committed
        /\ configurations' = [configurations EXCEPT ![n] =
               IF commits /\ r \in ConfigRequests THEN remove_prior_to(enabled, r)
                                                  ELSE enabled]

\* Mutant: an operation commits again with every message that finds it committed.
maybe_advance_operation_state_again(n, s, r, op, store, others) ==
    LET prepared == begin_commit_phase(op)
        done == end_commit_phase(prepared)
    IN  advance(n, s, r, done, prepared.state # op.state, done.state = "committed",
                store, others)

maybe_advance_operation_state(n, s, r, op, store, others) ==
    LET prepared == begin_commit_phase(op)
        done == end_commit_phase(prepared)
    IN  advance(n, s, r, done, prepared.state # op.state, done.state # prepared.state,
                store, others)

\* Mutant: a preprepare that conflicts with the accepted one is accepted, too.
handle_preprepare_conflicting(n, m, others) ==
    /\ accepted_preprepares' = [accepted_preprepares EXCEPT ![n][m.sequence] = m.request]
    /\ maybe_advance_operation_state(n, m.sequence, m.request,
           [find_operation(n, m.sequence, m.request) EXCEPT !.preprepare_seen = TRUE],
           configurations[n], others \cup broadcast(n, "prepare", m.sequence, m.request))

handle_preprepare(n, m, others) ==
    LET s == m.sequence  r == m.request
    IN  IF accepted_preprepares[n][s] \notin {NoRequest, r}
        THEN /\ network' = others
             /\ UNCHANGED <<operations, accepted_preprepares, configurations, committed,
                            posted_applies>>
        ELSE /\ accepted_preprepares' = [accepted_preprepares EXCEPT ![n][s] = r]
             /\ maybe_advance_operation_state(n, s, r,
                    [find_operation(n, s, r) EXCEPT !.preprepare_seen = TRUE],
                    IF r \in ConfigRequests THEN add(configurations[n], r)
                                            ELSE configurations[n],
                    others \cup broadcast(n, "prepare", s, r))

handle_prepare(n, m, others) ==
    /\ maybe_advance_operation_state(n, m.sequence, m.request,
           [find_operation(n, m.sequence, m.request) EXCEPT !.prepares_seen = @ \cup {m.sender}],
           configurations[n], others)
    /\ UNCHANGED accepted_preprepares

\* Mutant: a commit is recorded and the operation left in its phase.
handle_commit_recorded(n, m, others) ==
    /\ operations' = [operations EXCEPT ![n][m.sequence][m.request] =
           [find_operation(n, m.sequence, m.request) EXCEPT !.commits_seen = @ \cup {m.sender}]]
    /\ network' = others
    /\ UNCHANGED <<accepted_preprepares, posted_applies, committed, configurations>>

handle_commit(n, m, others) ==
    /\ maybe_advance_operation_state(n, m.sequence, m.request,
           [find_operation(n, m.sequence, m.request) EXCEPT !.commits_seen = @ \cup {m.sender}],
           configurations[n], others)
    /\ UNCHANGED accepted_preprepares

\* What handle_message does under pbft_lock with one of the three.
handle_phase_message(n, m, others) ==
    /\ \/ m.type = "preprepare" /\ handle_preprepare(n, m, others)
       \/ m.type = "prepare" /\ handle_prepare(n, m, others)
       \/ m.type = "commit" /\ handle_commit(n, m, others)
    /\ UNCHANGED <<next_issued_sequence_number, checkpointVars, unstable_storage,
                   next_request_sequence, executed, posted_executes, failed>>

-----------------------------------------------------------------------------
(* Checkpoints *)

max(a, b) == IF a > b THEN a ELSE b

\* upper_bound((cp + 1, "")) also takes a checkpoint at cp + 1.
clear_local_checkpoints_until(local, cp) == {s \in local : s > cp + 1}

clear_checkpoint_messages_until(proofs, cp) ==
    [s \in SequenceNumbers |-> IF s > cp + 1 THEN proofs[s] ELSE {}]

\* Mutant: the operations stay.
clear_operations_until_none(ops, cp) == ops

clear_operations_until(ops, cp) ==
    [s \in SequenceNumbers |-> IF s > cp THEN ops[s] ELSE [r \in Requests |-> NoOperation]]

\* cp becomes the stable checkpoint; accepted_preprepares is not cleared.  After the
\* local checkpoints are cleared, each use of the reference to cp reads a number of its
\* own, one of reads; the loop over the operations is one use.  (A sum that wraps around
\* leaves the mark as it is, like reading 0.)
stabilize(n, cp, local, proofs, reads) ==
    /\ stable_checkpoint' = [stable_checkpoint EXCEPT ![n] = cp]
    /\ local_unstable_checkpoints' = [local_unstable_checkpoints EXCEPT ![n] =
           clear_local_checkpoints_until(local, cp)]
    /\ \E until, last, low, high \in reads :
           /\ unstable_checkpoint_proofs' = [unstable_checkpoint_proofs EXCEPT ![n] =
                  clear_checkpoint_messages_until(proofs, until)]
           /\ operations' = [operations EXCEPT ![n] = clear_operations_until(@, last)]
           /\ low_water_mark' = [low_water_mark EXCEPT ![n] = max(@, low)]
           /\ high_water_mark' = [high_water_mark EXCEPT ![n] =
                  max(@, high + high_water_interval)]
           /\ misread' = IF {until, last, low, high} = {cp} THEN misread
                                                            ELSE misread \cup {n}

record_checkpoint(n, local, proofs) ==
    /\ local_unstable_checkpoints' = [local_unstable_checkpoints EXCEPT ![n] = local]
    /\ unstable_checkpoint_proofs' = [unstable_checkpoint_proofs EXCEPT ![n] = proofs]
    /\ UNCHANGED <<stable_checkpoint, operations, low_water_mark, high_water_mark, misread>>

\* Mutant: the messages of the others are enough, the local checkpoint not needed.
maybe_stabilize_checkpoint_early(n, cp, local, proofs, reads) ==
    IF Cardinality(proofs[cp]) >= quorum_size THEN stabilize(n, cp, local, proofs, reads)
                                              ELSE record_checkpoint(n, local, proofs)

\* With the local checkpoints and the proofs as the caller has updated them.
maybe_stabilize_checkpoint(n, cp, local, proofs, reads) ==
    IF cp \in local /\ Cardinality(proofs[cp]) >= quorum_size
    THEN stabilize(n, cp, local, proofs, reads)
    ELSE record_checkpoint(n, local, proofs)

\* Mutant: a checkpoint message older than the stable checkpoint counts.
handle_checkpoint_old(n, m, others) ==
    /\ network' = others
    /\ maybe_stabilize_checkpoint(n, m.sequence, local_unstable_checkpoints[n],
           [unstable_checkpoint_proofs[n] EXCEPT ![m.sequence] = @ \cup {m.sender}],
           {m.sequence})
    /\ UNCHANGED <<next_issued_sequence_number, accepted_preprepares, configurations,
                   committed, past_filter, serviceVars>>

handle_checkpoint(n, m, others) ==
    /\ network' = others
    /\ IF m.sequence <= stable_checkpoint[n]
       THEN UNCHANGED <<operations, checkpointVars>>
       ELSE maybe_stabilize_checkpoint(n, m.sequence, local_unstable_checkpoints[n],
                [unstable_checkpoint_proofs[n] EXCEPT ![m.sequence] = @ \cup {m.sender}],
                {m.sequence})
    /\ UNCHANGED <<next_issued_sequence_number, accepted_preprepares, configurations,
                   committed, past_filter, serviceVars>>

\* Passes on a reference to the element of local_unstable_checkpoints, which is freed
\* when they are cleared; handle_checkpoint has a checkpoint of its own.
checkpoint_reached_locally(n, s) ==
    /\ network' = network \cup broadcast(n, "checkpoint", s, NoRequest)
    /\ maybe_stabilize_checkpoint(n, s, local_unstable_checkpoints[n] \cup {s},
                                  unstable_checkpoint_proofs[n], {s} \cup Freed)

\* A worker thread runs a posted execute handler.
execute_handler(n, s) ==
    /\ n \notin failed
    /\ s \in posted_executes[n]
    /\ posted_executes' = [posted_executes EXCEPT ![n] = @ \ {s}]
    /\ \/ s % CHECKPOINT_INTERVAL = 0 /\ checkpoint_reached_locally(n, s)
       \/ s % CHECKPOINT_INTERVAL # 0 /\ UNCHANGED <<operations, checkpointVars, network>>
    /\ UNCHANGED <<next_issued_sequence_number, accepted_preprepares, configurations,
                   committed, past_filter, posted_applies, unstable_storage,
                   next_request_sequence, executed, failed>>

-----------------------------------------------------------------------------
(* handle_message: the filter is read before pbft_lock is taken. *)

handle_message(n, m) ==
    /\ idle(n) /\ m \in network /\ m.dest = n
    /\ \/ /\ ~preliminary_filter_msg(n, m)
          /\ network' = network \ {m}
          /\ UNCHANGED <<replicaVars, checkpointVars, past_filter, serviceVars>>
       \/ /\ preliminary_filter_msg(n, m)
          /\ handle_phase_message(n, m, network \ {m})
          /\ UNCHANGED past_filter
       \/ m.type = "checkpoint" /\ handle_checkpoint(n, m, network \ {m})

\* The handler's thread is overtaken between the filter and the lock.  All that
\* can come between is a checkpoint_reached_locally, so the step is taken apart
\* only when one is waiting.
pass_filter(n, m) ==
    /\ idle(n) /\ m \in network /\ m.dest = n
    /\ m.type \in {"preprepare", "prepare", "commit"} /\ preliminary_filter_msg(n, m)
    /\ \E s \in posted_executes[n] : s % CHECKPOINT_INTERVAL = 0
    /\ past_filter' = [past_filter EXCEPT ![n] = m]
    /\ network' = network \ {m}
    /\ UNCHANGED <<replicaVars, checkpointVars, serviceVars>>

handle_past_filter(n) ==
    /\ n \notin failed /\ past_filter[n] # NoMessage
    /\ handle_phase_message(n, past_filter[n], network)
    /\ past_filter' = [past_filter EXCEPT ![n] = NoMessage]

-----------------------------------------------------------------------------
run_apply_operation(n, s, r) ==
    /\ apply_operation(n, s, r)
    /\ UNCHANGED <<replicaVars, checkpointVars, past_filter, network>>

\* The process of n dies and starts again: nothing was persisted.
restart(n) ==
    /\ restarts < MaxRestarts
    /\ restarts' = restarts + 1
    /\ ServiceRestart(n)
    /\ next_issued_sequence_number' = [next_issued_sequence_number EXCEPT ![n] = 1]
    /\ operations' = [operations EXCEPT ![n] = NoOperations]
    /\ accepted_preprepares' = [accepted_preprepares EXCEPT ![n] = EmptyStorage]
    /\ configurations' = [configurations EXCEPT ![n] = InitialConfigurations]
    /\ stable_checkpoint' = [stable_checkpoint EXCEPT ![n] = 0]
    /\ local_unstable_checkpoints' = [local_unstable_checkpoints EXCEPT ![n] = {}]
    /\ unstable_checkpoint_proofs' = [unstable_checkpoint_proofs EXCEPT ![n] = NoProofs]
    /\ low_water_mark' = [low_water_mark EXCEPT ![n] = 0]
    /\ high_water_mark' = [high_water_mark EXCEPT ![n] = high_water_interval]
    /\ misread' = misread \ {n}
    /\ past_filter' = [past_filter EXCEPT ![n] = NoMessage]
    /\ UNCHANGED <<network, committed>>

\* What the process of n does with the messages that reach it and the calls that
\* are posted to it, as opposed to what clients ask for.
work(n) ==
    /\ \/ \E m \in network : handle_forwarded_request(n, m)
       \/ \E m \in network : handle_message(n, m)
       \/ \E m \in network : pass_filter(n, m)
       \/ handle_past_filter(n)
       \/ \E s \in SequenceNumbers, r \in Requests : run_apply_operation(n, s, r)
       \/ \E s \in SequenceNumbers : execute_handler(n, s)
    /\ UNCHANGED restarts

client(n) ==
    /\ \/ \E r \in Requests \ ConfigRequests : handle_database_message(n, r)
       \/ \E r \in ConfigRequests : handle_join_or_leave(n, r)
    /\ UNCHANGED restarts

Next == \E n \in Peers : \/ work(n)
                         \/ client(n)
                         \/ n \in MayRestart /\ restart(n)

Spec == Init /\ [][Next]_vars

\* The messages arrive and the worker threads keep running: asio runs every
\* posted handler, and messages are finite in number, so that fairness of the
\* peer's work as a whole leaves none of them out.
FairSpec == Spec /\ \A n \in Peers : WF_vars(work(n))

-----------------------------------------------------------------------------
(* Properties *)

\* Every variable keeps its type; with ServiceTypeOK, the loop of
\* process_awaiting_operations has executed exactly the numbers before
\* next_request_sequence.
TypeOK ==
    /\ ServiceTypeOK
    /\ next_issued_sequence_number \in [Peers -> 1..(MaxSequence + 1)]
    /\ operations \in [Peers -> [SequenceNumbers -> [Requests -> Operations]]]
    /\ accepted_preprepares \in [Peers -> [SequenceNumbers -> Requests \cup {NoRequest}]]
    /\ stable_checkpoint \in [Peers -> 0..MaxSequence]
    /\ local_unstable_checkpoints \in [Peers -> SUBSET SequenceNumbers]
    /\ unstable_checkpoint_proofs \in [Peers -> [SequenceNumbers -> SUBSET Peers]]
    /\ low_water_mark \in [Peers -> Nat]
    /\ high_water_mark \in [Peers -> Nat]
    /\ misread \subseteq Peers
    /\ past_filter \in [Peers -> PhaseMessages \cup {NoMessage}]
    /\ network \subseteq Messages
    /\ restarts \in 0..MaxRestarts
    /\ committed \subseteq Peers \X SequenceNumbers \X Requests

\* No two commits, of any peers and at any time, settle different requests at
\* the same sequence number (what audit reports as "Conflicting commit detected").
Agreement ==
    \A x, y \in committed : x[2] = y[2] => x[3] = y[3]

(***************************************************************************)
(* Why Agreement holds, as an inductive invariant.  A peer that does not   *)
(* restart prepares one request per sequence number, so two quorums of     *)
(* prepares for different requests share no such peer; and a primary that  *)
(* does not restart proposes one request per sequence number in the first  *)
(* place.                                                                  *)
(***************************************************************************)
FaultsTolerated ==
    \/ Primary \notin MayRestart
    \/ 2 * (2 * faulty_nodes_bound + 1) > N + Cardinality(MayRestart)

in_flight == network \cup ({past_filter[n] : n \in Peers} \ {NoMessage})

PreparedIsAccepted ==
    /\ \A m \in in_flight : m.type = "prepare" /\ m.sender \notin MayRestart =>
           accepted_preprepares[m.sender][m.sequence] = m.request
    /\ \A n \in Peers, s \in SequenceNumbers, r \in Requests :
           /\ \A q \in operations[n][s][r].prepares_seen \ MayRestart :
                  accepted_preprepares[q][s] = r
           /\ operations[n][s][r].preprepare_seen => accepted_preprepares[n][s] = r

CommittedByQuorum ==
    \A x \in committed : \E Q \in SUBSET Peers :
        /\ Cardinality(Q) > 2 * faulty_nodes_bound
        /\ \A q \in Q \ MayRestart : accepted_preprepares[q][x[2]] = x[3]

\* The primary's preprepare for s and r is on its way, or was accepted somewhere.
proposed(s, r) ==
    \/ \E m \in in_flight : m.type = "preprepare" /\ m.sequence = s /\ m.request = r
    \/ \E n \in Peers : accepted_preprepares[n][s] = r
    \/ \E x \in committed : x[2] = s /\ x[3] = r

ProposedOnce ==
    Primary \notin MayRestart =>
        \A s \in SequenceNumbers, r \in Requests : proposed(s, r) =>
            /\ s < next_issued_sequence_number[Primary]
            /\ \A q \in Requests : proposed(s, q) => q = r

\* Prepares, counted and under way, come from peers that accepted the request;
\* commits rest on a quorum of them; a lasting primary proposes once.
AgreementInvariant == PreparedIsAccepted /\ CommittedByQuorum /\ ProposedOnce

\* Any two peers have executed the same requests in the same order, as far as
\* both have come, whatever the order of messages and posted calls.
ExecutionsAgree ==
    \A a, b \in Peers : \A i \in DOMAIN executed[a] \cap DOMAIN executed[b] :
        executed[a][i] = executed[b][i]

\* apply_operation never finds a row for its sequence number (the exception that
\* would end the process), and never leaves one that will not be executed, unless the
\* peer has set its low water mark by a freed checkpoint: it may then let a number
\* through that it has executed, when a restarted primary proposes it again.
AppliedAtMostOnce ==
    \A n \in Peers \ misread :
        /\ n \in failed => n \in Down
        /\ \A s \in 1..(next_request_sequence[n] - 1) : unstable_storage[n][s] = NoRequest

\* An operation at or below the low water mark, whose record a late message
\* recreated after the checkpoint cleared it, does not get through its phases
\* a second time, unless the peer has read both from a freed checkpoint.
ClearedStaysCleared ==
    \A n \in Peers \ misread : \A s \in 1..low_water_mark[n] : \A r \in Requests :
        operations[n][s][r].state \in {"none", "prepare"}

\* A peer has executed all that its stable checkpoint covers, and the water marks
\* follow the stable checkpoint as long as no number is misread from the checkpoint
\* that checkpoint_reached_locally refers to after it has been freed.  Without that
\* condition it is false: stable_checkpoint_advances_high_low_water_marks in
\* pbft_checkpoint_tests.cpp tests the other order, messages after the local checkpoint.
WaterMarksFollow ==
    \A n \in Peers :
        /\ stable_checkpoint[n] < next_request_sequence[n]
        /\ n \notin misread =>
               /\ low_water_mark[n] = stable_checkpoint[n]
               /\ high_water_mark[n] = stable_checkpoint[n] + high_water_interval

\* A checkpoint is stable at a peer only if 2f + 1 peers, for the f of
\* max_faulty_nodes, have executed everything up to it.
StableCheckpointHeld ==
    \A n \in Peers : stable_checkpoint[n] > 0 =>
        \E Q \in SUBSET Peers :
            /\ Cardinality(Q) >= 2 * max_faulty_nodes + 1
            /\ \A q \in Q : next_request_sequence[q] > stable_checkpoint[n]

\* Execute handlers that overtake each other never take the stable checkpoint back,
\* unless the peer has left proofs uncleared that it misread a freed checkpoint for.
StableCheckpointAdvances ==
    [][\A n \in Peers \ (MayRestart \cup misread) :
           stable_checkpoint'[n] >= stable_checkpoint[n]]_vars

\* remove_prior_to never drops the current configuration (current_peers_ptr
\* would throw).
CurrentConfigurationKept == \A n \in Peers : has_current(configurations[n])

\* A request that the primary gave a sequence number within the first window is
\* executed by every peer that is up, when those are a quorum and the messages
\* between them arrive: no order of messages, posted calls and handlers leaves one
\* behind, unless a peer sets its water marks by a freed checkpoint.
IssuedIsExecuted ==
    \A s \in SequenceNumbers \cap (1..high_water_interval) :
        next_issued_sequence_number[Primary] > s
            ~> (misread # {} \/ \A n \in Peers \ Down : next_request_sequence[n] > s)

\* pbft_service_base.hpp:38: whoever calls apply_operation for a sequence number
\* also calls it for the one before, earlier or later.
ApplyLeavesNoGap ==
    \A n \in Peers : \A s \in 2..MaxSequence :
        (\E r \in Requests : <<n, s, r>> \in committed)
            ~> (\E r \in Requests : <<n, s - 1, r>> \in committed)

\* The swarm implements the replicated log: whatever the schedule, a position is
\* settled once and the peers execute the positions in order and without gaps.
settled(s) ==
    IF \E x \in committed : x[2] = s
    THEN (CHOOSE x \in committed : x[2] = s)[3] ELSE NoRequest

Log == INSTANCE ReplicatedLog
       WITH log <- [s \in SequenceNumbers |-> settled(s)],
            done <- [n \in Peers |-> next_request_sequence[n] - 1]

ImplementsReplicatedLog == Log!Spec
=============================================================================
