# A verification of the swarm daemon

The repository is the daemon of a Bluzelle swarm: a replicated key/value store
whose peers run either raft or pbft, behind a CRUD interface over websockets and
HTTP.  This directory holds TLA+ models of its protocols, the configurations that
check them with TLC, and proofs about them that TLAPS checks.

## 1. The system

| part | state | operations | talks to |
|---|---|---|---|
| `pbft` | operations by (view, sequence, hash), accepted preprepares, next sequence number to issue, stable and unstable checkpoints, water marks, configurations | requests and forwarding; preprepare, prepare, commit, checkpoint; join and leave | node (messages), service (posted calls), failure detector, audit |
| `pbft_config_store` | configurations by index, enabled flags, current index | add, enable, set_current, remove_prior_to | pbft |
| `database_pbft_service` | requests stored by sequence number, next one to execute, sessions that wait | apply_operation, process_awaiting_operations | crud, storage, pbft (posted execute handlers) |
| `pbft_failure_detector` | list of requests seen, outstanding and completed ones, a timer | request_seen, request_executed, handle_timeout | pbft |
| `raft` | role, term, vote, votes counted, leader, commit index, match indices, one timer | election and heartbeat timeouts; RequestVote, ResponseVote, AppendEntries, AppendEntriesReply; append_log; add_peer and remove_peer; joining a swarm | node, raft_log, crud (commit handler), audit |
| `raft_log` | entries in memory and in the .dat file | append, insert, accept, last quorum entry | raft |
| `raft_crud`, `crud`, `storage` | the key/value rows of every database | create, read, update, delete, has, keys, size; commit handlers | raft or the pbft service, subscription manager |
| `subscription_manager` | subscriptions by database, key, session and transaction, weak references to sessions, a purge timer | subscribe, unsubscribe, inspect_commit, purge | sessions |
| `audit` | leaders, commits and errors recorded, two timers | handlers of the notices of the protocols, timeouts, trim | node |
| `node`, `session`, `chaos` | handlers by message type; one websocket per session | accept, connect, read, write, close | all |
| `bootstrap`, `options`, `status`, `http`, `crypto`, `ethereum`, `utils`, `swarm` | configuration, reports, I/O | | |

What makes it hard:

* One io_context runs on several threads (`swarm/main.cpp`).  `node` holds
  `message_map_mutex` while a message handler runs, so a peer handles one message
  at a time; timer callbacks and posted calls run beside it, and meet it only at the
  locks of the parts.
* Every message has a connection of its own.  Messages overtake each other, and one
  whose connection fails is logged and forgotten; nothing is sent again, except that
  raft's heartbeats repeat.
* `cancel` and `expires_from_now` do not stop a timer callback that is already
  queued.
* A process that dies keeps its raft log and nothing else; pbft keeps nothing.

What has to be right: peers agree on what is committed at an index, execute in order
and without gaps, commit only what a majority holds, never index a log beyond its
end, keep water marks and configurations in step, and report what is stuck.
`PROJECT.json` lists the hazards, each at its line.

## 2. Modules

| module | models | notes |
|---|---|---|
| `PbftConfigStore` | `pbft/pbft_config_store` | operators on a record; the map is a function on its indices |
| `DatabasePbftService` | `pbft/database_pbft_service` | one instance per peer; `apply_operation` is an action |
| `Pbft` | `pbft/pbft`, `pbft/pbft_operation` | composes the two above with the messages between peers |
| `ReplicatedLog` | what the pbft half promises | abstract; `Pbft` refines it (`ImplementsReplicatedLog`) |
| `PbftFailureDetector` | `pbft/pbft_failure_detector` | on its own: its only output is a notice to audit |
| `RaftLog` | `raft/raft_log`, `raft/log_entry` | operators on a sequence, with the code's indices from 0 |
| `Raft` | `raft/raft` | peers, timers, messages, clients |
| `RaftCrud` | `crud/raft_crud`, `crud/subscription_manager`, `storage`, the calls of `http/connection`, `initialize_storage_from_log` | one peer; raft as a role, a growing log and a commit handler |
| `Audit` | `audit/audit` | one peer; the other parts as the messages they send |
| `MCPbft`, `MCRaft`, `MCAudit` | instances for TLC | symmetry, constraints, view |
| `PbftAgreementProofs`, `PbftExecutionProofs`, `PbftCheckpointProofs`, `PbftFailureDetectorProofs`, `RaftProofs`, `RaftFirstTermProofs`, `RaftCrudProofs`, `AuditProofs` | proofs | section 5 |

Definitions have the names of the functions they model, and `PROJECT.json` maps each
to its lines.  An operator that stands in front of another with the comment
"Mutant:" is a plausible mistake in the latter; it is not part of the model.

**Pbft.**  A variable of the model is a member of the C++ class, indexed by peer.
A handler is one action, with two exceptions that are the point of the model.
`handle_message` reads the water marks before it takes `pbft_lock`, so a message may
be let in (`pass_filter`) and handled after another thread has made a checkpoint
stable (`handle_past_filter`).  And `apply_operation` and the execute handlers are
posted, so they are actions of their own that run in any order.  A request stands for
its hash, a checkpoint for its sequence number (the state hash is always `""`), a
configuration for its set of peers.  The view never changes in this code
(`handle_failure` only tells the audit), so the primary is a constant.  `committed`
is a history variable.  The network is the set of messages under way; two equal
messages at the same time are one, which a pbft peer cannot tell from two because
votes are sets and a second equal preprepare changes nothing.  When a peer reaches a
checkpoint whose quorum of messages is there already, `maybe_stabilize_checkpoint` gets a
reference into a set, erases the element and goes on to read it.  Each of the four later
uses (proofs, operations, two water marks; the loop over the operations counts as one)
then reads the right number or any of `Freed`, a constant that the proofs leave open;
`misread` is a history variable, the peers to which another number has come out.

**Raft.**  The state of a process is one record, and the operators return what a
method leaves of it.  The network is a bag, because heartbeats repeat and a reply that
arrives twice is not the same as one that arrives once: a function from messages to
their number of copies, with `send` and `receive`.  A peer that is not in the list of
others asks its way to the leader (`auto_add_peer_if_required`, `get_peers`,
`add_self_to_swarm`); its callback does so even for a timer that was cancelled, which
is `handle_election_timeout_cancelled`.  `Joining` names the peers whose question gets
through.  `joints` and `singles` are the loop of `perform_commit`: every joint quorum
among the new commits adds its single quorum to the leader's log, in their order.
`overtaken` is the timer that
has run out while its callback waits for a thread or for `raft_lock`; `lost` is the
connection that fails.  What undefined behaviour can yield is a choice: the median of
one match index is any value.  Branches that cannot be reached are left out, with a
remark where they would be: stepping down in `handle_request_vote_response`, whose
messages are of the peer's own term.  `voted_for` is kept as whether there is a vote,
which is all the code reads of it.

**RaftCrud.**  A websocket message is handled under `message_map_mutex`, as are the
messages of peers, so no commit and no entry of another leader comes between its steps;
an election timeout and the HTTP threads do.  A handler's look at storage, its look at
the role and its `append_log` are steps of their own.  Raft is seen from outside: the
log only grows (`LogsOnlyGrow` of `Raft`), and another leader sends an update or delete
only of a key whose create is in the log, because it looked at its storage first.  That
takes the two logs to agree so far; where they do not (`raft_same_data`), nothing is
claimed here.
After a restart the log is replayed into the rows that are left, and raft, whose commit
index is not kept, commits it again from the start.  Reads change nothing and are left
out; so are the limits on sizes, and the answer of a handler.

**Audit.**  Messages are handled under `audit_lock`, and the timer callbacks take no
lock.  What `handle_leader_data` does to the progress timer and to
`leader_has_uncommitted_entries` is therefore split into steps, and so are the resets of
the timers and the callbacks.  A timer is three numbers: the waits on it, the callbacks
that are due, which cannot be cancelled, and the callbacks that have set its time and do
not wait on it yet.  When a handler and a callback both set the time before either waits,
two waits are left; each then starts itself again and reports.  `MaxWaits` bounds them.
The texts of the errors are kept as what they report;
`races` records that one of two races has happened (section 4).

## 3. Runs

| run | instance | shows |
|---|---|---|
| `pbft_agreement` | 4 peers, one down, the primary restarts once | `Agreement` and the invariant behind it, when the primary issues number 1 twice |
| `pbft_threads` | 1 peer, 5 numbers, a new configuration, 2 checkpoints | every order of messages, posted calls and handlers: `TypeOK`, `CurrentConfigurationKept`, `StableCheckpointAdvances`, and that the swarm implements `ReplicatedLog` |
| `pbft_checkpoint` | 3 peers, 2 numbers | `ExecutionsAgree`; a stable checkpoint was executed by a quorum |
| `pbft_late` | 2 peers, where every message of the other can be late, and a freed checkpoint reads as 0, 3 or its number | nothing is applied twice, cleared operations stay cleared, water marks follow, at peers that have not misread |
| `pbft_progress` | 4 peers, one down, a client at a backup | `IssuedIsExecuted` under fairness |
| `pbft_gap` | 1 peer, 6 numbers | violation: a number beyond the high water mark is never applied |
| `failure_detector` | 4 requests | one timer callback exactly while the list is not empty; the list covers what is outstanding; what is stuck is reported (fairness) |
| `raft_terms` | 2 peers, 2 terms, late callbacks and a restart at one of them | no index beyond a log, no entry taken back, one leader and one history in the first term |
| `raft_membership` | 2 peers, a third that joins or is added, one removed | commits are held by a majority of the old and of the new peers; no index beyond a log; a peer that stops asking is named in a log |
| `raft_crud` | 1 key, 2 values, the websocket and one HTTP thread, 3 log entries, a session, a restart, both kinds of storage | a committed log is what storage holds (against a definition of its own, `outcome`); the last notice of a subscription is the state of its key; subscriptions of closed sessions are purged (fairness) |
| `raft_same_data` | 2 peers, 2 terms | violation: two leaders of one term, different data for one index |
| `audit` | 2 leaders, 2 operations, 2 numbers of which one is kept, raft and pbft | conflicting claims to a number that is remembered are reported, and nothing else; the progress timer follows the leader's entries but for two races; a stuck leader is reported (fairness) |

**Bounds.**  `MaxSequence`, `MaxTerm`, `MaxLog`, `MaxRestarts`, `MaxLogIndex`,
`MaxClaims`, `MaxWaits` and `MaxMessages` bound what is unbounded.  They are just large
enough for what a run is about.  Five sequence numbers with a checkpoint interval of two put two checkpoints
and one number beyond the high water mark into `pbft_threads`; two numbers in
`pbft_late` make one checkpoint and leave every late message to come after it.  In
`raft_membership` three entries hold the joint quorum and a value, and the leader
appends the single quorum as a fourth.  Three entries in `raft_crud` hold a create, a
delete and whatever was checked before the delete.  Three claims in `audit` are two for
one number and one that makes `trim` drop it, in any order; two waits are one more than a
timer is meant to have.  `Freed` in `pbft_late` has a number below the checkpoint and one
above it; in the other runs no peer gets to a freed checkpoint, because a peer alone has no
proofs early, three need the peer's own among them, and `pbft_progress` has one number.
Deadlock is not checked where the bounds, or the clients' silence, end a behaviour.

**Constraints.**  Without them the runs on several peers do not end.
`TimelyDelivery` hands over a prepare or commit only when its receiver can make use
of it; before that it is late, after that it would change nothing but a set of votes.
`LoopbackFirst`, `ServiceFirst` and `PostedFirst` pick one order of steps that commute.  The
properties that late messages could break have a run without `TimelyDelivery`
(`pbft_late`, where `TimelyPrepares` holds back only the prepares of the backup), those that posted calls could break one without `PostedFirst`
(`pbft_threads`, `pbft_checkpoint`).  `FewMessages` cuts off states with more messages
under way than `MaxMessages`, not counting one about joining; `OnlyCandidates` cuts off
elections by other peers, and `LateOrRestarted` late callbacks after a restart.
`OneKind` lets a behaviour of `Audit` have messages of one kind, because the maps of the
kinds are independent, and `OneTerm` leaders of one term, because the timers do not depend
on terms and `trim` treats leaders as it does raft commits.  What the constraints of raft and audit leave out, the theorems of
section 5 cover for `NoReadBeyondLog`, `LogsOnlyGrow`, `JoinedIsRecorded`, `FirstTermAgrees`,
`FirstTermMajority`, `TimersRun` and `ConflictsAreReported`.  `View`
leaves out of the comparison of states what no step reads.  Symmetry is used in runs
of invariants only.

**Fairness.**  `FairSpec` of `Pbft` is weak fairness of the work of every peer that is
up: asio runs what is posted, and in this specification messages are not lost (a
behaviour may leave them under way, a fair one does not).  Clients and restarts are
not fair.  `FairSpec` of the detector: its timer runs out, its posts are run.
`FairSpec` of `RaftCrud`: the purge timer, which the purge starts again, runs out.
`FairSpec` of `Audit`: handlers and callbacks end, the progress timer runs out unless it is
reset time and again, and its callback runs.  No message is fair.

## 4. Findings

* `pbft_gap`: the primary takes the next sequence number without a look at the high
  water mark (`pbft.cpp:243`), and every peer drops the preprepare.  The number is
  lost, while `pbft_service_base.hpp:38` promises that the number before an applied
  one is applied, too.  Execution then stops there for good.
* `raft_same_data`: a leader that gets a RequestVote of a later term takes over the
  term, grants the vote and stays the leader (`raft.cpp:764`); the two leaders write
  different data at one index and term, which the comment at `raft.cpp:363` rules out.

Some limits of the code shaped the properties.  A message of an earlier term takes
a raft peer back to that term and clears its vote (`raft.cpp:796`), and the vote in a
later term is granted without a look at the log; so agreement is stated up to the first
term without restarts (`FirstTermAgrees`), where it does hold.  And the element of the
sorted match indices that `raft.cpp:1140` takes is one short of a majority; it makes one
only together with the leader, whose own match index stays 1.  A leader that has removed
itself is not in the new quorum and commits too early there, so `FirstTermMajority` speaks of
the quorums the leader is in.  Execute handlers are posted one by one
(`database_pbft_service.cpp:107`) and overtake each other; `StableCheckpointAdvances` shows
that no checkpoint is taken back by it.  `StableCheckpointHeld` speaks of swarms in which
nobody restarts: a peer that does has confirmed checkpoints that it no longer holds.

One limit is a use of freed memory.  `checkpoint_reached_locally` passes `*cp`, an element
of `local_unstable_checkpoints` (`pbft.cpp:608`), and `clear_local_checkpoints_until` erases
it (`pbft.cpp:681`) before `cp.first` is read for the proofs, the operations and the water
marks (`pbft.cpp:666-670`).  It takes checkpoint messages that arrive before the peer has
executed so far; the test `stable_checkpoint_advances_high_low_water_marks`
(`pbft_checkpoint_tests.cpp`) has the other order, in which the reference is to a local
variable.  What the marks are then is not up to the program.  With `Freed = {0, 3}` TLC
finds `WaterMarksFollow` and `ClearedStaysCleared` false in the instance of `pbft_late` when
they are claimed of all peers; with a primary that restarts, and `Freed = {0}`,
`AppliedAtMostOnce` too, because a peer whose low mark has stayed behind lets a number
through that it has executed.  So these three, `StableCheckpointAdvances` and
`IssuedIsExecuted` are claimed of peers, or swarms, without a misread number.  `Agreement`,
`ExecutionsAgree`, the refinement, `StableCheckpointHeld` and that a peer has executed what
its stable checkpoint covers are claimed of all, and hold.

The callbacks of `audit` race with its handlers in two ways.  The callback for a silent
leader may stop the progress timer that a handler has just started, before that handler
sets the flag ("overtaken"): the flag is then set without a timer.  And a callback that is
due when the timer is cancelled starts it again (`audit.cpp:180`), or the callback clears the
flag of a timer that a handler has started in the meantime ("revived").  The rule that
`audit.cpp:325` states for the timer holds in all behaviours without these (`TimersRun`):
the property does not rule the two races out, it says that nothing else breaks the rule.

## 5. Proofs

TLAPS proves what follows for every value of the constants that the named assumptions
allow: any finite set of peers with the primary among them, any requests, intervals and
bounds; for raft any peers and any list to start from, not only one that all have in common.

**Types** (first part of `PbftAgreementProofs`).  `TypeCorrectness`: `Spec => []TypeOK`.  Part of it is that a
peer has executed exactly the numbers before `next_request_sequence`: the loop of
`process_awaiting_operations` ends at the first number without a row (`first_missing`).

**Agreement** (`PbftAgreementProofs`, `PbftExecutionProofs`).  `Agreement` is not
inductive: nothing in it says where a commit comes from.  `AgreementInvariance`
adds that prepares, counted or under way, come from peers that accepted the request
(`PreparedIsAccepted`), that a commit rests on a quorum of them (`CommittedByQuorum`), and
that a primary that does not restart proposes one request per number (`ProposedOnce`).  A
restart forgets what a peer accepted, so the first two speak of the peers that do not
restart.  `AgreementHolds` follows if the primary does not restart, or if two quorums have
more in common than the peers that may restart (`FaultsTolerated`, a hypothesis of this
theorem and of the two that rest on it; `pbft_agreement` checks an instance whose primary
restarts).  Only the step to it counts elements of sets, so `PbftExecutionProofs`
alone of the pbft modules uses the theorems on finite sets.

**Execution and refinement** (`PbftExecutionProofs`).  `ExecutedIsCommitted`: what is posted,
stored or executed at a peer was committed there (`ExecutionInvariant`, inductive on top of
the types).  With `Agreement` this gives `PeersExecuteAlike` (`ExecutionsAgree`), and
`SwarmImplementsLog`: `Spec => ImplementsReplicatedLog`.  The mapping takes `settled(s)` from
the commits and `done` from `next_request_sequence`.  A commit is a `Settle` of its number or,
when another peer was first, a stutter, because both agree; an `apply_operation` that
drains rows is an `Execute`, since every row it drains was committed; a restart is a
`StartOver`; every other step stutters.

**Configurations** (last part of `PbftExecutionProofs`).  `CurrentConfigurationAlwaysKept`.
`GoodStore` adds to `has_current` that every index in the store has been given out before, so
that `add` never finds the next one taken; each operation of the store keeps it, whatever
configuration it is called with.

**Checkpoints** (`PbftCheckpointProofs`).  `CheckpointInvariant` adds to `WaterMarksFollow`
that local checkpoints and execute handlers to come are of numbers that were executed, and,
of a peer that has not misread a freed checkpoint, that no proofs are kept for the stable
checkpoint or an older one.  A step that misreads changes nothing at other peers and takes
its own out of what is claimed (`MisreadsCheckpoints`, `MisreadStaysHere`).  From it follow
`WaterMarksAlwaysFollow` and the action property `StableCheckpointsAdvance`.
`StableCheckpointsHeld` adds that checkpoint messages, under way and counted, come from
peers that have executed so far (`HeldInvariant`); a restart makes that false, so its
hypothesis is that no peer restarts.

**Late messages** (second part of `PbftCheckpointProofs`).  `ClearedAlwaysStaysCleared`: a message that passed
the filter before a checkpoint became stable may make a cleared operation anew, but it is
one message, the preprepare or a prepare, and the filter stops all others
(`LateInvariant`).  `AppliedAlwaysAtMostOnce`: a number that was posted, stored or executed
is at or below the low water mark, or has a committed operation (`AppliedInvariant`); with
the invariants of agreement and of late messages no second operation of that number commits,
and `apply_operation` never finds a row.  Both invariants are of the peers that have not misread
a freed checkpoint; what the others do reaches these only as messages.

**Failure detector** (`PbftFailureDetectorProofs`).  `TimerAlwaysFollows` and
`OutstandingAlwaysListed`.  `TimerFollowsList` and `ListCoversOutstanding` together with
`TypeOK` are inductive as they stand.

**Raft** (`RaftProofs`).  `NeverReadsBeyondLog`, `LogsAlwaysGrow` and `JoinedAlwaysRecorded`
come from one `Invariant`.  A match index is a promise about the log of another peer,
and a message carries promises about the logs of sender and receiver; they are kept because logs
only grow, and logs only grow because `entry_accepted` takes none but the last entry for the
previous one, which needs the promise that its index is inside the log.  So the three
properties have to be proved together.  Every part of the invariant is stated for a state, a
log or a message *relative to the logs*, and is preserved when these grow (`StateStays`,
`MessageStays`); a step then has to show it only for the peer it changes and the messages
it sends (`QuietStep`, `GrowStep`, `LeaderStep`).  For joining, `Recorded(log, n)` says that
a quorum in the log of another peer names `n`.  It is carried by leaders, who were voted
for by a peer that has them in its log, by `AppendEntries`, by the answers to votes and to
`add_peer`, and by the peers of every quorum in a log.

**The first term of raft** (second part of `RaftProofs`, and `RaftFirstTermProofs`).
`FirstTermAlwaysAgrees` and the action property `FirstTermCommitsMajority`, for any peers,
with quorums that change, peers that join, messages lost or reordered and callbacks that run
late; a restart or a second term ends what they speak of.  `FirstTerm` is the inductive
invariant, and its parts need each other:

* votes: whoever has given a vote, under way or counted, has `voted_for` set in term 1, and
  has given it to one candidate (`OnceVoted`); a candidate, and a peer that has not entered the
  term, still has the log it was created with (`Begun`), so every election counts the
  bootstrap list, and two majorities of it share a voter (`OneLeader`);
* a heartbeat timer, late or not, belongs to the leader, and an entry under way is one of its
  log at that index (`Timely`);
* a log is the beginning of the leader's but for the first entry, which names the peer that
  created it (`Follows`), and a commit is of an entry of the leader's log (`From`).

That a peer with a log from a leader does not become a candidate of the same term rests on
`handle_election_timeout`, which raises the term.  `FirstTermMajority` follows from `Follows`
and from what the match indices promise (`GoodMatch`): all but `(size + 1) div 2` peers of a
quorum have the entry, and the leader, whose own match index is never raised (`Elected`), is
one of those that were not counted (`OneMoreThanHalf`).

**Storage and subscriptions** (`RaftCrudProofs`).  `StorageIsLog` (`CommittedIsStored`) and
`NoticeIsState` (`LastNoticeIsState`), for any number of restarts.  `Stored` says that the
rows are `f[commit_index]` for a chain `f` that starts at the rows of the last start and
goes from `f[i - 1]` to `f[i]` by the commit of entry `i`.  After a restart with RocksDB these
first rows are not empty: they are what all of the log, the uncommitted part included, made
of the rows before.  `Leftover` says what matters of them: a row that is there was created by
this log, and if nothing but creates concern its key, then it holds the value of the first.
`WellFormed` says that a create of its key comes before each update and each delete; it holds
because a handler appends these only after it has found a row (`Checked`), however long ago,
and a row is found only where the log has a create.  `ReplayOutcome`: over leftovers a
well-formed log ends with what `outcome` says.  The lemmas about chains (`ChainExists`,
`ChainUnique`, `ReplayAll`) are inductions over the log, done by taking the least index that
fails.

**Audit** (`AuditProofs`).  `TimersAlwaysRun`: `TimersInvariant` says for each point a handler
or callback may have reached whether the timer runs.  `ConflictsAlwaysReported`:
`RecordsInvariant` says that the numbers recorded are the highest `mem_size` of those heard,
each with a value heard.  The step that needs an argument is `trim`: a number that is among
the highest after a claim was among them before, or is new.

Only model-checked: liveness (`IssuedIsExecuted`, `StuckIsReported`, `StuckLeaderIsReported`,
`ClosedArePurged`), which is beyond the prover.  Every safety property of the passing runs has a
theorem.

## 6. Not modelled

Signatures, parsing, HTTP and the options are I/O or libraries.  `status` only reads.
`move_to_new_configuration` is called by tests alone.  In `handle_request`,
`next_issued_sequence_number` and the operations are changed without `pbft_lock`; the
model takes the step to be atomic.  In `audit`, callbacks and handlers append to one list of
errors without a common lock; the model has the order of their steps and not the damage to
the list.  In raft: validation of peers that join, the stop at the maximum of
storage, removing the last peer, and more than one queued callback of the same timer.  `crud`
adds no state to storage and subscriptions, `session` is websocket I/O, and what a client of
`raft_crud` is answered is not kept.
