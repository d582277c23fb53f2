-------------------------------- MODULE Raft --------------------------------
(***************************************************************************)
(* raft/raft: the peers of a swarm that runs raft, one process each.       *)
(*                                                                         *)
(* raft_lock makes every message handler, timer callback and append_log    *)
(* one step.  Every message travels over a connection of its own: messages *)
(* arrive in any order, or never.  The callback of a timer that has run    *)
(* out cannot be cancelled any more, and may run after handlers that       *)
(* started the timer anew.  The state of a peer is one record: what a C++  *)
(* method changes of *this, the operator of its name returns.              *)
(***************************************************************************)
EXTENDS RaftLog, FiniteSets

CONSTANTS Peers,          \* every peer that is, or may become, one of the swarm
          InitialPeers,   \* the peers of the bootstrap list
          Values,         \* database messages
          AddedPeers,     \* peers that clients ask to add
          RemovedPeers,   \* peers that clients ask to remove
          Joining,        \* peers whose get_peers gets through, that of others is lost
          LatePeers,      \* peers whose timer callbacks may be overtaken by handlers
          MayRestart,     \* peers whose process may die and start again
          MaxTerm,        \* bound: the highest term of a candidate
          MaxLog,         \* bound: entries clients may bring a log to
          MaxRestarts     \* bound: restarts in a behaviour

ASSUME RaftAssumption ==
    /\ IsFiniteSet(Peers)
    /\ InitialPeers \subseteq Peers
    /\ NoValue \notin Values
    /\ AddedPeers \subseteq Peers /\ RemovedPeers \subseteq Peers
    /\ Joining \subseteq Peers
    /\ LatePeers \subseteq Peers /\ MayRestart \subseteq Peers
    /\ MaxTerm \in Nat /\ MaxLog \in Nat /\ MaxRestarts \in Nat

NoEntry == database(NoValue, 0)   \* the empty "entries" of a heartbeat
Nobody == "nobody"                \* the empty uuid

VARIABLES raft,          \* [peer]: the state of its process
          log,           \* [peer]: its log, which survives its process
          network,       \* the messages under way, with the number of copies: a bag
          highest_term,  \* history: the highest term of a candidate so far
          restarts,      \* history: restarts so far
          committed      \* history: <<peer, index, entry>> handed to the commit handler

vars == <<raft, log, network, highest_term, restarts, committed>>

-----------------------------------------------------------------------------
(* Quorums *)

get_active_quorum(l) == {last_quorum_entry(l).old, last_quorum_entry(l).new}

get_all_peers(l) == UNION get_active_quorum(l)

in_quorum(l, p) == p \in get_all_peers(l)

is_majority(l, votes) ==
    \A q \in get_active_quorum(l) : 2 * Cardinality(q \cap votes) > Cardinality(q)

\* operator[] of the map of match indices: a peer that has no entry gets 0.
at(match, p) == IF p \in DOMAIN match THEN match[p] ELSE 0
touch(match, peers) == [p \in DOMAIN match \cup peers |-> at(match, p)]

\* The values that match_indices[ceil(size / 2)], of the sorted match indices, can
\* have.  With one peer the element is past the end of the vector: anything.
medians(match, peers, l) ==
    LET k == (Cardinality(peers) + 1) \div 2
    IN  IF Cardinality(peers) <= 1 THEN 0..(size(l) + 1)
        ELSE {i \in {at(match, p) : p \in peers} :
                 /\ Cardinality({p \in peers : at(match, p) < i}) <= k
                 /\ Cardinality({p \in peers : at(match, p) <= i}) > k}

min(a, b) == IF a < b THEN a ELSE b

max(a, b) == IF a < b THEN b ELSE a

\* Mutant: one of the two quorums is enough.
last_majority_replicated_log_index_max(match, l) ==
    LET q == last_quorum_entry(l)
    IN  {max(a, b) : a \in medians(match, q.old, l), b \in medians(match, q.new, l)}

last_majority_replicated_log_index(match, l) ==
    LET q == last_quorum_entry(l)
    IN  {min(a, b) : a \in medians(match, q.old, l), b \in medians(match, q.new, l)}

-----------------------------------------------------------------------------
(* A process *)

\* The peers that the peer starts with, the bootstrap list and itself, are tracked
\* from the start.
started(n) ==
    [current_state |-> "follower", current_term |-> 0, voted_for |-> FALSE,
     yes_votes |-> {}, no_votes |-> {}, leader |-> Nobody, commit_index |-> 1,
     peer_match_index |-> [p \in InitialPeers \cup {n} |-> 1],
     timer |-> "election", late |-> {}, in_a_swarm |-> FALSE, asks |-> n \in Joining]

\* The callback of an election timer that is cancelled runs, too: it still asks
\* whether the peer is in a swarm.
start_timer(s, kind) ==
    [s EXCEPT !.timer = kind,
              !.late = IF s.timer = "election" /\ ~s.in_a_swarm /\ s.asks
                       THEN @ \cup {"cancelled"} ELSE @]

start_election_timer(s) == start_timer(s, "election")
start_heartbeat_timer(s) == start_timer(s, "heartbeat")

update_raft_state(s, term, state) == [s EXCEPT !.current_state = state, !.current_term = term]

Init ==
    /\ raft = [n \in Peers |-> started(n)]
    /\ log = [n \in Peers |-> create_dat_file(InitialPeers \cup {n})]
    /\ network = [m \in {} |-> 0]
    /\ highest_term = 0
    /\ restarts = 0
    /\ committed = {}

copies(net, m) == IF m \in DOMAIN net THEN net[m] ELSE 0

send(net, sent) ==
    [m \in DOMAIN net \cup sent |-> copies(net, m) + IF m \in sent THEN 1 ELSE 0]

receive(net, m) ==
    [x \in {y \in DOMAIN net : y # m \/ net[y] > 1} |-> IF x = m THEN net[x] - 1 ELSE net[x]]

\* What is under way when m has been received and others sent.
exchange(m, sent) == send(receive(network, m), sent)

\* The messages of request_append_entries, one for every other peer.  For a peer whose
\* match index is 0, entry_at throws and no message is sent.
append_entries(n, s, l) ==
    LET others == {p \in get_all_peers(l) \ {n} : at(s.peer_match_index, p) > 0}
        next(p) == min(at(s.peer_match_index, p), size(l))
    IN  {[cmd |-> "AppendEntries", from |-> n, dest |-> p, term |-> s.current_term,
          prev_index |-> next(p) - 1, prev_term |-> entry_at(l, next(p) - 1).term,
          entry |-> IF next(p) < size(l) THEN entry_at(l, next(p)) ELSE NoEntry,
          commit_index |-> s.commit_index] : p \in others}

\* What request_append_entries leaves of the process.
request_append_entries(n, s, l) ==
    start_heartbeat_timer([s EXCEPT !.peer_match_index = touch(@, get_all_peers(l) \ {n})])

-----------------------------------------------------------------------------
(* Joining a swarm *)

JoinCommands == {"get_peers", "get_peers_response", "add_peer", "add_peer_response"}

\* The get_peers of auto_add_peer_if_required goes to the leader, if the peer knows
\* one, or to any other.
get_peers(n, s, l) ==
    {[cmd |-> "get_peers", from |-> n, dest |-> p] :
        p \in IF s.leader \in get_all_peers(l) THEN {s.leader} ELSE get_all_peers(l) \ {n}}

\* What a peer sends that is not in a swarm, for all it knows: one of those.
auto_add_peer_if_required(n, s, l) ==
    IF s.in_a_swarm \/ ~s.asks THEN {{}} ELSE {{m} : m \in get_peers(n, s, l)}

handle_get_peers(n, m) ==
    LET answer == [cmd |-> "get_peers_response", from |-> n, dest |-> m.from,
                   state |-> raft[n].current_state, leader |-> Nobody, peers |-> {}]
    IN  /\ network' = exchange(m, {
               CASE answer.state = "candidate" -> answer
                 [] answer.state = "follower" ->
                        IF in_quorum(log[n], raft[n].leader)
                        THEN [answer EXCEPT !.leader = raft[n].leader] ELSE answer
                 [] answer.state = "leader" -> [answer EXCEPT !.peers = get_all_peers(log[n])]})
        /\ UNCHANGED <<raft, log, committed>>

\* A follower names its leader, or nobody, and is believed.
handle_get_peers_response_from_follower_or_candidate(n, m) ==
    LET s == [raft[n] EXCEPT !.in_a_swarm = FALSE,
                             !.leader = IF m.state = "follower" THEN m.leader ELSE @]
    IN  /\ raft' = [raft EXCEPT ![n] = s]
        /\ \/ m.state = "candidate" /\ network' = exchange(m, {})
           \/ /\ m.state = "follower"
              /\ \E ask \in get_peers(n, s, log[n]) : network' = exchange(m, {ask})

\* The address comes from the peer's own log: without it the process ends.
add_self_to_swarm(n, leader) ==
    {[cmd |-> "add_peer", from |-> p, dest |-> leader] : p \in get_all_peers(log[n]) \cap {n}}

\* The leader's list says whether the peer is in; if it is not, it asks to be added.
handle_get_peers_response_from_leader(n, m) ==
    /\ raft' = [raft EXCEPT ![n].leader = m.from, ![n].in_a_swarm = @ \/ n \in m.peers]
    /\ \/ n \in m.peers /\ network' = exchange(m, {})
       \/ n \notin m.peers
          /\ \E ask \in add_self_to_swarm(n, m.from) : network' = exchange(m, {ask})

\* Mutant: whoever answers, the peer takes itself to be in the swarm.
handle_get_peers_response_any(n, m) ==
    /\ raft' = [raft EXCEPT ![n].leader = m.from, ![n].in_a_swarm = TRUE]
    /\ network' = exchange(m, {})
    /\ UNCHANGED <<log, committed>>

handle_get_peers_response(n, m) ==
    /\ IF m.state = "leader" THEN handle_get_peers_response_from_leader(n, m)
       ELSE handle_get_peers_response_from_follower_or_candidate(n, m)
    /\ UNCHANGED <<log, committed>>

\* The leader appends the joint quorum that a new peer leads to; it refuses while the
\* last quorum is a joint one.
may_add_peer(n, p) ==
    LET last == last_quorum_entry(log[n])
    IN  /\ raft[n].current_state = "leader"
        /\ last.entry_type = "single_quorum" /\ p \notin last.new

add_peer(n, p) ==
    LET last == last_quorum_entry(log[n])
    IN  /\ raft' = [raft EXCEPT ![n].peer_match_index = [touch(@, {p}) EXCEPT ![p] = 1]]
        /\ log' = [log EXCEPT ![n] = leader_append_entry(@,
                      joint_quorum(last.new, last.new \cup {p}, raft[n].current_term))]

\* add_peer from a peer that adds itself.  Only a success is answered in a form that
\* its node passes on.
handle_add_peer(n, m) ==
    /\ \/ /\ ~may_add_peer(n, m.from)
          /\ network' = exchange(m, {})
          /\ UNCHANGED <<raft, log>>
       \/ /\ may_add_peer(n, m.from) /\ size(log[n]) < MaxLog
          /\ add_peer(n, m.from)
          /\ network' = exchange(m,
                 {[cmd |-> "add_peer_response", from |-> n, dest |-> m.from]})
    /\ UNCHANGED committed

handle_add_peer_response(n, m) ==
    /\ raft' = [raft EXCEPT ![n].in_a_swarm = TRUE]
    /\ network' = exchange(m, {})
    /\ UNCHANGED <<log, committed>>

-----------------------------------------------------------------------------
(* Timers *)

\* The process when the callback of one of its timers runs: the timer runs out now,
\* or has before.
run_out(n, kind) ==
    (IF raft[n].timer = kind THEN {[raft[n] EXCEPT !.timer = "none"]} ELSE {})
    \cup (IF kind \in raft[n].late THEN {[raft[n] EXCEPT !.late = @ \ {kind}]} ELSE {})

\* The timer runs out, and its callback has to wait for a thread or for raft_lock.
overtaken(n) ==
    /\ n \in LatePeers /\ raft[n].timer # "none"
    /\ raft' = [raft EXCEPT ![n].timer = "none", ![n].late = @ \cup {raft[n].timer}]
    /\ UNCHANGED <<log, network, highest_term, restarts, committed>>

request_vote_request(n, s) ==
    start_election_timer([update_raft_state(s, s.current_term + 1, "candidate")
        EXCEPT !.voted_for = TRUE, !.yes_votes = {n}, !.no_votes = {}, !.leader = Nobody])

\* Runs whatever the state of the peer has become.
handle_election_timeout(n) ==
    /\ raft[n].current_term < MaxTerm
    /\ \E s \in run_out(n, "election") : \E ask \in auto_add_peer_if_required(n, s, log[n]) :
           /\ raft' = [raft EXCEPT ![n] = request_vote_request(n, s)]
           /\ network' = send(network, ask \cup
                  {[cmd |-> "RequestVote", from |-> n, dest |-> p,
                    term |-> raft[n].current_term + 1, last_log_index |-> size(log[n])]
                       : p \in get_all_peers(log[n]) \ {n}})
    /\ highest_term' = IF raft[n].current_term = highest_term THEN highest_term + 1
                                                              ELSE highest_term
    /\ UNCHANGED <<log, restarts, committed>>

\* The callback of a timer that was cancelled.
handle_election_timeout_cancelled(n) ==
    /\ \E s \in run_out(n, "cancelled") : \E ask \in auto_add_peer_if_required(n, s, log[n]) :
           /\ raft' = [raft EXCEPT ![n] = s]
           /\ network' = send(network, ask)
    /\ UNCHANGED <<log, highest_term, restarts, committed>>

\* No more than handle_election_timeout does this callback look at the state.
handle_heartbeat_timeout(n) ==
    /\ \E s \in run_out(n, "heartbeat") :
           /\ raft' = [raft EXCEPT ![n] = request_append_entries(n, s, log[n])]
           /\ network' = send(network, append_entries(n, s, log[n]))
    /\ UNCHANGED <<log, highest_term, restarts, committed>>

-----------------------------------------------------------------------------
(* Votes.  These, and the next two, are called for a message of the term the *)
(* peer is in.                                                              *)

vote(n, m, term, granted) ==
    [cmd |-> "ResponseVote", from |-> n, dest |-> m.from, term |-> term, granted |-> granted]

\* Mutant: a peer forgets that it has voted.
handle_ws_request_vote_again(n, m) ==
    /\ network' = exchange(m, {vote(n, m, m.term, m.last_log_index >= size(log[n]))})
    /\ UNCHANGED <<raft, log, committed>>

\* Votes once, and even then only for a peer whose log is as long as its own.
handle_ws_request_vote(n, m) ==
    LET refuse == raft[n].current_state = "leader" \/ raft[n].voted_for
    IN  /\ raft' = [raft EXCEPT ![n].voted_for = @ \/ ~refuse]
        /\ network' = exchange(m,
               {vote(n, m, m.term, ~refuse /\ m.last_log_index >= size(log[n]))})
        /\ UNCHANGED <<log, committed>>

\* The process after a vote, and whether it has become the leader with it.  (The code's
\* test for a later term is dead: the message is of the peer's own.)
handle_request_vote_response(n, m) ==
    LET s == raft[n]
        t == IF m.granted THEN [s EXCEPT !.yes_votes = @ \cup {m.from}]
                          ELSE [s EXCEPT !.no_votes = @ \cup {m.from}]
        elected == [update_raft_state(t, s.current_term, "leader") EXCEPT !.leader = n,
                       !.peer_match_index = [p \in DOMAIN @ |-> 1]]
    IN  /\ \/ /\ s.current_state # "candidate"
              /\ network' = exchange(m, {})
              /\ UNCHANGED raft
           \/ /\ s.current_state = "candidate"
              /\ m.granted /\ is_majority(log[n], t.yes_votes)
              /\ raft' = [raft EXCEPT ![n] = request_append_entries(n, elected, log[n])]
              /\ network' = exchange(m, append_entries(n, elected, log[n]))
           \/ /\ s.current_state = "candidate"
              /\ ~m.granted /\ is_majority(log[n], t.no_votes)
              /\ raft' = [raft EXCEPT ![n] = start_election_timer(
                             update_raft_state(t, s.current_term, "follower"))]
              /\ network' = exchange(m, {})
           \/ /\ s.current_state = "candidate"
              /\ ~is_majority(log[n], IF m.granted THEN t.yes_votes ELSE t.no_votes)
              /\ raft' = [raft EXCEPT ![n] = t]
              /\ network' = exchange(m, {})
        /\ UNCHANGED <<log, committed>>

-----------------------------------------------------------------------------
(* Replication *)

\* perform_commit for the entries up to, not including, index "upto": a leader appends
\* the single quorum that a joint quorum leads to.
commits(n, l, from, upto) == {<<n, i, entry_at(l, i)>> : i \in from..(upto - 1)}

joints(l, from, upto) ==
    {i \in from..(upto - 1) : entry_at(l, i).entry_type = "joint_quorum"}

\* order lists k indices: those of set, each once, the lowest first.
lists(order, k, set) ==
    /\ \A i, j \in 1..k : i < j => order[i] < order[j]
    /\ \A x \in set : \E i \in 1..k : order[i] = x

singles(l, order, k, term) ==
    [i \in 1..k |-> single_quorum(entry_at(l, order[i]).new, term)]

append_reply(n, m, term, success, match) ==
    [cmd |-> "AppendEntriesReply", from |-> n, dest |-> m.from, term |-> term,
     success |-> success, match_index |-> match]

\* Mutant: the index after the entry of the message, whether or not there was one.
match_index_next(l, m) == m.prev_index + 2
match_index(l, m) == min(size(l), m.prev_index + 2)

handle_ws_append_entries(n, m) ==
    LET s == [raft[n] EXCEPT !.in_a_swarm = TRUE]
        accepted == entry_accepted(log[n], m.prev_index, m.prev_term)
        l == IF accepted /\ m.entry # NoEntry
             THEN follower_insert_entry(log[n], m.prev_index + 1, m.entry) ELSE log[n]
        upto == IF accepted THEN min(size(l), m.commit_index) ELSE 0
    IN  \/ /\ s.current_state # "follower"
           /\ raft' = [raft EXCEPT ![n] = start_election_timer(
                          update_raft_state(s, m.term, "follower"))]
           /\ network' = exchange(m, {})
           /\ UNCHANGED <<log, committed>>
        \/ /\ s.current_state = "follower"
           /\ log' = [log EXCEPT ![n] = l]
           /\ network' = exchange(m,
                  {append_reply(n, m, m.term, accepted, match_index(l, m))})
           /\ committed' = committed \cup commits(n, l, s.commit_index, upto)
           /\ raft' = [raft EXCEPT ![n] = start_election_timer(
                  [s EXCEPT !.leader = m.from,
                            !.commit_index = IF @ < upto THEN upto ELSE @,
                            !.peer_match_index =
                                [touch(@, {m.from}) EXCEPT ![m.from] = m.commit_index]])]

\* A rejection sets the match index, too.
handle_request_append_entries_response(n, m) ==
    LET s == raft[n]
        ignored == s.current_state # "leader" \/ m.match_index > size(log[n])
        match == [touch(s.peer_match_index, {m.from}) EXCEPT ![m.from] = m.match_index]
    IN  /\ network' = exchange(m, {})
        /\ \/ ignored /\ UNCHANGED <<raft, log, committed>>
           \/ /\ ~ignored /\ ~m.success
              /\ raft' = [raft EXCEPT ![n].peer_match_index = match]
              /\ UNCHANGED <<log, committed>>
           \/ /\ ~ignored /\ m.success
              /\ \E index \in last_majority_replicated_log_index(match, log[n]) :
                     LET upto == IF index <= size(log[n]) THEN index ELSE 0
                     IN  /\ raft' = [raft EXCEPT
                                ![n].peer_match_index = touch(match, get_all_peers(log[n])),
                                ![n].commit_index = IF @ < upto THEN upto ELSE @]
                         /\ committed' = committed \cup
                                commits(n, log[n], s.commit_index, upto)
                         /\ \E k \in 0..size(log[n]) :
                            \E order \in [1..k -> joints(log[n], s.commit_index, upto)] :
                                /\ lists(order, k, joints(log[n], s.commit_index, upto))
                                /\ log' = [log EXCEPT ![n] =
                                       @ \o singles(@, order, k, s.current_term)]

-----------------------------------------------------------------------------
(* Messages of another term *)

stepped_down(s, term) ==
    start_election_timer([update_raft_state(s, term, "follower") EXCEPT !.voted_for = FALSE])

\* Of a later term: a request for a vote is granted to whoever asks, and leaves the
\* state, leader included, as it is.
handle_later_term(n, m) ==
    /\ \/ /\ m.cmd = "RequestVote"
          /\ raft' = [raft EXCEPT ![n].current_term = m.term, ![n].voted_for = TRUE]
          /\ network' = exchange(m, {vote(n, m, m.term, TRUE)})
       \/ /\ m.cmd = "AppendEntries"
          /\ raft' = [raft EXCEPT ![n] = [stepped_down(@, m.term) EXCEPT !.leader = m.from]]
          /\ network' = exchange(m,
                 {append_reply(n, m, m.term, FALSE, size(log[n]))})
       \/ /\ m.cmd \in {"ResponseVote", "AppendEntriesReply"}
          /\ raft' = [raft EXCEPT ![n] = stepped_down(@, m.term)]
          /\ network' = exchange(m, {})
    /\ UNCHANGED <<log, committed>>

\* Of an earlier term: the peer goes back to that term.
handle_earlier_term(n, m) ==
    /\ raft' = [raft EXCEPT ![n] = stepped_down(@, m.term)]
    /\ network' = exchange(m, {})
    /\ UNCHANGED <<log, committed>>

\* The messages about joining are handled whoever sends them, and in any term.
handle_ws_raft_messages(n, m) ==
    /\ \/ m.cmd = "get_peers" /\ handle_get_peers(n, m)
       \/ m.cmd = "get_peers_response" /\ handle_get_peers_response(n, m)
       \/ m.cmd = "add_peer" /\ handle_add_peer(n, m)
       \/ m.cmd = "add_peer_response" /\ handle_add_peer_response(n, m)
       \/ /\ m.cmd \notin JoinCommands /\ ~in_quorum(log[n], m.from)
          /\ network' = exchange(m, {})
          /\ UNCHANGED <<raft, log, committed>>
       \/ /\ m.cmd \notin JoinCommands
          /\ in_quorum(log[n], m.from) /\ m.term = raft[n].current_term
          /\ \/ m.cmd = "RequestVote" /\ handle_ws_request_vote(n, m)
             \/ m.cmd = "AppendEntries" /\ handle_ws_append_entries(n, m)
             \/ m.cmd = "AppendEntriesReply" /\ handle_request_append_entries_response(n, m)
             \/ m.cmd = "ResponseVote" /\ handle_request_vote_response(n, m)
       \/ /\ m.cmd \notin JoinCommands
          /\ in_quorum(log[n], m.from) /\ m.term > raft[n].current_term
          /\ handle_later_term(n, m)
       \/ /\ m.cmd \notin JoinCommands
          /\ in_quorum(log[n], m.from) /\ m.term < raft[n].current_term
          /\ handle_earlier_term(n, m)
    /\ UNCHANGED <<highest_term, restarts>>

\* The connection for a message fails (node::send_message_str logs it).
lost(m) ==
    /\ network' = exchange(m, {})
    /\ UNCHANGED <<raft, log, highest_term, restarts, committed>>

-----------------------------------------------------------------------------
(* Clients *)

leads(n) == raft[n].current_state = "leader" /\ size(log[n]) < MaxLog

append_log(n, v) ==
    /\ leads(n)
    /\ log' = [log EXCEPT ![n] =
                  leader_append_entry(@, database(v, raft[n].current_term))]
    /\ UNCHANGED <<raft, network, highest_term, restarts, committed>>

\* A client's add_peer and remove_peer; both are refused while the last quorum is a
\* joint one.
handle_client_add_peer(n, p) ==
    /\ leads(n) /\ may_add_peer(n, p)
    /\ add_peer(n, p)
    /\ UNCHANGED <<network, highest_term, restarts, committed>>

handle_remove_peer(n, p) ==
    LET last == last_quorum_entry(log[n])
    IN  /\ leads(n) /\ last.entry_type = "single_quorum" /\ p \in last.new
        /\ log' = [log EXCEPT ![n] = leader_append_entry(@,
                      joint_quorum(last.new, last.new \ {p}, raft[n].current_term))]
        /\ UNCHANGED <<raft, network, highest_term, restarts, committed>>

\* The process of n dies and starts again: the log is all that was persisted.
restart(n) ==
    /\ n \in MayRestart /\ restarts < MaxRestarts
    /\ raft' = [raft EXCEPT ![n] = started(n)]
    /\ restarts' = restarts + 1
    /\ UNCHANGED <<log, network, highest_term, committed>>

Next ==
    \/ \E m \in DOMAIN network : handle_ws_raft_messages(m.dest, m) \/ lost(m)
    \/ \E n \in Peers :
           \/ overtaken(n)
           \/ handle_election_timeout(n)
           \/ handle_election_timeout_cancelled(n)
           \/ handle_heartbeat_timeout(n)
           \/ \E v \in Values : append_log(n, v)
           \/ \E p \in AddedPeers : handle_client_add_peer(n, p)
           \/ \E p \in RemovedPeers : handle_remove_peer(n, p)
           \/ restart(n)

Spec == Init /\ [][Next]_vars

-----------------------------------------------------------------------------
(* Properties *)

\* The two places that index a log with a number from elsewhere stay inside it:
\* entry_accepted is never asked about an entry beyond the end (it would read past the
\* vector, and follower_insert_entry would throw), and no peer holds a match index
\* beyond the other's log.
NoReadBeyondLog ==
    /\ \A m \in DOMAIN network : m.cmd = "AppendEntries" => m.prev_index < size(log[m.dest])
    /\ \A n \in Peers : \A p \in DOMAIN raft[n].peer_match_index :
           raft[n].peer_match_index[p] <= size(log[p])
    /\ \A n \in Peers : raft[n].commit_index <= size(log[n])

\* No entry of a log, acknowledged to a leader or not, is ever taken back, although
\* follower_insert_entry has the code for it.
LogsOnlyGrow ==
    [][\A n \in Peers : /\ size(log[n]) <= size(log'[n])
                        /\ log[n] = SubSeq(log'[n], 1, size(log[n]))]_vars

\* As long as nobody has been a candidate of a second term and no process has lost
\* its term and vote, there is one leader, and peers that have committed an index have
\* committed the same entry there.
FirstTermAgrees ==
    highest_term <= 1 /\ restarts = 0 =>
        /\ \A n, p \in Peers : raft[n].current_state = "leader"
                                  /\ raft[p].current_state = "leader" => n = p
        /\ \A c, d \in committed : c[2] = d[2] => c[3] = d[3]

\* Under the same condition, a leader commits an entry only when it is in the logs of
\* a majority of the peers, old and new ones counted apart while the quorum is joint:
\* of every quorum, that is, that the leader belongs to.  (match_indices[ceil(size / 2)]
\* is one short of a majority, and the leader, whose own match index stays behind its
\* log, makes up for it.)
FirstTermMajority ==
    [][highest_term <= 1 /\ restarts = 0 =>
          \A c \in committed' \ committed : raft[c[1]].current_state = "leader" =>
              \A q \in get_active_quorum(log[c[1]]) : c[1] \in q =>
                  2 * Cardinality({p \in q : size(log[p]) > c[2]
                                               /\ entry_at(log[p], c[2]) = c[3]})
                      > Cardinality(q)]_vars

\* A peer that has stopped asking, because it takes itself to be in a swarm, is named
\* by a quorum entry, committed or not, in the log of another peer: no answer, from
\* whomever and in whatever order, stops a peer that nobody has proposed to add.
JoinedIsRecorded ==
    \A n \in Peers : raft[n].in_a_swarm =>
        \E p \in Peers \ {n} : \E i \in DOMAIN log[p] : n \in log[p][i].new

\* raft.cpp:362: data for an index that the log already has is the data it has.
SameData ==
    \A m \in DOMAIN network :
        LET l == log[m.dest]
        IN  /\ m.cmd = "AppendEntries" /\ m.term = raft[m.dest].current_term
            /\ m.entry # NoEntry /\ m.prev_index + 1 < size(l)
            /\ m.prev_term = entry_at(l, m.prev_index).term
            => entry_at(l, m.prev_index + 1) = m.entry
=============================================================================
