----------------------------- MODULE RaftProofs -----------------------------
(***************************************************************************)
(* Proofs about Raft, for any peers, quorums and bounds, with late timer   *)
(* callbacks and restarts: logs only grow, no index that comes from a      *)
(* message or a match index lies beyond a log, and a peer that takes       *)
(* itself to be in a swarm is named in the log of another.                 *)
(*                                                                         *)
(* Every step changes one peer and sends some messages.  What the step     *)
(* must keep is stated for the state of a peer, for a log and for a        *)
(* message, relative to the logs of all peers, and is not lost when logs   *)
(* grow; an action then has to show it only for what it produces.          *)
(***************************************************************************)
EXTENDS Raft, TLAPS

-----------------------------------------------------------------------------
(* Types *)

Entry == [entry_type : {"database", "single_quorum", "joint_quorum"}, term : Nat,
          msg : Values \cup {NoValue}, old : SUBSET Peers, new : SUBSET Peers]

Match == UNION {[S -> Nat] : S \in SUBSET Peers}

State == [current_state : {"follower", "candidate", "leader"}, current_term : Nat,
          voted_for : BOOLEAN, yes_votes : SUBSET Peers, no_votes : SUBSET Peers,
          leader : Peers \cup {Nobody}, commit_index : Nat \ {0}, peer_match_index : Match,
          timer : {"election", "heartbeat", "none"},
          late : SUBSET {"election", "heartbeat", "cancelled"},
          in_a_swarm : BOOLEAN, asks : BOOLEAN]

Logs == [Peers -> Seq(Entry)]

Commands == {"AppendEntries", "AppendEntriesReply", "RequestVote", "ResponseVote"}
            \cup JoinCommands

-----------------------------------------------------------------------------
(* The invariant, for logs lg *)

\* A quorum in the log of another peer names n.
Recorded(lg, n) == \E p \in Peers \ {n} : \E i \in DOMAIN lg[p] : n \in lg[p][i].new

\* A log has a last quorum.
HasQuorum(l) ==
    \E i \in 1..Len(l) : /\ l[i].entry_type # "database"
                         /\ \A j \in 1..Len(l) : i < j => l[j].entry_type = "database"

\* The old peers of a joint quorum have been the new ones of another.
GoodLog(lg, n) ==
    /\ HasQuorum(lg[n])
    /\ \A i \in DOMAIN lg[n] : \A p \in lg[n][i].old \ {n} : Recorded(lg, p)

GoodMatch(lg, match) == \A p \in DOMAIN match : match[p] <= Len(lg[p])

\* Somebody else has voted for a leader, and so has it in its log.
GoodState(lg, n, s) ==
    /\ s \in State
    /\ s.commit_index <= Len(lg[n])
    /\ GoodMatch(lg, s.peer_match_index)
    /\ s.in_a_swarm => Recorded(lg, n)
    /\ s.current_state = "leader" => Recorded(lg, n)

GoodAppend(lg, m) ==
    /\ m.prev_index \in Nat /\ m.prev_index < Len(lg[m.dest])
    /\ m.commit_index \in Nat /\ m.commit_index <= Len(lg[m.from])
    /\ m.entry \in Entry
    /\ \A p \in (m.entry.old \cup m.entry.new) \ {m.from} : Recorded(lg, p)
    /\ Recorded(lg, m.dest)

GoodMessage(lg, m) ==
    /\ m.cmd \in Commands /\ m.from \in Peers /\ m.dest \in Peers
    /\ m.cmd \notin JoinCommands => m.term \in Nat
    /\ m.cmd = "AppendEntries" => GoodAppend(lg, m)
    /\ m.cmd = "AppendEntriesReply" => m.match_index \in Nat /\ m.match_index <= Len(lg[m.from])
    /\ m.cmd = "RequestVote" => m.from # m.dest
    /\ m.cmd \in {"ResponseVote", "add_peer_response"} => Recorded(lg, m.dest)
    /\ m.cmd = "get_peers_response" =>
           /\ m.leader \in Peers \cup {Nobody}
           /\ \A p \in m.peers : Recorded(lg, p)

Invariant ==
    /\ log \in Logs
    /\ raft \in [Peers -> State]
    /\ \A n \in Peers : GoodLog(log, n) /\ GoodState(log, n, raft[n])
    /\ \A m \in DOMAIN network : GoodMessage(log, m)

-----------------------------------------------------------------------------
(* Growing logs *)

Extends(l, k) == Len(l) <= Len(k) /\ \A i \in 1..Len(l) : k[i] = l[i]

Grown(lg, lh) == \A n \in Peers : Extends(lg[n], lh[n])

\* What is recorded stays recorded.
LEMMA RecordedStays ==
    ASSUME NEW lg \in Logs, NEW lh \in Logs, Grown(lg, lh), NEW n, Recorded(lg, n)
    PROVE  Recorded(lh, n)
<1>1. PICK p \in Peers \ {n} : \E i \in DOMAIN lg[p] : n \in lg[p][i].new
  BY Zenon DEF Recorded
<1>2. PICK i \in DOMAIN lg[p] : n \in lg[p][i].new
  BY <1>1, Zenon
<1>3. lg[p] \in Seq(Entry) /\ lh[p] \in Seq(Entry) /\ Extends(lg[p], lh[p])
  BY Zenon DEF Logs, Grown
<1>4. i \in DOMAIN lh[p] /\ lh[p][i] = lg[p][i]
  BY <1>2, <1>3 DEF Extends
<1> QED BY <1>1, <1>2, <1>4 DEF Recorded

\* So is what has been established for the state of a peer ...
LEMMA StateStays ==
    ASSUME NEW lg \in Logs, NEW lh \in Logs, Grown(lg, lh), NEW n \in Peers, NEW s,
           GoodState(lg, n, s)
    PROVE  GoodState(lh, n, s)
<1>1. s \in State /\ s.commit_index \in Nat /\ s.peer_match_index \in Match
  BY Zenon DEF GoodState, State
<1>2. \A p \in Peers : Len(lg[p]) \in Nat /\ Len(lh[p]) \in Nat /\ Len(lg[p]) <= Len(lh[p])
  BY DEF Logs, Grown, Extends
<1>3. \A p \in DOMAIN s.peer_match_index : p \in Peers /\ s.peer_match_index[p] \in Nat
  BY <1>1, Zenon DEF Match
<1>4. GoodMatch(lh, s.peer_match_index)
  BY <1>2, <1>3 DEF GoodState, GoodMatch
<1>5. s.commit_index <= Len(lh[n])
  BY <1>1, <1>2 DEF GoodState
<1>6. Recorded(lg, n) => Recorded(lh, n)
  BY RecordedStays, Zenon
<1> QED BY <1>1, <1>4, <1>5, <1>6 DEF GoodState

\* ... and for a message.
LEMMA MessageStays ==
    ASSUME NEW lg \in Logs, NEW lh \in Logs, Grown(lg, lh), NEW m, GoodMessage(lg, m)
    PROVE  GoodMessage(lh, m)
<1>1. \A p \in Peers : Len(lg[p]) \in Nat /\ Len(lh[p]) \in Nat /\ Len(lg[p]) <= Len(lh[p])
  BY DEF Logs, Grown, Extends
<1>2. \A p : Recorded(lg, p) => Recorded(lh, p)
  BY RecordedStays, Zenon
<1>3. m.from \in Peers /\ m.dest \in Peers
  BY Zenon DEF GoodMessage
<1>4. GoodAppend(lg, m) => GoodAppend(lh, m)
  BY <1>1, <1>2, <1>3 DEF GoodAppend
<1> QED BY <1>1, <1>2, <1>3, <1>4 DEF GoodMessage

-----------------------------------------------------------------------------
(* Quorums and match indices *)

\* last_quorum_entry returns an entry of the log, a quorum.
LEMMA LastQuorum ==
    ASSUME NEW l \in Seq(Entry), HasQuorum(l)
    PROVE  /\ last_quorum_entry(l) \in Entry
           /\ \E i \in 1..Len(l) : last_quorum_entry(l) = l[i]
<1>1. PICK i \in 1..Len(l) : /\ l[i].entry_type # "database"
                             /\ \A j \in 1..Len(l) : i < j => l[j].entry_type = "database"
  BY Zenon DEF HasQuorum
<1> DEFINE quorums == {k \in 0..(Len(l) - 1) : l[k + 1].entry_type # "database"}
           last == CHOOSE k \in quorums : \A j \in quorums : j <= k
<1>2. i - 1 \in quorums /\ \A j \in quorums : j <= i - 1
  BY <1>1
<1>3. last \in quorums
  BY <1>2, Zenon
<1>4. last + 1 \in 1..Len(l)
  BY <1>3
<1>5. last_quorum_entry(l) = l[last + 1]
  BY Zenon DEF last_quorum_entry, entry_at, size
<1> HIDE DEF last
<1> QED BY <1>4, <1>5

\* The peers of the active quorum are peers; all but n itself, in whose log they are,
\* are recorded.
LEMMA QuorumRecorded ==
    ASSUME NEW lg \in Logs, NEW n \in Peers, GoodLog(lg, n), NEW p \in get_all_peers(lg[n])
    PROVE  p \in Peers /\ (p # n => Recorded(lg, p))
<1>1. lg[n] \in Seq(Entry) /\ HasQuorum(lg[n])
  BY Zenon DEF Logs, GoodLog
<1>2. PICK i \in 1..Len(lg[n]) : last_quorum_entry(lg[n]) = lg[n][i]
  BY <1>1, LastQuorum, Zenon
<1>3. p \in lg[n][i].old \cup lg[n][i].new
  BY <1>2, Zenon DEF get_all_peers, get_active_quorum
<1>4. i \in DOMAIN lg[n] /\ lg[n][i] \in Entry
  BY <1>1
<1>5. p \in Peers
  BY <1>3, <1>4, Zenon DEF Entry
<1>6. ASSUME p # n PROVE Recorded(lg, p)
  <2>1. CASE p \in lg[n][i].old
    BY <2>1, <1>4, <1>6 DEF GoodLog
  <2>2. CASE p \in lg[n][i].new
    BY <2>2, <1>4, <1>6, Zenon DEF Recorded
  <2> QED BY <2>1, <2>2, <1>3
<1> QED BY <1>5, <1>6

LEMMA MatchType ==
    ASSUME NEW f
    PROVE  f \in Match <=> /\ DOMAIN f \subseteq Peers
                           /\ f = [p \in DOMAIN f |-> f[p]]
                           /\ \A p \in DOMAIN f : f[p] \in Nat
BY DEF Match

\* operator[] adds zeros.
LEMMA TouchGood ==
    ASSUME NEW lg \in Logs, NEW f \in Match, GoodMatch(lg, f), NEW S \in SUBSET Peers
    PROVE  touch(f, S) \in Match /\ GoodMatch(lg, touch(f, S))
<1>1. \A p \in Peers : Len(lg[p]) \in Nat
  BY DEF Logs
<1>2. \A p \in DOMAIN f : p \in Peers /\ f[p] \in Nat
  BY Zenon DEF Match
<1>3. \A p \in DOMAIN f \cup S : p \in Peers /\ at(f, p) \in Nat /\ at(f, p) <= Len(lg[p])
  BY <1>1, <1>2 DEF at, GoodMatch
<1>4. /\ DOMAIN touch(f, S) = DOMAIN f \cup S
      /\ \A p \in DOMAIN f \cup S : touch(f, S)[p] = at(f, p)
      /\ touch(f, S) = [p \in DOMAIN touch(f, S) |-> touch(f, S)[p]]
  BY Zenon DEF touch
<1> QED BY <1>3, <1>4, MatchType DEF GoodMatch

\* What a message says of the match index of p is kept.
LEMMA SetGood ==
    ASSUME NEW lg \in Logs, NEW f \in Match, GoodMatch(lg, f), NEW p \in Peers,
           NEW k \in Nat, k <= Len(lg[p])
    PROVE  /\ [touch(f, {p}) EXCEPT ![p] = k] \in Match
           /\ GoodMatch(lg, [touch(f, {p}) EXCEPT ![p] = k])
<1> DEFINE g == touch(f, {p})
           h == [g EXCEPT ![p] = k]
<1>1. g \in Match /\ GoodMatch(lg, g)
  BY TouchGood, Zenon
<1> HIDE DEF g
<1>2. /\ DOMAIN h = DOMAIN g /\ h = [q \in DOMAIN h |-> h[q]]
      /\ \A q \in DOMAIN g : h[q] = IF q = p THEN k ELSE g[q]
  BY Zenon
<1>3. DOMAIN g \subseteq Peers /\ \A q \in DOMAIN g : g[q] \in Nat
  BY <1>1 DEF Match
<1> HIDE DEF h
<1>4. h \in Match
  BY <1>2, <1>3, MatchType, Zenon
<1>5. GoodMatch(lg, h)
  BY <1>1, <1>2, Zenon DEF GoodMatch
<1> QED BY <1>4, <1>5 DEF g, h

-----------------------------------------------------------------------------
(* Steps *)

\* A step of peer n leaves it with state t and log l, and sends some messages.
Step(n, t, l, sent) ==
    /\ raft' = [raft EXCEPT ![n] = t]
    /\ log' = [log EXCEPT ![n] = l]
    /\ DOMAIN network' \subseteq DOMAIN network \cup sent

\* What has to be shown of them.
Sound(n, t, l, sent) ==
    LET lg == [log EXCEPT ![n] = l]
    IN  /\ l \in Seq(Entry) /\ Extends(log[n], l)
        /\ GoodLog(lg, n)
        /\ GoodState(lg, n, t)
        /\ \A m \in sent : GoodMessage(lg, m)

LEMMA SoundStep ==
    ASSUME Invariant, NEW n \in Peers, NEW t, NEW l, NEW sent,
           Step(n, t, l, sent), Sound(n, t, l, sent)
    PROVE  Invariant' /\ Grown(log, log')
<1> DEFINE lg == [log EXCEPT ![n] = l]
<1>1. log \in Logs /\ raft \in [Peers -> State]
  BY Zenon DEF Invariant
<1>2. /\ lg \in Logs /\ lg[n] = l
      /\ \A p \in Peers : p # n => lg[p] = log[p]
  BY <1>1, Zenon DEF Sound, Logs
<1>3. /\ Extends(log[n], l) /\ GoodLog(lg, n) /\ GoodState(lg, n, t)
      /\ \A m \in sent : GoodMessage(lg, m)
  BY Zenon DEF Sound
<1>4. /\ raft' = [raft EXCEPT ![n] = t] /\ log' = lg
      /\ DOMAIN network' \subseteq DOMAIN network \cup sent
  BY Zenon DEF Step
<1>5. PICK lh : lh = lg
  BY Zenon
<1> HIDE DEF lg
<1>6. \A p \in Peers : log[p] \in Seq(Entry)
  BY <1>1, Zenon DEF Logs
<1>7. Grown(log, lh)
  BY <1>2, <1>3, <1>5, <1>6 DEF Grown, Extends
<1>8. \A p \in Peers : GoodLog(lh, p)
  <2> SUFFICES ASSUME NEW p \in Peers, p # n PROVE GoodLog(lh, p)
    BY <1>3, <1>5, Zenon
  <2>1. GoodLog(log, p) /\ lh[p] = log[p]
    BY <1>2, <1>5, Zenon DEF Invariant
  <2>2. \A q : Recorded(log, q) => Recorded(lh, q)
    BY <1>1, <1>2, <1>5, <1>7, RecordedStays, Zenon
  <2> QED BY <2>1, <2>2 DEF GoodLog
<1>9. \A p \in Peers : GoodState(lh, p, raft'[p])
  <2> SUFFICES ASSUME NEW p \in Peers, p # n PROVE GoodState(lh, p, raft'[p])
    BY <1>1, <1>3, <1>4, <1>5, Zenon
  <2>1. GoodState(log, p, raft[p]) /\ raft'[p] = raft[p]
    BY <1>1, <1>4, Zenon DEF Invariant
  <2>2. GoodState(lh, p, raft[p])
    BY <2>1, <1>1, <1>2, <1>5, <1>7, StateStays, Zenon
  <2> QED BY <2>1, <2>2
<1>10. \A m \in DOMAIN network' : GoodMessage(lh, m)
  <2> SUFFICES ASSUME NEW m \in DOMAIN network, GoodMessage(log, m) PROVE GoodMessage(lh, m)
    BY <1>3, <1>4, <1>5, Zenon DEF Invariant
  <2> QED BY <1>1, <1>2, <1>5, <1>7, MessageStays
<1>11. raft' \in [Peers -> State]
  BY <1>1, <1>3, <1>4, Zenon DEF GoodState
<1>12. log' = lh
  BY <1>4, <1>5, Zenon
<1> QED BY <1>2, <1>5, <1>7, <1>8, <1>9, <1>10, <1>11, <1>12 DEF Invariant

\* A step that leaves the logs alone.
LEMMA QuietStep ==
    ASSUME Invariant, NEW n \in Peers, NEW t, NEW sent,
           raft' = [raft EXCEPT ![n] = t], log' = log,
           DOMAIN network' \subseteq DOMAIN network \cup sent,
           GoodState(log, n, t), \A m \in sent : GoodMessage(log, m)
    PROVE  Invariant' /\ Grown(log, log')
<1>1. log \in Logs /\ GoodLog(log, n)
  BY Zenon DEF Invariant
<1>2. log[n] \in Seq(Entry) /\ [log EXCEPT ![n] = log[n]] = log
  BY <1>1, Zenon DEF Logs
<1>3. Step(n, t, log[n], sent)
  BY <1>2, Zenon DEF Step
<1>4. Extends(log[n], log[n])
  BY <1>2 DEF Extends
<1>5. Sound(n, t, log[n], sent)
  BY <1>1, <1>2, <1>4, Zenon DEF Sound
<1> QED BY <1>3, <1>5, SoundStep

\* A step that sends nothing, besides.
LEMMA SilentStep ==
    ASSUME Invariant, NEW n \in Peers, NEW t,
           raft' = [raft EXCEPT ![n] = t], log' = log,
           DOMAIN network' \subseteq DOMAIN network, GoodState(log, n, t)
    PROVE  Invariant' /\ Grown(log, log')
<1> DEFINE sent == {}
<1>1. /\ DOMAIN network' \subseteq DOMAIN network \cup sent
      /\ \A m \in sent : GoodMessage(log, m)
  BY Zenon
<1> HIDE DEF sent
<1> QED BY <1>1, QuietStep, Zenon

\* exchange adds nothing to what is under way but what is sent.
LEMMA Exchanged ==
    ASSUME NEW m, NEW sent, network' = exchange(m, sent)
    PROVE  DOMAIN network' \subseteq DOMAIN network \cup sent
BY DEF exchange, send, receive

LEMMA Received ==
    ASSUME NEW m, network' = exchange(m, {})
    PROVE  DOMAIN network' \subseteq DOMAIN network
BY DEF exchange, send, receive

\* A handler that answers with one message, and leaves the logs alone ...
LEMMA ReplyStep ==
    ASSUME Invariant, NEW n \in Peers, NEW t, NEW m, NEW reply,
           raft' = [raft EXCEPT ![n] = t], log' = log, network' = exchange(m, {reply}),
           GoodState(log, n, t), GoodMessage(log, reply)
    PROVE  Invariant' /\ Grown(log, log')
<1> DEFINE sent == {reply}
<1>1. /\ DOMAIN network' \subseteq DOMAIN network \cup sent
      /\ \A x \in sent : GoodMessage(log, x)
  BY Exchanged, Zenon
<1> HIDE DEF sent
<1> QED BY <1>1, QuietStep, Zenon

\* ... or with none.
LEMMA ReceiveStep ==
    ASSUME Invariant, NEW n \in Peers, NEW t, NEW m,
           raft' = [raft EXCEPT ![n] = t], log' = log, network' = exchange(m, {}),
           GoodState(log, n, t)
    PROVE  Invariant' /\ Grown(log, log')
BY Received, SilentStep, Zenon

\* Nor does a callback that sends.
LEMMA Posted ==
    ASSUME NEW sent, network' = send(network, sent)
    PROVE  DOMAIN network' \subseteq DOMAIN network \cup sent
BY DEF send

-----------------------------------------------------------------------------
(* States *)

LEMMA StartedGood ==
    ASSUME NEW lg \in Logs, NEW n \in Peers, \A p \in Peers : 1 <= Len(lg[p])
    PROVE  GoodState(lg, n, started(n))
<1> DEFINE f == [p \in InitialPeers \cup {n} |-> 1]
<1>1. f \in Match /\ GoodMatch(lg, f)
  BY RaftAssumption, MatchType, Zenon DEF GoodMatch
<1>2. started(n).peer_match_index = f /\ started(n).commit_index = 1
      /\ started(n).in_a_swarm = FALSE /\ started(n).current_state = "follower"
  BY Zenon DEF started
<1> HIDE DEF f
<1>3. started(n) = [current_state |-> "follower", current_term |-> 0, voted_for |-> FALSE,
         yes_votes |-> {}, no_votes |-> {}, leader |-> Nobody, commit_index |-> 1,
         peer_match_index |-> f, timer |-> "election", late |-> {}, in_a_swarm |-> FALSE,
         asks |-> n \in Joining]
  BY Zenon DEF started, f
<1>4. (n \in Joining) \in BOOLEAN
  OBVIOUS
<1>5. started(n) \in State
  BY <1>1, <1>3, <1>4 DEF State
<1> QED BY <1>1, <1>2, <1>5 DEF GoodState

LEMMA TimerGood ==
    ASSUME NEW lg, NEW n, NEW s, GoodState(lg, n, s), NEW kind \in {"election", "heartbeat"}
    PROVE  GoodState(lg, n, start_timer(s, kind))
<1> DEFINE late == IF s.timer = "election" /\ ~s.in_a_swarm /\ s.asks
                   THEN s.late \cup {"cancelled"} ELSE s.late
           t == [s EXCEPT !.timer = kind, !.late = late]
<1>1. start_timer(s, kind) = t
  BY Zenon DEF start_timer
<1>2. s \in State /\ late \in SUBSET {"election", "heartbeat", "cancelled"}
  BY Zenon DEF GoodState, State
<1> HIDE DEF late
<1>3. /\ t \in State
      /\ t.commit_index = s.commit_index /\ t.peer_match_index = s.peer_match_index
      /\ t.in_a_swarm = s.in_a_swarm /\ t.current_state = s.current_state
  BY <1>2, Zenon DEF State
<1> HIDE DEF t
<1> QED BY <1>1, <1>3 DEF GoodState

LEMMA UpdateGood ==
    ASSUME NEW lg, NEW n, NEW s, GoodState(lg, n, s), NEW term \in Nat,
           NEW state \in {"follower", "candidate", "leader"}, state = "leader" => Recorded(lg, n)
    PROVE  GoodState(lg, n, update_raft_state(s, term, state))
<1> DEFINE t == update_raft_state(s, term, state)
<1>1. s \in State
  BY Zenon DEF GoodState
<1>2. /\ t \in State
      /\ t.commit_index = s.commit_index /\ t.peer_match_index = s.peer_match_index
      /\ t.in_a_swarm = s.in_a_swarm /\ t.current_state = state
  BY <1>1, Zenon DEF State, update_raft_state
<1> HIDE DEF t
<1>3. GoodState(lg, n, t)
  BY <1>2, Zenon DEF GoodState
<1> QED BY <1>3 DEF t

\* Fields that nothing else depends on.
LEMMA VoteGood ==
    ASSUME NEW lg, NEW n, NEW s, GoodState(lg, n, s), NEW v \in BOOLEAN,
           NEW yes \in SUBSET Peers, NEW no \in SUBSET Peers, NEW p \in Peers \cup {Nobody}
    PROVE  GoodState(lg, n, [s EXCEPT !.voted_for = v, !.yes_votes = yes, !.no_votes = no,
                                      !.leader = p])
<1> DEFINE t == [s EXCEPT !.voted_for = v, !.yes_votes = yes, !.no_votes = no, !.leader = p]
<1>1. s \in State
  BY Zenon DEF GoodState
<1>2. /\ t \in State
      /\ t.commit_index = s.commit_index /\ t.peer_match_index = s.peer_match_index
      /\ t.in_a_swarm = s.in_a_swarm /\ t.current_state = s.current_state
  BY <1>1, Zenon DEF State
<1> HIDE DEF t
<1>3. GoodState(lg, n, t)
  BY <1>2, Zenon DEF GoodState
<1> QED BY <1>3 DEF t

LEMMA VotedGood ==
    ASSUME NEW lg, NEW n, NEW s, GoodState(lg, n, s), NEW v \in BOOLEAN
    PROVE  GoodState(lg, n, [s EXCEPT !.voted_for = v])
<1> DEFINE t == [s EXCEPT !.voted_for = v]
<1>1. s \in State
  BY Zenon DEF GoodState
<1>2. /\ t \in State
      /\ t.commit_index = s.commit_index /\ t.peer_match_index = s.peer_match_index
      /\ t.in_a_swarm = s.in_a_swarm /\ t.current_state = s.current_state
  BY <1>1, Zenon DEF State
<1> HIDE DEF t
<1>3. GoodState(lg, n, t)
  BY <1>2, Zenon DEF GoodState
<1> QED BY <1>3 DEF t

LEMMA JoinedGood ==
    ASSUME NEW lg, NEW n, NEW s, GoodState(lg, n, s), Recorded(lg, n)
    PROVE  GoodState(lg, n, [s EXCEPT !.in_a_swarm = TRUE])
<1> DEFINE t == [s EXCEPT !.in_a_swarm = TRUE]
<1>1. s \in State
  BY Zenon DEF GoodState
<1>2. /\ t \in State
      /\ t.commit_index = s.commit_index /\ t.peer_match_index = s.peer_match_index
      /\ t.current_state = s.current_state
  BY <1>1, Zenon DEF State
<1> HIDE DEF t
<1>3. GoodState(lg, n, t)
  BY <1>2, Zenon DEF GoodState
<1> QED BY <1>3 DEF t

LEMMA SwarmGood ==
    ASSUME NEW lg, NEW n, NEW s, GoodState(lg, n, s), NEW b \in BOOLEAN, b => Recorded(lg, n),
           NEW p \in Peers \cup {Nobody}
    PROVE  GoodState(lg, n, [s EXCEPT !.in_a_swarm = b, !.leader = p])
<1> DEFINE t == [s EXCEPT !.in_a_swarm = b, !.leader = p]
<1>1. s \in State
  BY Zenon DEF GoodState
<1>2. /\ t \in State
      /\ t.commit_index = s.commit_index /\ t.peer_match_index = s.peer_match_index
      /\ t.in_a_swarm = b /\ t.current_state = s.current_state
  BY <1>1, Zenon DEF State
<1> HIDE DEF t
<1>3. GoodState(lg, n, t)
  BY <1>2, Zenon DEF GoodState
<1> QED BY <1>3 DEF t

LEMMA MatchGood ==
    ASSUME NEW lg, NEW n, NEW s, GoodState(lg, n, s), NEW f \in Match, GoodMatch(lg, f)
    PROVE  GoodState(lg, n, [s EXCEPT !.peer_match_index = f])
<1> DEFINE t == [s EXCEPT !.peer_match_index = f]
<1>1. s \in State
  BY Zenon DEF GoodState
<1>2. /\ t \in State
      /\ t.commit_index = s.commit_index /\ t.peer_match_index = f
      /\ t.in_a_swarm = s.in_a_swarm /\ t.current_state = s.current_state
  BY <1>1, Zenon DEF State
<1> HIDE DEF t
<1>3. GoodState(lg, n, t)
  BY <1>2, Zenon DEF GoodState
<1> QED BY <1>3 DEF t

LEMMA IndexGood ==
    ASSUME NEW lg, NEW n, NEW s, GoodState(lg, n, s), NEW c \in Nat \ {0}, c <= Len(lg[n]),
           NEW f \in Match, GoodMatch(lg, f)
    PROVE  GoodState(lg, n, [s EXCEPT !.commit_index = c, !.peer_match_index = f])
<1> DEFINE t == [s EXCEPT !.commit_index = c, !.peer_match_index = f]
<1>1. s \in State
  BY Zenon DEF GoodState
<1>2. /\ t \in State
      /\ t.commit_index = c /\ t.peer_match_index = f
      /\ t.in_a_swarm = s.in_a_swarm /\ t.current_state = s.current_state
  BY <1>1, Zenon DEF State
<1> HIDE DEF t
<1>3. GoodState(lg, n, t)
  BY <1>2, Zenon DEF GoodState
<1> QED BY <1>3 DEF t

-----------------------------------------------------------------------------
(* Timers *)

\* What the invariant says of one peer.
LEMMA Known ==
    ASSUME Invariant, NEW n \in Peers
    PROVE  /\ log \in Logs /\ log[n] \in Seq(Entry) /\ Len(log[n]) \in Nat /\ 1 <= Len(log[n])
           /\ GoodLog(log, n) /\ GoodState(log, n, raft[n])
           /\ raft[n] \in State /\ raft \in [Peers -> State]
<1>1. log \in Logs /\ GoodLog(log, n) /\ GoodState(log, n, raft[n]) /\ raft \in [Peers -> State]
  BY Zenon DEF Invariant
<1>2. log[n] \in Seq(Entry)
  BY <1>1, Zenon DEF Logs
<1> QED BY <1>1, <1>2 DEF GoodLog, HasQuorum

\* A callback finds the state it would have found earlier, but for the timers.
LEMMA RunOutGood ==
    ASSUME Invariant, NEW n \in Peers, NEW kind, NEW s \in run_out(n, kind)
    PROVE  GoodState(log, n, s)
<1> DEFINE o == raft[n]
<1>1. GoodState(log, n, o) /\ o \in State
  BY Known, Zenon
<1>2. s \in {[o EXCEPT !.timer = "none"], [o EXCEPT !.late = @ \ {kind}]}
  BY Zenon DEF run_out
<1> HIDE DEF o
<1>3. /\ s \in State
      /\ s.commit_index = o.commit_index /\ s.peer_match_index = o.peer_match_index
      /\ s.in_a_swarm = o.in_a_swarm /\ s.current_state = o.current_state
  BY <1>1, <1>2 DEF State
<1> QED BY <1>1, <1>3 DEF GoodState

LEMMA OvertakenStep ==
    ASSUME Invariant, NEW n \in Peers, overtaken(n)
    PROVE  Invariant' /\ Grown(log, log')
<1> DEFINE o == raft[n]
           t == [o EXCEPT !.timer = "none", !.late = @ \cup {o.timer}]
<1>1. GoodState(log, n, o) /\ o \in State /\ raft \in [Peers -> State]
  BY Known, Zenon
<1>2. raft' = [raft EXCEPT ![n] = t] /\ log' = log /\ network' = network /\ o.timer # "none"
  BY <1>1, Zenon DEF overtaken
<1>3. o.timer \in {"election", "heartbeat"}
  BY <1>1, <1>2, Zenon DEF State
<1> HIDE DEF o
<1>4. /\ t \in State
      /\ t.commit_index = o.commit_index /\ t.peer_match_index = o.peer_match_index
      /\ t.in_a_swarm = o.in_a_swarm /\ t.current_state = o.current_state
  BY <1>1, <1>3, Zenon DEF State
<1> HIDE DEF t
<1>5. GoodState(log, n, t)
  BY <1>1, <1>4, Zenon DEF GoodState
<1>6. DOMAIN network' \subseteq DOMAIN network
  BY <1>2, Zenon
<1> QED BY <1>2, <1>5, <1>6, SilentStep, Zenon

\* A get_peers goes to a peer.
LEMMA AskGood ==
    ASSUME Invariant, NEW n \in Peers, NEW s, NEW m \in get_peers(n, s, log[n])
    PROVE  GoodMessage(log, m)
<1>1. log \in Logs /\ GoodLog(log, n)
  BY Known, Zenon
<1>2. \A p \in get_all_peers(log[n]) : p \in Peers
  BY <1>1, QuorumRecorded, Zenon
<1>3. PICK p \in get_all_peers(log[n]) : m = [cmd |-> "get_peers", from |-> n, dest |-> p]
  BY Zenon DEF get_peers
<1>4. m.cmd = "get_peers" /\ m.from = n /\ m.dest = p /\ p \in Peers
  BY <1>2, <1>3, Zenon
<1> QED BY <1>4 DEF GoodMessage, Commands, JoinCommands

LEMMA AutoAddGood ==
    ASSUME Invariant, NEW n \in Peers, NEW s,
           NEW ask \in auto_add_peer_if_required(n, s, log[n])
    PROVE  \A m \in ask : GoodMessage(log, m)
<1>1. \A m \in get_peers(n, s, log[n]) : GoodMessage(log, m)
  BY AskGood, Zenon
<1> QED BY <1>1 DEF auto_add_peer_if_required

LEMMA ElectionStep ==
    ASSUME Invariant, NEW n \in Peers, handle_election_timeout(n)
    PROVE  Invariant' /\ Grown(log, log')
<1> DEFINE requests == {[cmd |-> "RequestVote", from |-> n, dest |-> p,
                         term |-> raft[n].current_term + 1, last_log_index |-> size(log[n])]
                            : p \in get_all_peers(log[n]) \ {n}}
<1>0. PICK s \in run_out(n, "election") : \E ask \in auto_add_peer_if_required(n, s, log[n]) :
          /\ raft' = [raft EXCEPT ![n] = request_vote_request(n, s)]
          /\ network' = send(network, ask \cup requests)
  BY Zenon DEF handle_election_timeout
<1>1. PICK ask \in auto_add_peer_if_required(n, s, log[n]) :
          /\ raft' = [raft EXCEPT ![n] = request_vote_request(n, s)]
          /\ network' = send(network, ask \cup requests)
  BY <1>0, Zenon
<1> DEFINE t == request_vote_request(n, s)
<1>2. log \in Logs /\ GoodLog(log, n) /\ raft[n] \in State
  BY Known, Zenon
<1>3. GoodState(log, n, s)
  BY RunOutGood, Zenon
<1>4. s.current_term + 1 \in Nat /\ raft[n].current_term + 1 \in Nat
  BY <1>2, <1>3 DEF GoodState, State
<1>5. GoodState(log, n, t)
  <2>1. GoodState(log, n, update_raft_state(s, s.current_term + 1, "candidate"))
    BY <1>3, <1>4, UpdateGood, Zenon
  <2> DEFINE u == update_raft_state(s, s.current_term + 1, "candidate")
             w == [u EXCEPT !.voted_for = TRUE, !.yes_votes = {n}, !.no_votes = {},
                            !.leader = Nobody]
  <2>2. GoodState(log, n, w)
    <3>1. GoodState(log, n, u)
      BY <2>1, Zenon
    <3>. HIDE DEF u
    <3>. QED
      BY <3>1, VoteGood, Zenon
  <2>3. t = start_timer(w, "election")
    BY Zenon DEF request_vote_request, start_election_timer, u
  <2> HIDE DEF w, t
  <2> QED BY <2>2, <2>3, TimerGood
<1>6. \A m \in requests : GoodMessage(log, m)
  <2>1. \A p \in get_all_peers(log[n]) : p \in Peers
    BY <1>2, QuorumRecorded, Zenon
  <2>2. ASSUME NEW p \in get_all_peers(log[n]) \ {n}, NEW term \in Nat, NEW i, NEW m,
               m = [cmd |-> "RequestVote", from |-> n, dest |-> p, term |-> term,
                    last_log_index |-> i]
        PROVE  GoodMessage(log, m)
    BY <2>1, <2>2, Zenon DEF GoodMessage, Commands, JoinCommands
  <2> QED BY <1>4, <2>2
<1>7. \A m \in ask : GoodMessage(log, m)
  BY AutoAddGood, Zenon
<1>8. \A m \in ask \cup requests : GoodMessage(log, m)
  BY <1>6, <1>7, Zenon
<1>9. log' = log /\ raft' = [raft EXCEPT ![n] = t]
  BY <1>1, Zenon DEF handle_election_timeout
<1>10. DOMAIN network' \subseteq DOMAIN network \cup (ask \cup requests)
  BY <1>1, Posted, Zenon
<1> HIDE DEF requests, t
<1> QED BY <1>5, <1>8, <1>9, <1>10, QuietStep, Zenon

LEMMA CancelledStep ==
    ASSUME Invariant, NEW n \in Peers, handle_election_timeout_cancelled(n)
    PROVE  Invariant' /\ Grown(log, log')
<1>1. PICK s \in run_out(n, "cancelled") : \E ask \in auto_add_peer_if_required(n, s, log[n]) :
          /\ raft' = [raft EXCEPT ![n] = s]
          /\ network' = send(network, ask)
  BY Zenon DEF handle_election_timeout_cancelled
<1>2. PICK ask \in auto_add_peer_if_required(n, s, log[n]) :
          /\ raft' = [raft EXCEPT ![n] = s]
          /\ network' = send(network, ask)
  BY <1>1, Zenon
<1>3. GoodState(log, n, s) /\ \A m \in ask : GoodMessage(log, m)
  BY RunOutGood, AutoAddGood, Zenon
<1>4. DOMAIN network' \subseteq DOMAIN network \cup ask
  BY <1>2, Posted, Zenon
<1>5. log' = log
  BY Zenon DEF handle_election_timeout_cancelled
<1> QED BY <1>2, <1>3, <1>4, <1>5, QuietStep, Zenon

-----------------------------------------------------------------------------
(* Sending entries *)

\* An entry of a log names recorded peers and, perhaps, the peer whose log it is.
LEMMA EntryRecorded ==
    ASSUME NEW lg \in Logs, NEW n \in Peers, GoodLog(lg, n), NEW i \in DOMAIN lg[n],
           NEW p \in (lg[n][i].old \cup lg[n][i].new) \ {n}
    PROVE  Recorded(lg, p)
<1>1. CASE p \in lg[n][i].old
  BY <1>1, Zenon DEF GoodLog
<1>2. CASE p \in lg[n][i].new
  BY <1>2, Zenon DEF Recorded
<1> QED BY <1>1, <1>2

\* What request_append_entries sends lies inside the log of the peer it is sent to.
LEMMA AppendsGood ==
    ASSUME Invariant, NEW n \in Peers, NEW s, GoodState(log, n, s),
           NEW m \in append_entries(n, s, log[n])
    PROVE  GoodMessage(log, m)
<1> DEFINE l == log[n]
           match == s.peer_match_index
           next(p) == min(at(match, p), size(l))
           entry(p) == IF next(p) < size(l) THEN entry_at(l, next(p)) ELSE NoEntry
<1>1. PICK p \in {q \in get_all_peers(l) \ {n} : at(match, q) > 0} :
          m = [cmd |-> "AppendEntries", from |-> n, dest |-> p, term |-> s.current_term,
               prev_index |-> next(p) - 1, prev_term |-> entry_at(l, next(p) - 1).term,
               entry |-> entry(p), commit_index |-> s.commit_index]
  BY Zenon DEF append_entries
<1>2. /\ log \in Logs /\ GoodLog(log, n) /\ l \in Seq(Entry) /\ Len(l) \in Nat /\ 1 <= Len(l)
      /\ s.current_term \in Nat /\ s.commit_index \in Nat /\ s.commit_index <= Len(l)
      /\ match \in Match /\ GoodMatch(log, match)
  BY Known, Zenon DEF GoodState, State
<1>3. p \in Peers /\ p # n /\ Recorded(log, p)
  BY <1>1, <1>2, QuorumRecorded, Zenon
<1>4. log[p] \in Seq(Entry) /\ Len(log[p]) \in Nat
  BY <1>2, <1>3 DEF Logs
<1>5. at(match, p) \in Nat /\ at(match, p) > 0 /\ at(match, p) <= Len(log[p])
  <2>1. p \in DOMAIN match /\ at(match, p) = match[p]
    BY <1>1 DEF at
  <2> QED BY <1>1, <1>2, <2>1, MatchType DEF GoodMatch
<1>6. next(p) \in Nat /\ 1 <= next(p) /\ next(p) <= Len(log[p]) /\ next(p) <= Len(l)
  BY <1>2, <1>4, <1>5 DEF min, size
<1>7. entry(p) \in Entry /\ \A q \in (entry(p).old \cup entry(p).new) \ {n} : Recorded(log, q)
  <2>1. CASE next(p) < size(l)
    <3>1. next(p) + 1 \in DOMAIN l /\ entry(p) = l[next(p) + 1]
      BY <2>1, <1>2, <1>6 DEF entry_at, size
    <3>2. l[next(p) + 1] \in Entry
      BY <3>1, <1>2
    <3> HIDE DEF next
    <3>3. \A q \in (l[next(p) + 1].old \cup l[next(p) + 1].new) \ {n} : Recorded(log, q)
      BY <3>1, <1>2, EntryRecorded, Zenon
    <3> QED BY <3>1, <3>2, <3>3
  <2>2. CASE ~(next(p) < size(l))
    BY <2>2, Zenon DEF NoEntry, database, Entry
  <2> QED BY <2>1, <2>2, Zenon
<1> DEFINE k == next(p)
           e == entry(p)
<1>8. /\ m.cmd = "AppendEntries" /\ m.from = n /\ m.dest = p /\ m.term = s.current_term
      /\ m.prev_index = k - 1 /\ m.entry = e /\ m.commit_index = s.commit_index
  BY <1>1, Zenon
<1> HIDE DEF next, entry, l, k, e, match
<1>9. GoodAppend(log, m)
  BY <1>2, <1>3, <1>4, <1>6, <1>7, <1>8 DEF GoodAppend, k, e, l
<1> QED BY <1>2, <1>3, <1>8, <1>9 DEF GoodMessage, Commands, JoinCommands

LEMMA RequestGood ==
    ASSUME Invariant, NEW n \in Peers, NEW s, GoodState(log, n, s)
    PROVE  GoodState(log, n, request_append_entries(n, s, log[n]))
<1> DEFINE f == touch(s.peer_match_index, get_all_peers(log[n]) \ {n})
           t == [s EXCEPT !.peer_match_index = f]
<1>1. log \in Logs /\ GoodLog(log, n) /\ s \in State
  BY Known, Zenon DEF GoodState
<1>2. s.peer_match_index \in Match /\ GoodMatch(log, s.peer_match_index)
      /\ s.commit_index \in Nat /\ s.commit_index <= Len(log[n])
  BY <1>1, Zenon DEF GoodState, State
<1>3. get_all_peers(log[n]) \subseteq Peers
  BY <1>1, QuorumRecorded, Zenon
<1>4. f \in Match /\ GoodMatch(log, f)
  BY <1>1, <1>2, <1>3, TouchGood, Zenon
<1> HIDE DEF f
<1>6. GoodState(log, n, t)
  BY <1>4, MatchGood, Zenon
<1>7. request_append_entries(n, s, log[n]) = start_timer(t, "heartbeat")
  BY Zenon DEF request_append_entries, start_heartbeat_timer, f
<1> HIDE DEF t
<1> QED BY <1>6, <1>7, TimerGood

LEMMA HeartbeatStep ==
    ASSUME Invariant, NEW n \in Peers, handle_heartbeat_timeout(n)
    PROVE  Invariant' /\ Grown(log, log')
<1>1. PICK s \in run_out(n, "heartbeat") :
          /\ raft' = [raft EXCEPT ![n] = request_append_entries(n, s, log[n])]
          /\ network' = send(network, append_entries(n, s, log[n]))
  BY Zenon DEF handle_heartbeat_timeout
<1>2. GoodState(log, n, s)
  BY RunOutGood, Zenon
<1>3. /\ GoodState(log, n, request_append_entries(n, s, log[n]))
      /\ \A m \in append_entries(n, s, log[n]) : GoodMessage(log, m)
  BY <1>2, RequestGood, AppendsGood, Zenon
<1>4. DOMAIN network' \subseteq DOMAIN network \cup append_entries(n, s, log[n])
  BY <1>1, Posted, Zenon
<1>5. log' = log
  BY Zenon DEF handle_heartbeat_timeout
<1> QED BY <1>1, <1>3, <1>4, <1>5, QuietStep, Zenon

-----------------------------------------------------------------------------
(* Appending to a log *)

\* The log of n grows to l, the new entries naming old peers that are recorded.
GrowsTo(n, l) ==
    /\ l \in Seq(Entry) /\ Extends(log[n], l) /\ HasQuorum(l)
    /\ \A i \in 1..Len(l) : Len(log[n]) < i => \A p \in l[i].old \ {n} : Recorded(log, p)

GrownGood(n, t, l, sent) ==
    \A lg \in Logs : Grown(log, lg) /\ lg[n] = l =>
        GoodState(lg, n, t) /\ \A m \in sent : GoodMessage(lg, m)

LEMMA GrowStep ==
    ASSUME Invariant, NEW n \in Peers, NEW t, NEW l, NEW sent, GrowsTo(n, l),
           Step(n, t, l, sent), GrownGood(n, t, l, sent)
    PROVE  Invariant' /\ Grown(log, log')
<1> DEFINE lh == [log EXCEPT ![n] = l]
<1>1. log \in Logs /\ GoodLog(log, n) /\ log[n] \in Seq(Entry)
  BY Known, Zenon
<1>2. l \in Seq(Entry) /\ Extends(log[n], l) /\ HasQuorum(l)
  BY Zenon DEF GrowsTo
<1>3. lh \in Logs /\ lh[n] = l /\ \A p \in Peers : p # n => lh[p] = log[p]
  BY <1>1, <1>2, Zenon DEF Logs
<1>4. PICK lg : lg = lh
  BY Zenon
<1> HIDE DEF lh
<1>5. Grown(log, lg)
  <2> SUFFICES ASSUME NEW p \in Peers PROVE Extends(log[p], lg[p])
    BY Zenon DEF Grown
  <2>1. log[p] \in Seq(Entry)
    BY <1>1, Zenon DEF Logs
  <2> QED BY <2>1, <1>2, <1>3, <1>4 DEF Extends
<1>6. \A p : Recorded(log, p) => Recorded(lg, p)
  BY <1>1, <1>3, <1>4, <1>5, RecordedStays, Zenon
<1>7. GoodLog(lg, n)
  <2> SUFFICES ASSUME NEW i \in DOMAIN l, NEW p \in l[i].old \ {n} PROVE Recorded(log, p)
    BY <1>2, <1>3, <1>4, <1>6, Zenon DEF GoodLog
  <2>1. i \in 1..Len(l) /\ Len(log[n]) \in Nat
    BY <1>1, <1>2
  <2>2. CASE Len(log[n]) < i
    BY <2>1, <2>2, Zenon DEF GrowsTo
  <2>3. CASE ~(Len(log[n]) < i)
    <3>1. i \in DOMAIN log[n] /\ l[i] = log[n][i]
      BY <2>1, <2>3, <1>1, <1>2 DEF Extends
    <3> QED BY <3>1, <1>1 DEF GoodLog
  <2> QED BY <2>2, <2>3
<1>8. GoodState(lg, n, t) /\ \A m \in sent : GoodMessage(lg, m)
  BY <1>3, <1>4, <1>5, Zenon DEF GrownGood
<1>9. Sound(n, t, l, sent)
  BY <1>2, <1>4, <1>7, <1>8, Zenon DEF Sound, lh
<1> QED BY <1>9, SoundStep

\* leader_append_entry.
LEMMA AppendGrows ==
    ASSUME Invariant, NEW n \in Peers, NEW e \in Entry,
           \A p \in e.old \ {n} : Recorded(log, p)
    PROVE  GrowsTo(n, Append(log[n], e))
<1> DEFINE k == log[n]
           l == Append(k, e)
<1>1. k \in Seq(Entry) /\ HasQuorum(k)
  BY Known, Zenon DEF GoodLog
<1> HIDE DEF k
<1>2. l \in Seq(Entry) /\ Len(l) = Len(k) + 1 /\ l[Len(k) + 1] = e
      /\ \A i \in 1..Len(k) : l[i] = k[i]
  BY <1>1
<1> HIDE DEF l
<1>3. Extends(k, l)
  BY <1>1, <1>2 DEF Extends
<1>4. HasQuorum(l)
  <2>1. CASE e.entry_type = "database"
    <3>1. PICK i \in 1..Len(k) : /\ k[i].entry_type # "database"
                                 /\ \A j \in 1..Len(k) : i < j => k[j].entry_type = "database"
      BY <1>1, Zenon DEF HasQuorum
    <3>2. i \in 1..Len(l) /\ l[i].entry_type # "database"
      BY <3>1, <1>1, <1>2
    <3>3. ASSUME NEW j \in 1..Len(l), i < j PROVE l[j].entry_type = "database"
      <4>1. j = Len(k) + 1 \/ j \in 1..Len(k)
        BY <1>1, <1>2
      <4> QED BY <4>1, <3>1, <3>3, <2>1, <1>2
    <3> QED BY <3>2, <3>3 DEF HasQuorum
  <2>2. CASE e.entry_type # "database"
    BY <2>2, <1>1, <1>2 DEF HasQuorum
  <2> QED BY <2>1, <2>2
<1>5. ASSUME NEW i \in 1..Len(l), Len(k) < i PROVE l[i] = e
  BY <1>1, <1>2, <1>5
<1> QED BY <1>2, <1>3, <1>4, <1>5 DEF GrowsTo, k, l

SentGood(n, e, sent) ==
    \A lg \in Logs : Grown(log, lg) /\ lg[n] = Append(log[n], e) =>
        \A m \in sent : GoodMessage(lg, m)

\* A leader appends e, and otherwise only gives another peer a match index.
LEMMA LeaderStep ==
    ASSUME Invariant, NEW n \in Peers, NEW e \in Entry, NEW t, NEW sent,
           \A p \in e.old \ {n} : Recorded(log, p),
           raft' = [raft EXCEPT ![n] = t],
           log' = [log EXCEPT ![n] = leader_append_entry(@, e)],
           DOMAIN network' \subseteq DOMAIN network \cup sent,
           GoodState(log, n, t), SentGood(n, e, sent)
    PROVE  Invariant' /\ Grown(log, log')
<1> DEFINE l == Append(log[n], e)
<1>1. GrowsTo(n, l)
  BY AppendGrows, Zenon
<1>2. Step(n, t, l, sent)
  BY Zenon DEF Step, leader_append_entry
<1>3. log \in Logs
  BY Known, Zenon
<1>4. GrownGood(n, t, l, sent)
  BY <1>3, StateStays, Zenon DEF GrownGood, SentGood
<1> HIDE DEF l
<1> QED BY <1>1, <1>2, <1>4, GrowStep, Zenon

LEMMA AppendLogStep ==
    ASSUME Invariant, NEW n \in Peers, NEW v \in Values, append_log(n, v)
    PROVE  Invariant' /\ Grown(log, log')
<1> DEFINE e == database(v, raft[n].current_term)
           sent == {}
<1>1. raft[n] \in State /\ GoodState(log, n, raft[n]) /\ raft \in [Peers -> State]
  BY Known, Zenon
<1>2. e \in Entry /\ e.old = {}
  BY <1>1, Zenon DEF Entry, State, database
<1>3. /\ raft' = [raft EXCEPT ![n] = raft[n]]
      /\ log' = [log EXCEPT ![n] = leader_append_entry(@, e)]
      /\ network' = network
  BY <1>1, Zenon DEF append_log
<1>4. SentGood(n, e, sent) /\ DOMAIN network' \subseteq DOMAIN network \cup sent
  BY <1>3, Zenon DEF SentGood
<1>5. \A p \in e.old \ {n} : Recorded(log, p)
  BY <1>2, Zenon
<1> HIDE DEF e, sent
<1> QED BY <1>1, <1>2, <1>3, <1>4, <1>5, LeaderStep, Zenon

\* The joint quorum that a leader makes of its last quorum.
LEMMA JointGood ==
    ASSUME Invariant, NEW n \in Peers, NEW S \in SUBSET Peers,
           NEW e, e = joint_quorum(last_quorum_entry(log[n]).new, S, raft[n].current_term)
    PROVE  e \in Entry /\ e.old \subseteq Peers /\ \A p \in e.old \ {n} : Recorded(log, p)
<1> DEFINE last == last_quorum_entry(log[n])
<1>1. log \in Logs /\ GoodLog(log, n) /\ log[n] \in Seq(Entry) /\ raft[n] \in State
  BY Known, Zenon
<1>2. last \in Entry
  BY <1>1, LastQuorum, Zenon DEF GoodLog
<1>3. e \in Entry /\ e.old = last.new /\ last.new \subseteq Peers
  BY <1>1, <1>2, Zenon DEF Entry, State, joint_quorum
<1>4. last.new \subseteq get_all_peers(log[n])
  BY Zenon DEF get_all_peers, get_active_quorum
<1> HIDE DEF last
<1> QED BY <1>1, <1>3, <1>4, QuorumRecorded

LEMMA RemovePeerStep ==
    ASSUME Invariant, NEW n \in Peers, NEW p, handle_remove_peer(n, p)
    PROVE  Invariant' /\ Grown(log, log')
<1> DEFINE last == last_quorum_entry(log[n])
           e == joint_quorum(last.new, last.new \ {p}, raft[n].current_term)
           sent == {}
<1>1. /\ raft[n] \in State /\ GoodState(log, n, raft[n]) /\ raft \in [Peers -> State]
      /\ log[n] \in Seq(Entry) /\ HasQuorum(log[n])
  BY Known, Zenon DEF GoodLog
<1>2. last.new \ {p} \in SUBSET Peers
  BY <1>1, LastQuorum, Zenon DEF Entry
<1>3. e \in Entry /\ \A q \in e.old \ {n} : Recorded(log, q)
  BY <1>2, JointGood, Zenon
<1>4. /\ raft' = [raft EXCEPT ![n] = raft[n]]
      /\ log' = [log EXCEPT ![n] = leader_append_entry(@, e)]
      /\ network' = network
  BY <1>1, Zenon DEF handle_remove_peer
<1>5. SentGood(n, e, sent) /\ DOMAIN network' \subseteq DOMAIN network \cup sent
  BY <1>4, Zenon DEF SentGood
<1> HIDE DEF e, sent
<1> QED BY <1>1, <1>3, <1>4, <1>5, LeaderStep, Zenon

\* A leader that appends the joint quorum with p says so to some.
LEMMA AddPeerStep ==
    ASSUME Invariant, NEW n \in Peers, NEW p \in Peers, add_peer(n, p), NEW sent,
           DOMAIN network' \subseteq DOMAIN network \cup sent,
           \A lg \in Logs : Grown(log, lg) /\ (p # n => Recorded(lg, p)) =>
               \A m \in sent : GoodMessage(lg, m)
    PROVE  Invariant' /\ Grown(log, log')
<1> DEFINE last == last_quorum_entry(log[n])
           e == joint_quorum(last.new, last.new \cup {p}, raft[n].current_term)
           f == [touch(raft[n].peer_match_index, {p}) EXCEPT ![p] = 1]
           t == [raft[n] EXCEPT !.peer_match_index = f]
<1>1. /\ log \in Logs /\ log[n] \in Seq(Entry) /\ HasQuorum(log[n])
      /\ raft[n] \in State /\ GoodState(log, n, raft[n]) /\ raft \in [Peers -> State]
  BY Known, Zenon DEF GoodLog
<1>2. last.new \cup {p} \in SUBSET Peers
  BY <1>1, LastQuorum, Zenon DEF Entry
<1>3. e \in Entry /\ \A q \in e.old \ {n} : Recorded(log, q)
  BY <1>2, JointGood, Zenon
<1>4. p \in e.new
  BY Zenon DEF joint_quorum
<1>5. /\ raft' = [raft EXCEPT ![n] = t]
      /\ log' = [log EXCEPT ![n] = leader_append_entry(@, e)]
  BY <1>1, Zenon DEF add_peer
<1>6. 1 <= Len(log[p]) /\ raft[n].peer_match_index \in Match
      /\ GoodMatch(log, raft[n].peer_match_index)
  BY <1>1, Known, Zenon DEF State, GoodState
<1>7. f \in Match /\ GoodMatch(log, f)
  BY <1>1, <1>6, SetGood, Zenon
<1> HIDE DEF f
<1>8. GoodState(log, n, t)
  BY <1>1, <1>7, MatchGood, Zenon
<1> HIDE DEF e, t
<1>9. SentGood(n, e, sent)
  <2> SUFFICES ASSUME NEW lg \in Logs, Grown(log, lg), lg[n] = Append(log[n], e), p # n
               PROVE  Recorded(lg, p)
    BY Zenon DEF SentGood
  <2> DEFINE i == Len(log[n]) + 1
  <2>1. i \in DOMAIN lg[n] /\ lg[n][i] = e
    BY <1>1, <1>3
  <2> HIDE DEF i
  <2> QED BY <2>1, <1>4 DEF Recorded
<1> QED BY <1>3, <1>5, <1>8, <1>9, LeaderStep, Zenon

LEMMA ClientAddStep ==
    ASSUME Invariant, NEW n \in Peers, NEW p \in AddedPeers, handle_client_add_peer(n, p)
    PROVE  Invariant' /\ Grown(log, log')
<1> DEFINE sent == {}
<1>1. p \in Peers /\ add_peer(n, p)
  BY RaftAssumption, Zenon DEF handle_client_add_peer
<1>2. /\ DOMAIN network' \subseteq DOMAIN network \cup sent
      /\ \A lg \in Logs : Grown(log, lg) /\ (p # n => Recorded(lg, p)) =>
             \A m \in sent : GoodMessage(lg, m)
  BY Zenon DEF handle_client_add_peer
<1> HIDE DEF sent
<1> QED BY <1>1, <1>2, AddPeerStep

\* What a restart reads back is the log; one entry at least.
LEMMA RestartStep ==
    ASSUME Invariant, NEW n \in Peers, restart(n)
    PROVE  Invariant' /\ Grown(log, log')
<1>1. log \in Logs /\ \A p \in Peers : 1 <= Len(log[p])
  BY Known, Zenon
<1>2. GoodState(log, n, started(n))
  BY <1>1, StartedGood, Zenon
<1>3. /\ raft' = [raft EXCEPT ![n] = started(n)] /\ log' = log
      /\ DOMAIN network' \subseteq DOMAIN network
  BY Zenon DEF restart
<1> QED BY <1>2, <1>3, SilentStep, Zenon

LEMMA LostStep ==
    ASSUME Invariant, NEW m \in DOMAIN network, lost(m)
    PROVE  Invariant' /\ Grown(log, log')
<1> DEFINE n == m.dest
<1>1. n \in Peers
  BY Zenon DEF Invariant, GoodMessage
<1>2. GoodState(log, n, raft[n]) /\ raft \in [Peers -> State]
  BY <1>1, Known, Zenon
<1>3. raft' = [raft EXCEPT ![n] = raft[n]] /\ log' = log
  BY <1>1, <1>2, Zenon DEF lost
<1>4. DOMAIN network' \subseteq DOMAIN network
  BY Received, Zenon DEF lost
<1> QED BY <1>1, <1>2, <1>3, <1>4, SilentStep, Zenon

-----------------------------------------------------------------------------
(* Joining *)

\* A message that is handled, and the peer that handles it.
Handled(n, m) == n \in Peers /\ m.dest = n /\ GoodMessage(log, m)

LEMMA GetPeersStep ==
    ASSUME Invariant, NEW n, NEW m, Handled(n, m), handle_get_peers(n, m)
    PROVE  Invariant' /\ Grown(log, log')
<1> DEFINE state == raft[n].current_state
           reply(leader, peers) ==
               [cmd |-> "get_peers_response", from |-> n, dest |-> m.from,
                state |-> state, leader |-> leader, peers |-> peers]
<1>1. n \in Peers /\ m.from \in Peers
  BY Zenon DEF Handled, GoodMessage
<1>2. /\ log \in Logs /\ GoodLog(log, n) /\ GoodState(log, n, raft[n])
      /\ raft[n] \in State /\ raft \in [Peers -> State]
  BY <1>1, Known, Zenon
<1>3. PICK leader \in Peers \cup {Nobody}, peers \in {{}, get_all_peers(log[n])} :
          /\ network' = exchange(m, {reply(leader, peers)})
          /\ peers # {} => state = "leader"
  <2>1. state \in {"follower", "candidate", "leader"} /\ raft[n].leader \in Peers \cup {Nobody}
    BY <1>2, Zenon DEF State
  <2>2. CASE state = "candidate"
    BY <2>2, Zenon DEF handle_get_peers
  <2>3. CASE state = "follower"
    BY <2>1, <2>3, Zenon DEF handle_get_peers
  <2>4. CASE state = "leader"
    BY <2>4, Zenon DEF handle_get_peers
  <2> QED BY <2>1, <2>2, <2>3, <2>4, Zenon
<1>4. ASSUME NEW p \in peers PROVE Recorded(log, p)
  <2>1. p \in get_all_peers(log[n]) /\ state = "leader"
    BY <1>3, <1>4, Zenon
  <2>2. CASE p = n
    BY <1>2, <2>1, <2>2, Zenon DEF GoodState
  <2>3. CASE p # n
    BY <1>1, <1>2, <2>1, <2>3, QuorumRecorded, Zenon
  <2> QED BY <2>2, <2>3
<1> DEFINE answer == reply(leader, peers)
<1>5. /\ answer.cmd = "get_peers_response" /\ answer.from = n /\ answer.dest = m.from
      /\ answer.leader = leader /\ answer.peers = peers
  BY Zenon
<1> HIDE DEF reply, answer
<1>6. GoodMessage(log, answer)
  BY <1>1, <1>3, <1>4, <1>5, Zenon DEF GoodMessage, Commands, JoinCommands
<1>7. raft' = [raft EXCEPT ![n] = raft[n]] /\ log' = log
  BY <1>1, <1>2, Zenon DEF handle_get_peers
<1>8. network' = exchange(m, {answer})
  BY <1>3, Zenon DEF answer
<1> QED BY <1>1, <1>2, <1>6, <1>7, <1>8, ReplyStep, Zenon

LEMMA FollowerAnswerStep ==
    ASSUME Invariant, NEW n, NEW m, Handled(n, m), m.cmd = "get_peers_response",
           handle_get_peers_response_from_follower_or_candidate(n, m), log' = log
    PROVE  Invariant' /\ Grown(log, log')
<1> DEFINE leader == IF m.state = "follower" THEN m.leader ELSE raft[n].leader
           s == [raft[n] EXCEPT !.in_a_swarm = FALSE, !.leader = leader]
<1>1. n \in Peers /\ m.leader \in Peers \cup {Nobody}
  BY Zenon DEF Handled, GoodMessage
<1>2. GoodState(log, n, raft[n]) /\ raft[n] \in State
  BY <1>1, Known, Zenon
<1>3. leader \in Peers \cup {Nobody}
  BY <1>1, <1>2, Zenon DEF State
<1>4. raft' = [raft EXCEPT ![n] = s]
      /\ \/ network' = exchange(m, {})
         \/ \E ask \in get_peers(n, s, log[n]) : network' = exchange(m, {ask})
  BY Zenon DEF handle_get_peers_response_from_follower_or_candidate
<1> HIDE DEF leader
<1>5. GoodState(log, n, s)
  BY <1>2, <1>3, SwarmGood, Zenon
<1> HIDE DEF s
<1>6. CASE network' = exchange(m, {})
  BY <1>1, <1>4, <1>5, <1>6, ReceiveStep, Zenon
<1>7. CASE \E ask \in get_peers(n, s, log[n]) : network' = exchange(m, {ask})
  <2>1. PICK ask \in get_peers(n, s, log[n]) : network' = exchange(m, {ask})
    BY <1>7, Zenon
  <2>2. GoodMessage(log, ask)
    BY <1>1, AskGood, Zenon
  <2> QED BY <1>1, <1>4, <1>5, <2>1, <2>2, ReplyStep, Zenon
<1> QED BY <1>4, <1>6, <1>7

LEMMA LeaderAnswerStep ==
    ASSUME Invariant, NEW n, NEW m, Handled(n, m), m.cmd = "get_peers_response",
           handle_get_peers_response_from_leader(n, m), log' = log
    PROVE  Invariant' /\ Grown(log, log')
<1> DEFINE b == raft[n].in_a_swarm \/ n \in m.peers
           t == [raft[n] EXCEPT !.in_a_swarm = b, !.leader = m.from]
<1>1. n \in Peers /\ m.from \in Peers /\ \A p \in m.peers : Recorded(log, p)
  BY Zenon DEF Handled, GoodMessage
<1>2. GoodState(log, n, raft[n]) /\ raft[n] \in State /\ raft \in [Peers -> State]
  BY <1>1, Known, Zenon
<1>3. b \in BOOLEAN /\ (b => Recorded(log, n))
  BY <1>1, <1>2, Zenon DEF GoodState
<1>4. raft' = [raft EXCEPT ![n] = t]
      /\ \/ network' = exchange(m, {})
         \/ \E ask \in add_self_to_swarm(n, m.from) : network' = exchange(m, {ask})
  BY <1>1, <1>2, Zenon DEF handle_get_peers_response_from_leader
<1> HIDE DEF b
<1>5. GoodState(log, n, t)
  BY <1>1, <1>2, <1>3, SwarmGood, Zenon
<1> HIDE DEF t
<1>6. CASE network' = exchange(m, {})
  BY <1>1, <1>4, <1>5, <1>6, ReceiveStep, Zenon
<1>7. CASE \E ask \in add_self_to_swarm(n, m.from) : network' = exchange(m, {ask})
  <2>1. PICK ask \in add_self_to_swarm(n, m.from) : network' = exchange(m, {ask})
    BY <1>7, Zenon
  <2>2. ask = [cmd |-> "add_peer", from |-> n, dest |-> m.from]
    BY Zenon DEF add_self_to_swarm
  <2>3. ask.cmd = "add_peer" /\ ask.from = n /\ ask.dest = m.from
    BY <2>2, Zenon
  <2>4. GoodMessage(log, ask)
    BY <1>1, <2>3, Zenon DEF GoodMessage, Commands, JoinCommands
  <2> QED BY <1>1, <1>4, <1>5, <2>1, <2>4, ReplyStep, Zenon
<1> QED BY <1>4, <1>6, <1>7

LEMMA AddSelfStep ==
    ASSUME Invariant, NEW n, NEW m, Handled(n, m), handle_add_peer(n, m)
    PROVE  Invariant' /\ Grown(log, log')
<1> DEFINE reply == [cmd |-> "add_peer_response", from |-> n, dest |-> m.from]
           p == m.from
<1>1. n \in Peers /\ p \in Peers
  BY Zenon DEF Handled, GoodMessage
<1>2. log \in Logs /\ GoodState(log, n, raft[n]) /\ raft \in [Peers -> State]
  BY <1>1, Known, Zenon
<1>3. CASE network' = exchange(m, {}) /\ raft' = raft /\ log' = log
  <2>1. raft' = [raft EXCEPT ![n] = raft[n]]
    BY <1>1, <1>2, <1>3, Zenon
  <2> QED BY <1>1, <1>2, <1>3, <2>1, ReceiveStep, Zenon
<1>4. CASE may_add_peer(n, p) /\ add_peer(n, p) /\ network' = exchange(m, {reply})
  <2> DEFINE sent == {reply}
  <2>1. Recorded(log, n)
    BY <1>2, <1>4, Zenon DEF may_add_peer, GoodState
  <2>2. reply.cmd = "add_peer_response" /\ reply.from = n /\ reply.dest = p
    BY Zenon
  <2>3. DOMAIN network' \subseteq DOMAIN network \cup sent
    BY <1>4, Exchanged, Zenon
  <2> HIDE DEF reply, p
  <2>4. ASSUME NEW lg \in Logs, Grown(log, lg), p # n => Recorded(lg, p)
        PROVE  GoodMessage(lg, reply)
    <3>1. Recorded(lg, n)
      BY <1>2, <2>1, <2>4, RecordedStays, Zenon
    <3>2. Recorded(lg, p)
      BY <2>4, <3>1, Zenon
    <3> QED BY <1>1, <2>2, <3>2 DEF GoodMessage, Commands, JoinCommands
  <2>5. \A lg \in Logs : Grown(log, lg) /\ (p # n => Recorded(lg, p)) =>
            \A x \in sent : GoodMessage(lg, x)
    BY <2>4, Zenon
  <2> HIDE DEF sent
  <2> QED BY <1>1, <1>4, <2>3, <2>5, AddPeerStep, Zenon
<1> QED BY <1>3, <1>4 DEF handle_add_peer

LEMMA AddedStep ==
    ASSUME Invariant, NEW n, NEW m, Handled(n, m), m.cmd = "add_peer_response",
           handle_add_peer_response(n, m)
    PROVE  Invariant' /\ Grown(log, log')
<1> DEFINE t == [raft[n] EXCEPT !.in_a_swarm = TRUE]
<1>1. n \in Peers /\ Recorded(log, n)
  BY Zenon DEF Handled, GoodMessage
<1>2. GoodState(log, n, raft[n]) /\ raft[n] \in State /\ raft \in [Peers -> State]
  BY <1>1, Known, Zenon
<1>3. /\ raft' = [raft EXCEPT ![n] = t] /\ log' = log /\ network' = exchange(m, {})
  BY <1>1, <1>2, Zenon DEF handle_add_peer_response
<1>4. GoodState(log, n, t)
  BY <1>1, <1>2, JoinedGood, Zenon
<1> HIDE DEF t
<1> QED BY <1>1, <1>3, <1>4, ReceiveStep, Zenon

-----------------------------------------------------------------------------
(* Votes *)

\* A peer answers those that are in its own quorum.
LEMMA VoteMessage ==
    ASSUME Invariant, NEW n, NEW m, Handled(n, m), m.cmd = "RequestVote",
           in_quorum(log[n], m.from), NEW term \in Nat, NEW granted
    PROVE  GoodMessage(log, vote(n, m, term, granted))
<1> DEFINE v == vote(n, m, term, granted)
<1>1. n \in Peers /\ m.from \in Peers /\ m.from # n
  BY Zenon DEF Handled, GoodMessage
<1>2. log \in Logs /\ GoodLog(log, n)
  BY <1>1, Known, Zenon
<1>3. Recorded(log, m.from)
  BY <1>1, <1>2, QuorumRecorded, Zenon DEF in_quorum
<1>4. v.cmd = "ResponseVote" /\ v.from = n /\ v.dest = m.from /\ v.term = term
  BY Zenon DEF vote
<1> HIDE DEF v
<1>5. GoodMessage(log, v)
  BY <1>1, <1>3, <1>4, Zenon DEF GoodMessage, Commands, JoinCommands
<1> QED BY <1>5 DEF v

LEMMA VotesStep ==
    ASSUME Invariant, NEW n, NEW m, Handled(n, m), m.cmd = "RequestVote",
           in_quorum(log[n], m.from), handle_ws_request_vote(n, m)
    PROVE  Invariant' /\ Grown(log, log')
<1> DEFINE refuse == raft[n].current_state = "leader" \/ raft[n].voted_for
           b == raft[n].voted_for \/ ~refuse
           t == [raft[n] EXCEPT !.voted_for = b]
           granted == ~refuse /\ m.last_log_index >= size(log[n])
           reply == vote(n, m, m.term, granted)
<1>1. n \in Peers /\ m.term \in Nat
  BY Zenon DEF Handled, GoodMessage, JoinCommands
<1>2. GoodState(log, n, raft[n]) /\ raft[n] \in State /\ raft \in [Peers -> State]
  BY <1>1, Known, Zenon
<1>3. raft' = [raft EXCEPT ![n] = t] /\ log' = log /\ network' = exchange(m, {reply})
  BY <1>1, <1>2, Zenon DEF handle_ws_request_vote
<1>4. b \in BOOLEAN
  BY Zenon
<1> HIDE DEF b, granted
<1>5. GoodState(log, n, t)
  BY <1>2, <1>4, VotedGood, Zenon
<1>6. GoodMessage(log, reply)
  BY <1>1, VoteMessage, Zenon
<1> HIDE DEF t, reply
<1> QED BY <1>1, <1>3, <1>5, <1>6, ReplyStep, Zenon

\* A leader has got a vote of somebody else, who has it in its log.
LEMMA VoteResponseStep ==
    ASSUME Invariant, NEW n, NEW m, Handled(n, m), m.cmd = "ResponseVote",
           handle_request_vote_response(n, m)
    PROVE  Invariant' /\ Grown(log, log')
<1> DEFINE s == raft[n]
           t == IF m.granted THEN [s EXCEPT !.yes_votes = @ \cup {m.from}]
                             ELSE [s EXCEPT !.no_votes = @ \cup {m.from}]
           u == update_raft_state(t, s.current_term, "leader")
           f == [p \in DOMAIN u.peer_match_index |-> 1]
           elected == [u EXCEPT !.leader = n, !.peer_match_index = f]
           back == update_raft_state(t, s.current_term, "follower")
<1>1. n \in Peers /\ m.from \in Peers /\ Recorded(log, n)
  BY Zenon DEF Handled, GoodMessage
<1>2. /\ log \in Logs /\ GoodState(log, n, s) /\ s \in State /\ s.current_term \in Nat
      /\ raft \in [Peers -> State]
  BY <1>1, Known, Zenon DEF State
<1>3. /\ log' = log
      /\ \/ raft' = raft /\ network' = exchange(m, {})
         \/ /\ raft' = [raft EXCEPT ![n] = request_append_entries(n, elected, log[n])]
            /\ network' = exchange(m, append_entries(n, elected, log[n]))
         \/ raft' = [raft EXCEPT ![n] = start_timer(back, "election")]
               /\ network' = exchange(m, {})
         \/ raft' = [raft EXCEPT ![n] = t] /\ network' = exchange(m, {})
  BY Zenon DEF handle_request_vote_response, start_election_timer
<1> HIDE DEF s
<1>4. GoodState(log, n, t)
  <2>1. /\ t \in State
        /\ t.commit_index = s.commit_index /\ t.peer_match_index = s.peer_match_index
        /\ t.in_a_swarm = s.in_a_swarm /\ t.current_state = s.current_state
    BY <1>1, <1>2 DEF State
  <2> HIDE DEF t
  <2> QED BY <1>2, <2>1 DEF GoodState
<1> HIDE DEF t
<1>5. GoodState(log, n, back)
  BY <1>2, <1>4, UpdateGood, Zenon
<1>6. GoodState(log, n, u)
  BY <1>1, <1>2, <1>4, UpdateGood, Zenon
<1> HIDE DEF u, back
<1>7. GoodState(log, n, elected)
  <2>1. u \in State /\ DOMAIN u.peer_match_index \subseteq Peers
    BY <1>6 DEF GoodState, State, Match
  <2>2. \A p \in Peers : 1 <= Len(log[p])
    BY Known, Zenon
  <2>3. f \in Match /\ GoodMatch(log, f)
    BY <2>1, <2>2, MatchType, Zenon DEF GoodMatch
  <2> HIDE DEF f
  <2>4. /\ elected \in State
        /\ elected.commit_index = u.commit_index /\ elected.peer_match_index = f
        /\ elected.in_a_swarm = u.in_a_swarm /\ elected.current_state = u.current_state
    BY <1>1, <2>1, <2>3, Zenon DEF State
  <2> HIDE DEF elected
  <2> QED BY <1>6, <2>3, <2>4 DEF GoodState
<1> HIDE DEF elected
<1>8. CASE raft' = raft /\ network' = exchange(m, {})
  <2>1. raft' = [raft EXCEPT ![n] = s]
    BY <1>1, <1>2, <1>8, Zenon DEF s
  <2> QED BY <1>1, <1>2, <1>3, <1>8, <2>1, ReceiveStep, Zenon
<1>9. CASE /\ raft' = [raft EXCEPT ![n] = request_append_entries(n, elected, log[n])]
           /\ network' = exchange(m, append_entries(n, elected, log[n]))
  <2>1. /\ GoodState(log, n, request_append_entries(n, elected, log[n]))
        /\ \A x \in append_entries(n, elected, log[n]) : GoodMessage(log, x)
    BY <1>1, <1>7, RequestGood, AppendsGood, Zenon
  <2>2. DOMAIN network' \subseteq DOMAIN network \cup append_entries(n, elected, log[n])
    BY <1>9, Exchanged, Zenon
  <2> QED BY <1>1, <1>3, <1>9, <2>1, <2>2, QuietStep, Zenon
<1>10. CASE raft' = [raft EXCEPT ![n] = start_timer(back, "election")]
              /\ network' = exchange(m, {})
  <2>1. GoodState(log, n, start_timer(back, "election"))
    BY <1>5, TimerGood, Zenon
  <2> QED BY <1>1, <1>3, <1>10, <2>1, ReceiveStep, Zenon
<1>11. CASE raft' = [raft EXCEPT ![n] = t] /\ network' = exchange(m, {})
  BY <1>1, <1>3, <1>4, <1>11, ReceiveStep, Zenon
<1> QED BY <1>3, <1>8, <1>9, <1>10, <1>11

-----------------------------------------------------------------------------
(* Other terms *)

LEMMA SteppedDownGood ==
    ASSUME NEW n, NEW s, GoodState(log, n, s), NEW term \in Nat
    PROVE  GoodState(log, n, stepped_down(s, term))
<1> DEFINE u == update_raft_state(s, term, "follower")
           w == [u EXCEPT !.voted_for = FALSE]
<1>1. GoodState(log, n, u)
  BY UpdateGood, Zenon
<1>2. stepped_down(s, term) = start_timer(w, "election")
  BY Zenon DEF stepped_down, start_election_timer
<1> HIDE DEF u
<1>3. GoodState(log, n, w)
  BY <1>1, VotedGood, Zenon
<1> HIDE DEF w
<1> QED BY <1>2, <1>3, TimerGood

LEMMA EarlierTermStep ==
    ASSUME Invariant, NEW n, NEW m, Handled(n, m), m.cmd \notin JoinCommands,
           handle_earlier_term(n, m)
    PROVE  Invariant' /\ Grown(log, log')
<1>1. n \in Peers /\ m.term \in Nat
  BY Zenon DEF Handled, GoodMessage
<1>2. GoodState(log, n, raft[n]) /\ raft \in [Peers -> State]
  BY <1>1, Known, Zenon
<1>3. /\ raft' = [raft EXCEPT ![n] = stepped_down(raft[n], m.term)]
      /\ log' = log /\ network' = exchange(m, {})
  BY <1>1, <1>2, Zenon DEF handle_earlier_term
<1>4. GoodState(log, n, stepped_down(raft[n], m.term))
  BY <1>1, <1>2, SteppedDownGood, Zenon
<1> QED BY <1>1, <1>3, <1>4, ReceiveStep, Zenon

\* A reply says no more than what is in the log of the peer that sends it.
LEMMA ReplyGood ==
    ASSUME NEW lg \in Logs, NEW n \in Peers, NEW m, m.from \in Peers, NEW term \in Nat,
           NEW success, NEW k \in Nat, k <= Len(lg[n])
    PROVE  GoodMessage(lg, append_reply(n, m, term, success, k))
<1> DEFINE r == append_reply(n, m, term, success, k)
<1>1. r.cmd = "AppendEntriesReply" /\ r.from = n /\ r.dest = m.from /\ r.term = term
      /\ r.match_index = k
  BY Zenon DEF append_reply
<1> HIDE DEF r
<1>2. GoodMessage(lg, r)
  BY <1>1, Zenon DEF GoodMessage, Commands, JoinCommands
<1> QED BY <1>2 DEF r

LEMMA LaterTermStep ==
    ASSUME Invariant, NEW n, NEW m, Handled(n, m), m.cmd \notin JoinCommands,
           in_quorum(log[n], m.from), handle_later_term(n, m)
    PROVE  Invariant' /\ Grown(log, log')
<1> DEFINE s == raft[n]
           down == stepped_down(s, m.term)
<1>1. n \in Peers /\ m.term \in Nat /\ m.from \in Peers
  BY Zenon DEF Handled, GoodMessage
<1>2. /\ GoodState(log, n, s) /\ s \in State /\ raft \in [Peers -> State] /\ log' = log
      /\ log \in Logs /\ Len(log[n]) \in Nat
  BY <1>1, Known, Zenon DEF handle_later_term
<1>3. GoodState(log, n, down)
  BY <1>1, <1>2, SteppedDownGood, Zenon
<1>4. ASSUME m.cmd = "RequestVote",
             raft' = [raft EXCEPT ![n].current_term = m.term, ![n].voted_for = TRUE],
             network' = exchange(m, {vote(n, m, m.term, TRUE)})
      PROVE  Invariant' /\ Grown(log, log')
  <2> DEFINE t == [s EXCEPT !.current_term = m.term, !.voted_for = TRUE]
  <2>1. raft' = [raft EXCEPT ![n] = t]
    BY <1>1, <1>2, <1>4, Zenon
  <2> HIDE DEF s
  <2>2. /\ t \in State
        /\ t.commit_index = s.commit_index /\ t.peer_match_index = s.peer_match_index
        /\ t.in_a_swarm = s.in_a_swarm /\ t.current_state = s.current_state
    BY <1>1, <1>2, Zenon DEF State
  <2> HIDE DEF t
  <2>3. GoodState(log, n, t)
    BY <1>2, <2>2, Zenon DEF GoodState
  <2>4. GoodMessage(log, vote(n, m, m.term, TRUE))
    BY <1>1, <1>4, VoteMessage, Zenon
  <2> QED BY <1>1, <1>2, <1>4, <2>1, <2>3, <2>4, ReplyStep, Zenon
<1>5. ASSUME raft' = [raft EXCEPT ![n] = [down EXCEPT !.leader = m.from]],
             network' = exchange(m, {append_reply(n, m, m.term, FALSE, size(log[n]))})
      PROVE  Invariant' /\ Grown(log, log')
  <2> DEFINE t == [down EXCEPT !.leader = m.from]
  <2> HIDE DEF down
  <2>1. down \in State
    BY <1>3, Zenon DEF GoodState
  <2>2. /\ t \in State
        /\ t.commit_index = down.commit_index /\ t.peer_match_index = down.peer_match_index
        /\ t.in_a_swarm = down.in_a_swarm /\ t.current_state = down.current_state
    BY <1>1, <2>1, Zenon DEF State
  <2>3. raft' = [raft EXCEPT ![n] = t]
    BY <1>5, Zenon DEF down
  <2> HIDE DEF t
  <2>4. GoodState(log, n, t)
    BY <1>3, <2>2, Zenon DEF GoodState
  <2> DEFINE k == size(log[n])
  <2>0. k \in Nat /\ k <= Len(log[n])
    BY <1>2 DEF size
  <2> HIDE DEF k
  <2>5. GoodMessage(log, append_reply(n, m, m.term, FALSE, k))
    BY <1>1, <1>2, <2>0, ReplyGood, Zenon
  <2> QED BY <1>1, <1>2, <1>5, <2>3, <2>4, <2>5, ReplyStep, Zenon DEF k
<1>6. ASSUME raft' = [raft EXCEPT ![n] = down], network' = exchange(m, {})
      PROVE  Invariant' /\ Grown(log, log')
  BY <1>1, <1>2, <1>3, <1>6, ReceiveStep, Zenon
<1> QED BY <1>1, <1>2, <1>4, <1>5, <1>6 DEF handle_later_term

-----------------------------------------------------------------------------
(* Entries *)

\* An accepted entry is appended: the previous one is the last of the log.
LEMMA InsertGrows ==
    ASSUME Invariant, NEW n, NEW m, Handled(n, m), m.cmd = "AppendEntries",
           in_quorum(log[n], m.from), entry_accepted(log[n], m.prev_index, m.prev_term)
    PROVE  GrowsTo(n, follower_insert_entry(log[n], m.prev_index + 1, m.entry))
<1> DEFINE l == log[n]
<1>1. /\ n \in Peers /\ m.from \in Peers /\ m.entry \in Entry
      /\ \A p \in (m.entry.old \cup m.entry.new) \ {m.from} : Recorded(log, p)
  BY Zenon DEF Handled, GoodMessage, GoodAppend
<1>2. log \in Logs /\ GoodLog(log, n) /\ l \in Seq(Entry)
  BY <1>1, Known, Zenon
<1>3. m.prev_index + 1 = Len(l)
  BY <1>2 DEF entry_accepted, size
<1>4. SubSeq(l, 1, Len(l)) = l
  BY <1>2
<1>5. follower_insert_entry(l, m.prev_index + 1, m.entry) = Append(l, m.entry)
  BY <1>2, <1>3, <1>4 DEF follower_insert_entry, size
<1>6. ASSUME NEW p \in m.entry.old \ {n} PROVE Recorded(log, p)
  <2>1. CASE p # m.from
    BY <1>1, <2>1, Zenon
  <2>2. CASE p = m.from
    BY <1>1, <1>2, <2>2, QuorumRecorded, Zenon DEF in_quorum
  <2> QED BY <2>1, <2>2
<1>7. GrowsTo(n, Append(l, m.entry))
  BY <1>1, <1>6, AppendGrows, Zenon
<1> QED BY <1>5, <1>7, Zenon

LEMMA SameGrows ==
    ASSUME Invariant, NEW n \in Peers
    PROVE  GrowsTo(n, log[n])
<1>1. log[n] \in Seq(Entry) /\ HasQuorum(log[n])
  BY Known, Zenon DEF GoodLog
<1> QED BY <1>1 DEF GrowsTo, Extends

LEMMA AppendEntriesStep ==
    ASSUME Invariant, NEW n, NEW m, Handled(n, m), m.cmd = "AppendEntries",
           in_quorum(log[n], m.from), handle_ws_append_entries(n, m)
    PROVE  Invariant' /\ Grown(log, log')
<1> DEFINE s == [raft[n] EXCEPT !.in_a_swarm = TRUE]
           accepted == entry_accepted(log[n], m.prev_index, m.prev_term)
           l == IF accepted /\ m.entry # NoEntry
                THEN follower_insert_entry(log[n], m.prev_index + 1, m.entry) ELSE log[n]
           upto == IF accepted THEN min(size(l), m.commit_index) ELSE 0
           c == IF s.commit_index < upto THEN upto ELSE s.commit_index
           f == [touch(s.peer_match_index, {m.from}) EXCEPT ![m.from] = m.commit_index]
           u == [s EXCEPT !.leader = m.from, !.commit_index = c, !.peer_match_index = f]
           reply == append_reply(n, m, m.term, accepted, match_index(l, m))
           down == update_raft_state(s, m.term, "follower")
<1>1. /\ n \in Peers /\ m.from \in Peers /\ m.term \in Nat /\ m.prev_index \in Nat
      /\ m.commit_index \in Nat /\ m.commit_index <= Len(log[m.from]) /\ Recorded(log, n)
  BY Zenon DEF Handled, GoodMessage, GoodAppend, JoinCommands
<1>2. log \in Logs /\ GoodState(log, n, raft[n]) /\ raft[n] \in State /\ raft \in [Peers -> State]
  BY <1>1, Known, Zenon
<1>3. \/ /\ raft' = [raft EXCEPT ![n] = start_timer(down, "election")]
         /\ network' = exchange(m, {}) /\ log' = log
      \/ /\ raft' = [raft EXCEPT ![n] = start_timer(u, "election")]
         /\ log' = [log EXCEPT ![n] = l] /\ network' = exchange(m, {reply})
  BY Zenon DEF handle_ws_append_entries, start_election_timer
<1>4. GoodState(log, n, s)
  BY <1>1, <1>2, JoinedGood, Zenon
<1>5. GrowsTo(n, l)
  BY <1>1, InsertGrows, SameGrows, Zenon
<1> HIDE DEF s, l, accepted
<1>6. l \in Seq(Entry) /\ Len(l) \in Nat
  BY <1>5 DEF GrowsTo
<1>7. upto \in Nat /\ upto <= Len(l)
  BY <1>1, <1>6 DEF size, min
<1> HIDE DEF upto, reply, u
<1>8. CASE /\ raft' = [raft EXCEPT ![n] = start_timer(down, "election")]
           /\ network' = exchange(m, {}) /\ log' = log
  <2>1. GoodState(log, n, start_timer(down, "election"))
    BY <1>1, <1>4, UpdateGood, TimerGood, Zenon
  <2> HIDE DEF down
  <2> QED BY <1>1, <1>8, <2>1, ReceiveStep, Zenon
<1>9. CASE /\ raft' = [raft EXCEPT ![n] = start_timer(u, "election")]
           /\ log' = [log EXCEPT ![n] = l] /\ network' = exchange(m, {reply})
  <2> DEFINE sent == {reply}
             t == start_timer(u, "election")
  <2>1. ASSUME NEW lg \in Logs, Grown(log, lg), lg[n] = l
        PROVE  GoodState(lg, n, t) /\ GoodMessage(lg, reply)
    <3>1. GoodState(lg, n, s)
      BY <1>1, <1>2, <1>4, <2>1, StateStays, Zenon
    <3>2. s \in State /\ s.commit_index \in Nat \ {0} /\ s.commit_index <= Len(l)
          /\ s.peer_match_index \in Match /\ GoodMatch(lg, s.peer_match_index)
      BY <3>1, <2>1, Zenon DEF GoodState, State
    <3>3. c \in Nat \ {0} /\ c <= Len(lg[n])
      BY <3>2, <1>6, <1>7, <2>1
    <3>4. /\ log[m.from] \in Seq(Entry) /\ lg[m.from] \in Seq(Entry)
          /\ Len(log[m.from]) <= Len(lg[m.from])
      BY <1>1, <1>2, <2>1, Zenon DEF Logs, Grown, Extends
    <3>5. m.commit_index <= Len(lg[m.from])
      BY <1>1, <3>4
    <3>6. f \in Match /\ GoodMatch(lg, f)
      BY <1>1, <3>2, <3>5, SetGood, Zenon
    <3> HIDE DEF c, f
    <3>7. /\ u \in State /\ u.commit_index = c /\ u.peer_match_index = f
          /\ u.in_a_swarm = s.in_a_swarm /\ u.current_state = s.current_state
      BY <1>1, <3>2, <3>3, <3>6, Zenon DEF u, State
    <3>8. GoodState(lg, n, u)
      BY <3>1, <3>3, <3>6, <3>7, Zenon DEF GoodState
    <3>9. match_index(l, m) \in Nat /\ match_index(l, m) <= Len(lg[n])
      BY <1>1, <1>6, <2>1 DEF match_index, size, min
    <3>10. GoodMessage(lg, reply)
      BY <1>1, <3>9, ReplyGood, Zenon DEF reply
    <3> QED BY <3>8, <3>10, TimerGood
  <2>2. DOMAIN network' \subseteq DOMAIN network \cup sent
    BY <1>9, Exchanged, Zenon
  <2> HIDE DEF t
  <2>3. GrownGood(n, t, l, sent)
    BY <2>1, Zenon DEF GrownGood
  <2> HIDE DEF sent
  <2>4. Step(n, t, l, sent)
    BY <1>9, <2>2, Zenon DEF Step, t
  <2> QED BY <1>1, <1>5, <2>3, <2>4, GrowStep, Zenon
<1> QED BY <1>3, <1>8, <1>9

LEMMA Concatenation ==
    ASSUME NEW T, NEW l \in Seq(T), NEW k \in Seq(T)
    PROVE  /\ l \o k \in Seq(T) /\ Len(l \o k) = Len(l) + Len(k)
           /\ \A i \in 1..Len(l) : (l \o k)[i] = l[i]
           /\ \A i \in 1..Len(k) : (l \o k)[Len(l) + i] = k[i]
OBVIOUS

\* The single quorums follow from joint ones that the log has.
LEMMA SinglesGrow ==
    ASSUME Invariant, NEW n \in Peers, NEW k \in Nat, NEW S, S \subseteq 0..(Len(log[n]) - 1),
           NEW order \in [1..k -> S], NEW term \in Nat
    PROVE  GrowsTo(n, log[n] \o singles(log[n], order, k, term))
<1> DEFINE l == log[n]
           added == singles(l, order, k, term)
           r == l \o added
<1>1. log \in Logs /\ l \in Seq(Entry) /\ HasQuorum(l) /\ GoodLog(log, n)
  BY Known, Zenon DEF GoodLog
<1>2. \A i \in 1..k : order[i] + 1 \in 1..Len(l)
  <2> SUFFICES ASSUME NEW i \in 1..k PROVE order[i] + 1 \in 1..Len(l)
    BY Zenon
  <2>1. order[i] \in S
    BY Zenon
  <2>2. order[i] \in 0..(Len(l) - 1)
    BY <2>1, Zenon
  <2> HIDE DEF l
  <2> QED BY <1>1, <2>2
<1>3. \A i \in 1..k : l[order[i] + 1] \in Entry
  BY <1>1, <1>2
<1>4. /\ added \in Seq(Entry) /\ Len(added) = k
      /\ \A i \in 1..k : added[i].entry_type = "single_quorum"
                         /\ added[i].old = l[order[i] + 1].new
  <2> DEFINE e(i) == single_quorum(l[order[i] + 1].new, term)
  <2>1. added = [i \in 1..k |-> e(i)]
    BY Zenon DEF singles, entry_at
  <2>2. \A i \in 1..k : e(i) \in Entry /\ e(i).entry_type = "single_quorum"
                        /\ e(i).old = l[order[i] + 1].new
    BY <1>3, Zenon DEF Entry, single_quorum
  <2> HIDE DEF e, added, l
  <2> QED BY <2>1, <2>2
<1> HIDE DEF added, l
<1>5. /\ r \in Seq(Entry) /\ Len(r) = Len(l) + k
      /\ \A i \in 1..Len(l) : r[i] = l[i]
      /\ \A i \in 1..k : r[Len(l) + i] = added[i]
  <2>0. l \in Seq(Entry) /\ added \in Seq(Entry)
    BY <1>1, <1>4, Zenon
  <2>1. /\ r \in Seq(Entry) /\ Len(r) = Len(l) + Len(added)
        /\ \A i \in 1..Len(l) : r[i] = l[i]
        /\ \A i \in 1..Len(added) : r[Len(l) + i] = added[i]
    BY <2>0, Concatenation
  <2> HIDE DEF r
  <2> QED BY <1>4, <2>1
<1> HIDE DEF r
<1>6. Extends(l, r)
  BY <1>1, <1>5 DEF Extends
<1>7. HasQuorum(r)
  <2>1. CASE k = 0
    BY <2>1, <1>1, <1>5 DEF HasQuorum
  <2>2. CASE k > 0
    <3>1. Len(r) \in 1..Len(r) /\ r[Len(r)] = added[k] /\ k \in 1..k
      BY <2>2, <1>1, <1>5
    <3>2. \A j \in 1..Len(r) : ~(Len(r) < j)
      BY <1>5
    <3> QED BY <3>1, <3>2, <1>4 DEF HasQuorum
  <2> QED BY <2>1, <2>2
<1>8. ASSUME NEW i \in 1..Len(r), Len(l) < i, NEW p \in r[i].old \ {n}
      PROVE  Recorded(log, p)
  <2> DEFINE j == i - Len(l)
  <2>1. j \in 1..k /\ r[i] = added[j]
    BY <1>1, <1>5, <1>8
  <2> HIDE DEF j
  <2>2. p \in l[order[j] + 1].new /\ order[j] + 1 \in DOMAIN l /\ p # n
    BY <1>1, <1>2, <1>4, <1>8, <2>1
  <2> QED BY <2>2 DEF Recorded, l
<1> QED BY <1>5, <1>6, <1>7, <1>8, Zenon DEF GrowsTo, r, l, added

LEMMA IndexType ==
    ASSUME NEW match \in Match, NEW l \in Seq(Entry),
           NEW index \in last_majority_replicated_log_index(match, l)
    PROVE  index \in Nat
<1>1. \A p : at(match, p) \in Nat
  BY MatchType, Zenon DEF at
<1>2. \A S : medians(match, S, l) \subseteq Nat
  BY <1>1 DEF medians, size
<1> QED BY <1>2 DEF last_majority_replicated_log_index, min

LEMMA AppendReplyStep ==
    ASSUME Invariant, NEW n, NEW m, Handled(n, m), m.cmd = "AppendEntriesReply",
           handle_request_append_entries_response(n, m)
    PROVE  Invariant' /\ Grown(log, log')
<1> DEFINE s == raft[n]
           match == [touch(s.peer_match_index, {m.from}) EXCEPT ![m.from] = m.match_index]
           commits_to(upto) ==
               /\ raft' = [raft EXCEPT
                     ![n].peer_match_index = touch(match, get_all_peers(log[n])),
                     ![n].commit_index = IF @ < upto THEN upto ELSE @]
               /\ \E k \in 0..size(log[n]) :
                  \E order \in [1..k -> joints(log[n], s.commit_index, upto)] :
                      log' = [log EXCEPT ![n] = @ \o singles(@, order, k, s.current_term)]
<1>1. n \in Peers /\ m.from \in Peers /\ m.match_index \in Nat /\ m.match_index <= Len(log[m.from])
  BY Zenon DEF Handled, GoodMessage
<1>2. /\ log \in Logs /\ GoodState(log, n, s) /\ s \in State /\ raft \in [Peers -> State]
      /\ GoodLog(log, n) /\ log[n] \in Seq(Entry) /\ Len(log[n]) \in Nat
      /\ s.commit_index \in Nat \ {0} /\ s.commit_index <= Len(log[n]) /\ s.current_term \in Nat
      /\ s.peer_match_index \in Match /\ GoodMatch(log, s.peer_match_index)
  BY <1>1, Known, Zenon DEF GoodState, State
<1>3. match \in Match /\ GoodMatch(log, match)
  BY <1>1, <1>2, SetGood, Zenon
<1>4. network' = exchange(m, {})
  BY Zenon DEF handle_request_append_entries_response
<1>5. CASE raft' = raft /\ log' = log
  <2>1. raft' = [raft EXCEPT ![n] = s]
    BY <1>1, <1>2, <1>5, Zenon
  <2> QED BY <1>1, <1>2, <1>4, <1>5, <2>1, ReceiveStep, Zenon
<1>6. CASE raft' = [raft EXCEPT ![n].peer_match_index = match] /\ log' = log
  <2> DEFINE t == [s EXCEPT !.peer_match_index = match]
  <2>1. raft' = [raft EXCEPT ![n] = t]
    BY <1>1, <1>2, <1>6, Zenon
  <2> HIDE DEF match, s
  <2>2. GoodState(log, n, t)
    BY <1>2, <1>3, MatchGood, Zenon
  <2> HIDE DEF t
  <2> QED BY <1>1, <1>4, <1>6, <2>1, <2>2, ReceiveStep, Zenon
<1>7. ASSUME NEW index \in last_majority_replicated_log_index(match, log[n]), NEW upto,
             upto = IF index <= size(log[n]) THEN index ELSE 0, commits_to(upto)
      PROVE  Invariant' /\ Grown(log, log')
  <2> DEFINE f == touch(match, get_all_peers(log[n]))
             c == IF s.commit_index < upto THEN upto ELSE s.commit_index
             t == [s EXCEPT !.commit_index = c, !.peer_match_index = f]
             S == joints(log[n], s.commit_index, upto)
             sent == {}
  <2>1. index \in Nat
    BY <1>2, <1>3, <1>7, IndexType, Zenon
  <2>2. upto \in Nat /\ upto <= Len(log[n])
    BY <1>2, <1>7, <2>1 DEF size
  <2>3. get_all_peers(log[n]) \subseteq Peers
    BY <1>1, <1>2, QuorumRecorded, Zenon
  <2>4. f \in Match /\ GoodMatch(log, f)
    BY <1>2, <1>3, <2>3, TouchGood, Zenon
  <2>5. raft' = [raft EXCEPT ![n] = t]
    BY <1>1, <1>2, <1>7, Zenon
  <2>6. c \in Nat \ {0} /\ c <= Len(log[n])
    BY <1>2, <2>2
  <2> HIDE DEF f, c, match
  <2>7. GoodState(log, n, t)
    BY <1>2, <2>4, <2>6, IndexGood, Zenon
  <2> HIDE DEF t
  <2>8. S \subseteq 0..(Len(log[n]) - 1)
    BY <1>2, <2>2 DEF joints
  <2>9. PICK k \in 0..size(log[n]) : \E order \in [1..k -> S] :
            log' = [log EXCEPT ![n] = @ \o singles(@, order, k, s.current_term)]
    BY <1>7, Zenon
  <2>10. PICK order \in [1..k -> S] :
             log' = [log EXCEPT ![n] = @ \o singles(@, order, k, s.current_term)]
    BY <2>9, Zenon
  <2> DEFINE l == log[n] \o singles(log[n], order, k, s.current_term)
  <2>11. k \in Nat
    BY <1>2 DEF size
  <2> HIDE DEF S, s
  <2>12. GrowsTo(n, l)
    BY <1>1, <1>2, <2>8, <2>11, SinglesGrow, Zenon
  <2>13. Step(n, t, l, sent)
    BY <1>4, <2>5, <2>10, Received, Zenon DEF Step
  <2> HIDE DEF l
  <2>14. GrownGood(n, t, l, sent)
    BY <1>1, <1>2, <2>7, StateStays, Zenon DEF GrownGood
  <2> HIDE DEF sent
  <2> QED BY <1>1, <2>12, <2>13, <2>14, GrowStep, Zenon
<1> DEFINE some == \E index \in last_majority_replicated_log_index(match, log[n]) :
                       commits_to(IF index <= size(log[n]) THEN index ELSE 0)
           ignored == raft' = raft /\ log' = log
           matched == raft' = [raft EXCEPT ![n].peer_match_index = match] /\ log' = log
<1>8. ignored \/ matched \/ some
  BY Zenon DEF handle_request_append_entries_response
<1>9. ASSUME NEW index \in last_majority_replicated_log_index(match, log[n]),
             commits_to(IF index <= size(log[n]) THEN index ELSE 0)
      PROVE  Invariant' /\ Grown(log, log')
  <2>1. PICK upto : upto = IF index <= size(log[n]) THEN index ELSE 0
    BY Zenon
  <2>2. commits_to(upto)
    BY <1>9, <2>1, Zenon
  <2> HIDE DEF commits_to, match
  <2> QED BY <1>7, <2>1, <2>2, Zenon
<1> HIDE DEF commits_to, match
<1>10. CASE some
  BY <1>9, <1>10, Zenon
<1>11. (ignored => Invariant' /\ Grown(log, log')) /\ (matched => Invariant' /\ Grown(log, log'))
  BY <1>5, <1>6, Zenon
<1> HIDE DEF ignored, matched, some
<1> QED BY <1>8, <1>10, <1>11

-----------------------------------------------------------------------------
(* The theorems *)

LEMMA InvariantInit ==
    Init => Invariant
<1> SUFFICES ASSUME Init PROVE Invariant
  BY Zenon
<1> DEFINE first(n) == single_quorum(InitialPeers \cup {n}, 0)
<1>1. \A n \in Peers : first(n) \in Entry /\ first(n).entry_type = "single_quorum"
                       /\ first(n).new = InitialPeers \cup {n} /\ first(n).old = first(n).new
  BY RaftAssumption, Zenon DEF single_quorum, Entry
<1>2. log = [n \in Peers |-> <<first(n)>>]
  BY Zenon DEF Init, create_dat_file
<1> HIDE DEF first
<1>3. log \in Logs
  BY <1>1, <1>2 DEF Logs
<1>4. \A n \in Peers : Len(log[n]) = 1 /\ DOMAIN log[n] = {1} /\ log[n][1] = first(n)
  BY <1>2
<1>5. ASSUME NEW n \in Peers PROVE GoodLog(log, n)
  <2>1. HasQuorum(log[n])
    BY <1>1, <1>4 DEF HasQuorum
  <2>2. ASSUME NEW p \in first(n).old \ {n} PROVE Recorded(log, p)
    <3>1. n \in Peers \ {p} /\ 1 \in DOMAIN log[n] /\ p \in log[n][1].new
      BY <1>1, <1>4, <2>2, Zenon
    <3> QED BY <3>1 DEF Recorded
  <2> QED BY <1>4, <2>1, <2>2 DEF GoodLog
<1>6. ASSUME NEW n \in Peers PROVE GoodState(log, n, raft[n])
  <2>1. raft[n] = started(n)
    BY Zenon DEF Init
  <2>2. \A p \in Peers : 1 <= Len(log[p])
    BY <1>4
  <2> QED BY <1>3, <2>1, <2>2, StartedGood
<1>7. raft \in [Peers -> State]
  <2>1. \A n \in Peers : raft[n] \in State
    BY <1>6, Zenon DEF GoodState
  <2> QED BY <2>1 DEF Init
<1>8. DOMAIN network = {}
  BY Zenon DEF Init
<1> QED BY <1>3, <1>5, <1>6, <1>7, <1>8 DEF Invariant

LEMMA HandledStep ==
    ASSUME Invariant, NEW n, NEW m, Handled(n, m), handle_ws_raft_messages(n, m)
    PROVE  Invariant' /\ Grown(log, log')
<1>1. CASE m.cmd = "get_peers" /\ handle_get_peers(n, m)
  BY <1>1, GetPeersStep, Zenon
<1>2. CASE m.cmd = "get_peers_response" /\ handle_get_peers_response(n, m)
  <2>1. log' = log
    BY <1>2, Zenon DEF handle_get_peers_response
  <2>2. CASE handle_get_peers_response_from_leader(n, m)
    BY <1>2, <2>1, <2>2, LeaderAnswerStep, Zenon
  <2>3. CASE handle_get_peers_response_from_follower_or_candidate(n, m)
    BY <1>2, <2>1, <2>3, FollowerAnswerStep, Zenon
  <2> QED BY <1>2, <2>2, <2>3 DEF handle_get_peers_response
<1>3. CASE m.cmd = "add_peer" /\ handle_add_peer(n, m)
  BY <1>3, AddSelfStep, Zenon
<1>4. CASE m.cmd = "add_peer_response" /\ handle_add_peer_response(n, m)
  BY <1>4, AddedStep, Zenon
<1>5. CASE network' = exchange(m, {}) /\ raft' = raft /\ log' = log
  <2>1. n \in Peers
    BY Zenon DEF Handled
  <2>2. GoodState(log, n, raft[n]) /\ raft' = [raft EXCEPT ![n] = raft[n]]
    BY <2>1, <1>5, Known, Zenon
  <2> QED BY <1>5, <2>1, <2>2, ReceiveStep, Zenon
<1>6. CASE /\ in_quorum(log[n], m.from)
           /\ \/ m.cmd = "RequestVote" /\ handle_ws_request_vote(n, m)
              \/ m.cmd = "AppendEntries" /\ handle_ws_append_entries(n, m)
              \/ m.cmd = "AppendEntriesReply" /\ handle_request_append_entries_response(n, m)
              \/ m.cmd = "ResponseVote" /\ handle_request_vote_response(n, m)
  BY <1>6, VotesStep, AppendEntriesStep, AppendReplyStep, VoteResponseStep, Zenon
<1>7. CASE /\ m.cmd \notin JoinCommands /\ in_quorum(log[n], m.from)
           /\ handle_later_term(n, m)
  BY <1>7, LaterTermStep, Zenon
<1>8. CASE m.cmd \notin JoinCommands /\ handle_earlier_term(n, m)
  BY <1>8, EarlierTermStep, Zenon
<1> QED BY <1>1, <1>2, <1>3, <1>4, <1>5, <1>6, <1>7, <1>8, Zenon DEF handle_ws_raft_messages

LEMMA InvariantNext ==
    Invariant /\ [Next]_vars => Invariant' /\ Grown(log, log')
<1> SUFFICES ASSUME Invariant, [Next]_vars PROVE Invariant' /\ Grown(log, log')
  BY Zenon
<1>1. ASSUME NEW m \in DOMAIN network, handle_ws_raft_messages(m.dest, m)
      PROVE  Invariant' /\ Grown(log, log')
  <2>1. Handled(m.dest, m)
    BY Zenon DEF Invariant, Handled, GoodMessage
  <2> QED BY <1>1, <2>1, HandledStep
<1>2. ASSUME NEW m \in DOMAIN network, lost(m)
      PROVE  Invariant' /\ Grown(log, log')
  BY <1>2, LostStep, Zenon
<1>3. ASSUME NEW n \in Peers, NEW v \in Values, append_log(n, v)
      PROVE  Invariant' /\ Grown(log, log')
  BY <1>3, AppendLogStep, Zenon
<1>4. ASSUME NEW n \in Peers, NEW p \in AddedPeers, handle_client_add_peer(n, p)
      PROVE  Invariant' /\ Grown(log, log')
  BY <1>4, ClientAddStep, Zenon
<1>5. ASSUME NEW n \in Peers, NEW p \in RemovedPeers, handle_remove_peer(n, p)
      PROVE  Invariant' /\ Grown(log, log')
  BY <1>5, RemovePeerStep, Zenon
<1>6. ASSUME NEW n \in Peers,
             \/ overtaken(n) \/ handle_election_timeout(n)
             \/ handle_election_timeout_cancelled(n) \/ handle_heartbeat_timeout(n)
             \/ restart(n)
      PROVE  Invariant' /\ Grown(log, log')
  BY <1>6, OvertakenStep, ElectionStep, CancelledStep, HeartbeatStep, RestartStep, Zenon
<1>7. ASSUME UNCHANGED vars PROVE Invariant' /\ Grown(log, log')
  <2>1. raft' = raft /\ log' = log /\ network' = network
    BY <1>7, Zenon DEF vars
  <2>2. Invariant'
    BY <2>1, Zenon DEF Invariant
  <2>3. \A n \in Peers : log[n] \in Seq(Entry)
    BY Known, Zenon
  <2> QED BY <2>1, <2>2, <2>3 DEF Grown, Extends
<1> QED BY <1>1, <1>2, <1>3, <1>4, <1>5, <1>6, <1>7 DEF Next

LEMMA InvariantHolds ==
    Spec => []Invariant
<1>1. Invariant /\ [Next]_vars => Invariant'
  BY InvariantNext, Zenon
<1> QED BY <1>1, InvariantInit, PTL DEF Spec

\* handle_ws_append_entries never asks entry_accepted about an entry beyond the end of
\* the log, and no match or commit index lies beyond the log it is about: for any
\* peers and terms, with quorums that change, restarts and late timer callbacks.
THEOREM NeverReadsBeyondLog ==
    Spec => []NoReadBeyondLog
<1>1. Invariant => NoReadBeyondLog
  BY Zenon DEF Invariant, GoodState, GoodMatch, GoodMessage, GoodAppend, NoReadBeyondLog, size
<1> QED BY <1>1, InvariantHolds, PTL

\* The branch of follower_insert_entry that takes entries back is never reached with
\* something to take back: no step of any peer shortens or changes a log.
THEOREM LogsAlwaysGrow ==
    Spec => LogsOnlyGrow
<1>1. Invariant /\ Invariant' /\ Grown(log, log') =>
          \A n \in Peers : /\ size(log[n]) <= size(log'[n])
                           /\ log[n] = SubSeq(log'[n], 1, size(log[n]))
  <2> SUFFICES ASSUME Invariant, Invariant', Grown(log, log'), NEW n \in Peers
               PROVE  /\ size(log[n]) <= size(log'[n])
                      /\ log[n] = SubSeq(log'[n], 1, size(log[n]))
    BY Zenon
  <2>1. log[n] \in Seq(Entry) /\ log'[n] \in Seq(Entry)
    BY Zenon DEF Invariant, Logs
  <2>2. PICK l, k : l = log[n] /\ k = log'[n]
    BY Zenon
  <2>3. l \in Seq(Entry) /\ k \in Seq(Entry) /\ Extends(l, k)
    BY <2>1, <2>2, Zenon DEF Grown
  <2>4. Len(l) <= Len(k) /\ l = SubSeq(k, 1, Len(l))
    BY <2>3 DEF Extends
  <2> QED BY <2>2, <2>4 DEF size
<1>2. Invariant /\ [Next]_vars => Grown(log, log')
  BY InvariantNext, Zenon
<1> QED BY <1>1, <1>2, InvariantHolds, PTL DEF Spec, LogsOnlyGrow

\* A peer whose auto_add_peer_if_required has stopped asking, whatever answers it got,
\* late, lost or out of order, is named by a quorum in the log of another peer.
THEOREM JoinedAlwaysRecorded ==
    Spec => []JoinedIsRecorded
<1>1. Invariant => JoinedIsRecorded
  BY Zenon DEF Invariant, GoodState, Recorded, JoinedIsRecorded
<1> QED BY <1>1, InvariantHolds, PTL

-----------------------------------------------------------------------------
(***************************************************************************)
(* The first term: what is invariant as long as nobody has been a          *)
(* candidate of a second term and no process has restarted, and that       *)
(* timers, clients, joining and votes keep it.  RaftFirstTermProofs shows  *)
(* the same of replication.                                                *)
(*                                                                         *)
(* A peer votes once, and two majorities of the bootstrap list share a     *)
(* voter, so there is one leader, and logs and commits follow its log.     *)
(* That quorums change does not matter to the election: whoever has an     *)
(* entry besides the first has got it from a leader of the term already,   *)
(* and only the timer of a later term makes it a candidate.                *)
(***************************************************************************)

First == highest_term <= 1 /\ restarts = 0

\* True of any finite set; it is all that is needed of cardinalities here.
MajoritiesMeet ==
    \A S, T \in SUBSET InitialPeers :
        /\ 2 * Cardinality(S) > Cardinality(InitialPeers)
        /\ 2 * Cardinality(T) > Cardinality(InitialPeers)
        => S \cap T # {}

Leads(n) == raft[n].current_state = "leader"

Beats(s) == s.timer = "heartbeat" \/ "heartbeat" \in s.late

\* Has got the votes of a majority of the bootstrap list, and does not count itself
\* among the peers that match.
Elected(n, s) ==
    /\ n \in InitialPeers
    /\ 2 * Cardinality(InitialPeers \cap s.yes_votes) > Cardinality(InitialPeers)
    /\ at(s.peer_match_index, n) <= 1

\* Of peer n with state s and log l.  Until it is in the term, and as long as it is a
\* candidate, its log is the one it was created with.
Begun(n, s, l) ==
    /\ s.current_term <= 1
    /\ l[1] = single_quorum(InitialPeers \cup {n}, 0)
    /\ s.current_term = 0 => /\ s.current_state = "follower"
                             /\ Len(l) = 1
                             /\ s.yes_votes = {}
    /\ s.current_state = "candidate" => Len(l) = 1
    /\ s.current_state = "leader" => Elected(n, s)
    /\ Beats(s) => s.current_state = "leader"

\* v has voted for c: the vote is under way, or counted.
Grants(m, v, c) ==
    m.cmd = "ResponseVote" /\ m.granted /\ m.from = v /\ m.dest = c

Voted(v, c) ==
    v \in raft[c].yes_votes \/ \E m \in DOMAIN network : Grants(m, v, c)

HasVoted(s) == s.voted_for /\ s.current_term = 1

\* Of message m, whose sender has state s and log l.  An entry under way is that of
\* its leader's log; only peers of the bootstrap list get votes.
Timely(s, l, m) ==
    /\ m.cmd \notin JoinCommands => m.term = 1 /\ s.current_term = 1 /\ m.from # m.dest
    /\ m.cmd = "RequestVote" => m.last_log_index = 1
    /\ m.cmd = "ResponseVote" /\ m.granted => m.dest \in InitialPeers
    /\ m.cmd = "AppendEntries" =>
           /\ s.current_state = "leader"
           /\ m.entry # NoEntry => m.prev_index + 2 <= Len(l) /\ l[m.prev_index + 2] = m.entry

\* But for the first entry, which names n itself, the log of n begins that of p.
Follows(n, p) ==
    /\ Len(log[n]) <= Len(log[p])
    /\ \A i \in 2..Len(log[n]) : log[n][i] = log[p][i]

\* c has been committed from the log of p.
From(c, p) == c[2] \in 1..(Len(log[p]) - 1) /\ c[3] = log[p][c[2] + 1]

OnceVoted ==
    /\ \A v, c \in Peers : Voted(v, c) => HasVoted(raft[v])
    /\ \A v, c, d \in Peers : Voted(v, c) /\ Voted(v, d) => c = d

FirstTerm ==
    /\ \A n \in Peers : Begun(n, raft[n], log[n]) /\ raft[n].current_term <= highest_term
    /\ \A m \in DOMAIN network : Timely(raft[m.from], log[m.from], m)
    /\ OnceVoted
    /\ \A n \in Peers : Len(log[n]) > 1 => \E p \in Peers : Leads(p) /\ Follows(n, p)
    /\ \A c \in committed : \E p \in Peers : Leads(p) /\ From(c, p)

FirstTermInvariant ==
    /\ highest_term \in Nat /\ restarts \in Nat
    /\ First => FirstTerm

-----------------------------------------------------------------------------
(* One leader *)

LEMMA OneLeader ==
    ASSUME MajoritiesMeet, FirstTerm, NEW n \in Peers, NEW p \in Peers, Leads(n), Leads(p)
    PROVE  n = p
<1> DEFINE S == InitialPeers \cap raft[n].yes_votes
           T == InitialPeers \cap raft[p].yes_votes
<1>1. /\ 2 * Cardinality(S) > Cardinality(InitialPeers)
      /\ 2 * Cardinality(T) > Cardinality(InitialPeers)
  BY Zenon DEF FirstTerm, Begun, Elected, Leads
<1>2. S \in SUBSET InitialPeers /\ T \in SUBSET InitialPeers
  BY Zenon
<1> HIDE DEF S, T
<1>3. S \cap T # {}
  BY <1>1, <1>2, Zenon DEF MajoritiesMeet
<1>4. PICK v \in InitialPeers : v \in raft[n].yes_votes /\ v \in raft[p].yes_votes
  BY <1>3, Zenon DEF S, T
<1>5. v \in Peers /\ Voted(v, n) /\ Voted(v, p)
  BY <1>4, RaftAssumption, Zenon DEF Voted
<1> QED BY <1>5, Zenon DEF FirstTerm, OnceVoted

-----------------------------------------------------------------------------
(* Steps *)

\* A message stays timely: its sender leads if it led, and its log only grows.
LEMMA TimelyStays ==
    ASSUME NEW s, NEW t, NEW l \in Seq(Entry), NEW k \in Seq(Entry), NEW m,
           Timely(s, l, m), s.current_state = "leader" => t.current_state = "leader",
           s.current_term = 1 => t.current_term = 1,
           Extends(l, k), m.cmd = "AppendEntries" => m.prev_index \in Nat
    PROVE  Timely(t, k, m)
<1>1. ASSUME m.cmd = "AppendEntries", m.entry # NoEntry
      PROVE  m.prev_index + 2 <= Len(k) /\ k[m.prev_index + 2] = m.entry
  BY <1>1 DEF Timely, Extends
<1> QED BY <1>1, Zenon DEF Timely

\* The votes of a step: those that n has got, if any, and at most one that it gives.
Keeps(n, t, sent) ==
    /\ HasVoted(raft[n]) => HasVoted(t)
    /\ \A v \in t.yes_votes : Voted(v, n)
    /\ \A m \in sent : ~(m.cmd = "ResponseVote" /\ m.granted)

Votes(n, t, sent, c) ==
    /\ ~HasVoted(raft[n]) /\ HasVoted(t)
    /\ \A v \in t.yes_votes : Voted(v, n) \/ (v = n /\ c = n)
    /\ \A m \in sent : m.cmd = "ResponseVote" /\ m.granted => m.from = n /\ m.dest = c

LEMMA KeepsStep ==
    ASSUME Invariant, FirstTerm, NEW n \in Peers, NEW t, NEW l, NEW sent,
           Step(n, t, l, sent), Keeps(n, t, sent)
    PROVE  OnceVoted'
<1>1. raft \in [Peers -> State] /\ OnceVoted
  BY Zenon DEF Invariant, FirstTerm
<1>2. raft' = [raft EXCEPT ![n] = t] /\ DOMAIN network' \subseteq DOMAIN network \cup sent
  BY Zenon DEF Step
<1>3. raft'[n] = t /\ \A p \in Peers : p # n => raft'[p] = raft[p]
  BY <1>1, <1>2, Zenon
<1>4. ASSUME NEW v \in Peers, NEW c \in Peers, Voted(v, c)' PROVE Voted(v, c)
  <2>1. CASE v \in raft'[c].yes_votes
    BY <2>1, <1>3, Zenon DEF Keeps, Voted
  <2>2. CASE \E m \in DOMAIN network' : Grants(m, v, c)
    BY <2>2, <1>2, Zenon DEF Keeps, Voted, Grants
  <2> QED BY <1>4, <2>1, <2>2, Zenon DEF Voted, Grants
<1>5. \A v \in Peers : HasVoted(raft[v]) => HasVoted(raft'[v])
  BY <1>3, Zenon DEF Keeps
<1>6. ASSUME NEW v \in Peers, NEW c \in Peers, Voted(v, c)' PROVE HasVoted(raft'[v])
  BY <1>1, <1>4, <1>5, <1>6, Zenon DEF OnceVoted
<1>7. ASSUME NEW v \in Peers, NEW c \in Peers, NEW d \in Peers, Voted(v, c)', Voted(v, d)'
      PROVE  c = d
  BY <1>1, <1>4, <1>7, Zenon DEF OnceVoted
<1> QED BY <1>6, <1>7, Zenon DEF OnceVoted, HasVoted

\* n has not voted for anybody when it does.
LEMMA VoteStep ==
    ASSUME Invariant, FirstTerm, NEW n \in Peers, NEW t, NEW l, NEW sent, NEW c \in Peers,
           Step(n, t, l, sent), Votes(n, t, sent, c)
    PROVE  OnceVoted'
<1>1. raft \in [Peers -> State] /\ OnceVoted
  BY Zenon DEF Invariant, FirstTerm
<1>2. raft' = [raft EXCEPT ![n] = t] /\ DOMAIN network' \subseteq DOMAIN network \cup sent
  BY Zenon DEF Step
<1>3. raft'[n] = t /\ \A p \in Peers : p # n => raft'[p] = raft[p]
  BY <1>1, <1>2, Zenon
<1>4. ASSUME NEW v \in Peers, NEW d \in Peers, Voted(v, d)'
      PROVE  Voted(v, d) \/ (v = n /\ d = c)
  <2>1. CASE v \in raft'[d].yes_votes
    BY <2>1, <1>3, Zenon DEF Votes, Voted
  <2>2. CASE \E m \in DOMAIN network' : Grants(m, v, d)
    BY <2>2, <1>2, Zenon DEF Votes, Voted, Grants
  <2> QED BY <1>4, <2>1, <2>2, Zenon DEF Voted, Grants
<1>5. \A d \in Peers : ~Voted(n, d)
  BY <1>1, Zenon DEF OnceVoted, Votes
<1>6. ASSUME NEW v \in Peers, NEW d \in Peers, Voted(v, d)' PROVE HasVoted(raft'[v])
  BY <1>1, <1>3, <1>4, <1>6, Zenon DEF OnceVoted, Votes
<1>7. ASSUME NEW v \in Peers, NEW d \in Peers, NEW e \in Peers, Voted(v, d)', Voted(v, e)'
      PROVE  d = e
  <2>1. CASE v = n
    <3>1. d = c /\ e = c
      BY <2>1, <1>4, <1>5, <1>7, Zenon
    <3> QED BY <3>1, Zenon
  <2>2. CASE v # n
    <3>1. Voted(v, d) /\ Voted(v, e)
      BY <2>2, <1>4, <1>7, Zenon
    <3> QED BY <3>1, <1>1, Zenon DEF OnceVoted
  <2> QED BY <2>1, <2>2, Zenon
<1> QED BY <1>6, <1>7, Zenon DEF OnceVoted, HasVoted

\* The log of a step: a leader's grows as it likes, that of another peer with an entry
\* of the leader's.
Grows(n, l) ==
    \/ l = log[n]
    \/ Leads(n)
    \/ \E p \in Peers : /\ Leads(p) /\ Len(l) = Len(log[n]) + 1
                        /\ Len(l) <= Len(log[p]) /\ l[Len(l)] = log[p][Len(l)]

\* What has to be shown of a step that commits the entries in new.
Orderly(n, t, l, sent, new) ==
    /\ Begun(n, t, l) /\ t.current_term <= highest_term'
    /\ Leads(n) => t.current_state = "leader"
    /\ raft[n].current_term = 1 => t.current_term = 1
    /\ Keeps(n, t, sent) \/ \E c \in Peers : Votes(n, t, sent, c)
    /\ \A m \in sent : m.from = n /\ Timely(t, l, m)
    /\ Grows(n, l)
    /\ \A c \in new : c[2] \in 1..(Len(l) - 1) /\ c[3] = l[c[2] + 1]

LEMMA OrderlyStep ==
    ASSUME MajoritiesMeet, Invariant, Invariant', Grown(log, log'), FirstTerm, NEW n \in Peers,
           NEW t, NEW l, NEW sent, NEW new, Step(n, t, l, sent),
           committed' = committed \cup new, highest_term \in Nat, highest_term' \in Nat,
           highest_term <= highest_term', Orderly(n, t, l, sent, new)
    PROVE  FirstTerm'
<1>1. /\ raft \in [Peers -> State] /\ log \in Logs /\ log' \in Logs
      /\ raft' = [raft EXCEPT ![n] = t] /\ log' = [log EXCEPT ![n] = l]
      /\ DOMAIN network' \subseteq DOMAIN network \cup sent
  BY Zenon DEF Invariant, Step
<1>2. PICK rf, lg : rf = raft' /\ lg = log'
  BY Zenon
<1>3. /\ rf[n] = t /\ \A p \in Peers : p # n => rf[p] = raft[p]
      /\ lg[n] = l /\ \A p \in Peers : p # n => lg[p] = log[p]
  BY <1>1, <1>2, Zenon DEF Logs
<1>4. \A p \in Peers : /\ log[p] \in Seq(Entry) /\ lg[p] \in Seq(Entry)
                       /\ Extends(log[p], lg[p])
  BY <1>1, <1>2, Zenon DEF Logs, Grown
<1>5. \A p \in Peers :
          /\ raft[p].current_state = "leader" => rf[p].current_state = "leader"
          /\ raft[p].current_term = 1 => rf[p].current_term = 1
  BY <1>3, Zenon DEF Orderly, Leads
<1>6. \A p \in Peers : Begun(p, rf[p], lg[p])
  BY <1>3, Zenon DEF Orderly, FirstTerm
<1>7. \A p \in Peers : rf[p].current_term <= highest_term'
  <2> SUFFICES ASSUME NEW p \in Peers, p # n PROVE rf[p].current_term <= highest_term'
    BY <1>3, Zenon DEF Orderly
  <2>1. raft[p].current_term \in Nat
    BY <1>1, Zenon DEF State
  <2>2. raft[p].current_term <= highest_term /\ rf[p] = raft[p]
    BY <1>3, Zenon DEF FirstTerm
  <2> QED BY <2>1, <2>2
<1>8. \A m \in DOMAIN network' : Timely(rf[m.from], lg[m.from], m)
  <2> SUFFICES ASSUME NEW m \in DOMAIN network PROVE Timely(rf[m.from], lg[m.from], m)
    BY <1>1, <1>3, Zenon DEF Orderly
  <2>1. /\ m.from \in Peers /\ Timely(raft[m.from], log[m.from], m)
        /\ m.cmd = "AppendEntries" => m.prev_index \in Nat
    BY Zenon DEF Invariant, GoodMessage, GoodAppend, FirstTerm
  <2>2. PICK s, u, k, h : s = raft[m.from] /\ u = rf[m.from] /\ k = log[m.from] /\ h = lg[m.from]
    BY Zenon
  <2>3. k \in Seq(Entry) /\ h \in Seq(Entry) /\ Extends(k, h)
    BY <2>1, <2>2, <1>4, Zenon
  <2>4. /\ Timely(s, k, m)
        /\ s.current_state = "leader" => u.current_state = "leader"
        /\ s.current_term = 1 => u.current_term = 1
    BY <2>1, <2>2, <1>5, Zenon
  <2>5. Timely(u, h, m)
    BY <2>1, <2>3, <2>4, TimelyStays, Zenon
  <2> QED BY <2>2, <2>5, Zenon
<1>9. OnceVoted'
  BY KeepsStep, VoteStep, Zenon DEF Orderly
<1> DEFINE Leading(p) == rf[p].current_state = "leader"
           Following(q, p) == /\ Len(lg[q]) <= Len(lg[p])
                              /\ \A i \in 2..Len(lg[q]) : lg[q][i] = lg[p][i]
<1>10. ASSUME NEW q \in Peers, NEW p \in Peers, Follows(q, p), lg[q] = log[q]
       PROVE  Following(q, p)
  <2>1. PICK k, h, g : k = log[q] /\ h = log[p] /\ g = lg[p]
    BY Zenon
  <2>2. k \in Seq(Entry) /\ h \in Seq(Entry) /\ g \in Seq(Entry) /\ Extends(h, g)
        /\ Len(k) <= Len(h) /\ \A i \in 2..Len(k) : k[i] = h[i]
    BY <2>1, <1>4, <1>10, Zenon DEF Follows
  <2>3. Len(k) <= Len(g) /\ \A i \in 2..Len(k) : k[i] = g[i]
    BY <2>2 DEF Extends
  <2> QED BY <2>1, <2>3, <1>10, Zenon
<1>11. ASSUME NEW q \in Peers, Len(lg[q]) > 1
       PROVE  \E p \in Peers : Leading(p) /\ Following(q, p)
  <2>1. CASE lg[q] = log[q]
    <3>1. PICK p \in Peers : Leads(p) /\ Follows(q, p)
      BY <2>1, <1>11, Zenon DEF FirstTerm
    <3> QED BY <3>1, <2>1, <1>5, <1>10, Zenon DEF Leads
  <2>2. CASE lg[q] # log[q] /\ Leads(n)
    <3>1. q = n /\ Leading(q)
      BY <2>2, <1>3, <1>5, Zenon DEF Leads
    <3>2. Following(q, q)
      BY <1>4
    <3> QED BY <3>1, <3>2, Zenon
  <2>3. CASE lg[q] # log[q] /\ ~Leads(n)
    <3>1. q = n /\ l # log[n]
      BY <2>3, <1>3, Zenon
    <3>2. PICK p \in Peers : /\ Leads(p) /\ Len(l) = Len(log[n]) + 1
                             /\ Len(l) <= Len(log[p]) /\ l[Len(l)] = log[p][Len(l)]
      BY <2>3, <3>1, Zenon DEF Orderly, Grows
    <3>3. p # n /\ lg[p] = log[p] /\ Leading(p)
      BY <2>3, <3>2, <1>3, <1>5, Zenon DEF Leads
    <3>4. \A i \in 2..Len(log[n]) : log[n][i] = log[p][i]
      <4>1. CASE Len(log[n]) > 1
        <5>1. PICK r \in Peers : Leads(r) /\ Follows(n, r)
          BY <4>1, Zenon DEF FirstTerm
        <5>2. r = p
          BY <5>1, <3>2, OneLeader, Zenon
        <5> QED BY <5>1, <5>2, Zenon DEF Follows
      <4>2. CASE ~(Len(log[n]) > 1)
        BY <4>2, <1>4
      <4> QED BY <4>1, <4>2, Zenon
    <3>5. PICK k, h : k = log[n] /\ h = log[p]
      BY Zenon
    <3>6. /\ k \in Seq(Entry) /\ h \in Seq(Entry) /\ l \in Seq(Entry) /\ Extends(k, l)
          /\ Len(l) = Len(k) + 1 /\ Len(l) <= Len(h) /\ l[Len(l)] = h[Len(l)]
          /\ \A i \in 2..Len(k) : k[i] = h[i]
      BY <1>3, <1>4, <3>2, <3>4, <3>5, Zenon
    <3>7. Len(l) <= Len(h) /\ \A i \in 2..Len(l) : l[i] = h[i]
      BY <3>6 DEF Extends
    <3>8. Following(n, p)
      BY <1>3, <3>3, <3>5, <3>7, Zenon
    <3> QED BY <3>1, <3>3, <3>8, Zenon
  <2> QED BY <2>1, <2>2, <2>3, Zenon
<1> DEFINE Source(c, p) == c[2] \in 1..(Len(lg[p]) - 1) /\ c[3] = lg[p][c[2] + 1]
<1>12. ASSUME NEW c \in committed' PROVE \E p \in Peers : Leading(p) /\ Source(c, p)
  <2>1. CASE c \in committed
    <3>1. PICK p \in Peers : Leads(p) /\ From(c, p)
      BY <2>1, Zenon DEF FirstTerm
    <3>2. PICK k, h : k = log[p] /\ h = lg[p]
      BY Zenon
    <3>3. k \in Seq(Entry) /\ h \in Seq(Entry) /\ Extends(k, h)
          /\ c[2] \in 1..(Len(k) - 1) /\ c[3] = k[c[2] + 1]
      BY <3>1, <3>2, <1>4, Zenon DEF From
    <3>4. c[2] \in 1..(Len(h) - 1) /\ c[3] = h[c[2] + 1]
      <4>1. PICK i : i = c[2]
        BY Zenon
      <4>2. Len(k) \in Nat /\ Len(h) \in Nat /\ Len(k) <= Len(h) /\ i \in 1..(Len(k) - 1)
        BY <4>1, <3>3 DEF Extends
      <4>3. i + 1 \in 1..Len(k) /\ i \in 1..(Len(h) - 1)
        BY <4>2
      <4>4. h[i + 1] = k[i + 1]
        BY <4>3, <3>3, Zenon DEF Extends
      <4> QED BY <4>1, <4>3, <4>4, <3>3, Zenon
    <3> QED BY <3>1, <3>2, <3>4, <1>5, Zenon DEF Leads
  <2>2. CASE c \in new
    <3>1. c[2] \in 1..(Len(l) - 1) /\ c[3] = l[c[2] + 1]
      BY <2>2, Zenon DEF Orderly
    <3>2. l \in Seq(Entry)
      BY <1>3, <1>4, Zenon
    <3>3. PICK p \in Peers : Leading(p) /\ Following(n, p)
      <4>1. Len(lg[n]) > 1
        BY <3>1, <3>2, <1>3
      <4> HIDE DEF Leading, Following
      <4> QED BY <4>1, <1>11, Zenon
    <3>4. PICK h : h = lg[p] /\ h \in Seq(Entry) /\ Len(l) <= Len(h)
                   /\ \A i \in 2..Len(l) : l[i] = h[i]
      BY <3>3, <1>3, <1>4, Zenon
    <3>5. c[2] \in 1..(Len(h) - 1) /\ c[3] = h[c[2] + 1]
      <4>1. PICK i : i = c[2]
        BY Zenon
      <4>2. Len(l) \in Nat /\ Len(h) \in Nat /\ Len(l) <= Len(h) /\ i \in 1..(Len(l) - 1)
        BY <4>1, <3>1, <3>2, <3>4
      <4>3. i + 1 \in 2..Len(l) /\ i \in 1..(Len(h) - 1)
        BY <4>2
      <4>4. h[i + 1] = l[i + 1]
        BY <4>3, <3>4, Zenon
      <4> QED BY <4>1, <4>3, <4>4, <3>1, Zenon
    <3> QED BY <3>3, <3>4, <3>5, Zenon
  <2> QED BY <2>1, <2>2, Zenon
<1>13. \A p \in Peers : Begun(p, raft'[p], log'[p]) /\ raft'[p].current_term <= highest_term'
  BY <1>2, <1>6, <1>7, Zenon
<1>14. \A m \in DOMAIN network' : Timely(raft'[m.from], log'[m.from], m)
  BY <1>2, <1>8, Zenon
<1>15. \A q \in Peers : Len(log'[q]) > 1 => \E p \in Peers : Leads(p)' /\ Follows(q, p)'
  BY <1>2, <1>11, Zenon DEF Leads, Follows
<1>16. \A c \in committed' : \E p \in Peers : Leads(p)' /\ From(c, p)'
  BY <1>2, <1>12, Zenon DEF Leads, From
<1> QED BY <1>9, <1>13, <1>14, <1>15, <1>16, Zenon DEF FirstTerm, Begun, Beats, Elected, Timely

\* Where every action starts from, and what it may use of its outcome.
Stage ==
    /\ MajoritiesMeet /\ Invariant /\ Invariant' /\ Grown(log, log')
    /\ highest_term \in Nat /\ highest_term' \in Nat /\ highest_term <= highest_term'
    /\ FirstTerm /\ First'

\* What is known of one peer.
LEMMA Standing ==
    ASSUME Stage, NEW n \in Peers
    PROVE  /\ raft \in [Peers -> State] /\ raft[n] \in State /\ raft[n].current_term \in {0, 1}
           /\ log \in Logs /\ log[n] \in Seq(Entry) /\ Len(log[n]) \in Nat /\ 1 <= Len(log[n])
           /\ Begun(n, raft[n], log[n]) /\ raft[n].current_term <= highest_term
           /\ raft[n].current_state = "leader" => raft[n].current_term = 1
<1>1. /\ raft \in [Peers -> State] /\ raft[n] \in State
      /\ log \in Logs /\ log[n] \in Seq(Entry) /\ Len(log[n]) \in Nat /\ 1 <= Len(log[n])
  BY Known, Zenon DEF Stage
<1>2. Begun(n, raft[n], log[n]) /\ raft[n].current_term <= highest_term
  BY Zenon DEF Stage, FirstTerm
<1>3. raft[n].current_term \in Nat
  BY <1>1, Zenon DEF State
<1>4. raft[n].current_term \in {0, 1}
  BY <1>2, <1>3 DEF Begun
<1>5. raft[n].current_state = "leader" => raft[n].current_term = 1
  BY <1>2, <1>4 DEF Begun
<1> QED BY <1>1, <1>2, <1>4, <1>5, Zenon

\* A step that elects nobody and votes for nobody.
Alike(n, s, t) ==
    /\ t.current_state = s.current_state /\ t.current_term = s.current_term
    /\ t.voted_for = s.voted_for /\ t.yes_votes = s.yes_votes
    /\ Beats(t) => s.current_state = "leader"
    /\ s.current_state = "leader" => at(t.peer_match_index, n) <= 1

Plain(n, t, l, m) ==
    m.from = n /\ Timely(t, l, m) /\ ~(m.cmd = "ResponseVote" /\ m.granted)

LEMMA AlikeStep ==
    ASSUME Stage, NEW n \in Peers, NEW t, NEW l, NEW sent, NEW new, Step(n, t, l, sent),
           committed' = committed \cup new, Alike(n, raft[n], t),
           \/ l = log[n]
           \/ Grows(n, l) /\ raft[n].current_term = 1 /\ raft[n].current_state # "candidate",
           \A m \in sent : Plain(n, t, l, m),
           \A c \in new : c[2] \in 1..(Len(l) - 1) /\ c[3] = l[c[2] + 1]
    PROVE  FirstTerm'
<1>1. /\ log \in Logs /\ log[n] \in Seq(Entry) /\ Len(log[n]) \in Nat /\ 1 <= Len(log[n])
      /\ Begun(n, raft[n], log[n]) /\ raft[n].current_term <= highest_term
      /\ raft[n].current_term \in Nat
  BY Standing, Zenon DEF State
<1>2. l \in Seq(Entry) /\ Extends(log[n], l)
  <2>1. log'[n] = l /\ log' \in Logs /\ Grown(log, log')
    BY <1>1, Zenon DEF Stage, Step, Invariant, Logs
  <2> QED BY <2>1, Zenon DEF Logs, Grown
<1>3. l[1] = log[n][1]
  BY <1>1, <1>2 DEF Extends
<1>4. Elected(n, raft[n]) /\ raft[n].current_state = "leader" => Elected(n, t)
  BY Zenon DEF Alike, Elected
<1>5. Begun(n, t, l)
  <2>1. CASE l = log[n]
    BY <2>1, <1>1, <1>4, Zenon DEF Begun, Alike
  <2>2. CASE raft[n].current_term = 1 /\ raft[n].current_state # "candidate"
    <3>1. t.current_term # 0 /\ t.current_state # "candidate" /\ t.current_term <= 1
      BY <2>2 DEF Alike
    <3> QED BY <3>1, <1>1, <1>3, <1>4, Zenon DEF Begun, Alike
  <2> QED BY <2>1, <2>2, Zenon
<1>6. t.current_term <= highest_term'
  <2>1. t.current_term = raft[n].current_term
    BY Zenon DEF Alike
  <2>2. highest_term \in Nat /\ highest_term' \in Nat /\ highest_term <= highest_term'
    BY Zenon DEF Stage
  <2> QED BY <2>1, <2>2, <1>1
<1>7. Keeps(n, t, sent)
  <2>1. HasVoted(raft[n]) => HasVoted(t)
    BY Zenon DEF Alike, HasVoted
  <2>2. \A v \in t.yes_votes : Voted(v, n)
    BY Zenon DEF Alike, Voted
  <2> QED BY <2>1, <2>2, Zenon DEF Keeps, Plain
<1>8. Orderly(n, t, l, sent, new)
  <2>1. Grows(n, l)
    BY Zenon DEF Grows
  <2>2. (Leads(n) => t.current_state = "leader") /\ (raft[n].current_term = 1 => t.current_term = 1)
    BY Zenon DEF Alike, Leads
  <2>3. \A m \in sent : m.from = n /\ Timely(t, l, m)
    BY Zenon DEF Plain
  <2> QED BY <1>5, <1>6, <1>7, <2>1, <2>2, <2>3, Zenon DEF Orderly
<1> QED BY <1>8, OrderlyStep, Zenon DEF Stage

\* One that leaves the logs alone, besides.
LEMMA AlikeQuiet ==
    ASSUME Stage, NEW n \in Peers, NEW t, NEW sent,
           raft' = [raft EXCEPT ![n] = t], log' = log, committed' = committed,
           DOMAIN network' \subseteq DOMAIN network \cup sent,
           Alike(n, raft[n], t), \A m \in sent : Plain(n, t, log[n], m)
    PROVE  FirstTerm'
<1> DEFINE new == {}
           l == log[n]
<1>1. /\ committed' = committed \cup new
      /\ \A c \in new : c[2] \in 1..(Len(l) - 1) /\ c[3] = l[c[2] + 1]
  BY Zenon
<1>2. [log EXCEPT ![n] = l] = log
  BY Standing, Zenon DEF Logs
<1>3. Step(n, t, l, sent)
  BY <1>2, Zenon DEF Step
<1>4. l = log[n] /\ \A m \in sent : Plain(n, t, l, m)
  BY Zenon
<1> HIDE DEF new, l
<1> QED BY <1>1, <1>3, <1>4, AlikeStep, Zenon

LEMMA AlikeSilent ==
    ASSUME Stage, NEW n \in Peers, NEW t,
           raft' = [raft EXCEPT ![n] = t], log' = log, committed' = committed,
           DOMAIN network' \subseteq DOMAIN network, Alike(n, raft[n], t)
    PROVE  FirstTerm'
<1> DEFINE sent == {}
<1>1. DOMAIN network' \subseteq DOMAIN network \cup sent /\ \A m \in sent : Plain(n, t, log[n], m)
  BY Zenon
<1> HIDE DEF sent
<1> QED BY <1>1, AlikeQuiet, Zenon

\* Messages about joining are not about terms.
LEMMA JoinPlain ==
    ASSUME NEW n, NEW t, NEW l, NEW m, m.from = n, m.cmd \in JoinCommands
    PROVE  Plain(n, t, l, m)
BY DEF Plain, Timely, JoinCommands

-----------------------------------------------------------------------------
(* States *)

LEMMA SameAlike ==
    ASSUME Stage, NEW n \in Peers
    PROVE  Alike(n, raft[n], raft[n])
<1>1. Begun(n, raft[n], log[n])
  BY Standing, Zenon
<1> QED BY <1>1, Zenon DEF Begun, Elected, Alike

\* The timers may change, and whatever else has no part in an election.
Unmoved(n, s, t) ==
    /\ t.current_state = s.current_state /\ t.current_term = s.current_term
    /\ t.voted_for = s.voted_for /\ t.yes_votes = s.yes_votes
    /\ at(t.peer_match_index, n) = at(s.peer_match_index, n)

LEMMA UnmovedAlike ==
    ASSUME Stage, NEW n \in Peers, NEW t, Unmoved(n, raft[n], t),
           Beats(t) => Beats(raft[n]) \/ raft[n].current_state = "leader"
    PROVE  Alike(n, raft[n], t)
<1>1. Begun(n, raft[n], log[n])
  BY Standing, Zenon
<1> QED BY <1>1, Zenon DEF Begun, Elected, Alike, Unmoved

LEMMA UnmovedTwice ==
    ASSUME NEW n, NEW s, NEW t, NEW u, Unmoved(n, s, t), Unmoved(n, t, u)
    PROVE  Unmoved(n, s, u)
BY Zenon DEF Unmoved

LEMMA TimerFields ==
    ASSUME NEW n, NEW s \in State, NEW kind, NEW t, t = start_timer(s, kind)
    PROVE  Unmoved(n, s, t) /\ (Beats(t) => kind = "heartbeat" \/ Beats(s))
<1> DEFINE late == IF s.timer = "election" /\ ~s.in_a_swarm /\ s.asks
                   THEN s.late \cup {"cancelled"} ELSE s.late
<1>1. t = [s EXCEPT !.timer = kind, !.late = late]
  BY Zenon DEF start_timer
<1>2. "heartbeat" \in late => "heartbeat" \in s.late
  BY Zenon
<1> HIDE DEF late
<1>3. /\ t.current_state = s.current_state /\ t.current_term = s.current_term
      /\ t.voted_for = s.voted_for /\ t.yes_votes = s.yes_votes
      /\ t.peer_match_index = s.peer_match_index /\ t.timer = kind /\ t.late = late
  BY <1>1, Zenon DEF State
<1> QED BY <1>2, <1>3, Zenon DEF Unmoved, Beats

LEMMA RunOutFields ==
    ASSUME Invariant, NEW n \in Peers, NEW kind, NEW s \in run_out(n, kind)
    PROVE  /\ s \in State /\ Unmoved(n, raft[n], s)
           /\ Beats(s) => Beats(raft[n])
           /\ kind = "heartbeat" => Beats(raft[n])
<1> DEFINE o == raft[n]
<1>1. o \in State /\ s \in State
  BY Known, RunOutGood, Zenon DEF GoodState
<1>2. \/ s = [o EXCEPT !.timer = "none"] /\ o.timer = kind
      \/ s = [o EXCEPT !.late = @ \ {kind}] /\ kind \in o.late
  BY Zenon DEF run_out
<1> HIDE DEF o
<1>3. CASE s = [o EXCEPT !.timer = "none"] /\ o.timer = kind
  <2>1. /\ s.current_state = o.current_state /\ s.current_term = o.current_term
        /\ s.voted_for = o.voted_for /\ s.yes_votes = o.yes_votes
        /\ s.peer_match_index = o.peer_match_index /\ s.timer = "none" /\ s.late = o.late
    BY <1>1, <1>3, Zenon DEF State
  <2> QED BY <1>1, <1>3, <2>1 DEF Unmoved, Beats, o
<1>4. CASE s = [o EXCEPT !.late = @ \ {kind}] /\ kind \in o.late
  <2>1. /\ s.current_state = o.current_state /\ s.current_term = o.current_term
        /\ s.voted_for = o.voted_for /\ s.yes_votes = o.yes_votes
        /\ s.peer_match_index = o.peer_match_index /\ s.timer = o.timer
        /\ s.late = o.late \ {kind}
    BY <1>1, <1>4, Zenon DEF State
  <2> QED BY <1>1, <1>4, <2>1, Zenon DEF Unmoved, Beats, o
<1> QED BY <1>2, <1>3, <1>4, Zenon

-----------------------------------------------------------------------------
(* Timers *)

LEMMA OvertakenFirst ==
    ASSUME Stage, NEW n \in Peers, overtaken(n)
    PROVE  FirstTerm'
<1> DEFINE o == raft[n]
           t == [o EXCEPT !.timer = "none", !.late = @ \cup {o.timer}]
<1>1. o \in State /\ raft \in [Peers -> State]
  BY Standing, Zenon
<1>2. /\ raft' = [raft EXCEPT ![n] = t] /\ log' = log /\ network' = network
      /\ committed' = committed
  BY <1>1, Zenon DEF overtaken
<1>3. /\ t.current_state = o.current_state /\ t.current_term = o.current_term
      /\ t.voted_for = o.voted_for /\ t.yes_votes = o.yes_votes
      /\ t.peer_match_index = o.peer_match_index
      /\ t.timer = "none" /\ t.late = o.late \cup {o.timer}
  BY <1>1, Zenon DEF State
<1>4. Unmoved(n, o, t) /\ (Beats(t) => Beats(o))
  BY <1>3 DEF Beats, Unmoved
<1> HIDE DEF t
<1>5. Alike(n, raft[n], t)
  BY <1>4, UnmovedAlike, Zenon
<1>6. DOMAIN network' \subseteq DOMAIN network
  BY <1>2, Zenon
<1> QED BY <1>2, <1>5, <1>6, AlikeSilent, Zenon

\* A get_peers of n, whoever it goes to.
LEMMA AskPlain ==
    ASSUME NEW n, NEW s, NEW t, NEW l, NEW m \in get_peers(n, s, l)
    PROVE  Plain(n, t, l, m)
<1>1. PICK p : m = [cmd |-> "get_peers", from |-> n, dest |-> p]
  BY Zenon DEF get_peers
<1>2. m.cmd = "get_peers" /\ m.from = n
  BY <1>1, Zenon
<1> QED BY <1>2, JoinPlain, Zenon DEF JoinCommands

LEMMA AutoAddPlain ==
    ASSUME NEW n, NEW s, NEW t, NEW l, NEW ask \in auto_add_peer_if_required(n, s, l)
    PROVE  \A m \in ask : Plain(n, t, l, m)
<1>1. \A m \in get_peers(n, s, l) : Plain(n, t, l, m)
  BY AskPlain, Zenon
<1> QED BY <1>1 DEF auto_add_peer_if_required

LEMMA CancelledFirst ==
    ASSUME Stage, NEW n \in Peers, handle_election_timeout_cancelled(n)
    PROVE  FirstTerm'
<1>1. PICK s \in run_out(n, "cancelled") : \E ask \in auto_add_peer_if_required(n, s, log[n]) :
          /\ raft' = [raft EXCEPT ![n] = s]
          /\ network' = send(network, ask)
  BY Zenon DEF handle_election_timeout_cancelled
<1>2. PICK ask \in auto_add_peer_if_required(n, s, log[n]) :
          /\ raft' = [raft EXCEPT ![n] = s]
          /\ network' = send(network, ask)
  BY <1>1, Zenon
<1>3. Alike(n, raft[n], s)
  <2>1. Unmoved(n, raft[n], s) /\ (Beats(s) => Beats(raft[n]))
    BY RunOutFields, Zenon DEF Stage
  <2> QED BY <2>1, UnmovedAlike, Zenon
<1>4. \A m \in ask : Plain(n, s, log[n], m)
  BY AutoAddPlain, Zenon
<1>5. DOMAIN network' \subseteq DOMAIN network \cup ask
  BY <1>2, Posted, Zenon
<1>6. log' = log /\ committed' = committed
  BY Zenon DEF handle_election_timeout_cancelled
<1> QED BY <1>2, <1>3, <1>4, <1>5, <1>6, AlikeQuiet, Zenon

\* The entries that a leader sends are those of its log.
LEMMA AppendsPlain ==
    ASSUME Invariant, NEW n \in Peers, NEW s \in State,
           s.current_state = "leader", s.current_term = 1,
           NEW t, t.current_state = "leader", t.current_term = 1,
           NEW m \in append_entries(n, s, log[n])
    PROVE  Plain(n, t, log[n], m)
<1> DEFINE l == log[n]
           match == s.peer_match_index
           next(p) == min(at(match, p), size(l))
           entry(p) == IF next(p) < size(l) THEN entry_at(l, next(p)) ELSE NoEntry
<1>1. PICK p \in {q \in get_all_peers(l) \ {n} : at(match, q) > 0} :
          m = [cmd |-> "AppendEntries", from |-> n, dest |-> p, term |-> s.current_term,
               prev_index |-> next(p) - 1, prev_term |-> entry_at(l, next(p) - 1).term,
               entry |-> entry(p), commit_index |-> s.commit_index]
  BY Zenon DEF append_entries
<1>2. l \in Seq(Entry) /\ Len(l) \in Nat /\ 1 <= Len(l) /\ match \in Match
  BY Known, Zenon DEF State
<1>3. at(match, p) \in Nat /\ at(match, p) > 0 /\ p # n
  BY <1>1, <1>2, MatchType DEF at
<1>4. next(p) \in Nat /\ 1 <= next(p) /\ next(p) <= Len(l)
  BY <1>2, <1>3 DEF min, size
<1> DEFINE k == next(p)
           e == entry(p)
<1>5. /\ m.cmd = "AppendEntries" /\ m.from = n /\ m.dest = p /\ m.term = 1
      /\ m.prev_index = k - 1 /\ m.entry = e
  BY <1>1, Zenon
<1>6. k \in Nat /\ k <= Len(l) /\ e = IF k < Len(l) THEN l[k + 1] ELSE NoEntry
  BY <1>4, Zenon DEF entry_at, size
<1> HIDE DEF k, e, l, next, entry, match
<1>7. ASSUME m.entry # NoEntry
      PROVE  m.prev_index + 2 <= Len(l) /\ l[m.prev_index + 2] = m.entry
  <2>1. k < Len(l) /\ m.prev_index + 2 = k + 1 /\ m.entry = l[k + 1]
    BY <1>2, <1>5, <1>6, <1>7
  <2>2. k + 1 <= Len(l)
    BY <2>1, <1>2, <1>6
  <2> QED BY <2>1, <2>2
<1>8. Timely(t, l, m)
  BY <1>3, <1>5, <1>7 DEF Timely, JoinCommands
<1> QED BY <1>5, <1>8 DEF Plain, l

\* What request_append_entries leaves of a leader.
LEMMA RequestFields ==
    ASSUME NEW n, NEW s \in State, NEW l, NEW t, t = request_append_entries(n, s, l)
    PROVE  Unmoved(n, s, t)
<1> DEFINE f == touch(s.peer_match_index, get_all_peers(l) \ {n})
           u == [s EXCEPT !.peer_match_index = f]
           late == IF u.timer = "election" /\ ~u.in_a_swarm /\ u.asks
                   THEN u.late \cup {"cancelled"} ELSE u.late
<1>1. at(f, n) = at(s.peer_match_index, n)
  BY Zenon DEF at, touch
<1>2. t = [u EXCEPT !.timer = "heartbeat", !.late = late]
  BY Zenon DEF request_append_entries, start_heartbeat_timer, start_timer
<1> HIDE DEF late, f
<1>3. /\ u.current_state = s.current_state /\ u.current_term = s.current_term
      /\ u.voted_for = s.voted_for /\ u.yes_votes = s.yes_votes
      /\ u.peer_match_index = f
  BY Zenon DEF State
<1>4. /\ t.current_state = u.current_state /\ t.current_term = u.current_term
      /\ t.voted_for = u.voted_for /\ t.yes_votes = u.yes_votes
      /\ t.peer_match_index = u.peer_match_index
  BY <1>2, Zenon DEF State
<1> HIDE DEF u
<1> QED BY <1>1, <1>3, <1>4, Zenon DEF Unmoved

\* Only a leader has a heartbeat timer.
LEMMA HeartbeatFirst ==
    ASSUME Stage, NEW n \in Peers, handle_heartbeat_timeout(n)
    PROVE  FirstTerm'
<1>1. PICK s \in run_out(n, "heartbeat") :
          /\ raft' = [raft EXCEPT ![n] = request_append_entries(n, s, log[n])]
          /\ network' = send(network, append_entries(n, s, log[n]))
  BY Zenon DEF handle_heartbeat_timeout
<1>2. PICK t : t = request_append_entries(n, s, log[n])
  BY Zenon
<1>3. Invariant /\ Begun(n, raft[n], log[n])
      /\ (raft[n].current_state = "leader" => raft[n].current_term = 1)
  BY Standing, Zenon DEF Stage
<1>4. s \in State /\ Beats(raft[n]) /\ Unmoved(n, raft[n], s)
  BY <1>3, RunOutFields, Zenon
<1>5. raft[n].current_state = "leader" /\ raft[n].current_term = 1
  BY <1>3, <1>4, Zenon DEF Begun
<1>6. Unmoved(n, s, t)
  BY <1>2, <1>4, RequestFields, Zenon
<1>7. Alike(n, raft[n], t)
  BY <1>4, <1>5, <1>6, UnmovedTwice, UnmovedAlike, Zenon
<1>8. \A m \in append_entries(n, s, log[n]) : Plain(n, t, log[n], m)
  <2>1. /\ s.current_state = "leader" /\ s.current_term = 1
        /\ t.current_state = "leader" /\ t.current_term = 1
    BY <1>4, <1>5, <1>6, Zenon DEF Unmoved
  <2> QED BY <2>1, <1>3, <1>4, AppendsPlain, Zenon
<1>9. DOMAIN network' \subseteq DOMAIN network \cup append_entries(n, s, log[n])
  BY <1>1, Posted, Zenon
<1>10. log' = log /\ committed' = committed /\ raft' = [raft EXCEPT ![n] = t]
  BY <1>1, <1>2, Zenon DEF handle_heartbeat_timeout
<1> QED BY <1>7, <1>8, <1>9, <1>10, AlikeQuiet, Zenon

-----------------------------------------------------------------------------
(* Joining, and messages that are lost or ignored *)

LEMMA ReplyFirst ==
    ASSUME Stage, NEW n \in Peers, NEW t, NEW m, NEW reply,
           raft' = [raft EXCEPT ![n] = t], log' = log, committed' = committed,
           network' = exchange(m, {reply}), Alike(n, raft[n], t),
           Plain(n, t, log[n], reply)
    PROVE  FirstTerm'
<1> DEFINE sent == {reply}
<1>1. /\ DOMAIN network' \subseteq DOMAIN network \cup sent
      /\ \A x \in sent : Plain(n, t, log[n], x)
  BY Exchanged, Zenon
<1> HIDE DEF sent
<1> QED BY <1>1, AlikeQuiet, Zenon

LEMMA ReceiveFirst ==
    ASSUME Stage, NEW n \in Peers, NEW t, NEW m,
           raft' = [raft EXCEPT ![n] = t], log' = log, committed' = committed,
           network' = exchange(m, {}), Alike(n, raft[n], t)
    PROVE  FirstTerm'
BY Received, AlikeSilent, Zenon

LEMMA IgnoredFirst ==
    ASSUME Stage, NEW n \in Peers, NEW m, network' = exchange(m, {}),
           raft' = raft, log' = log, committed' = committed
    PROVE  FirstTerm'
<1>1. Alike(n, raft[n], raft[n]) /\ raft' = [raft EXCEPT ![n] = raft[n]]
  BY SameAlike, Standing, Zenon
<1> QED BY <1>1, ReceiveFirst, Zenon

LEMMA LostFirst ==
    ASSUME Stage, NEW m \in DOMAIN network, lost(m)
    PROVE  FirstTerm'
<1>1. m.dest \in Peers
  BY Zenon DEF Stage, Invariant, GoodMessage
<1> QED BY <1>1, IgnoredFirst, Zenon DEF lost

LEMMA GetPeersFirst ==
    ASSUME Stage, NEW n, NEW m, Handled(n, m), handle_get_peers(n, m)
    PROVE  FirstTerm'
<1> DEFINE state == raft[n].current_state
           reply(leader, peers) ==
               [cmd |-> "get_peers_response", from |-> n, dest |-> m.from,
                state |-> state, leader |-> leader, peers |-> peers]
<1>1. n \in Peers
  BY Zenon DEF Handled
<1>2. raft[n] \in State /\ raft \in [Peers -> State]
  BY <1>1, Standing, Zenon
<1>3. PICK leader, peers : network' = exchange(m, {reply(leader, peers)})
  <2>1. state \in {"follower", "candidate", "leader"}
    BY <1>2, Zenon DEF State
  <2>2. CASE state = "candidate"
    BY <2>2, Zenon DEF handle_get_peers
  <2>3. CASE state = "follower"
    BY <2>3, Zenon DEF handle_get_peers
  <2>4. CASE state = "leader"
    BY <2>4, Zenon DEF handle_get_peers
  <2> QED BY <2>1, <2>2, <2>3, <2>4, Zenon
<1> DEFINE answer == reply(leader, peers)
<1>4. answer.cmd = "get_peers_response" /\ answer.from = n
  BY Zenon
<1> HIDE DEF reply, answer
<1>5. Plain(n, raft[n], log[n], answer)
  BY <1>4, JoinPlain, Zenon DEF JoinCommands
<1>6. raft' = [raft EXCEPT ![n] = raft[n]] /\ log' = log /\ committed' = committed
  BY <1>1, <1>2, Zenon DEF handle_get_peers
<1>7. network' = exchange(m, {answer})
  BY <1>3, Zenon DEF answer
<1>8. Alike(n, raft[n], raft[n])
  BY <1>1, SameAlike, Zenon
<1> QED BY <1>1, <1>5, <1>6, <1>7, <1>8, ReplyFirst, Zenon

\* A peer changes its mind about the leader, or about being in a swarm.
LEMMA MindAlike ==
    ASSUME Stage, NEW n \in Peers, NEW b, NEW leader,
           NEW t, t = [raft[n] EXCEPT !.in_a_swarm = b, !.leader = leader]
    PROVE  Alike(n, raft[n], t)
<1> DEFINE o == raft[n]
<1>1. o \in State
  BY Standing, Zenon
<1>2. /\ t.current_state = o.current_state /\ t.current_term = o.current_term
      /\ t.voted_for = o.voted_for /\ t.yes_votes = o.yes_votes
      /\ t.peer_match_index = o.peer_match_index /\ t.timer = o.timer /\ t.late = o.late
  BY <1>1, Zenon DEF State
<1>3. Unmoved(n, o, t) /\ (Beats(t) => Beats(o))
  BY <1>2, Zenon DEF Unmoved, Beats
<1> QED BY <1>3, UnmovedAlike, Zenon

LEMMA FollowerAnswerFirst ==
    ASSUME Stage, NEW n, NEW m, Handled(n, m), log' = log, committed' = committed,
           handle_get_peers_response_from_follower_or_candidate(n, m)
    PROVE  FirstTerm'
<1>1. n \in Peers
  BY Zenon DEF Handled
<1>2. PICK s : /\ s = [raft[n] EXCEPT !.in_a_swarm = FALSE,
                           !.leader = IF m.state = "follower" THEN m.leader ELSE raft[n].leader]
               /\ raft' = [raft EXCEPT ![n] = s]
               /\ \/ network' = exchange(m, {})
                  \/ \E ask \in get_peers(n, s, log[n]) : network' = exchange(m, {ask})
  BY Zenon DEF handle_get_peers_response_from_follower_or_candidate
<1>3. Alike(n, raft[n], s)
  <2>1. PICK leader : leader = IF m.state = "follower" THEN m.leader ELSE raft[n].leader
    BY Zenon
  <2>2. s = [raft[n] EXCEPT !.in_a_swarm = FALSE, !.leader = leader]
    BY <1>2, <2>1, Zenon
  <2> QED BY <1>1, <2>2, MindAlike, Zenon
<1>4. CASE network' = exchange(m, {})
  BY <1>1, <1>2, <1>3, <1>4, ReceiveFirst, Zenon
<1>5. CASE \E ask \in get_peers(n, s, log[n]) : network' = exchange(m, {ask})
  <2>1. PICK ask \in get_peers(n, s, log[n]) : network' = exchange(m, {ask})
    BY <1>5, Zenon
  <2>2. Plain(n, s, log[n], ask)
    BY AskPlain, Zenon
  <2> QED BY <1>1, <1>2, <1>3, <2>1, <2>2, ReplyFirst, Zenon
<1> QED BY <1>2, <1>4, <1>5, Zenon

LEMMA LeaderAnswerFirst ==
    ASSUME Stage, NEW n, NEW m, Handled(n, m), log' = log, committed' = committed,
           handle_get_peers_response_from_leader(n, m)
    PROVE  FirstTerm'
<1> DEFINE b == raft[n].in_a_swarm \/ n \in m.peers
           t == [raft[n] EXCEPT !.in_a_swarm = b, !.leader = m.from]
<1>1. n \in Peers
  BY Zenon DEF Handled
<1>2. raft[n] \in State /\ raft \in [Peers -> State]
  BY <1>1, Standing, Zenon
<1>3. raft' = [raft EXCEPT ![n] = t]
      /\ \/ network' = exchange(m, {})
         \/ \E ask \in add_self_to_swarm(n, m.from) : network' = exchange(m, {ask})
  BY <1>1, <1>2, Zenon DEF handle_get_peers_response_from_leader
<1>4. Alike(n, raft[n], t)
  BY <1>1, MindAlike, Zenon
<1> HIDE DEF t
<1>5. CASE network' = exchange(m, {})
  BY <1>1, <1>3, <1>4, <1>5, ReceiveFirst, Zenon
<1>6. CASE \E ask \in add_self_to_swarm(n, m.from) : network' = exchange(m, {ask})
  <2>1. PICK ask \in add_self_to_swarm(n, m.from) : network' = exchange(m, {ask})
    BY <1>6, Zenon
  <2>2. ask = [cmd |-> "add_peer", from |-> n, dest |-> m.from]
    BY Zenon DEF add_self_to_swarm
  <2>3. ask.cmd = "add_peer" /\ ask.from = n
    BY <2>2, Zenon
  <2>4. Plain(n, t, log[n], ask)
    BY <2>3, JoinPlain, Zenon DEF JoinCommands
  <2> QED BY <1>1, <1>3, <1>4, <2>1, <2>4, ReplyFirst, Zenon
<1> QED BY <1>3, <1>5, <1>6, Zenon

LEMMA AddedFirst ==
    ASSUME Stage, NEW n, NEW m, Handled(n, m), handle_add_peer_response(n, m)
    PROVE  FirstTerm'
<1> DEFINE o == raft[n]
           t == [o EXCEPT !.in_a_swarm = TRUE]
<1>1. n \in Peers
  BY Zenon DEF Handled
<1>2. o \in State /\ raft \in [Peers -> State]
  BY <1>1, Standing, Zenon
<1>3. /\ raft' = [raft EXCEPT ![n] = t] /\ log' = log /\ committed' = committed
      /\ network' = exchange(m, {})
  BY <1>1, <1>2, Zenon DEF handle_add_peer_response
<1>4. t = [o EXCEPT !.in_a_swarm = TRUE, !.leader = o.leader]
  BY <1>2 DEF State
<1>5. Alike(n, raft[n], t)
  BY <1>1, <1>4, MindAlike, Zenon
<1> HIDE DEF t
<1> QED BY <1>1, <1>3, <1>5, ReceiveFirst, Zenon

-----------------------------------------------------------------------------
(* What leaders append *)

\* A leader appends to its own log.
LEMMA LeaderAppends ==
    ASSUME Stage, NEW n \in Peers, NEW t, NEW l, NEW sent, Step(n, t, l, sent),
           committed' = committed, Leads(n), Alike(n, raft[n], t),
           \A m \in sent : m.from = n /\ m.cmd \in JoinCommands
    PROVE  FirstTerm'
<1> DEFINE new == {}
<1>1. committed' = committed \cup new
      /\ \A c \in new : c[2] \in 1..(Len(l) - 1) /\ c[3] = l[c[2] + 1]
  BY Zenon
<1>2. Grows(n, l) /\ raft[n].current_term = 1 /\ raft[n].current_state # "candidate"
  BY Standing, Zenon DEF Grows, Leads
<1>3. \A m \in sent : Plain(n, t, l, m)
  BY JoinPlain, Zenon
<1> HIDE DEF new
<1> QED BY <1>1, <1>2, <1>3, AlikeStep, Zenon

LEMMA ClientAppends ==
    ASSUME Stage, NEW n \in Peers, NEW e, Leads(n), committed' = committed,
           raft' = raft, network' = network,
           log' = [log EXCEPT ![n] = leader_append_entry(@, e)]
    PROVE  FirstTerm'
<1> DEFINE sent == {}
           l == leader_append_entry(log[n], e)
<1>1. Alike(n, raft[n], raft[n]) /\ raft' = [raft EXCEPT ![n] = raft[n]]
  BY SameAlike, Standing, Zenon
<1>2. Step(n, raft[n], l, sent) /\ \A m \in sent : m.from = n /\ m.cmd \in JoinCommands
  BY <1>1, Zenon DEF Step
<1> HIDE DEF sent, l
<1> QED BY <1>1, <1>2, LeaderAppends, Zenon

LEMMA AddPeerFirst ==
    ASSUME Stage, NEW n \in Peers, NEW p \in Peers, add_peer(n, p), NEW sent, Leads(n),
           DOMAIN network' \subseteq DOMAIN network \cup sent, committed' = committed,
           \A m \in sent : m.from = n /\ m.cmd \in JoinCommands
    PROVE  FirstTerm'
<1> DEFINE o == raft[n]
           last == last_quorum_entry(log[n])
           l == leader_append_entry(log[n],
                    joint_quorum(last.new, last.new \cup {p}, o.current_term))
           f == [touch(o.peer_match_index, {p}) EXCEPT ![p] = 1]
           t == [o EXCEPT !.peer_match_index = f]
<1>1. o \in State /\ raft \in [Peers -> State] /\ Elected(n, o)
  BY Standing, Zenon DEF Begun, Leads
<1>2. raft' = [raft EXCEPT ![n] = t] /\ log' = [log EXCEPT ![n] = l]
  BY <1>1, Zenon DEF add_peer
<1>3. at(f, n) <= 1
  <2>1. at(o.peer_match_index, n) <= 1
    BY <1>1, Zenon DEF Elected
  <2>2. CASE p = n
    BY <2>2 DEF at, touch
  <2>3. CASE p # n
    BY <2>1, <2>3 DEF at, touch
  <2> QED BY <2>2, <2>3, Zenon
<1> HIDE DEF f
<1>4. /\ t.current_state = o.current_state /\ t.current_term = o.current_term
      /\ t.voted_for = o.voted_for /\ t.yes_votes = o.yes_votes
      /\ t.peer_match_index = f /\ t.timer = o.timer /\ t.late = o.late
  BY <1>1, Zenon DEF State
<1>5. Alike(n, raft[n], t)
  BY <1>3, <1>4, Zenon DEF Alike, Leads
<1> HIDE DEF t, l
<1>6. Step(n, t, l, sent)
  BY <1>2, Zenon DEF Step
<1> QED BY <1>5, <1>6, LeaderAppends, Zenon

LEMMA AddSelfFirst ==
    ASSUME Stage, NEW n, NEW m, Handled(n, m), handle_add_peer(n, m)
    PROVE  FirstTerm'
<1> DEFINE reply == [cmd |-> "add_peer_response", from |-> n, dest |-> m.from]
           sent == {reply}
<1>1. n \in Peers /\ m.from \in Peers /\ committed' = committed
  BY Zenon DEF Handled, GoodMessage, handle_add_peer
<1>2. CASE network' = exchange(m, {}) /\ raft' = raft /\ log' = log
  BY <1>1, <1>2, IgnoredFirst, Zenon
<1>3. CASE /\ may_add_peer(n, m.from) /\ add_peer(n, m.from)
           /\ network' = exchange(m, {reply})
  <2>1. Leads(n)
    BY <1>3, Zenon DEF may_add_peer, Leads
  <2>2. reply.from = n /\ reply.cmd \in JoinCommands
    BY Zenon DEF JoinCommands
  <2> HIDE DEF reply
  <2>3. DOMAIN network' \subseteq DOMAIN network \cup sent
    BY <1>3, Exchanged, Zenon
  <2>4. \A x \in sent : x.from = n /\ x.cmd \in JoinCommands
    BY <2>2, Zenon
  <2> HIDE DEF sent
  <2> QED BY <1>1, <1>3, <2>1, <2>3, <2>4, AddPeerFirst, Zenon
<1> QED BY <1>2, <1>3, Zenon DEF handle_add_peer

LEMMA ClientAddFirst ==
    ASSUME Stage, NEW n \in Peers, NEW p \in AddedPeers, handle_client_add_peer(n, p)
    PROVE  FirstTerm'
<1> DEFINE sent == {}
<1>1. p \in Peers /\ add_peer(n, p) /\ Leads(n) /\ committed' = committed
  BY RaftAssumption, Zenon DEF handle_client_add_peer, leads, Leads
<1>2. /\ DOMAIN network' \subseteq DOMAIN network \cup sent
      /\ \A m \in sent : m.from = n /\ m.cmd \in JoinCommands
  BY Zenon DEF handle_client_add_peer
<1> HIDE DEF sent
<1> QED BY <1>1, <1>2, AddPeerFirst, Zenon

LEMMA ClientFirst ==
    ASSUME Stage, NEW n \in Peers, NEW v, append_log(n, v) \/ handle_remove_peer(n, v)
    PROVE  FirstTerm'
<1>1. Leads(n) /\ committed' = committed /\ raft' = raft /\ network' = network
  BY Zenon DEF append_log, handle_remove_peer, leads, Leads
<1>2. PICK e : log' = [log EXCEPT ![n] = leader_append_entry(@, e)]
  BY Zenon DEF append_log, handle_remove_peer
<1> QED BY <1>1, <1>2, ClientAppends, Zenon

-----------------------------------------------------------------------------
(* Elections *)

\* A step in which a peer changes its term, its state or its votes; logs stay as they
\* are.
LEMMA TurnFirst ==
    ASSUME Stage, NEW n \in Peers, NEW t, NEW sent,
           raft' = [raft EXCEPT ![n] = t], log' = log, committed' = committed,
           DOMAIN network' \subseteq DOMAIN network \cup sent,
           Begun(n, t, log[n]), t.current_term = 1, 1 <= highest_term',
           Leads(n) => t.current_state = "leader",
           Keeps(n, t, sent) \/ \E c \in Peers : Votes(n, t, sent, c),
           \A m \in sent : m.from = n /\ Timely(t, log[n], m)
    PROVE  FirstTerm'
<1> DEFINE new == {}
           l == log[n]
<1>1. committed' = committed \cup new
      /\ \A c \in new : c[2] \in 1..(Len(l) - 1) /\ c[3] = l[c[2] + 1]
  BY Zenon
<1>2. [log EXCEPT ![n] = l] = log
  BY Standing, Zenon DEF Logs
<1>3. Step(n, t, l, sent)
  BY <1>2, Zenon DEF Step
<1>4. /\ l = log[n] /\ Grows(n, l) /\ t.current_term <= highest_term'
      /\ \A m \in sent : m.from = n /\ Timely(t, l, m)
  BY Zenon DEF Grows
<1> HIDE DEF new, l
<1>5. Orderly(n, t, l, sent, new)
  BY <1>1, <1>4, Zenon DEF Orderly
<1> QED BY <1>1, <1>3, <1>5, OrderlyStep, Zenon DEF Stage

\* The quorum of a log that is as it was created.
LEMMA FirstQuorum ==
    ASSUME NEW l \in Seq(Entry), Len(l) = 1, NEW S, l[1] = single_quorum(S, 0)
    PROVE  get_active_quorum(l) = {S} /\ get_all_peers(l) = S
<1>1. l[1].entry_type = "single_quorum" /\ l[1].old = S /\ l[1].new = S
  BY DEF single_quorum
<1> DEFINE quorums == {i \in 0..(size(l) - 1) : entry_at(l, i).entry_type # "database"}
           last == CHOOSE i \in quorums : \A j \in quorums : j <= i
<1>2. quorums = {0}
  BY <1>1 DEF size, entry_at
<1>3. last_quorum_entry(l) = entry_at(l, last)
  BY Zenon DEF last_quorum_entry
<1> HIDE DEF quorums
<1>4. last = 0
  BY <1>2
<1> HIDE DEF last
<1>5. last_quorum_entry(l) = l[1]
  BY <1>3, <1>4 DEF entry_at
<1>6. get_active_quorum(l) = {S}
  BY <1>1, <1>5, Zenon DEF get_active_quorum
<1> QED BY <1>6, Zenon DEF get_all_peers

\* As long as nobody has been a candidate of a second term, the callback finds its
\* peer in no term.
LEMMA ElectionFirst ==
    ASSUME Stage, NEW n \in Peers, handle_election_timeout(n)
    PROVE  FirstTerm'
<1> DEFINE o == raft[n]
           requests == {[cmd |-> "RequestVote", from |-> n, dest |-> p,
                         term |-> o.current_term + 1, last_log_index |-> size(log[n])]
                            : p \in get_all_peers(log[n]) \ {n}}
<1>1. PICK s \in run_out(n, "election") : \E ask \in auto_add_peer_if_required(n, s, log[n]) :
          /\ raft' = [raft EXCEPT ![n] = request_vote_request(n, s)]
          /\ network' = send(network, ask \cup requests)
  BY Zenon DEF handle_election_timeout
<1>2. PICK ask \in auto_add_peer_if_required(n, s, log[n]) :
          /\ raft' = [raft EXCEPT ![n] = request_vote_request(n, s)]
          /\ network' = send(network, ask \cup requests)
  BY <1>1, Zenon
<1>3. /\ o \in State /\ o.current_term \in {0, 1} /\ o.current_term <= highest_term
      /\ Begun(n, o, log[n])
  BY Standing, Zenon
<1>4. o.current_term = 0 /\ 1 <= highest_term'
  <2>1. highest_term \in Nat /\ highest_term' \in Nat /\ highest_term' <= 1
    BY Zenon DEF Stage, First
  <2>2. highest_term' = IF o.current_term = highest_term THEN highest_term + 1 ELSE highest_term
    BY Zenon DEF handle_election_timeout
  <2> QED BY <2>1, <2>2, <1>3
<1>5. /\ o.current_state = "follower" /\ Len(log[n]) = 1 /\ ~Beats(o)
      /\ log[n][1] = single_quorum(InitialPeers \cup {n}, 0)
  BY <1>3, <1>4 DEF Begun
<1>6. s \in State /\ Unmoved(n, o, s) /\ (Beats(s) => Beats(o))
  BY RunOutFields, Zenon DEF Stage
<1> DEFINE u == update_raft_state(s, s.current_term + 1, "candidate")
           w == [u EXCEPT !.voted_for = TRUE, !.yes_votes = {n}, !.no_votes = {},
                          !.leader = Nobody]
           t == start_timer(w, "election")
<1>7. s.current_term = 0
  BY <1>4, <1>6, Zenon DEF Unmoved
<1>8. u \in State /\ u.current_state = "candidate" /\ u.current_term = 1
      /\ u.timer = s.timer /\ u.late = s.late
  <2>1. PICK k : k = s.current_term + 1 /\ k = 1
    BY <1>7
  <2>2. u = [s EXCEPT !.current_state = "candidate", !.current_term = k]
    BY <2>1, Zenon DEF update_raft_state
  <2>3. k \in Nat
    BY <2>1
  <2> HIDE DEF u
  <2> QED BY <1>6, <2>1, <2>2, <2>3, Zenon DEF State
<1>9. t = request_vote_request(n, s)
  BY Zenon DEF request_vote_request, start_election_timer
<1> HIDE DEF u
<1>10. /\ w \in State /\ w.current_state = "candidate" /\ w.current_term = 1
       /\ w.voted_for = TRUE /\ w.yes_votes = {n} /\ w.timer = s.timer /\ w.late = s.late
  BY <1>8, Zenon DEF State
<1> HIDE DEF w
<1>11. Unmoved(n, w, t) /\ (Beats(t) => Beats(w))
  BY <1>10, TimerFields
<1> HIDE DEF t
<1>12. /\ t.current_state = "candidate" /\ t.current_term = 1
       /\ t.voted_for = TRUE /\ t.yes_votes = {n} /\ ~Beats(t)
  BY <1>5, <1>6, <1>10, <1>11, Zenon DEF Unmoved, Beats
<1>13. Begun(n, t, log[n])
  BY <1>5, <1>12 DEF Begun
<1>14. \A m \in ask : Plain(n, t, log[n], m)
  BY AutoAddPlain, Zenon
<1>15. \A m \in requests : m.cmd = "RequestVote" /\ m.from = n /\ Timely(t, log[n], m)
  <2>1. ASSUME NEW m, NEW p, p # n,
               m = [cmd |-> "RequestVote", from |-> n, dest |-> p, term |-> 1,
                    last_log_index |-> 1]
        PROVE  m.cmd = "RequestVote" /\ m.from = n /\ Timely(t, log[n], m)
    <3>1. m.cmd = "RequestVote" /\ m.from = n /\ m.dest = p /\ m.term = 1
          /\ m.last_log_index = 1
      BY <2>1, Zenon
    <3> QED BY <3>1, <2>1, <1>12 DEF Timely
  <2>2. o.current_term + 1 = 1 /\ size(log[n]) = 1
    BY <1>4, <1>5 DEF size
  <2> HIDE DEF o
  <2> QED BY <2>1, <2>2, Zenon
<1> HIDE DEF requests
<1> DEFINE sent == ask \cup requests
<1>16. \A m \in sent : /\ m.from = n /\ Timely(t, log[n], m)
                       /\ ~(m.cmd = "ResponseVote" /\ m.granted)
  BY <1>14, <1>15 DEF Plain
<1>17. DOMAIN network' \subseteq DOMAIN network \cup sent
  BY <1>2, Posted, Zenon
<1> HIDE DEF sent
<1>18. Votes(n, t, sent, n)
  BY <1>4, <1>12, <1>16 DEF Votes, HasVoted
<1>19. log' = log /\ committed' = committed /\ raft' = [raft EXCEPT ![n] = t] /\ ~Leads(n)
  BY <1>2, <1>5, <1>9, Zenon DEF handle_election_timeout, Leads
<1> QED BY <1>4, <1>12, <1>13, <1>16, <1>17, <1>18, <1>19, TurnFirst, Zenon

-----------------------------------------------------------------------------
(* Votes *)

\* What is known of a message about terms that is handled: it is of the first term,
\* and its sender, another peer, is in that term.
LEMMA Arrived ==
    ASSUME Stage, NEW n, NEW m \in DOMAIN network, Handled(n, m), m.cmd \notin JoinCommands
    PROVE  /\ n \in Peers /\ m.from \in Peers /\ m.from # n /\ m.dest = n /\ m.term = 1
           /\ Timely(raft[m.from], log[m.from], m) /\ 1 <= highest_term'
<1>1. /\ n \in Peers /\ m.from \in Peers /\ m.dest = n
      /\ Timely(raft[m.from], log[m.from], m)
  BY Zenon DEF Handled, GoodMessage, Stage, FirstTerm
<1>2. m.term = 1 /\ raft[m.from].current_term = 1 /\ m.from # n
  BY <1>1, Zenon DEF Timely
<1>3. /\ raft[m.from].current_term <= highest_term
      /\ highest_term \in Nat /\ highest_term' \in Nat /\ highest_term <= highest_term'
  BY <1>1, Standing, Zenon DEF Stage
<1> QED BY <1>1, <1>2, <1>3

\* Votes are for peers of the bootstrap list: that is what a log of one entry names.
LEMMA VoteTimely ==
    ASSUME Stage, NEW n, NEW m \in DOMAIN network, Handled(n, m), m.cmd = "RequestVote",
           in_quorum(log[n], m.from), NEW granted, granted => Len(log[n]) = 1,
           NEW t, t.current_term = 1, NEW reply, reply = vote(n, m, m.term, granted)
    PROVE  Timely(t, log[n], reply)
<1>1. n \in Peers /\ m.from \in Peers /\ m.from # n /\ m.term = 1
  BY Arrived, Zenon DEF JoinCommands
<1>2. /\ reply.cmd = "ResponseVote" /\ reply.from = n /\ reply.dest = m.from
      /\ reply.granted = granted /\ reply.term = 1
  BY <1>1, Zenon DEF vote
<1>3. granted => m.from \in InitialPeers
  <2> SUFFICES ASSUME Len(log[n]) = 1 PROVE m.from \in InitialPeers
    BY Zenon
  <2>1. log[n] \in Seq(Entry) /\ log[n][1] = single_quorum(InitialPeers \cup {n}, 0)
    BY <1>1, Standing, Zenon DEF Begun
  <2>2. get_all_peers(log[n]) = InitialPeers \cup {n}
    BY <2>1, FirstQuorum, Zenon
  <2> QED BY <1>1, <2>2, Zenon DEF in_quorum
<1> QED BY <1>1, <1>2, <1>3 DEF Timely

LEMMA AtMostOne ==
    ASSUME NEW k \in Nat, 1 <= k, 1 >= k
    PROVE  k = 1
OBVIOUS

LEMMA Below ==
    ASSUME NEW k \in {0, 1}
    PROVE  ~(1 < k) /\ (1 > k => k # 1)
OBVIOUS

\* A peer other than a leader votes, once.
LEMMA VoteFirst ==
    ASSUME Stage, NEW n, NEW m \in DOMAIN network, Handled(n, m), m.cmd = "RequestVote",
           in_quorum(log[n], m.from), m.term = raft[n].current_term,
           handle_ws_request_vote(n, m)
    PROVE  FirstTerm'
<1> DEFINE o == raft[n]
           refuse == o.current_state = "leader" \/ o.voted_for
           b == o.voted_for \/ ~refuse
           t == [o EXCEPT !.voted_for = b]
           granted == ~refuse /\ m.last_log_index >= size(log[n])
           reply == vote(n, m, m.term, granted)
           sent == {reply}
<1>1. /\ n \in Peers /\ m.from \in Peers /\ m.term = 1 /\ 1 <= highest_term'
      /\ m.last_log_index = 1
  BY Arrived, Zenon DEF JoinCommands, Timely
<1>2. /\ o \in State /\ raft \in [Peers -> State] /\ Begun(n, o, log[n])
      /\ Len(log[n]) \in Nat /\ 1 <= Len(log[n])
  BY <1>1, Standing, Zenon
<1>3. /\ raft' = [raft EXCEPT ![n] = t] /\ log' = log /\ committed' = committed
      /\ network' = exchange(m, {reply})
  BY <1>1, <1>2, Zenon DEF handle_ws_request_vote
<1>4. o.current_term = 1
  BY <1>1, Zenon
<1>5. granted => Len(log[n]) = 1
  BY <1>1, <1>2, AtMostOne, Zenon DEF size
<1> HIDE DEF b
<1>6. /\ t.current_state = o.current_state /\ t.current_term = o.current_term
      /\ t.voted_for = b /\ t.yes_votes = o.yes_votes
      /\ t.peer_match_index = o.peer_match_index /\ t.timer = o.timer /\ t.late = o.late
  BY <1>2, Zenon DEF State
<1>7. (granted => ~refuse) /\ (refuse => b = o.voted_for) /\ (~refuse => b = TRUE)
  BY <1>2, Zenon DEF b, State
<1> HIDE DEF t, granted
<1>8. /\ reply.cmd = "ResponseVote" /\ reply.from = n /\ reply.dest = m.from
      /\ reply.granted = granted /\ Timely(t, log[n], reply)
  <2>1. t.current_term = 1 /\ reply = vote(n, m, m.term, granted)
    BY <1>4, <1>6, Zenon
  <2>2. /\ reply.cmd = "ResponseVote" /\ reply.from = n /\ reply.dest = m.from
        /\ reply.granted = granted
    BY Zenon DEF vote
  <2> HIDE DEF reply
  <2> QED BY <1>5, <2>1, <2>2, VoteTimely, Zenon
<1> HIDE DEF reply
<1>9. CASE refuse
  <2>1. Plain(n, t, log[n], reply)
    BY <1>7, <1>8, <1>9, Zenon DEF Plain
  <2>2. Unmoved(n, o, t) /\ (Beats(t) => Beats(o))
    BY <1>6, <1>7, <1>9, Zenon DEF Unmoved, Beats
  <2>3. Alike(n, raft[n], t)
    BY <1>1, <2>2, UnmovedAlike, Zenon
  <2> QED BY <1>1, <1>3, <2>1, <2>3, ReplyFirst, Zenon
<1>10. CASE ~refuse
  <2>1. ~HasVoted(o) /\ HasVoted(t) /\ ~Leads(n)
    BY <1>4, <1>6, <1>7, <1>10, Zenon DEF HasVoted, Leads
  <2>2. \A x \in sent : x = reply
    BY Zenon
  <2>3. DOMAIN network' \subseteq DOMAIN network \cup sent
    BY <1>3, Exchanged, Zenon
  <2> HIDE DEF sent
  <2>4. Votes(n, t, sent, m.from)
    BY <1>6, <1>8, <2>1, <2>2, Zenon DEF Votes, Voted
  <2>5. Begun(n, t, log[n])
    BY <1>2, <1>6, <1>10, Zenon DEF Begun, Beats
  <2>6. \A x \in sent : x.from = n /\ Timely(t, log[n], x)
    BY <1>8, <2>2, Zenon
  <2> QED BY <1>1, <1>3, <1>4, <1>6, <2>1, <2>3, <2>4, <2>5, <2>6, TurnFirst, Zenon
<1> QED BY <1>9, <1>10, Zenon

\* A candidate counts a vote.
LEMMA CountFirst ==
    ASSUME Stage, NEW n, NEW m \in DOMAIN network, Handled(n, m), m.cmd = "ResponseVote",
           m.term = raft[n].current_term, handle_request_vote_response(n, m)
    PROVE  FirstTerm'
<1> DEFINE s == raft[n]
           t == IF m.granted THEN [s EXCEPT !.yes_votes = @ \cup {m.from}]
                             ELSE [s EXCEPT !.no_votes = @ \cup {m.from}]
           u == update_raft_state(t, s.current_term, "leader")
           f == [p \in DOMAIN u.peer_match_index |-> 1]
           elected == [u EXCEPT !.leader = n, !.peer_match_index = f]
           back == update_raft_state(t, s.current_term, "follower")
<1>1. /\ n \in Peers /\ m.from \in Peers /\ m.dest = n /\ m.term = 1 /\ 1 <= highest_term'
      /\ m.granted => n \in InitialPeers
  <2>1. m.cmd \notin JoinCommands
    BY DEF JoinCommands
  <2>2. /\ n \in Peers /\ m.from \in Peers /\ m.dest = n /\ m.term = 1 /\ 1 <= highest_term'
        /\ Timely(raft[m.from], log[m.from], m)
    BY <2>1, Arrived, Zenon
  <2> QED BY <2>2, Zenon DEF Timely
<1>2. /\ s \in State /\ raft \in [Peers -> State] /\ Begun(n, s, log[n])
      /\ s.current_term = 1 /\ log[n] \in Seq(Entry)
  BY <1>1, Standing, Zenon
<1>3. /\ log' = log /\ committed' = committed
      /\ \/ raft' = raft /\ network' = exchange(m, {})
         \/ /\ s.current_state = "candidate" /\ m.granted /\ is_majority(log[n], t.yes_votes)
            /\ raft' = [raft EXCEPT ![n] = request_append_entries(n, elected, log[n])]
            /\ network' = exchange(m, append_entries(n, elected, log[n]))
         \/ /\ s.current_state = "candidate"
            /\ raft' = [raft EXCEPT ![n] = start_timer(back, "election")]
            /\ network' = exchange(m, {})
         \/ /\ s.current_state = "candidate"
            /\ raft' = [raft EXCEPT ![n] = t] /\ network' = exchange(m, {})
  BY Zenon DEF handle_request_vote_response, start_election_timer
<1>4. \A v \in s.yes_votes : Voted(v, n)
  BY Zenon DEF Voted
<1>5. m.granted => Voted(m.from, n)
  BY <1>1, Zenon DEF Voted, Grants
<1> HIDE DEF s
<1>6. /\ t \in State /\ t.current_state = s.current_state /\ t.current_term = 1
      /\ t.voted_for = s.voted_for /\ t.timer = s.timer /\ t.late = s.late
      /\ t.yes_votes = s.yes_votes \/ (m.granted /\ t.yes_votes = s.yes_votes \cup {m.from})
  BY <1>1, <1>2 DEF State
<1> HIDE DEF t
<1>7. \A v \in t.yes_votes : Voted(v, n)
  BY <1>4, <1>5, <1>6, Zenon
<1> DEFINE Same(x) == /\ x.current_term = 1 /\ x.voted_for = t.voted_for
                      /\ x.yes_votes = t.yes_votes
<1>8. ASSUME NEW x, Same(x), NEW sent,
             \A y \in sent : ~(y.cmd = "ResponseVote" /\ y.granted)
      PROVE  Keeps(n, x, sent)
  <2>1. HasVoted(raft[n]) => HasVoted(x)
    BY <1>6, <1>8, Zenon DEF HasVoted, s
  <2> QED BY <1>7, <1>8, <2>1, Zenon DEF Keeps
<1>9. CASE raft' = raft /\ network' = exchange(m, {})
  BY <1>1, <1>3, <1>9, IgnoredFirst, Zenon
<1>10. ASSUME s.current_state = "candidate"
       PROVE  /\ Len(log[n]) = 1 /\ ~Beats(s) /\ ~Leads(n)
              /\ log[n][1] = single_quorum(InitialPeers \cup {n}, 0)
  BY <1>2, <1>10 DEF Begun, Leads, s
<1>11. ASSUME s.current_state = "candidate", NEW x, Same(x), ~Beats(x),
              x.current_state \in {"follower", "candidate"},
              raft' = [raft EXCEPT ![n] = x], network' = exchange(m, {})
       PROVE  FirstTerm'
  <2> DEFINE sent == {}
  <2>1. Keeps(n, x, sent)
    BY <1>8, <1>11, Zenon
  <2>2. DOMAIN network' \subseteq DOMAIN network \cup sent
    BY <1>11, Received, Zenon
  <2>3. Begun(n, x, log[n])
    BY <1>10, <1>11 DEF Begun
  <2>4. ~Leads(n)
    BY <1>10, <1>11, Zenon
  <2>5. \A y \in sent : y.from = n /\ Timely(x, log[n], y)
    BY Zenon
  <2> HIDE DEF sent
  <2> QED BY <1>1, <1>3, <1>11, <2>1, <2>2, <2>3, <2>4, <2>5, TurnFirst, Zenon
<1>12. CASE /\ s.current_state = "candidate"
            /\ raft' = [raft EXCEPT ![n] = t] /\ network' = exchange(m, {})
  <2>1. Same(t) /\ ~Beats(t) /\ t.current_state = "candidate"
    BY <1>6, <1>10, <1>12, Zenon DEF Beats
  <2> HIDE DEF Same
  <2> QED BY <1>11, <1>12, <2>1, Zenon
<1>13. CASE /\ s.current_state = "candidate"
            /\ raft' = [raft EXCEPT ![n] = start_timer(back, "election")]
            /\ network' = exchange(m, {})
  <2>1. PICK x : x = start_timer(back, "election")
    BY Zenon
  <2>2. /\ back \in State /\ back.current_state = "follower" /\ Same(back)
        /\ back.timer = s.timer /\ back.late = s.late
    <3>1. back = [t EXCEPT !.current_state = "follower", !.current_term = 1]
      BY <1>2, Zenon DEF update_raft_state
    <3> HIDE DEF back
    <3> QED BY <1>6, <3>1, Zenon DEF State
  <2> HIDE DEF back
  <2>3. Unmoved(n, back, x) /\ (Beats(x) => Beats(back))
    BY <2>1, <2>2, TimerFields
  <2>4. Same(x) /\ x.current_state = "follower" /\ ~Beats(x)
    BY <2>2, <2>3, <1>10, <1>13, Zenon DEF Unmoved, Beats
  <2> HIDE DEF Same
  <2> QED BY <1>11, <1>13, <2>1, <2>4, Zenon
<1>14. CASE /\ s.current_state = "candidate" /\ m.granted /\ is_majority(log[n], t.yes_votes)
            /\ raft' = [raft EXCEPT ![n] = request_append_entries(n, elected, log[n])]
            /\ network' = exchange(m, append_entries(n, elected, log[n]))
  <2>1. PICK x : x = request_append_entries(n, elected, log[n])
    BY Zenon
  <2> DEFINE sent == append_entries(n, elected, log[n])
  <2>2. n \in InitialPeers /\ InitialPeers \cup {n} = InitialPeers
    BY <1>1, <1>14, Zenon
  <2>3. 2 * Cardinality(InitialPeers \cap t.yes_votes) > Cardinality(InitialPeers)
    <3>1. get_active_quorum(log[n]) = {InitialPeers}
      BY <1>2, <1>10, <1>14, <2>2, FirstQuorum, Zenon
    <3> QED BY <1>14, <3>1, Zenon DEF is_majority
  <2>4. u \in State /\ u.current_state = "leader" /\ Same(u)
    <3>1. u = [t EXCEPT !.current_state = "leader", !.current_term = 1]
      BY <1>2, Zenon DEF update_raft_state
    <3> HIDE DEF u
    <3> QED BY <1>6, <3>1, Zenon DEF State
  <2> HIDE DEF u
  <2>5. f \in Match
    BY <2>4, MatchType DEF State
  <2>6. at(f, n) <= 1
    BY DEF at
  <2> HIDE DEF f
  <2>7. /\ elected \in State /\ elected.current_state = "leader" /\ Same(elected)
        /\ elected.peer_match_index = f
    BY <1>1, <2>4, <2>5, Zenon DEF State
  <2> HIDE DEF elected
  <2>8. Unmoved(n, elected, x)
    BY <2>1, <2>7, RequestFields, Zenon
  <2>9. /\ x.current_state = "leader" /\ Same(x)
        /\ at(x.peer_match_index, n) = at(f, n)
    BY <2>7, <2>8, Zenon DEF Unmoved
  <2>10. Begun(n, x, log[n])
    <3>1. Elected(n, x)
      BY <2>2, <2>3, <2>6, <2>9 DEF Elected
    <3>2. log[n][1] = single_quorum(InitialPeers \cup {n}, 0)
      BY <1>10, <1>14, Zenon
    <3> QED BY <2>9, <3>1, <3>2 DEF Begun
  <2>11. \A y \in sent : Plain(n, x, log[n], y)
    BY <1>1, <2>7, <2>9, AppendsPlain, Zenon DEF Stage
  <2>12. /\ \A y \in sent : y.from = n /\ Timely(x, log[n], y)
         /\ \A y \in sent : ~(y.cmd = "ResponseVote" /\ y.granted)
    BY <2>11, Zenon DEF Plain
  <2>13. DOMAIN network' \subseteq DOMAIN network \cup sent
    BY <1>14, Exchanged, Zenon
  <2> HIDE DEF sent, Same
  <2>14. Keeps(n, x, sent)
    BY <1>8, <2>9, <2>12, Zenon
  <2>15. x.current_term = 1 /\ raft' = [raft EXCEPT ![n] = x]
    BY <1>14, <2>1, <2>9, Zenon DEF Same
  <2> QED BY <1>1, <1>3, <2>9, <2>10, <2>12, <2>13, <2>14, <2>15, TurnFirst, Zenon
<1> HIDE DEF u, f, elected, back
<1> QED BY <1>3, <1>9, <1>12, <1>13, <1>14, Zenon

=============================================================================
