------------------------ MODULE RaftFirstTermProofs ------------------------
(***************************************************************************)
(* The first term of Raft, for any peers, quorums and bounds: messages     *)
(* from outside the term, entries and replies keep FirstTerm of            *)
(* RaftProofs, as timers, clients and votes do.  So there is one leader    *)
(* and one history of commits, and what a leader commits a majority has.   *)
(***************************************************************************)
EXTENDS RaftProofs

-----------------------------------------------------------------------------
(* Other terms *)

LEMMA ReplyPlain ==
    ASSUME NEW n, NEW m, m.from # n, m.term = 1, NEW success, NEW k, NEW t,
           t.current_term = 1, NEW l, NEW reply,
           reply = append_reply(n, m, m.term, success, k)
    PROVE  Plain(n, t, l, reply)
<1>1. /\ reply.cmd = "AppendEntriesReply" /\ reply.from = n /\ reply.dest = m.from
      /\ reply.term = 1
  BY Zenon DEF append_reply
<1> QED BY <1>1 DEF Plain, Timely

LEMMA SteppedDownFields ==
    ASSUME NEW s \in State, NEW t, t = stepped_down(s, 1)
    PROVE  /\ t.current_state = "follower" /\ t.current_term = 1
           /\ t.yes_votes = s.yes_votes /\ (Beats(t) => Beats(s))
<1> DEFINE u == [update_raft_state(s, 1, "follower") EXCEPT !.voted_for = FALSE]
<1>1. t = start_timer(u, "election")
  BY Zenon DEF stepped_down, start_election_timer
<1>2. u = [s EXCEPT !.current_state = "follower", !.current_term = 1, !.voted_for = FALSE]
  BY DEF update_raft_state, State
<1> HIDE DEF u
<1>3. /\ u \in State /\ u.current_state = "follower" /\ u.current_term = 1
      /\ u.yes_votes = s.yes_votes /\ u.timer = s.timer /\ u.late = s.late
  BY <1>2, Zenon DEF State
<1>4. Unmoved(t, u, t) /\ (Beats(t) => Beats(u))
  BY <1>1, <1>3, TimerFields
<1> QED BY <1>3, <1>4, Zenon DEF Unmoved, Beats

\* A peer that was in no term enters the first one.
LEMMA EnterFirst ==
    ASSUME Stage, NEW n \in Peers, NEW m, raft[n].current_term = 0, 1 <= highest_term',
           NEW t, t.current_state = "follower", t.current_term = 1,
           t.yes_votes = raft[n].yes_votes, Beats(t) => Beats(raft[n]), NEW sent,
           raft' = [raft EXCEPT ![n] = t], log' = log, committed' = committed,
           network' = exchange(m, sent), \A x \in sent : x.from = n /\ Timely(t, log[n], x),
           \/ \A x \in sent : ~(x.cmd = "ResponseVote" /\ x.granted)
           \/ t.voted_for = TRUE /\ \E c \in Peers : \A x \in sent : x.dest = c
    PROVE  FirstTerm'
<1>1. /\ raft[n].current_state = "follower" /\ raft[n].yes_votes = {} /\ ~Beats(raft[n])
      /\ log[n][1] = single_quorum(InitialPeers \cup {n}, 0)
  <2>1. Begun(n, raft[n], log[n])
    BY Standing, Zenon
  <2> QED BY <2>1 DEF Begun
<1>2. Begun(n, t, log[n]) /\ ~Leads(n) /\ ~HasVoted(raft[n])
  BY <1>1 DEF Begun, Leads, HasVoted
<1>3. Keeps(n, t, sent) \/ \E c \in Peers : Votes(n, t, sent, c)
  BY <1>1, <1>2, Zenon DEF Keeps, Votes, HasVoted
<1>4. DOMAIN network' \subseteq DOMAIN network \cup sent
  BY Exchanged, Zenon
<1> QED BY <1>2, <1>3, <1>4, TurnFirst, Zenon

LEMMA LaterFirst ==
    ASSUME Stage, NEW n, NEW m \in DOMAIN network, Handled(n, m), m.cmd \notin JoinCommands,
           in_quorum(log[n], m.from), m.term > raft[n].current_term, handle_later_term(n, m)
    PROVE  FirstTerm'
<1> DEFINE s == raft[n]
           down == stepped_down(s, m.term)
<1>1. n \in Peers /\ m.from \in Peers /\ m.from # n /\ m.term = 1 /\ 1 <= highest_term'
  BY Arrived, Zenon
<1>2. /\ s \in State /\ raft \in [Peers -> State] /\ s.current_term \in {0, 1}
      /\ log' = log /\ committed' = committed /\ Begun(n, s, log[n])
  BY <1>1, Standing, Zenon DEF handle_later_term
<1>3. s.current_term = 0
  <2>1. PICK k : k = s.current_term /\ k \in {0, 1} /\ 1 > k
    BY <1>1, <1>2, Zenon
  <2>2. k # 1
    BY <2>1, Below
  <2> QED BY <2>1, <2>2, Zenon
<1>4. /\ down.current_state = "follower" /\ down.current_term = 1
      /\ down.yes_votes = s.yes_votes /\ (Beats(down) => Beats(s))
  BY <1>1, <1>2, SteppedDownFields, Zenon
<1>5. ASSUME m.cmd = "RequestVote",
             raft' = [raft EXCEPT ![n].current_term = m.term, ![n].voted_for = TRUE],
             network' = exchange(m, {vote(n, m, m.term, TRUE)})
      PROVE  FirstTerm'
  <2> DEFINE t == [s EXCEPT !.current_term = m.term, !.voted_for = TRUE]
             reply == vote(n, m, m.term, TRUE)
             sent == {reply}
  <2>1. raft' = [raft EXCEPT ![n] = t]
    BY <1>1, <1>2, <1>5, Zenon
  <2>2. /\ s.current_state = "follower" /\ Len(log[n]) = 1
    BY <1>2, <1>3, Zenon DEF Begun
  <2>3. /\ t.current_state = s.current_state /\ t.current_term = 1 /\ t.voted_for = TRUE
        /\ t.yes_votes = s.yes_votes /\ t.timer = s.timer /\ t.late = s.late
    BY <1>1, <1>2, Zenon DEF State
  <2> HIDE DEF t
  <2>4. reply.from = n /\ reply.dest = m.from
    BY Zenon DEF vote
  <2>5. Timely(t, log[n], reply)
    BY <1>5, <2>2, <2>3, VoteTimely, Zenon
  <2> HIDE DEF reply
  <2>6. \A x \in sent : x.from = n /\ Timely(t, log[n], x) /\ x.dest = m.from
    BY <2>4, <2>5, Zenon
  <2>7. network' = exchange(m, sent)
    BY <1>5, Zenon DEF reply
  <2>8. Beats(t) => Beats(s)
    BY <2>3, Zenon DEF Beats
  <2> HIDE DEF sent
  <2> QED BY <1>1, <1>2, <1>3, <2>1, <2>2, <2>3, <2>6, <2>7, <2>8, EnterFirst, Zenon
<1> HIDE DEF down
<1>6. ASSUME raft' = [raft EXCEPT ![n] = [down EXCEPT !.leader = m.from]],
             network' = exchange(m, {append_reply(n, m, m.term, FALSE, size(log[n]))})
      PROVE  FirstTerm'
  <2> DEFINE t == [down EXCEPT !.leader = m.from]
             reply == append_reply(n, m, m.term, FALSE, size(log[n]))
             sent == {reply}
  <2>1. /\ t.current_state = down.current_state /\ t.current_term = down.current_term
        /\ t.yes_votes = down.yes_votes /\ t.timer = down.timer /\ t.late = down.late
    BY DEF t
  <2>2. raft' = [raft EXCEPT ![n] = t]
    BY <1>6, Zenon
  <2> HIDE DEF t
  <2>3. Plain(n, t, log[n], reply)
    BY <1>1, <1>4, <2>1, ReplyPlain, Zenon
  <2> HIDE DEF reply
  <2>4. \A x \in sent : /\ x.from = n /\ Timely(t, log[n], x)
                        /\ ~(x.cmd = "ResponseVote" /\ x.granted)
    BY <2>3, Zenon DEF Plain
  <2>5. network' = exchange(m, sent)
    BY <1>6, Zenon DEF reply
  <2>6. Beats(t) => Beats(s)
    BY <1>4, <2>1, Zenon DEF Beats
  <2>7. t.current_state = "follower" /\ t.current_term = 1 /\ t.yes_votes = s.yes_votes
    BY <1>4, <2>1, Zenon
  <2> HIDE DEF sent
  <2> QED BY <1>1, <1>2, <1>3, <2>2, <2>4, <2>5, <2>6, <2>7, EnterFirst, Zenon
<1>7. ASSUME raft' = [raft EXCEPT ![n] = down], network' = exchange(m, {})
      PROVE  FirstTerm'
  <2> DEFINE sent == {}
  <2>1. \A x \in sent : /\ x.from = n /\ Timely(down, log[n], x)
                        /\ ~(x.cmd = "ResponseVote" /\ x.granted)
    BY Zenon
  <2>2. network' = exchange(m, sent)
    BY <1>7, Zenon
  <2> HIDE DEF sent
  <2> QED BY <1>1, <1>2, <1>3, <1>4, <1>7, <2>1, <2>2, EnterFirst, Zenon
<1>8. \/ m.cmd = "RequestVote"
            /\ raft' = [raft EXCEPT ![n].current_term = m.term, ![n].voted_for = TRUE]
            /\ network' = exchange(m, {vote(n, m, m.term, TRUE)})
      \/ /\ raft' = [raft EXCEPT ![n] = [down EXCEPT !.leader = m.from]]
         /\ network' = exchange(m, {append_reply(n, m, m.term, FALSE, size(log[n]))})
      \/ raft' = [raft EXCEPT ![n] = down] /\ network' = exchange(m, {})
  BY <1>1, <1>2, Zenon DEF handle_later_term, down
<1> QED BY <1>5, <1>6, <1>7, <1>8, Zenon

\* Nobody goes back to an earlier term: no message is of one.
LEMMA EarlierFirst ==
    ASSUME Stage, NEW n, NEW m \in DOMAIN network, Handled(n, m), m.cmd \notin JoinCommands,
           m.term < raft[n].current_term
    PROVE  FALSE
<1>1. n \in Peers /\ m.term = 1
  BY Arrived, Zenon
<1>2. PICK k : k = raft[n].current_term /\ k \in {0, 1} /\ 1 < k
  BY <1>1, Standing, Zenon
<1> QED BY <1>2, Below, Zenon

-----------------------------------------------------------------------------
(* Match indices *)

Matched(n, f, g) == g \in Match /\ at(g, n) = at(f, n)

LEMMA SetMatched ==
    ASSUME NEW f \in Match, NEW p \in Peers, NEW k \in Nat, NEW n, n # p,
           NEW g, g = [touch(f, {p}) EXCEPT ![p] = k]
    PROVE  Matched(n, f, g)
<1>1. DOMAIN f \subseteq Peers /\ \A q \in DOMAIN f : f[q] \in Nat
  BY MatchType, Zenon
<1>2. g = [q \in DOMAIN f \cup {p} |-> IF q = p THEN k ELSE at(f, q)]
  BY Zenon DEF touch
<1>3. g \in Match
  <2>1. DOMAIN g = DOMAIN f \cup {p} /\ \A q \in DOMAIN g : g[q] \in Nat
    BY <1>1, <1>2 DEF at
  <2> QED BY <1>1, <1>2, <2>1, MatchType, Zenon
<1>4. at(g, n) = at(f, n)
  BY <1>2, Zenon DEF at
<1> QED BY <1>3, <1>4, Zenon DEF Matched

-----------------------------------------------------------------------------
(* Entries *)

AllFrom(l, set) == \A c \in set : c[2] \in 1..(Len(l) - 1) /\ c[3] = l[c[2] + 1]

LEMMA CommitsFrom ==
    ASSUME NEW n, NEW l \in Seq(Entry), NEW k \in Seq(Entry), Extends(l, k),
           NEW from \in Nat \ {0}, NEW upto \in Nat, upto <= Len(l)
    PROVE  AllFrom(k, commits(n, l, from, upto))
<1> SUFFICES ASSUME NEW c \in commits(n, l, from, upto)
             PROVE  c[2] \in 1..(Len(k) - 1) /\ c[3] = k[c[2] + 1]
  BY Zenon DEF AllFrom
<1>1. PICK i \in from..(upto - 1) : c = <<n, i, l[i + 1]>>
  BY Zenon DEF commits, entry_at
<1>2. c[2] = i /\ c[3] = l[i + 1]
  BY <1>1
<1>3. i \in Nat /\ i \in 1..(Len(k) - 1) /\ i + 1 \in 1..Len(l)
  BY <1>1 DEF Extends
<1>4. k[i + 1] = l[i + 1]
  BY <1>3, Zenon DEF Extends
<1> QED BY <1>2, <1>3, <1>4, Zenon

\* What a step makes of the log of its peer extends it.
LEMMA StepExtends ==
    ASSUME Stage, NEW n \in Peers, NEW l, log' = [log EXCEPT ![n] = l]
    PROVE  l \in Seq(Entry) /\ Len(l) \in Nat /\ Extends(log[n], l)
<1>1. log \in Logs /\ log' \in Logs /\ Grown(log, log')
  BY Zenon DEF Stage, Invariant
<1>2. log'[n] = l
  BY <1>1, Zenon DEF Logs
<1>3. l \in Seq(Entry) /\ Extends(log[n], l)
  BY <1>1, <1>2, Zenon DEF Logs, Grown
<1> QED BY <1>3

\* An entry that is accepted is the leader's next one.
LEMMA InsertFirst ==
    ASSUME Stage, NEW n \in Peers, NEW m, m.from \in Peers, m.cmd = "AppendEntries",
           Timely(raft[m.from], log[m.from], m), m.prev_index \in Nat,
           entry_accepted(log[n], m.prev_index, m.prev_term), m.entry # NoEntry
    PROVE  Grows(n, follower_insert_entry(log[n], m.prev_index + 1, m.entry))
<1>1. PICK k, h, e, i : k = log[n] /\ h = log[m.from] /\ e = m.entry /\ i = m.prev_index
  BY Zenon
<1>2. k \in Seq(Entry) /\ h \in Seq(Entry) /\ i \in Nat
  BY <1>1, Standing, Zenon
<1>3. /\ Leads(m.from) /\ i + 2 <= Len(h) /\ h[i + 2] = e
  BY <1>1, Zenon DEF Timely, Leads
<1>4. i = Len(k) - 1
  BY <1>1, Zenon DEF entry_accepted, size
<1>5. i + 1 = Len(k) /\ i + 2 = Len(k) + 1
  BY <1>2, <1>4
<1>6. SubSeq(k, 1, Len(k)) = k
  BY <1>2
<1> DEFINE l == Append(k, e)
<1>7. follower_insert_entry(k, i + 1, e) = l
  BY <1>2, <1>5, <1>6 DEF follower_insert_entry, size
<1>8. Len(l) = Len(k) + 1 /\ l[Len(l)] = e
  BY <1>2
<1> HIDE DEF l
<1>9. Len(l) = Len(k) + 1 /\ Len(l) <= Len(h) /\ l[Len(l)] = h[Len(l)]
  BY <1>3, <1>5, <1>8
<1>10. Grows(n, l)
  BY <1>1, <1>3, <1>9, Zenon DEF Grows
<1> QED BY <1>1, <1>7, <1>10, Zenon

\* A leader gets no entries: there is no other.
LEMMA EntriesFirst ==
    ASSUME Stage, NEW n, NEW m \in DOMAIN network, Handled(n, m), m.cmd = "AppendEntries",
           m.term = raft[n].current_term, handle_ws_append_entries(n, m)
    PROVE  FirstTerm'
<1> DEFINE o == raft[n]
           s == [o EXCEPT !.in_a_swarm = TRUE]
           accepted == entry_accepted(log[n], m.prev_index, m.prev_term)
           l == IF accepted /\ m.entry # NoEntry
                THEN follower_insert_entry(log[n], m.prev_index + 1, m.entry) ELSE log[n]
           upto == IF accepted THEN min(size(l), m.commit_index) ELSE 0
           c == IF s.commit_index < upto THEN upto ELSE s.commit_index
           f == [touch(s.peer_match_index, {m.from}) EXCEPT ![m.from] = m.commit_index]
           u == [s EXCEPT !.leader = m.from, !.commit_index = c, !.peer_match_index = f]
           reply == append_reply(n, m, m.term, accepted, match_index(l, m))
           down == update_raft_state(s, m.term, "follower")
<1>1. /\ n \in Peers /\ m.from \in Peers /\ m.from # n /\ m.term = 1 /\ 1 <= highest_term'
      /\ Timely(raft[m.from], log[m.from], m)
  BY Arrived, Zenon DEF JoinCommands
<1>2. m.prev_index \in Nat /\ m.commit_index \in Nat
  BY Zenon DEF Handled, GoodMessage, GoodAppend
<1>3. /\ o \in State /\ raft \in [Peers -> State] /\ Begun(n, o, log[n]) /\ o.current_term = 1
  BY <1>1, Standing, Zenon
<1>4. Leads(m.from) /\ ~Leads(n)
  <2>1. Leads(m.from)
    BY <1>1, Zenon DEF Timely, Leads
  <2> QED BY <1>1, <2>1, OneLeader, Zenon DEF Stage
<1>5. ~Beats(o) /\ o.current_state # "leader"
  BY <1>3, <1>4, Zenon DEF Begun, Leads
<1>6. /\ s \in State /\ s.current_state = o.current_state /\ s.current_term = 1
      /\ s.voted_for = o.voted_for /\ s.yes_votes = o.yes_votes
      /\ s.timer = o.timer /\ s.late = o.late
  BY <1>3, Zenon DEF State
<1>7. \/ /\ raft' = [raft EXCEPT ![n] = start_timer(down, "election")]
         /\ network' = exchange(m, {}) /\ log' = log /\ committed' = committed
      \/ /\ raft' = [raft EXCEPT ![n] = start_timer(u, "election")]
         /\ log' = [log EXCEPT ![n] = l] /\ network' = exchange(m, {reply})
         /\ committed' = committed \cup commits(n, l, s.commit_index, upto)
         /\ o.current_state = "follower"
  <2>1. s.current_state = "follower" => o.current_state = "follower"
    BY <1>6, Zenon
  <2> QED BY <2>1, Zenon DEF handle_ws_append_entries, start_election_timer
<1>8. l = log[n] \/ Grows(n, l)
  BY <1>1, <1>2, InsertFirst, Zenon
<1> HIDE DEF s, l, accepted
<1>9. CASE /\ raft' = [raft EXCEPT ![n] = start_timer(down, "election")]
           /\ network' = exchange(m, {}) /\ log' = log /\ committed' = committed
  <2> DEFINE sent == {}
  <2>1. PICK x : x = start_timer(down, "election")
    BY Zenon
  <2>2. down = [s EXCEPT !.current_state = "follower", !.current_term = 1]
    BY <1>1, Zenon DEF update_raft_state
  <2> HIDE DEF down
  <2>3. /\ down \in State /\ down.current_state = "follower" /\ down.current_term = 1
        /\ down.voted_for = s.voted_for /\ down.yes_votes = s.yes_votes
        /\ down.timer = s.timer /\ down.late = s.late
    BY <1>6, <2>2, Zenon DEF State
  <2>4. Unmoved(n, down, x) /\ (Beats(x) => Beats(down))
    BY <2>1, <2>3, TimerFields
  <2>5. /\ x.current_state = "follower" /\ x.current_term = 1 /\ x.voted_for = o.voted_for
        /\ x.yes_votes = o.yes_votes /\ ~Beats(x)
    BY <1>5, <1>6, <2>3, <2>4, Zenon DEF Unmoved, Beats
  <2>6. Begun(n, x, log[n])
    BY <1>3, <2>5 DEF Begun
  <2>7. Keeps(n, x, sent)
    BY <2>5, Zenon DEF Keeps, HasVoted, Voted
  <2>8. DOMAIN network' \subseteq DOMAIN network \cup sent
    BY <1>9, Received, Zenon
  <2>9. \A y \in sent : y.from = n /\ Timely(x, log[n], y)
    BY Zenon
  <2> HIDE DEF sent
  <2> QED BY <1>1, <1>4, <1>9, <2>1, <2>5, <2>6, <2>7, <2>8, <2>9, TurnFirst, Zenon
<1>10. CASE /\ raft' = [raft EXCEPT ![n] = start_timer(u, "election")]
            /\ log' = [log EXCEPT ![n] = l] /\ network' = exchange(m, {reply})
            /\ committed' = committed \cup commits(n, l, s.commit_index, upto)
            /\ o.current_state = "follower"
  <2> DEFINE sent == {reply}
             new == commits(n, l, s.commit_index, upto)
  <2>1. PICK x : x = start_timer(u, "election")
    BY Zenon
  <2>2. l \in Seq(Entry) /\ Len(l) \in Nat
    BY <1>1, <1>10, StepExtends, Zenon
  <2>3. upto \in Nat /\ upto <= Len(l)
    BY <1>2, <2>2 DEF size, min
  <2>4. s.commit_index \in Nat \ {0} /\ Extends(l, l)
    BY <1>6, <2>2 DEF State, Extends
  <2> HIDE DEF upto
  <2>5. AllFrom(l, new)
    BY <2>2, <2>3, <2>4, CommitsFrom, Zenon
  <2>6. u \in State
    <3>1. f \in Match
      <4>1. f = [touch(s.peer_match_index, {m.from}) EXCEPT ![m.from] = m.commit_index]
            /\ s.peer_match_index \in Match
        BY <1>6, Zenon DEF State
      <4> HIDE DEF f
      <4>2. Matched(n, s.peer_match_index, f)
        BY <1>1, <1>2, <4>1, SetMatched, Zenon
      <4> QED BY <4>2, Zenon DEF Matched
    <3>2. c \in Nat \ {0}
      BY <2>3, <2>4
    <3> HIDE DEF c, f
    <3> QED BY <1>1, <1>6, <3>1, <3>2, Zenon DEF State
  <2> HIDE DEF c, f
  <2>7. /\ u.current_state = s.current_state /\ u.current_term = 1
        /\ u.voted_for = s.voted_for /\ u.yes_votes = s.yes_votes
        /\ u.timer = s.timer /\ u.late = s.late
    BY <1>6, Zenon DEF State
  <2> HIDE DEF u
  <2>8. Unmoved(n, u, x) /\ (Beats(x) => Beats(u))
    BY <2>1, <2>6, TimerFields
  <2>9. Alike(n, raft[n], x) /\ x.current_term = 1
    BY <1>3, <1>5, <1>6, <2>7, <2>8, Zenon DEF Alike, Unmoved, Beats
  <2>10. Plain(n, x, l, reply)
    BY <1>1, <2>9, ReplyPlain, Zenon
  <2> HIDE DEF reply
  <2>11. \A y \in sent : Plain(n, x, l, y)
    BY <2>10, Zenon
  <2>12. Step(n, x, l, sent)
    BY <1>10, <2>1, Exchanged, Zenon DEF Step
  <2>13. \/ l = log[n]
         \/ Grows(n, l) /\ raft[n].current_term = 1 /\ raft[n].current_state # "candidate"
    BY <1>3, <1>8, <1>10
  <2>14. committed' = committed \cup new
    BY <1>10, Zenon
  <2> HIDE DEF sent, new
  <2> QED BY <1>1, <2>5, <2>9, <2>11, <2>12, <2>13, <2>14, AlikeStep, Zenon DEF AllFrom
<1> HIDE DEF down, u, c, f, reply, upto
<1> QED BY <1>7, <1>9, <1>10, Zenon

\* A leader hears how far another peer has got, and commits.
LEMMA AppendedFirst ==
    ASSUME Stage, NEW n, NEW m \in DOMAIN network, Handled(n, m), m.cmd = "AppendEntriesReply",
           handle_request_append_entries_response(n, m)
    PROVE  FirstTerm'
<1> DEFINE s == raft[n]
           match == [touch(s.peer_match_index, {m.from}) EXCEPT ![m.from] = m.match_index]
           commits_to(upto) ==
               /\ raft' = [raft EXCEPT
                     ![n].peer_match_index = touch(match, get_all_peers(log[n])),
                     ![n].commit_index = IF @ < upto THEN upto ELSE @]
               /\ committed' = committed \cup commits(n, log[n], s.commit_index, upto)
               /\ \E l : log' = [log EXCEPT ![n] = l]
           some == \E index \in last_majority_replicated_log_index(match, log[n]) :
                       commits_to(IF index <= size(log[n]) THEN index ELSE 0)
<1>1. n \in Peers /\ m.from \in Peers /\ m.from # n /\ m.match_index \in Nat
  BY Arrived, Zenon DEF JoinCommands, Handled, GoodMessage
<1>2. /\ s \in State /\ raft \in [Peers -> State] /\ log[n] \in Seq(Entry) /\ Len(log[n]) \in Nat
      /\ s.commit_index \in Nat \ {0} /\ s.peer_match_index \in Match
      /\ s.current_state = "leader" => s.current_term = 1 /\ at(s.peer_match_index, n) <= 1
  BY <1>1, Standing, Zenon DEF State, Begun, Elected
<1>3. network' = exchange(m, {})
  BY Zenon DEF handle_request_append_entries_response
<1>4. \/ raft' = raft /\ log' = log /\ committed' = committed
      \/ /\ s.current_state = "leader"
         /\ raft' = [raft EXCEPT ![n].peer_match_index = match]
         /\ log' = log /\ committed' = committed
      \/ s.current_state = "leader" /\ some
  BY Zenon DEF handle_request_append_entries_response
<1>5. match \in Match /\ at(match, n) = at(s.peer_match_index, n)
  <2>1. match = [touch(s.peer_match_index, {m.from}) EXCEPT ![m.from] = m.match_index]
    BY Zenon
  <2> HIDE DEF match
  <2>2. Matched(n, s.peer_match_index, match)
    BY <1>1, <1>2, <2>1, SetMatched, Zenon
  <2> QED BY <2>2, Zenon DEF Matched
<1> HIDE DEF match
<1>6. CASE raft' = raft /\ log' = log /\ committed' = committed
  BY <1>1, <1>3, <1>6, IgnoredFirst, Zenon
<1>7. CASE /\ s.current_state = "leader"
           /\ raft' = [raft EXCEPT ![n].peer_match_index = match]
           /\ log' = log /\ committed' = committed
  <2> DEFINE t == [s EXCEPT !.peer_match_index = match]
  <2>1. raft' = [raft EXCEPT ![n] = t]
    BY <1>1, <1>2, <1>7, Zenon
  <2>2. /\ t.current_state = s.current_state /\ t.current_term = s.current_term
        /\ t.voted_for = s.voted_for /\ t.yes_votes = s.yes_votes
        /\ t.peer_match_index = match /\ t.timer = s.timer /\ t.late = s.late
    BY <1>2, Zenon DEF State
  <2> HIDE DEF t
  <2>3. Alike(n, s, t)
    BY <1>2, <1>5, <1>7, <2>2, Zenon DEF Alike
  <2> QED BY <1>1, <1>3, <1>7, <2>1, <2>3, ReceiveFirst, Zenon
<1>8. ASSUME NEW index \in last_majority_replicated_log_index(match, log[n]), NEW upto,
             upto = IF index <= size(log[n]) THEN index ELSE 0, commits_to(upto),
             s.current_state = "leader"
      PROVE  FirstTerm'
  <2> DEFINE f == touch(match, get_all_peers(log[n]))
             c == IF s.commit_index < upto THEN upto ELSE s.commit_index
             t == [s EXCEPT !.commit_index = c, !.peer_match_index = f]
             new == commits(n, log[n], s.commit_index, upto)
             sent == {}
  <2>1. index \in Nat
    BY <1>2, <1>5, <1>8, IndexType, Zenon
  <2>2. upto \in Nat /\ upto <= Len(log[n])
    BY <1>2, <1>8, <2>1 DEF size
  <2>3. at(f, n) = at(match, n)
    BY Zenon DEF at, touch
  <2>4. raft' = [raft EXCEPT ![n] = t]
    BY <1>1, <1>2, <1>8, Zenon
  <2> HIDE DEF f, c
  <2>5. /\ t.current_state = s.current_state /\ t.current_term = s.current_term
        /\ t.voted_for = s.voted_for /\ t.yes_votes = s.yes_votes
        /\ t.peer_match_index = f /\ t.timer = s.timer /\ t.late = s.late
    BY <1>2, Zenon DEF State
  <2> HIDE DEF t
  <2>6. Alike(n, s, t)
    BY <1>2, <1>5, <1>8, <2>3, <2>5, Zenon DEF Alike
  <2>7. PICK l : log' = [log EXCEPT ![n] = l]
    BY <1>8, Zenon
  <2>8. l \in Seq(Entry) /\ Extends(log[n], l)
    BY <1>1, <2>7, StepExtends, Zenon
  <2>9. AllFrom(l, new)
    BY <1>2, <2>2, <2>8, CommitsFrom, Zenon
  <2>10. Step(n, t, l, sent)
    BY <1>3, <2>4, <2>7, Received, Zenon DEF Step
  <2>11. Grows(n, l) /\ raft[n].current_term = 1 /\ raft[n].current_state # "candidate"
    BY <1>2, <1>8 DEF Grows, Leads
  <2>12. committed' = committed \cup new /\ \A y \in sent : Plain(n, t, l, y)
    BY <1>8, Zenon
  <2> HIDE DEF sent, new
  <2> QED BY <1>1, <2>6, <2>9, <2>10, <2>11, <2>12, AlikeStep, Zenon DEF AllFrom
<1>9. ASSUME s.current_state = "leader", some PROVE FirstTerm'
  <2>1. PICK index \in last_majority_replicated_log_index(match, log[n]) :
            commits_to(IF index <= size(log[n]) THEN index ELSE 0)
    BY <1>9, Zenon
  <2>2. PICK upto : upto = IF index <= size(log[n]) THEN index ELSE 0
    BY Zenon
  <2>3. commits_to(upto)
    BY <2>1, <2>2, Zenon
  <2> HIDE DEF commits_to
  <2> QED BY <1>8, <1>9, <2>2, <2>3, Zenon
<1> HIDE DEF some
<1> QED BY <1>4, <1>6, <1>7, <1>9, Zenon

-----------------------------------------------------------------------------
(* The first term *)

LEMMA HandledFirst ==
    ASSUME Stage, NEW n, NEW m \in DOMAIN network, Handled(n, m), handle_ws_raft_messages(n, m)
    PROVE  FirstTerm'
<1>1. CASE m.cmd = "get_peers" /\ handle_get_peers(n, m)
  BY <1>1, GetPeersFirst, Zenon
<1>2. CASE m.cmd = "get_peers_response" /\ handle_get_peers_response(n, m)
  <2>1. log' = log /\ committed' = committed
    BY <1>2, Zenon DEF handle_get_peers_response
  <2>2. CASE handle_get_peers_response_from_leader(n, m)
    BY <2>1, <2>2, LeaderAnswerFirst, Zenon
  <2>3. CASE handle_get_peers_response_from_follower_or_candidate(n, m)
    BY <2>1, <2>3, FollowerAnswerFirst, Zenon
  <2> QED BY <1>2, <2>2, <2>3, Zenon DEF handle_get_peers_response
<1>3. CASE m.cmd = "add_peer" /\ handle_add_peer(n, m)
  BY <1>3, AddSelfFirst, Zenon
<1>4. CASE m.cmd = "add_peer_response" /\ handle_add_peer_response(n, m)
  BY <1>4, AddedFirst, Zenon
<1>5. CASE network' = exchange(m, {}) /\ raft' = raft /\ log' = log /\ committed' = committed
  <2>1. n \in Peers
    BY Zenon DEF Handled
  <2> QED BY <1>5, <2>1, IgnoredFirst, Zenon
<1>6. CASE /\ in_quorum(log[n], m.from) /\ m.term = raft[n].current_term
           /\ \/ m.cmd = "RequestVote" /\ handle_ws_request_vote(n, m)
              \/ m.cmd = "AppendEntries" /\ handle_ws_append_entries(n, m)
              \/ m.cmd = "AppendEntriesReply" /\ handle_request_append_entries_response(n, m)
              \/ m.cmd = "ResponseVote" /\ handle_request_vote_response(n, m)
  BY <1>6, VoteFirst, EntriesFirst, AppendedFirst, CountFirst, Zenon
<1>7. CASE /\ m.cmd \notin JoinCommands /\ in_quorum(log[n], m.from)
           /\ m.term > raft[n].current_term /\ handle_later_term(n, m)
  BY <1>7, LaterFirst, Zenon
<1>8. CASE m.cmd \notin JoinCommands /\ m.term < raft[n].current_term
  BY <1>8, EarlierFirst, Zenon
<1> QED BY <1>1, <1>2, <1>3, <1>4, <1>5, <1>6, <1>7, <1>8, Zenon DEF handle_ws_raft_messages

\* The condition is a matter of two counters, that only grow.
LEMMA CountersGrow ==
    ASSUME [Next]_vars, highest_term \in Nat, restarts \in Nat
    PROVE  /\ highest_term' \in Nat /\ restarts' \in Nat
           /\ highest_term <= highest_term' /\ restarts <= restarts'
           /\ \A n \in Peers : restart(n) => restarts' # 0
<1>1. ASSUME highest_term' = highest_term, restarts' = restarts
      PROVE  /\ highest_term' \in Nat /\ restarts' \in Nat
             /\ highest_term <= highest_term' /\ restarts <= restarts'
  BY <1>1
<1>2. ASSUME NEW m \in DOMAIN network, handle_ws_raft_messages(m.dest, m) \/ lost(m)
      PROVE  highest_term' = highest_term /\ restarts' = restarts
  BY <1>2, Zenon DEF handle_ws_raft_messages, lost
<1>3. ASSUME NEW n \in Peers,
             \/ overtaken(n) \/ handle_election_timeout_cancelled(n)
             \/ handle_heartbeat_timeout(n)
             \/ \E v \in Values : append_log(n, v)
             \/ \E p \in AddedPeers : handle_client_add_peer(n, p)
             \/ \E p \in RemovedPeers : handle_remove_peer(n, p)
      PROVE  highest_term' = highest_term /\ restarts' = restarts
  BY <1>3, Zenon DEF overtaken, handle_election_timeout_cancelled, handle_heartbeat_timeout,
       append_log, handle_client_add_peer, handle_remove_peer
<1>4. ASSUME NEW n \in Peers, handle_election_timeout(n)
      PROVE  /\ highest_term' \in Nat /\ restarts' \in Nat
             /\ highest_term <= highest_term' /\ restarts <= restarts'
  <2>1. restarts' = restarts
        /\ (highest_term' = highest_term \/ highest_term' = highest_term + 1)
    BY <1>4, Zenon DEF handle_election_timeout
  <2> QED BY <2>1
<1>5. ASSUME NEW n \in Peers, restart(n)
      PROVE  /\ highest_term' \in Nat /\ restarts' \in Nat
             /\ highest_term <= highest_term' /\ restarts <= restarts' /\ restarts' # 0
  <2>1. restarts' = restarts + 1 /\ highest_term' = highest_term
    BY <1>5, Zenon DEF restart
  <2> QED BY <2>1
<1>6. UNCHANGED vars => highest_term' = highest_term /\ restarts' = restarts
  BY Zenon DEF vars
<1> QED BY <1>1, <1>2, <1>3, <1>4, <1>5, <1>6, Zenon DEF Next

LEMMA FirstTermInit ==
    ASSUME Init, Invariant
    PROVE  FirstTermInvariant
<1>1. \A n \in Peers : /\ raft[n].current_state = "follower" /\ raft[n].current_term = 0
                       /\ raft[n].yes_votes = {} /\ ~Beats(raft[n])
  <2> SUFFICES ASSUME NEW n \in Peers
               PROVE  /\ raft[n].current_state = "follower" /\ raft[n].current_term = 0
                      /\ raft[n].yes_votes = {} /\ ~Beats(raft[n])
    BY Zenon
  <2>1. raft[n] = started(n)
    BY Zenon DEF Init
  <2> QED BY <2>1 DEF started, Beats
<1>2. \A n \in Peers : /\ Len(log[n]) = 1 /\ log[n][1] = single_quorum(InitialPeers \cup {n}, 0)
  <2> SUFFICES ASSUME NEW n \in Peers
               PROVE  Len(log[n]) = 1 /\ log[n][1] = single_quorum(InitialPeers \cup {n}, 0)
    BY Zenon
  <2>1. PICK e : e = single_quorum(InitialPeers \cup {n}, 0)
    BY Zenon
  <2>2. log[n] = <<e>>
    BY <2>1, Zenon DEF Init, create_dat_file
  <2> QED BY <2>1, <2>2
<1>3. DOMAIN network = {} /\ committed = {} /\ highest_term = 0 /\ restarts = 0
  BY Zenon DEF Init
<1>4. \A n \in Peers : Begun(n, raft[n], log[n]) /\ raft[n].current_term <= highest_term
  BY <1>1, <1>2, <1>3 DEF Begun
<1>5. \A v, c \in Peers : ~Voted(v, c)
  BY <1>1, <1>3, Zenon DEF Voted
<1>6. \A n \in Peers : ~(Len(log[n]) > 1)
  <2>1. ~(1 > 1)
    OBVIOUS
  <2> QED BY <1>2, <2>1, Zenon
<1>7. FirstTerm
  BY <1>3, <1>4, <1>5, <1>6, Zenon DEF FirstTerm, OnceVoted
<1> QED BY <1>3, <1>7 DEF FirstTermInvariant

LEMMA FirstTermNext ==
    ASSUME MajoritiesMeet, Invariant, Invariant', Grown(log, log'), [Next]_vars,
           FirstTermInvariant
    PROVE  FirstTermInvariant'
<1>1. /\ highest_term \in Nat /\ restarts \in Nat
      /\ highest_term' \in Nat /\ restarts' \in Nat
      /\ highest_term <= highest_term' /\ restarts <= restarts'
      /\ \A n \in Peers : restart(n) => restarts' # 0
  BY CountersGrow, Zenon DEF FirstTermInvariant
<1> SUFFICES ASSUME First' PROVE FirstTerm'
  BY <1>1, Zenon DEF FirstTermInvariant
<1>2. highest_term' <= 1 /\ restarts' = 0
  BY Zenon DEF First
<1>3. First
  BY <1>1, <1>2 DEF First
<1>4. Stage
  BY <1>1, <1>3, Zenon DEF Stage, FirstTermInvariant
<1>5. ASSUME NEW m \in DOMAIN network, handle_ws_raft_messages(m.dest, m) PROVE FirstTerm'
  <2>1. Handled(m.dest, m)
    BY Zenon DEF Invariant, Handled, GoodMessage
  <2> QED BY <1>4, <1>5, <2>1, HandledFirst, Zenon
<1>6. ASSUME NEW m \in DOMAIN network, lost(m) PROVE FirstTerm'
  BY <1>4, <1>6, LostFirst, Zenon
<1>7. ASSUME NEW n \in Peers, NEW v, append_log(n, v) \/ handle_remove_peer(n, v)
      PROVE  FirstTerm'
  BY <1>4, <1>7, ClientFirst, Zenon
<1>8. ASSUME NEW n \in Peers, NEW p \in AddedPeers, handle_client_add_peer(n, p)
      PROVE  FirstTerm'
  BY <1>4, <1>8, ClientAddFirst, Zenon
<1>9. ASSUME NEW n \in Peers,
             \/ overtaken(n) \/ handle_election_timeout(n)
             \/ handle_election_timeout_cancelled(n) \/ handle_heartbeat_timeout(n)
      PROVE  FirstTerm'
  BY <1>4, <1>9, OvertakenFirst, ElectionFirst, CancelledFirst, HeartbeatFirst, Zenon
<1>10. ASSUME UNCHANGED vars PROVE FirstTerm'
  <2>1. /\ raft' = raft /\ log' = log /\ network' = network /\ committed' = committed
        /\ highest_term' = highest_term
    BY <1>10, Zenon DEF vars
  <2>2. FirstTerm
    BY <1>4, Zenon DEF Stage
  <2>3. \A n \in Peers : Begun(n, raft'[n], log'[n]) /\ raft'[n].current_term <= highest_term'
    BY <2>1, <2>2, Zenon DEF FirstTerm
  <2>4. \A m \in DOMAIN network' : Timely(raft'[m.from], log'[m.from], m)
    BY <2>1, <2>2, Zenon DEF FirstTerm
  <2>5. OnceVoted'
    <3>1. \A v, c \in Peers : Voted(v, c)' => Voted(v, c)
      BY <2>1, Zenon DEF Voted, Grants
    <3>2. \A v \in Peers : HasVoted(raft[v]) => HasVoted(raft[v])'
      BY <2>1, Zenon DEF HasVoted
    <3> QED BY <2>2, <3>1, <3>2, Zenon DEF FirstTerm, OnceVoted
  <2>6. \A n \in Peers : Len(log'[n]) > 1 => \E p \in Peers : Leads(p)' /\ Follows(n, p)'
    BY <2>1, <2>2, Zenon DEF FirstTerm, Leads, Follows
  <2>7. \A c \in committed' : \E p \in Peers : Leads(p)' /\ From(c, p)'
    BY <2>1, <2>2, Zenon DEF FirstTerm, Leads, From
  <2> QED BY <2>3, <2>4, <2>5, <2>6, <2>7, Zenon DEF FirstTerm, Begun, Beats, Elected, Timely
<1> QED BY <1>1, <1>2, <1>5, <1>6, <1>7, <1>8, <1>9, <1>10, Zenon DEF Next

LEMMA FirstTermImplies ==
    ASSUME MajoritiesMeet, Invariant, FirstTermInvariant
    PROVE  FirstTermAgrees
<1> SUFFICES ASSUME First PROVE /\ \A n, p \in Peers : Leads(n) /\ Leads(p) => n = p
                                /\ \A c, d \in committed : c[2] = d[2] => c[3] = d[3]
  BY Zenon DEF FirstTermAgrees, First, Leads
<1>1. FirstTerm
  BY Zenon DEF FirstTermInvariant
<1>2. \A n, p \in Peers : Leads(n) /\ Leads(p) => n = p
  BY <1>1, OneLeader, Zenon
<1>3. ASSUME NEW c \in committed, NEW d \in committed, c[2] = d[2] PROVE c[3] = d[3]
  <2>1. PICK p \in Peers : Leads(p) /\ From(c, p)
    BY <1>1, Zenon DEF FirstTerm
  <2>2. PICK q \in Peers : Leads(q) /\ From(d, q)
    BY <1>1, Zenon DEF FirstTerm
  <2>3. p = q
    BY <1>2, <2>1, <2>2, Zenon
  <2> QED BY <1>3, <2>1, <2>2, <2>3, Zenon DEF From
<1> QED BY <1>2, <1>3, Zenon

-----------------------------------------------------------------------------
(* What a leader commits *)

\* True of finite sets, too: all but the first half, and one of that half, are a majority.
OneMoreThanHalf ==
    \A q \in SUBSET Peers : \A low, holders \in SUBSET q : \A n \in holders :
        \/ Cardinality(q) <= 1
        \/ /\ n \in low /\ q \ low \subseteq holders
           /\ Cardinality(low) <= (Cardinality(q) + 1) \div 2
        => 2 * Cardinality(holders) > Cardinality(q)

\* Only a leader that hears of an entry commits as a leader.
LEMMA LeaderCommits ==
    ASSUME Invariant, [Next]_vars, NEW c \in committed' \ committed, Leads(c[1])
    PROVE  \E m \in DOMAIN network :
               /\ Handled(c[1], m) /\ m.cmd = "AppendEntriesReply"
               /\ handle_request_append_entries_response(c[1], m)
<1>1. committed' # committed
  BY Zenon
<1>2. ~UNCHANGED vars /\ \A n \in Peers : ~restart(n)
  BY <1>1, Zenon DEF vars, restart
<1>3. \A n \in Peers : ~overtaken(n) /\ ~handle_election_timeout(n)
                       /\ ~handle_election_timeout_cancelled(n)
  BY <1>1, Zenon DEF overtaken, handle_election_timeout, handle_election_timeout_cancelled
<1>4. \A n \in Peers : /\ ~handle_heartbeat_timeout(n)
                       /\ \A v : ~append_log(n, v) /\ ~handle_remove_peer(n, v)
                       /\ \A p : ~handle_client_add_peer(n, p)
  BY <1>1, Zenon DEF handle_heartbeat_timeout, append_log, handle_client_add_peer,
                     handle_remove_peer
<1>5. \A m \in DOMAIN network : ~lost(m)
  BY <1>1, Zenon DEF lost
<1>6. PICK m \in DOMAIN network : handle_ws_raft_messages(m.dest, m)
  BY <1>2, <1>3, <1>4, <1>5, Zenon DEF Next
<1>7. PICK n : n = m.dest
  BY Zenon
<1>8. ~handle_get_peers(n, m) /\ ~handle_get_peers_response(n, m)
  BY <1>1, Zenon DEF handle_get_peers, handle_get_peers_response
<1>9. ~handle_add_peer(n, m) /\ ~handle_add_peer_response(n, m)
  BY <1>1, Zenon DEF handle_add_peer, handle_add_peer_response
<1>10. ~handle_ws_request_vote(n, m) /\ ~handle_request_vote_response(n, m)
  BY <1>1, Zenon DEF handle_ws_request_vote, handle_request_vote_response
<1>11. ~handle_later_term(n, m) /\ ~handle_earlier_term(n, m)
  BY <1>1, Zenon DEF handle_later_term, handle_earlier_term
<1>12. \/ m.cmd = "AppendEntries" /\ handle_ws_append_entries(n, m)
       \/ m.cmd = "AppendEntriesReply" /\ handle_request_append_entries_response(n, m)
  BY <1>1, <1>6, <1>7, <1>8, <1>9, <1>10, <1>11, Zenon DEF handle_ws_raft_messages
<1>13. Handled(n, m)
  BY <1>7, Zenon DEF Invariant, Handled, GoodMessage
<1>14. \A l, from, upto : c \in commits(n, l, from, upto) => c[1] = n
  BY DEF commits
<1>15. CASE handle_ws_append_entries(n, m)
  <2>1. PICK l, from, upto : committed' = committed \cup commits(n, l, from, upto)
    BY <1>1, <1>15, Zenon DEF handle_ws_append_entries
  <2>2. [raft[n] EXCEPT !.in_a_swarm = TRUE].current_state = "follower"
    BY <1>1, <1>15, Zenon DEF handle_ws_append_entries
  <2>3. raft[n] \in State
    BY <1>13, Known, Zenon DEF Handled
  <2>4. raft[n].current_state = "follower"
    BY <2>2, <2>3, Zenon DEF State
  <2>5. c[1] = n
    BY <1>14, <2>1, Zenon
  <2> QED BY <2>4, <2>5, Zenon DEF Leads
<1>16. CASE m.cmd = "AppendEntriesReply" /\ handle_request_append_entries_response(n, m)
  <2>1. PICK l, from, upto : committed' = committed \cup commits(n, l, from, upto)
    BY <1>1, <1>16, Zenon DEF handle_request_append_entries_response
  <2>2. c[1] = n
    BY <1>14, <2>1, Zenon
  <2> QED BY <1>13, <1>16, <2>2, Zenon
<1> QED BY <1>12, <1>15, <1>16, Zenon

\* For every quorum there is an index beyond the entry, such that whoever has got that
\* far is not among the first half.
LEMMA CommitIndices ==
    ASSUME Invariant, FirstTerm, NEW n, Leads(n), NEW m \in DOMAIN network, Handled(n, m),
           m.cmd = "AppendEntriesReply", handle_request_append_entries_response(n, m),
           NEW c \in committed' \ committed, NEW q \in get_active_quorum(log[n])
    PROVE  \E match \in Match, v \in Nat :
               /\ GoodMatch(log, match) /\ at(match, n) <= 1
               /\ v \in medians(match, q, log[n])
               /\ c[2] \in 1..(Len(log[n]) - 1) /\ c[3] = log[n][c[2] + 1] /\ c[2] < v
<1> DEFINE s == raft[n]
           match == [touch(s.peer_match_index, {m.from}) EXCEPT ![m.from] = m.match_index]
           last == last_quorum_entry(log[n])
<1>1. /\ n \in Peers /\ m.from \in Peers /\ m.match_index \in Nat
      /\ m.match_index <= Len(log[m.from]) /\ m.from # n
  <2>1. Timely(raft[m.from], log[m.from], m)
    BY Zenon DEF FirstTerm
  <2> QED BY <2>1, Zenon DEF Handled, GoodMessage, Timely, JoinCommands
<1>2. /\ log \in Logs /\ log[n] \in Seq(Entry) /\ Len(log[n]) \in Nat /\ s \in State
      /\ GoodMatch(log, s.peer_match_index)
  BY <1>1, Known, Zenon DEF GoodState
<1>3. /\ s.commit_index \in Nat \ {0} /\ s.peer_match_index \in Match
      /\ at(s.peer_match_index, n) <= 1
  BY <1>1, <1>2, Zenon DEF State, FirstTerm, Begun, Elected, Leads
<1>4. match \in Match /\ GoodMatch(log, match)
  BY <1>1, <1>2, <1>3, SetGood, Zenon
<1>5. at(match, n) <= 1
  <2>1. match = [touch(s.peer_match_index, {m.from}) EXCEPT ![m.from] = m.match_index]
    BY Zenon
  <2> HIDE DEF match
  <2>2. Matched(n, s.peer_match_index, match)
    BY <1>1, <1>3, <2>1, SetMatched, Zenon
  <2> QED BY <1>3, <2>2, Zenon DEF Matched
<1>6. PICK index \in last_majority_replicated_log_index(match, log[n]) :
          committed' = committed \cup
              commits(n, log[n], s.commit_index, IF index <= size(log[n]) THEN index ELSE 0)
  <2>1. committed' # committed
    BY Zenon
  <2> QED BY <2>1, Zenon DEF handle_request_append_entries_response
<1> HIDE DEF match
<1>7. PICK upto : upto = IF index <= size(log[n]) THEN index ELSE 0
  BY Zenon
<1>8. c \in commits(n, log[n], s.commit_index, upto)
  BY <1>6, <1>7, Zenon
<1>9. index \in Nat
  BY <1>2, <1>4, IndexType, Zenon
<1>10. upto \in Nat /\ upto <= Len(log[n]) /\ upto <= index
  BY <1>2, <1>7, <1>9 DEF size
<1>11. c[2] \in 1..(Len(log[n]) - 1) /\ c[3] = log[n][c[2] + 1] /\ c[2] < index
  <2>1. PICK i \in s.commit_index..(upto - 1) : c = <<n, i, log[n][i + 1]>>
    BY <1>8, Zenon DEF commits, entry_at
  <2>2. c[2] = i /\ c[3] = log[n][i + 1]
    BY <2>1
  <2>3. i \in 1..(Len(log[n]) - 1) /\ i < index
    BY <1>2, <1>3, <1>9, <1>10
  <2> QED BY <2>2, <2>3, Zenon
<1>12. PICK v \in medians(match, q, log[n]) : v \in Nat /\ index <= v
  <2>1. PICK a \in medians(match, last.old, log[n]), b \in medians(match, last.new, log[n]) :
            index = min(a, b)
    BY DEF last_majority_replicated_log_index
  <2>2. a \in Nat /\ b \in Nat
    <3>1. \A p : at(match, p) \in Nat
      BY <1>4, MatchType, Zenon DEF at
    <3>2. \A S : medians(match, S, log[n]) \subseteq Nat
      BY <1>2, <3>1 DEF medians, size
    <3> QED BY <2>1, <3>2, Zenon
  <2>3. index <= a /\ index <= b
    BY <2>1, <2>2 DEF min
  <2>4. q = last.old \/ q = last.new
    BY Zenon DEF get_active_quorum
  <2> QED BY <2>1, <2>2, <2>3, <2>4, Zenon
<1>13. c[2] < v
  <2>1. PICK i : i = c[2]
    BY Zenon
  <2>2. i \in 1..(Len(log[n]) - 1) /\ i < index
    BY <1>11, <2>1, Zenon
  <2>3. i < v
    BY <1>2, <1>9, <1>12, <2>2
  <2> QED BY <2>1, <2>3, Zenon
<1> QED BY <1>4, <1>5, <1>11, <1>12, <1>13, Zenon

LEMMA MajorityStep ==
    ASSUME MajoritiesMeet, OneMoreThanHalf, Invariant, FirstTerm, [Next]_vars,
           NEW c \in committed' \ committed, Leads(c[1]),
           NEW q \in get_active_quorum(log[c[1]]), c[1] \in q
    PROVE  2 * Cardinality({p \in q : size(log[p]) > c[2] /\ entry_at(log[p], c[2]) = c[3]})
               > Cardinality(q)
<1> DEFINE holders == {p \in q : size(log[p]) > c[2] /\ entry_at(log[p], c[2]) = c[3]}
<1>1. PICK n : n = c[1]
  BY Zenon
<1>2. PICK m \in DOMAIN network : /\ Handled(n, m) /\ m.cmd = "AppendEntriesReply"
                                  /\ handle_request_append_entries_response(n, m)
  BY <1>1, LeaderCommits, Zenon
<1>3. PICK match \in Match, v \in Nat :
          /\ GoodMatch(log, match) /\ at(match, n) <= 1
          /\ v \in medians(match, q, log[n])
          /\ c[2] \in 1..(Len(log[n]) - 1) /\ c[3] = log[n][c[2] + 1] /\ c[2] < v
  BY <1>1, <1>2, CommitIndices, Zenon
<1>4. n \in Peers /\ Leads(n) /\ n \in q
  BY <1>1, <1>2, Zenon DEF Handled
<1>5. /\ log \in Logs /\ log[n] \in Seq(Entry) /\ Len(log[n]) \in Nat /\ GoodLog(log, n)
  BY <1>4, Known, Zenon
<1>6. q \in SUBSET Peers
  <2>1. q \subseteq get_all_peers(log[n])
    BY <1>1, Zenon DEF get_all_peers
  <2> QED BY <1>4, <1>5, <2>1, QuorumRecorded, Zenon
<1>7. PICK i, e : i = c[2] /\ e = c[3] /\ i \in Nat
  BY <1>3
<1>8. i \in 1..(Len(log[n]) - 1) /\ e = log[n][i + 1] /\ i < v
  BY <1>3, <1>7, Zenon
<1>9. n \in holders
  <2>1. Len(log[n]) > i
    BY <1>5, <1>8
  <2> QED BY <1>4, <1>7, <1>8, <2>1, Zenon DEF size, entry_at
<1>10. ASSUME NEW p \in q, ~(at(match, p) < v) PROVE p \in holders
  <2>1. p \in Peers /\ log[p] \in Seq(Entry) /\ Len(log[p]) \in Nat
    BY <1>6, Known, Zenon
  <2>2. PICK k, h : k = log[p] /\ h = log[n]
    BY Zenon
  <2>3. PICK j : j = at(match, p) /\ j \in Nat /\ j <= Len(k)
    <3>1. at(match, p) \in Nat /\ at(match, p) <= Len(log[p])
      BY <1>3, <2>1, MatchType DEF at, GoodMatch
    <3> QED BY <2>2, <3>1, Zenon
  <2>4. ~(j < v)
    BY <1>10, <2>3, Zenon
  <2>5. Len(k) > i /\ i + 1 \in 2..Len(k) /\ Len(k) > 1
    BY <1>8, <2>1, <2>2, <2>3, <2>4
  <2>6. PICK r \in Peers : Leads(r) /\ Follows(p, r)
    BY <2>1, <2>2, <2>5, Zenon DEF FirstTerm
  <2>7. r = n
    BY <1>4, <2>6, OneLeader, Zenon
  <2>8. k[i + 1] = e
    BY <1>8, <2>2, <2>5, <2>6, <2>7, Zenon DEF Follows
  <2> QED BY <1>7, <2>2, <2>5, <2>8, Zenon DEF size, entry_at
<1> DEFINE low == {p \in q : at(match, p) < v}
<1>11. CASE Cardinality(q) <= 1
  <2>1. holders \in SUBSET q
    BY Zenon
  <2> HIDE DEF low, holders
  <2>2. 2 * Cardinality(holders) > Cardinality(q)
    BY <1>6, <1>9, <1>11, <2>1, Zenon DEF OneMoreThanHalf
  <2> QED BY <2>2, Zenon DEF holders
<1>12. CASE ~(Cardinality(q) <= 1)
  <2>1. Cardinality(low) <= (Cardinality(q) + 1) \div 2
    BY <1>3, <1>12, Zenon DEF medians
  <2>2. n \in low
    <3>1. PICK j : j = at(match, n) /\ j <= 1
      BY <1>3, Zenon
    <3>2. j \in Nat
      BY <1>3, <3>1, MatchType DEF at
    <3>3. j < v
      BY <1>8, <3>1, <3>2, <1>5
    <3> QED BY <1>4, <3>1, <3>3, Zenon
  <2>3. q \ low \subseteq holders /\ low \in SUBSET q /\ holders \in SUBSET q
    BY <1>10, Zenon
  <2> HIDE DEF low, holders
  <2>4. 2 * Cardinality(holders) > Cardinality(q)
    BY <1>6, <1>9, <2>1, <2>2, <2>3, Zenon DEF OneMoreThanHalf
  <2> QED BY <2>4, Zenon DEF holders
<1> QED BY <1>11, <1>12, Zenon

-----------------------------------------------------------------------------
(* Majorities *)

INSTANCE FiniteSetTheorems

LEMMA MajoritiesDoMeet == MajoritiesMeet
<1> SUFFICES ASSUME NEW S \in SUBSET InitialPeers, NEW T \in SUBSET InitialPeers,
                    2 * Cardinality(S) > Cardinality(InitialPeers),
                    2 * Cardinality(T) > Cardinality(InitialPeers)
             PROVE  S \cap T # {}
  BY Zenon DEF MajoritiesMeet
<1>1. IsFiniteSet(InitialPeers)
  BY RaftAssumption, FS_Subset, Zenon
<1>2. IsFiniteSet(S) /\ IsFiniteSet(T)
  BY <1>1, FS_Subset, Zenon
<1>3. Cardinality(InitialPeers) \in Nat /\ Cardinality(S) \in Nat /\ Cardinality(T) \in Nat
  BY <1>1, <1>2, FS_CardinalityType, Zenon
<1>4. Cardinality(S) + Cardinality(T) > Cardinality(InitialPeers)
  BY <1>3
<1> QED BY <1>1, <1>4, FS_MajoritiesIntersect, Zenon

LEMMA OneMoreIsMajority == OneMoreThanHalf
<1> SUFFICES ASSUME NEW q \in SUBSET Peers, NEW low \in SUBSET q, NEW holders \in SUBSET q,
                    NEW n \in holders,
                    \/ Cardinality(q) <= 1
                    \/ /\ n \in low /\ q \ low \subseteq holders
                       /\ Cardinality(low) <= (Cardinality(q) + 1) \div 2
             PROVE  2 * Cardinality(holders) > Cardinality(q)
  BY Zenon DEF OneMoreThanHalf
<1>1. IsFiniteSet(q)
  BY RaftAssumption, FS_Subset, Zenon
<1>2. IsFiniteSet(low) /\ IsFiniteSet(holders)
  BY <1>1, FS_Subset, Zenon
<1>3. Cardinality(q) \in Nat /\ Cardinality(low) \in Nat /\ Cardinality(holders) \in Nat
  BY <1>1, <1>2, FS_CardinalityType, Zenon
<1>4. CASE Cardinality(q) <= 1
  <2>1. Cardinality(holders) # 0
    BY <1>2, FS_EmptySet, Zenon
  <2> QED BY <1>3, <1>4, <2>1
<1>5. CASE /\ n \in low /\ q \ low \subseteq holders
           /\ Cardinality(low) <= (Cardinality(q) + 1) \div 2
  <2> DEFINE rest == q \ low
  <2>1. IsFiniteSet(rest) /\ Cardinality(rest) = Cardinality(q) - Cardinality(q \cap low)
    BY <1>1, FS_Difference, Zenon
  <2>2. q \cap low = low /\ n \notin rest /\ rest \cup {n} \in SUBSET holders
    BY <1>5, Zenon
  <2>3. Cardinality(rest \cup {n}) = Cardinality(rest) + 1
    BY <2>1, <2>2, FS_AddElement, Zenon
  <2>4. Cardinality(rest \cup {n}) <= Cardinality(holders)
    BY <1>2, <2>2, FS_Subset, Zenon
  <2>5. Cardinality(q) - Cardinality(low) + 1 <= Cardinality(holders)
    BY <2>1, <2>2, <2>3, <2>4, Zenon
  <2>6. Cardinality(low) <= (Cardinality(q) + 1) \div 2
    BY <1>5, Zenon
  <2> QED BY <1>3, <2>5, <2>6
<1> QED BY <1>4, <1>5, Zenon

-----------------------------------------------------------------------------
(* The first term *)

LEMMA FirstTermHolds ==
    Spec => []FirstTermInvariant
<1>1. Init => FirstTermInvariant
  BY InvariantInit, FirstTermInit, Zenon
<1>2. Invariant /\ FirstTermInvariant /\ [Next]_vars => FirstTermInvariant'
  BY MajoritiesDoMeet, InvariantNext, FirstTermNext, Zenon
<1> QED BY <1>1, <1>2, InvariantHolds, PTL DEF Spec

\* handle_ws_request_vote grants one vote, is_majority counts the peers of the quorum of
\* a candidate, and whoever has been sent a log does not stand for election in the same
\* term: until somebody counts a second term or loses its vote in a restart, there is at
\* most one leader, and what perform_commit has applied at one index is the same
\* everywhere, for any peers, with quorums that change, messages that are lost or
\* reordered, and timer callbacks that run late.
THEOREM FirstTermAlwaysAgrees ==
    Spec => []FirstTermAgrees
<1>1. Invariant /\ FirstTermInvariant => FirstTermAgrees
  BY MajoritiesDoMeet, FirstTermImplies, Zenon
<1> QED BY <1>1, InvariantHolds, FirstTermHolds, PTL

\* What handle_request_append_entries_response takes from the sorted match indices is one
\* short of a majority; the leader, whose own match index it never raises, makes up for
\* it: in the first term, a leader that is in the quorum commits what a majority of each
\* active quorum has.
THEOREM FirstTermCommitsMajority ==
    Spec => FirstTermMajority
<1>1. Invariant /\ FirstTermInvariant /\ [Next]_vars =>
          (highest_term <= 1 /\ restarts = 0 =>
              \A c \in committed' \ committed : raft[c[1]].current_state = "leader" =>
                  \A q \in get_active_quorum(log[c[1]]) : c[1] \in q =>
                      2 * Cardinality({p \in q : size(log[p]) > c[2]
                                                   /\ entry_at(log[p], c[2]) = c[3]})
                          > Cardinality(q))
  BY MajoritiesDoMeet, OneMoreIsMajority, MajorityStep, Zenon
       DEF FirstTermInvariant, First, Leads
<1> QED BY <1>1, InvariantHolds, FirstTermHolds, PTL DEF Spec, FirstTermMajority

=============================================================================
