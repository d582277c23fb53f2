------------------------------- MODULE MCPbft -------------------------------
(* Instances of Pbft for TLC. *)
EXTENDS Pbft, TLC

\* The peers but the primary and the ones set apart in the cfg are alike.
Symmetry == Permutations(Peers \ ({Primary} \cup Down \cup MayRestart))
                \cup Permutations(Requests \ ConfigRequests)

(***************************************************************************)
(* Action constraints: one schedule of every class of schedules that       *)
(* differ in nothing but the order of steps that commute.                  *)
(***************************************************************************)

\* A prepare or commit is delivered when it can make a difference, the peer's own
\* first; until then it counts as late, afterwards as lost.
timely(m) ==
    LET op == operations[m.dest][m.sequence][m.request]
        own_first(seen) == m.sender = m.dest \/ m.dest \in seen
    IN  CASE m.type = "prepare" -> /\ op.state = "prepare" /\ op.preprepare_seen
                                   /\ own_first(op.prepares_seen)
          [] m.type = "commit" -> op.state = "commit" /\ own_first(op.commits_seen)
          [] OTHER -> TRUE

TimelyDelivery == \A m \in network \ network' : timely(m)

\* The same for the prepares of the backups alone: commits, and whatever the primary
\* gets, come at any time.
TimelyPrepares ==
    \A m \in network \ network' : m.dest # Primary /\ m.type = "prepare" => timely(m)

\* A peer handles its messages to itself before those of others.
LoopbackFirst ==
    \A m \in network \ network' : m.sender # m.dest =>
        \A own \in network : own.sender = own.dest => own.dest # m.dest

\* Posted apply_operation calls run at once, and so do execute handlers that do
\* nothing, those for a number without a checkpoint.
ServiceFirst ==
    LET idle_executes(n) == {s \in posted_executes[n] : s % CHECKPOINT_INTERVAL # 0}
        waiting == {n \in Peers : posted_applies[n] # {} \/ idle_executes(n) # {}}
    IN  waiting # {} => \E n \in waiting : \/ posted_applies'[n] # posted_applies[n]
                                           \/ ~ idle_executes(n) \subseteq posted_executes'[n]

\* So do all posted calls.
PostedFirst ==
    LET waiting == {n \in Peers : posted_applies[n] # {} \/ posted_executes[n] # {}}
    IN  waiting # {} => \E n \in waiting : \/ posted_applies'[n] # posted_applies[n]
                                           \/ posted_executes'[n] # posted_executes[n]
=============================================================================
