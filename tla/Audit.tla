-------------------------------- MODULE Audit --------------------------------
(***************************************************************************)
(* audit/audit: one peer's record of what the swarm tells it, and its      *)
(* timers.  Raft and pbft send every peer who leads or is the primary, and *)
(* what they commit; audit reports a second leader, primary or commit for  *)
(* a number that has one, a leader that is silent and a leader that does   *)
(* not commit.                                                             *)
(*                                                                         *)
(* Messages are handled one at a time, under audit_lock.  The callbacks of *)
(* the timers take no lock and run on other threads: what handler and      *)
(* callback do to the same members is split into steps.  A callback whose  *)
(* timer has run out cannot be cancelled any more.  The errors, a list of  *)
(* strings that only tests read, are the history "reported".               *)
(***************************************************************************)
EXTENDS Naturals, FiniteSets, Functions

CONSTANTS Uuids,         \* of leaders and primaries
          Operations,    \* what is committed
          Numbers,       \* terms, views, indices and sequence numbers
          MaxLogIndex,   \* bound: the log index of a leader
          MaxClaims,     \* bound: different claims to a number, each made any number of times
          MaxWaits,      \* bound: async_waits on a timer whose callbacks have not ended
          mem_size,      \* entries that audit keeps of each kind
          Modes,         \* of TRUE and FALSE, the values use_pbft may have
          Nobody         \* last_leader at the start

ASSUME AuditAssumption ==
    /\ Numbers \subseteq Nat /\ IsFiniteSet(Numbers)
    /\ MaxLogIndex \in Nat /\ MaxClaims \in Nat /\ MaxWaits \in Nat
    /\ mem_size \in Nat \ {0}
    /\ Modes \subseteq BOOLEAN
    /\ Nobody \notin Uuids

VARIABLES use_pbft,
          recorded,                        \* [kind]: a map from numbers to values
          leader_alive_timer, leader_progress_timer,
          leader_stuck_count,              \* 0, or 1 for any more
          leader_has_uncommitted_entries,
          last_leader, last_leader_commit_index,
          handling,                        \* how far the handler of a status has come:
                                           \* Idle, or pc and what it still needs
          alive_callback,                  \* callbacks that have reported a silent leader and
                                           \* stopped the progress timer, and not gone on yet
          heard,                           \* history: <<kind, number, value>> handled
          reported,                        \* history: <<kind, number>> of conflicts
          races                            \* history: "overtaken", the callback has stopped
                                           \* the progress timer a handler had just started;
                                           \* "revived", it goes on although it was stopped

recordVars == <<recorded, heard, reported>>
progressVars == <<leader_progress_timer, leader_stuck_count>>
leaderVars == <<leader_has_uncommitted_entries, last_leader, last_leader_commit_index>>
vars == <<use_pbft, recordVars, leader_alive_timer, progressVars, leaderVars, handling,
          alive_callback, races>>

-----------------------------------------------------------------------------
(* What raft::notify_leader_status sends; the others are a number and a value. *)

LeaderStatus == {s \in [term : Numbers, leader : Uuids,
                        current_log_index : 0..MaxLogIndex,
                        current_commit_index : 0..MaxLogIndex] :
                    s.current_commit_index <= s.current_log_index}

Kinds == {"leader", "raft_commit", "primary", "pbft_commit"}
Idle == [pc |-> "idle"]

-----------------------------------------------------------------------------
(* What there is of a timer: async_waits that are waiting; callbacks that are due, as the    *)
(* timer has run out; and callbacks between expires_from_now and async_wait.  Where two      *)
(* threads start a timer, both may set its time before either waits, and it has two waits.   *)

\* cancel, and expires_from_now, which cancels as well.
cancelled(timer) == [waiting |-> 0, due |-> timer.due, arming |-> timer.arming]
\* async_wait
started(timer) == [waiting |-> timer.waiting + 1, due |-> timer.due, arming |-> timer.arming]
Stopped == [waiting |-> 0, due |-> 0, arming |-> 0]

\* leader_stuck_count goes with the progress timer.  A reset of a timer cancels it first,
\* and starts it in a second step.
clear_leader_progress_timer ==
    /\ leader_progress_timer' = cancelled(leader_progress_timer)
    /\ leader_stuck_count' = 0

Init ==
    /\ use_pbft \in Modes
    /\ recorded = [k \in Kinds |-> << >>]
    /\ leader_alive_timer = started(Stopped)
    /\ leader_progress_timer = Stopped
    /\ leader_stuck_count = 0
    /\ leader_has_uncommitted_entries = FALSE
    /\ last_leader = Nobody
    /\ last_leader_commit_index = 0
    /\ handling = Idle
    /\ alive_callback = 0
    /\ heard = {}
    /\ reported = {}
    /\ races = {}

-----------------------------------------------------------------------------
(* Records *)

\* Mutant: the highest numbers are dropped.
trim_highest(kind, map) ==
    IF kind \in {"primary", "pbft_commit"} THEN map
    ELSE Restrict(map, {n \in DOMAIN map :
             Cardinality({i \in DOMAIN map : i <= n}) <= mem_size})

\* The lowest numbers are dropped, of leaders and raft commits only.
highest(S) == {n \in S : Cardinality({i \in S : i >= n}) <= mem_size}

trim(kind, map) ==
    IF kind \in {"primary", "pbft_commit"} THEN map ELSE Restrict(map, highest(DOMAIN map))

\* The first value of a number is kept, another one reported.
record(kind, n, v) ==
    LET map == recorded[kind]
    IN  /\ heard' = heard \cup {<<kind, n, v>>}
        /\ Cardinality(heard') <= MaxClaims
        /\ \/ /\ n \notin DOMAIN map
              /\ recorded' = [recorded EXCEPT ![kind] = trim(kind,
                     [i \in DOMAIN map \cup {n} |-> IF i = n THEN v ELSE map[i]])]
              /\ UNCHANGED reported
           \/ /\ n \in DOMAIN map
              /\ reported' = IF map[n] = v THEN reported ELSE reported \cup {<<kind, n>>}
              /\ UNCHANGED recorded

handle_raft_commit(n, v) ==
    /\ ~use_pbft /\ handling = Idle
    /\ record("raft_commit", n, v)
    /\ UNCHANGED <<use_pbft, leader_alive_timer, progressVars, leaderVars, handling,
                   alive_callback, races>>

handle_pbft_commit(n, v) ==
    /\ use_pbft /\ handling = Idle
    /\ record("pbft_commit", n, v)
    /\ UNCHANGED <<use_pbft, leader_alive_timer, progressVars, leaderVars, handling,
                   alive_callback, races>>

handle_primary_status(n, v) ==
    /\ use_pbft /\ handling = Idle
    /\ record("primary", n, v)
    /\ leader_alive_timer.due + leader_alive_timer.arming < MaxWaits
    /\ leader_alive_timer' = cancelled(leader_alive_timer)
    /\ handling' = [pc |-> "primary"]
    /\ UNCHANGED <<use_pbft, progressVars, leaderVars, alive_callback, races>>

reset_primary_alive_timer ==
    /\ handling.pc = "primary"
    /\ leader_alive_timer' = started(leader_alive_timer)
    /\ handling' = Idle
    /\ UNCHANGED <<use_pbft, recordVars, progressVars, leaderVars, alive_callback, races>>

-----------------------------------------------------------------------------
(* The status of a leader *)

handle_leader_status(s) ==
    /\ ~use_pbft /\ handling = Idle
    /\ record("leader", s.term, s.leader)
    /\ leader_alive_timer.due + leader_alive_timer.arming + alive_callback < MaxWaits
    /\ leader_alive_timer' = cancelled(leader_alive_timer)
    /\ handling' = [pc |-> "alive", leader |-> s.leader,
                    current_log_index |-> s.current_log_index,
                    current_commit_index |-> s.current_commit_index]
    /\ UNCHANGED <<use_pbft, progressVars, leaderVars, alive_callback, races>>

reset_leader_alive_timer ==
    /\ handling.pc = "alive"
    /\ leader_alive_timer' = started(leader_alive_timer)
    /\ handling' = [handling EXCEPT !.pc = "data"]
    /\ UNCHANGED <<use_pbft, recordVars, progressVars, leaderVars, alive_callback, races>>

all_committed(s) == s.current_commit_index = s.current_log_index

made_progress(s) == s.leader # last_leader
                        \/ s.current_commit_index > last_leader_commit_index

\* Mutant: any status of a leader with uncommitted entries will do.
got_uncommitted_any(s) == ~all_committed(s)

got_uncommitted(s) == ~all_committed(s) /\ ~leader_has_uncommitted_entries

\* What handle_leader_data and handle_leader_made_progress do to the timer; what
\* leader_has_uncommitted_entries will be is for a later step.
handle_leader_data ==
    /\ handling.pc = "data"
    /\ LET s == handling
           next(pc, flag) == [pc |-> pc, uncommitted |-> flag,
                              current_commit_index |-> s.current_commit_index]
       IN  /\ last_leader' = s.leader
           /\ \/ /\ made_progress(s) /\ all_committed(s)
                 /\ clear_leader_progress_timer
                 /\ races' = IF leader_progress_timer' = Stopped THEN races
                                                                ELSE races \cup {"revived"}
                 /\ handling' = next("flag", FALSE)
              \/ /\ \/ made_progress(s) /\ ~all_committed(s)
                    \/ ~made_progress(s) /\ got_uncommitted(s)
                 /\ leader_progress_timer.due + leader_progress_timer.arming < MaxWaits
                 /\ clear_leader_progress_timer
                 /\ handling' = next("start", TRUE)
                 /\ UNCHANGED races
              \/ /\ ~made_progress(s) /\ ~got_uncommitted(s)
                 /\ handling' = [pc |-> "index",
                                 current_commit_index |-> s.current_commit_index]
                 /\ UNCHANGED <<progressVars, races>>
    /\ UNCHANGED <<use_pbft, recordVars, leader_alive_timer, leader_has_uncommitted_entries,
                   last_leader_commit_index, alive_callback>>

reset_leader_progress_timer ==
    /\ handling.pc = "start"
    /\ leader_progress_timer' = started(leader_progress_timer)
    /\ handling' = [handling EXCEPT !.pc = "flag"]
    /\ UNCHANGED <<use_pbft, recordVars, leader_alive_timer, leader_stuck_count, leaderVars,
                   alive_callback, races>>

handle_leader_data_end ==
    /\ handling.pc \in {"flag", "index"}
    /\ leader_has_uncommitted_entries' =
           IF handling.pc = "flag" THEN handling.uncommitted ELSE leader_has_uncommitted_entries
    /\ last_leader_commit_index' = handling.current_commit_index
    /\ handling' = Idle
    /\ UNCHANGED <<use_pbft, recordVars, leader_alive_timer, progressVars, last_leader,
                   alive_callback, races>>

-----------------------------------------------------------------------------
(* Timers.  The callbacks run long before their timer can run out again. *)

run_out(timer) == timer.waiting > 0 /\ timer.due = 0 /\ timer.arming = 0
ran_out(timer) == [waiting |-> 0, due |-> timer.waiting, arming |-> 0]

\* A callback takes one that is due, and sets the time of the timer, as cancelled does ...
called(timer) == [waiting |-> timer.waiting, due |-> timer.due - 1, arming |-> timer.arming]
rearmed(timer) == [waiting |-> 0, due |-> timer.due, arming |-> timer.arming + 1]
\* ... and waits.
restarted(timer) == [waiting |-> timer.waiting + 1, due |-> timer.due,
                     arming |-> timer.arming - 1]

alive_timer_expires ==
    /\ run_out(leader_alive_timer) /\ alive_callback = 0
    /\ leader_alive_timer' = ran_out(leader_alive_timer)
    /\ UNCHANGED <<use_pbft, recordVars, progressVars, leaderVars, handling, alive_callback,
                   races>>

progress_timer_expires ==
    /\ run_out(leader_progress_timer)
    /\ leader_progress_timer' = ran_out(leader_progress_timer)
    /\ UNCHANGED <<use_pbft, recordVars, leader_alive_timer, leader_stuck_count, leaderVars,
                   handling, alive_callback, races>>

handle_primary_alive_timeout ==
    /\ use_pbft /\ leader_alive_timer.due > 0
    /\ leader_alive_timer' = rearmed(called(leader_alive_timer))
    /\ UNCHANGED <<use_pbft, recordVars, progressVars, leaderVars, handling, alive_callback,
                   races>>

\* The callback reports a silent leader and stops the progress timer, ...
handle_leader_alive_timeout ==
    /\ ~use_pbft /\ leader_alive_timer.due > 0
    /\ leader_alive_timer' = called(leader_alive_timer)
    /\ clear_leader_progress_timer
    /\ alive_callback' = alive_callback + 1
    /\ races' = races
           \cup (IF leader_progress_timer' = Stopped THEN {} ELSE {"revived"})
           \cup (IF handling.pc = "flag" /\ handling.uncommitted THEN {"overtaken"} ELSE {})
    /\ UNCHANGED <<use_pbft, recordVars, leaderVars, handling>>

\* ... sets its own again ...
handle_leader_alive_timeout_flag ==
    /\ alive_callback > 0
    /\ leader_has_uncommitted_entries' = FALSE
    /\ races' = IF leader_progress_timer = Stopped THEN races ELSE races \cup {"revived"}
    /\ leader_alive_timer' = rearmed(leader_alive_timer)
    /\ alive_callback' = alive_callback - 1
    /\ UNCHANGED <<use_pbft, recordVars, progressVars, last_leader,
                   last_leader_commit_index, handling>>

\* ... and waits, as that of a silent primary does.
handle_alive_timeout_end ==
    /\ leader_alive_timer.arming > 0
    /\ leader_alive_timer' = restarted(leader_alive_timer)
    /\ UNCHANGED <<use_pbft, recordVars, progressVars, leaderVars, handling, alive_callback,
                   races>>

\* Mutant: a leader is reported once.
handle_leader_progress_timeout_once ==
    /\ leader_progress_timer.due > 0
    /\ leader_progress_timer' = called(leader_progress_timer)
    /\ leader_stuck_count' = 1
    /\ UNCHANGED <<use_pbft, recordVars, leader_alive_timer, leaderVars, handling,
                   alive_callback, races>>

handle_leader_progress_timeout ==
    /\ leader_progress_timer.due > 0
    /\ leader_progress_timer' = rearmed(called(leader_progress_timer))
    /\ leader_stuck_count' = 1
    /\ UNCHANGED <<use_pbft, recordVars, leader_alive_timer, leaderVars, handling,
                   alive_callback, races>>

handle_leader_progress_timeout_end ==
    /\ leader_progress_timer.arming > 0
    /\ leader_progress_timer' = restarted(leader_progress_timer)
    /\ UNCHANGED <<use_pbft, recordVars, leader_alive_timer, leader_stuck_count, leaderVars,
                   handling, alive_callback, races>>

-----------------------------------------------------------------------------
\* What comes with a message, and what the process does by itself.
handle ==
    \/ \E s \in LeaderStatus : handle_leader_status(s)
    \/ \E n \in Numbers : \/ \E v \in Operations : handle_raft_commit(n, v)
                                                    \/ handle_pbft_commit(n, v)
                          \/ \E v \in Uuids : handle_primary_status(n, v)

proceed ==
    \/ reset_primary_alive_timer
    \/ reset_leader_alive_timer
    \/ handle_leader_data
    \/ reset_leader_progress_timer
    \/ handle_leader_data_end

callback ==
    \/ handle_primary_alive_timeout
    \/ handle_leader_alive_timeout
    \/ handle_leader_alive_timeout_flag
    \/ handle_alive_timeout_end
    \/ handle_leader_progress_timeout
    \/ handle_leader_progress_timeout_end

Next ==
    \/ handle
    \/ proceed
    \/ alive_timer_expires
    \/ progress_timer_expires
    \/ callback

Spec == Init /\ [][Next]_vars

\* Handlers and callbacks end; a timer runs out unless it is reset time and again, and
\* its callbacks run.
FairSpec ==
    /\ Spec
    /\ WF_vars(reset_leader_alive_timer) /\ WF_vars(handle_leader_data)
    /\ WF_vars(reset_leader_progress_timer) /\ WF_vars(handle_leader_data_end)
    /\ WF_vars(handle_leader_alive_timeout_flag)
    /\ WF_vars(progress_timer_expires)
    /\ WF_vars(handle_leader_progress_timeout) /\ WF_vars(handle_leader_progress_timeout_end)

-----------------------------------------------------------------------------
(* Properties *)

\* The numbers heard, and the highest of them, as many as are kept.
numbers(kind) == {n \in Numbers : \E h \in heard : h[1] = kind /\ h[2] = n}

remembered(kind) ==
    IF kind \in {"primary", "pbft_commit"} THEN numbers(kind) ELSE highest(numbers(kind))

\* What is recorded, of which numbers and with which value: with it ConflictsAreReported
\* is inductive.
RecordsInvariant ==
    /\ heard \subseteq Kinds \X Numbers \X (Uuids \cup Operations)
    /\ DOMAIN recorded = Kinds
    /\ \A k \in Kinds : /\ DOMAIN recorded[k] = remembered(k)
                         /\ \A n \in DOMAIN recorded[k] : <<k, n, recorded[k][n]>> \in heard
    /\ \A h \in heard : h[2] \in DOMAIN recorded[h[1]] /\ h[3] # recorded[h[1]][h[2]]
                            => <<h[1], h[2]>> \in reported
    /\ \A c \in reported : \E g, h \in heard :
           g[1] = c[1] /\ h[1] = c[1] /\ g[2] = c[2] /\ h[2] = c[2] /\ g[3] # h[3]

\* Two values for one of the highest numbers that audit has heard are reported, in
\* whatever order the messages of the peers arrive and whatever trim has dropped in
\* between; and nothing is reported without two values.
ConflictsAreReported ==
    /\ \A g, h \in heard : g[1] = h[1] /\ g[2] = h[2] /\ g[3] # h[3]
                               /\ g[2] \in remembered(g[1]) => <<g[1], g[2]>> \in reported
    /\ \A c \in reported : \E g, h \in heard :
           g[1] = c[1] /\ h[1] = c[1] /\ g[2] = c[2] /\ h[2] = c[2] /\ g[3] # h[3]

\* Where the handler and the callback of a silent leader are, what the timers and
\* leader_has_uncommitted_entries are then: with it TimersRun is inductive.
TimersInvariant ==
    LET running == leader_progress_timer # Stopped
        settled == /\ handling.pc \in {"idle", "primary", "alive", "data", "index"}
                   /\ alive_callback = 0
    IN  /\ leader_alive_timer \in [waiting : Nat, due : Nat, arming : Nat]
        /\ leader_progress_timer \in [waiting : Nat, due : Nat, arming : Nat]
        /\ leader_has_uncommitted_entries \in BOOLEAN /\ alive_callback \in Nat
        /\ handling.pc \in {"idle", "primary", "alive", "data", "start", "flag", "index"}
        /\ handling.pc = "idle" => handling = Idle
        /\ handling.pc = "flag" => handling.uncommitted \in BOOLEAN
        /\ handling.pc = "alive" => handling = [pc |-> "alive", leader |-> handling.leader,
               current_log_index |-> handling.current_log_index,
               current_commit_index |-> handling.current_commit_index]
        /\ handling.pc = "start" => handling = [pc |-> "start", uncommitted |-> TRUE,
               current_commit_index |-> handling.current_commit_index]
        /\ \/ leader_alive_timer # Stopped \/ alive_callback > 0
           \/ handling.pc \in {"primary", "alive"}
        /\ "overtaken" \notin races =>
               /\ settled /\ leader_has_uncommitted_entries => running
               /\ handling.pc = "flag" /\ handling.uncommitted => running
        /\ "revived" \notin races =>
               /\ settled /\ ~leader_has_uncommitted_entries => ~running
               /\ handling.pc = "flag" /\ ~handling.uncommitted => ~running

\* audit.cpp:325: whenever neither a handler nor the callback of a silent leader is half
\* done, the progress timer runs if and only if the leader has uncommitted entries,
\* unless one of the two races between callbacks, which take no lock, and handlers has
\* happened; and the timer that watches for silence runs, whatever has happened.  A timer
\* runs while it has a wait or a callback that will start it again.
TimersRun ==
    handling = Idle /\ alive_callback = 0 =>
        /\ leader_has_uncommitted_entries /\ "overtaken" \notin races
               => leader_progress_timer # Stopped
        /\ ~leader_has_uncommitted_entries /\ "revived" \notin races
               => leader_progress_timer = Stopped
        /\ leader_alive_timer # Stopped

\* A leader does not have uncommitted entries for ever, however many statuses it sends,
\* without being reported as stuck, unless time and again it makes progress or another
\* one leads (or the progress timer has been lost in a race).
StuckLeaderIsReported ==
    []<>(\/ ~leader_has_uncommitted_entries \/ leader_stuck_count > 0
         \/ handling.pc = "data" /\ made_progress(handling)
         \/ "overtaken" \in races)
=============================================================================
