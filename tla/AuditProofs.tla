----------------------------- MODULE AuditProofs -----------------------------
(***************************************************************************)
(* The timers of audit and its reports of conflicting claims, for any      *)
(* uuids, operations, numbers, memory and bounds.                          *)
(***************************************************************************)
EXTENDS Audit, FiniteSetTheorems, WellFoundedInduction, TLAPS

\* What the steps on a timer make of it.
LEMMA Timers ==
    ASSUME NEW t \in [waiting : Nat, due : Nat, arming : Nat]
    PROVE  /\ Stopped \in [waiting : Nat, due : Nat, arming : Nat]
           /\ started(t) \in [waiting : Nat, due : Nat, arming : Nat] /\ started(t) # Stopped
           /\ cancelled(t) \in [waiting : Nat, due : Nat, arming : Nat]
           /\ cancelled(Stopped) = Stopped
           /\ run_out(t) => /\ ran_out(t) \in [waiting : Nat, due : Nat, arming : Nat]
                            /\ ran_out(t) # Stopped
           /\ t.due > 0 => /\ called(t) \in [waiting : Nat, due : Nat, arming : Nat]
                           /\ rearmed(called(t)) \in [waiting : Nat, due : Nat, arming : Nat]
                           /\ rearmed(called(t)) # Stopped
           /\ rearmed(t) \in [waiting : Nat, due : Nat, arming : Nat] /\ rearmed(t) # Stopped
           /\ t.arming > 0 => /\ restarted(t) \in [waiting : Nat, due : Nat, arming : Nat]
                              /\ restarted(t) # Stopped
           /\ t.due > 0 \/ t.arming > 0 \/ t.waiting > 0 => t # Stopped
<1>1. Stopped \in [waiting : Nat, due : Nat, arming : Nat]
      /\ Stopped.waiting = 0 /\ Stopped.due = 0 /\ Stopped.arming = 0
  BY DEF Stopped
<1>2. started(t) \in [waiting : Nat, due : Nat, arming : Nat] /\ started(t).waiting > 0
  BY DEF started
<1>3. cancelled(t) \in [waiting : Nat, due : Nat, arming : Nat] /\ cancelled(Stopped) = Stopped
  BY DEF cancelled, Stopped
<1>4. run_out(t) => /\ ran_out(t) \in [waiting : Nat, due : Nat, arming : Nat]
                    /\ ran_out(t).due > 0
  BY DEF run_out, ran_out
<1>5. ASSUME NEW u \in [waiting : Nat, due : Nat, arming : Nat]
      PROVE  rearmed(u) \in [waiting : Nat, due : Nat, arming : Nat] /\ rearmed(u).arming > 0
  BY DEF rearmed
<1>6. t.due > 0 => called(t) \in [waiting : Nat, due : Nat, arming : Nat]
  BY DEF called
<1>7. t.arming > 0 => /\ restarted(t) \in [waiting : Nat, due : Nat, arming : Nat]
                      /\ restarted(t).waiting > 0
  BY DEF restarted
<1>8. ~ (0 > 0)
  OBVIOUS
<1>. QED
  BY <1>1, <1>2, <1>3, <1>4, <1>5, <1>6, <1>7, <1>8, Zenon

LEMMA InitTimers == Init => TimersInvariant
<1> SUFFICES ASSUME Init PROVE TimersInvariant
  BY Zenon
<1>1. Stopped \in [waiting : Nat, due : Nat, arming : Nat] /\ 0 \in Nat
  BY DEF Stopped
<1>2. handling.pc = "idle"
  BY Zenon DEF Init, Idle
<1>. QED
  BY <1>1, <1>2, Timers, Zenon DEF Init, TimersInvariant

\* A message leaves the progress timer and all it depends on to later steps.
LEMMA HandleTimers ==
    ASSUME TimersInvariant, handle
    PROVE  TimersInvariant'
<1>1. ASSUME NEW n \in Numbers, NEW v, handle_raft_commit(n, v) \/ handle_pbft_commit(n, v)
      PROVE  TimersInvariant'
  BY <1>1 DEF handle_raft_commit, handle_pbft_commit, TimersInvariant, progressVars, leaderVars
<1>2. ASSUME NEW n \in Numbers, NEW v, handle_primary_status(n, v)
      PROVE  TimersInvariant'
  <2>1. handling.pc = "idle" /\ handling'.pc = "primary"
    BY <1>2, Zenon DEF handle_primary_status, Idle
  <2>. QED
    BY <1>2, <2>1, Timers, Zenon DEF handle_primary_status, TimersInvariant, progressVars,
       leaderVars
<1>3. ASSUME NEW s \in LeaderStatus, handle_leader_status(s)
      PROVE  TimersInvariant'
  BY <1>3, Timers, Zenon DEF handle_leader_status, TimersInvariant, progressVars, leaderVars, Idle
<1>. QED
  BY <1>1, <1>2, <1>3, Zenon DEF handle

LEMMA ProceedTimers ==
    ASSUME TimersInvariant, proceed
    PROVE  TimersInvariant'
<1>1. CASE handle_leader_data
  <2>0. handling.pc = "data" /\ UNCHANGED <<leader_alive_timer, leader_has_uncommitted_entries,
                                           alive_callback>>
    BY <1>1, Zenon DEF handle_leader_data
  <2>1. CASE made_progress(handling) /\ all_committed(handling)
    <3>1. /\ leader_progress_timer' = cancelled(leader_progress_timer)
          /\ races' = IF leader_progress_timer' = Stopped THEN races
                                                         ELSE races \cup {"revived"}
          /\ handling'.pc = "flag" /\ handling'.uncommitted = FALSE
      BY <1>1, <2>1 DEF handle_leader_data, clear_leader_progress_timer
    <3>. QED
      BY <2>0, <3>1, Timers, Zenon DEF TimersInvariant
  <2>2. CASE \/ made_progress(handling) /\ ~all_committed(handling)
             \/ ~made_progress(handling) /\ got_uncommitted(handling)
    <3>1. /\ leader_progress_timer' = cancelled(leader_progress_timer)
          /\ handling' = [pc |-> "start", uncommitted |-> TRUE,
                          current_commit_index |-> handling.current_commit_index]
          /\ UNCHANGED races
      BY <1>1, <2>2, Zenon DEF handle_leader_data, clear_leader_progress_timer, got_uncommitted
    <3>2. handling'.pc = "start" /\ handling' = [pc |-> "start", uncommitted |-> TRUE,
              current_commit_index |-> handling'.current_commit_index]
      BY <3>1, Zenon
    <3>. QED
      BY <2>0, <3>1, <3>2, Timers, Zenon DEF TimersInvariant
  <2>3. CASE ~made_progress(handling) /\ ~got_uncommitted(handling)
    <3>1. handling'.pc = "index" /\ UNCHANGED <<leader_progress_timer, races>>
      BY <1>1, <2>3 DEF handle_leader_data, progressVars
    <3>. QED
      BY <2>0, <3>1, Zenon DEF TimersInvariant
  <2>. QED
    BY <2>1, <2>2, <2>3, Zenon
<1>2. CASE reset_leader_progress_timer
  <2>1. /\ handling'.pc = "flag" /\ handling'.uncommitted = TRUE
        /\ leader_progress_timer' \in [waiting : Nat, due : Nat, arming : Nat]
        /\ leader_progress_timer' # Stopped
    BY <1>2, Timers DEF reset_leader_progress_timer, TimersInvariant
  <2>. QED
    BY <1>2, <2>1, Zenon DEF reset_leader_progress_timer, TimersInvariant, leaderVars
<1>3. CASE handle_leader_data_end
  BY <1>3, Zenon DEF handle_leader_data_end, TimersInvariant, progressVars, Idle
<1>4. CASE reset_primary_alive_timer
  BY <1>4, Timers, Zenon DEF reset_primary_alive_timer, TimersInvariant, progressVars, leaderVars,
     Idle
<1>5. CASE reset_leader_alive_timer
  <2>1. handling'.pc = "data"
    BY <1>5 DEF reset_leader_alive_timer, TimersInvariant
  <2>. QED
    BY <1>5, <2>1, Timers, Zenon DEF reset_leader_alive_timer, TimersInvariant, progressVars,
       leaderVars
<1>. QED
  BY <1>1, <1>2, <1>3, <1>4, <1>5, Zenon DEF proceed

LEMMA CallbackTimers ==
    ASSUME TimersInvariant, alive_timer_expires \/ progress_timer_expires \/ callback
    PROVE  TimersInvariant'
<1>1. CASE alive_timer_expires
  BY <1>1, Timers, Zenon DEF alive_timer_expires, TimersInvariant, progressVars, leaderVars
<1>2. CASE progress_timer_expires
  <2>1. leader_progress_timer # Stopped
    BY <1>2, Timers, Zenon DEF progress_timer_expires, run_out, TimersInvariant
  <2>. QED
    BY <1>2, <2>1, Timers, Zenon DEF progress_timer_expires, TimersInvariant, leaderVars
<1>3. CASE handle_primary_alive_timeout
  BY <1>3, Timers, Zenon DEF handle_primary_alive_timeout, TimersInvariant, progressVars, leaderVars
<1>4. CASE handle_leader_alive_timeout
  <2>1. alive_callback' \in Nat /\ alive_callback' > 0 /\ alive_callback' # 0
    BY <1>4 DEF handle_leader_alive_timeout, TimersInvariant
  <2>. QED
    BY <1>4, <2>1, Timers, Zenon DEF handle_leader_alive_timeout, TimersInvariant, leaderVars,
       clear_leader_progress_timer
<1>5. CASE handle_leader_alive_timeout_flag
  <2>1. alive_callback' \in Nat
    BY <1>5 DEF handle_leader_alive_timeout_flag, TimersInvariant
  <2>. QED
    BY <1>5, <2>1, Timers, Zenon DEF handle_leader_alive_timeout_flag, TimersInvariant, progressVars
<1>6. CASE handle_alive_timeout_end
  BY <1>6, Timers, Zenon DEF handle_alive_timeout_end, TimersInvariant, progressVars, leaderVars
<1>7. CASE handle_leader_progress_timeout
  BY <1>7, Timers, Zenon DEF handle_leader_progress_timeout, TimersInvariant, leaderVars
<1>8. CASE handle_leader_progress_timeout_end
  BY <1>8, Timers, Zenon DEF handle_leader_progress_timeout_end, TimersInvariant, leaderVars
<1>. QED
  BY <1>1, <1>2, <1>3, <1>4, <1>5, <1>6, <1>7, <1>8, Zenon DEF callback

\* The timers follow the leader's entries but for the two races, and the timer that
\* watches for silence always runs, however messages and callbacks interleave.
THEOREM TimersAlwaysRun == Spec => []TimersRun
<1>1. TimersInvariant /\ [Next]_vars => TimersInvariant'
  <2>1. ASSUME TimersInvariant, UNCHANGED vars PROVE TimersInvariant'
    BY <2>1 DEF TimersInvariant, vars, progressVars, leaderVars
  <2>. QED
    BY <2>1, HandleTimers, ProceedTimers, CallbackTimers, Zenon DEF Next
<1>2. TimersInvariant => TimersRun
  BY DEF TimersInvariant, TimersRun, Idle
<1>. QED
  BY <1>1, <1>2, InitTimers, PTL DEF Spec

-----------------------------------------------------------------------------
(* Records *)

up(S, n) == {i \in S : i >= n}

\* What is used of up and highest.
LEMMA Up ==
    ASSUME NEW S, IsFiniteSet(S), NEW n
    PROVE  /\ IsFiniteSet(up(S, n)) /\ Cardinality(up(S, n)) \in Nat
           /\ up(S, n) \subseteq S
           /\ n \in highest(S) <=> n \in S /\ Cardinality(up(S, n)) <= mem_size
<1>1. up(S, n) \subseteq S
  BY Zenon DEF up
<1>. QED
  BY <1>1, FS_Subset, FS_CardinalityType, Zenon DEF up, highest

LEMMA UpMonotone ==
    ASSUME NEW T, IsFiniteSet(T), NEW S \in SUBSET T, NEW n
    PROVE  Cardinality(up(S, n)) <= Cardinality(up(T, n))
<1>1. up(S, n) \subseteq up(T, n)
  BY Zenon DEF up
<1>. QED
  BY <1>1, Up, FS_Subset, Zenon

\* Of the numbers that are not among the highest, one has only such above it.
LEMMA HighestForgotten ==
    ASSUME NEW S \in SUBSET Nat, IsFiniteSet(S), NEW i \in S \ highest(S)
    PROVE  \E m \in S \ highest(S) : i <= m /\ \A j \in S : j > m => j \in highest(S)
<1> DEFINE above == {j \in S \ highest(S) : i <= j}
           sizes == {Cardinality(up(S, j)) : j \in above}
<1>1. i \in above /\ above \subseteq S
  OBVIOUS
<1>2. sizes \subseteq Nat /\ sizes # {}
  BY <1>1, Up
<1>3. PICK c \in sizes : \A d \in sizes : ~ (<<d, c>> \in OpToRel(<, Nat))
  BY <1>2, NatLessThanWellFounded, WFMin, Zenon
<1>4. PICK m \in above : c = Cardinality(up(S, m))
  BY <1>3, Zenon
<1>5. ASSUME NEW j \in S, j > m, j \notin highest(S) PROVE FALSE
  <2>1. j \in above
    BY <1>4, <1>5
  <2>2. up(S, j) \in SUBSET up(S, m) /\ up(S, j) # up(S, m)
    BY <1>4, <1>5 DEF up
  <2>3. /\ Cardinality(up(S, j)) <= Cardinality(up(S, m))
        /\ Cardinality(up(S, j)) # Cardinality(up(S, m))
    <3>1. IsFiniteSet(up(S, m))
      BY Up, Zenon
    <3>. HIDE DEF above, sizes
    <3>. QED
      BY <2>2, <3>1, FS_Subset, Zenon
  <2>4. Cardinality(up(S, j)) \in sizes
    BY <2>1, Zenon
  <2>5. \A d \in sizes : d \in Nat /\ ~ (d < c)
    BY <1>2, <1>3, Zenon DEF OpToRel
  <2>6. /\ Cardinality(up(S, j)) \in Nat /\ ~ (Cardinality(up(S, j)) < c)
        /\ c \in Nat
    BY <1>3, <2>4, <2>5, Zenon
  <2>. QED
    BY <1>4, <2>3, <2>6
<1>. QED
  BY <1>4, <1>5, Zenon

\* Whether a number comes to all of those heard or to the highest of them, the same ones
\* are the highest then: what trim has dropped is never missed.
LEMMA HighestOfHighest ==
    ASSUME NEW S \in SUBSET Nat, IsFiniteSet(S), NEW n \in Nat
    PROVE  highest(highest(S) \cup {n}) = highest(S \cup {n})
<1> DEFINE U == S \cup {n}
           V == highest(S) \cup {n}
<1>1. /\ highest(S) \subseteq S
      /\ V \in SUBSET U /\ S \in SUBSET U /\ U \in SUBSET Nat
      /\ IsFiniteSet(U) /\ IsFiniteSet(V)
  BY FS_AddElement, FS_Subset, Zenon DEF highest
<1>2. \A k : k \in U /\ k \notin V => k \in S \ highest(S)
  BY Zenon
<1>3. \A k \in S : k \in highest(S) => k \in V
  BY Zenon
<1>4. \A k \in U : k \in S \/ k \in V
  BY Zenon
<1>. HIDE DEF U, V
<1>5. ASSUME NEW j \in highest(U) PROVE j \in highest(V)
  <2>1. j \in U /\ Cardinality(up(U, j)) <= mem_size
    BY <1>1, <1>5, Up, Zenon
  <2>2. Cardinality(up(S, j)) <= mem_size /\ Cardinality(up(V, j)) <= mem_size
    <3>1. /\ Cardinality(up(S, j)) <= Cardinality(up(U, j))
          /\ Cardinality(up(V, j)) <= Cardinality(up(U, j))
      BY <1>1, UpMonotone, Zenon
    <3>2. Cardinality(up(S, j)) \in Nat /\ Cardinality(up(V, j)) \in Nat
              /\ Cardinality(up(U, j)) \in Nat
      BY <1>1, Up, Zenon
    <3>. QED
      BY <2>1, <3>1, <3>2, AuditAssumption
  <2>3. j \in V
    BY <1>3, <1>4, <2>1, <2>2, Up, Zenon
  <2>. QED
    BY <1>1, <2>2, <2>3, Up, Zenon
<1>6. ASSUME NEW j \in highest(V) PROVE j \in highest(U)
  <2>1. j \in V /\ j \in U /\ j \in Nat /\ Cardinality(up(V, j)) <= mem_size
    BY <1>1, <1>6, Up, Zenon
  <2>2. ASSUME NEW i \in up(U, j), i \notin V PROVE FALSE
    <3>1. i \in S \ highest(S) /\ i >= j /\ i \in Nat
      BY <1>1, <1>2, <2>2, Zenon DEF up
    <3>2. PICK m \in S \ highest(S) : i <= m /\ \A k \in S : k > m => k \in highest(S)
      BY <3>1, HighestForgotten, Zenon
    <3> DEFINE W == up(S, m) \ {m}
    <3>3. m \in Nat /\ m \in up(S, m) /\ j <= m
      BY <2>1, <3>1, <3>2 DEF up
    <3>4. ~(Cardinality(up(S, m)) <= mem_size) /\ Cardinality(up(S, m)) \in Nat
              /\ IsFiniteSet(up(S, m))
      BY <3>2, Up, Zenon
    <3>5. IsFiniteSet(W) /\ Cardinality(W) = Cardinality(up(S, m)) - 1
      BY <3>3, <3>4, FS_RemoveElement, Zenon
    <3>6. W \cup {j} \in SUBSET up(V, j)
      <4>1. ASSUME NEW k \in W PROVE k \in V /\ k >= j
        <5>1. k \in S /\ k \in Nat /\ k >= m /\ k # m
          BY Zenon DEF up
        <5>. QED
          BY <1>3, <2>1, <3>2, <3>3, <5>1
      <4>2. \A k \in W \cup {j} : k \in up(V, j)
        BY <2>1, <4>1 DEF up
      <4>. HIDE DEF W
      <4>. QED
        BY <4>2, Zenon
    <3>7. j \notin W
      BY <2>1, <3>3 DEF up
    <3>. HIDE DEF W
    <3>8. Cardinality(W \cup {j}) = Cardinality(up(S, m))
      <4>1. Cardinality(W \cup {j}) = Cardinality(W) + 1
        BY <3>5, <3>7, FS_AddElement, Zenon
      <4>. QED
        BY <3>4, <3>5, <4>1
    <3>9. Cardinality(W \cup {j}) <= Cardinality(up(V, j)) /\ Cardinality(up(V, j)) \in Nat
      BY <1>1, <3>6, Up, FS_Subset, Zenon
    <3>. QED
      BY <2>1, <3>4, <3>8, <3>9, AuditAssumption
  <2>3. up(U, j) = up(V, j)
    BY <1>1, <2>2, Zenon DEF up
  <2>. QED
    BY <1>1, <2>1, <2>3, Up, Zenon
<1>. QED
  BY <1>5, <1>6, Zenon DEF U, V

\* The numbers heard are finitely many, and a claim adds its own.
LEMMA NumbersStep ==
    ASSUME NEW kind \in Kinds, NEW n \in Numbers, NEW v, heard' = heard \cup {<<kind, n, v>>},
           NEW k \in Kinds
    PROVE  /\ numbers(k) \in SUBSET Nat /\ IsFiniteSet(numbers(k))
           /\ numbers(k)' = IF k = kind THEN numbers(k) \cup {n} ELSE numbers(k)
<1>1. numbers(k) \in SUBSET Numbers
  BY Zenon DEF numbers
<1>2. numbers(k)' = IF k = kind THEN numbers(k) \cup {n} ELSE numbers(k)
  <2> DEFINE c == <<kind, n, v>>
  <2>1. c[1] = kind /\ c[2] = n /\ \A h : h \in heard' <=> h \in heard \/ h = c
    BY Zenon
  <2>. HIDE DEF c
  <2>2. numbers(k)' = {i \in Numbers : \E h \in heard' : h[1] = k /\ h[2] = i}
    BY Zenon DEF numbers
  <2>3. numbers(k) = {i \in Numbers : \E h \in heard : h[1] = k /\ h[2] = i}
    BY Zenon DEF numbers
  <2>4. ASSUME NEW i \in Numbers
        PROVE  i \in numbers(k)' <=> i \in numbers(k) \/ (k = kind /\ i = n)
    BY <2>1, <2>2, <2>3, Zenon
  <2>. QED
    BY <2>2, <2>3, <2>4, Zenon
<1>. QED
  BY <1>1, <1>2, AuditAssumption, FS_Subset, Zenon

\* A claim to a number that is recorded changes no record and is reported if it is another.
LEMMA KnownStep ==
    ASSUME RecordsInvariant, NEW kind \in Kinds, NEW n \in Numbers,
           NEW v \in Uuids \cup Operations, record(kind, n, v), n \in DOMAIN recorded[kind]
    PROVE  RecordsInvariant'
<1>1. /\ heard' = heard \cup {<<kind, n, v>>} /\ recorded' = recorded
      /\ reported' = IF recorded[kind][n] = v THEN reported ELSE reported \cup {<<kind, n>>}
  BY Zenon DEF record
<1>2. n \in numbers(kind) /\ <<kind, n, recorded[kind][n]>> \in heard
  BY Zenon DEF RecordsInvariant, numbers
<1>3. \A k \in Kinds : remembered(k)' = remembered(k)
  <2>1. \A k \in Kinds : numbers(k)' = numbers(k)
    BY <1>1, <1>2, NumbersStep
  <2>. QED
    BY <2>1, Zenon DEF remembered, highest
<1>4. \A h \in heard' : h[2] \in DOMAIN recorded'[h[1]] /\ h[3] # recorded'[h[1]][h[2]]
                             => <<h[1], h[2]>> \in reported'
  BY <1>1 DEF RecordsInvariant
<1>5. ASSUME NEW c \in reported'
      PROVE  \E g, h \in heard' : g[1] = c[1] /\ h[1] = c[1] /\ g[2] = c[2] /\ h[2] = c[2]
                                     /\ g[3] # h[3]
  <2>1. CASE c \in reported
    BY <1>1, <2>1 DEF RecordsInvariant
  <2>2. CASE c \notin reported
    <3>1. c = <<kind, n>> /\ recorded[kind][n] # v
      BY <1>1, <2>2, Zenon
    <3> DEFINE g == <<kind, n, recorded[kind][n]>>
               h == <<kind, n, v>>
    <3>2. g \in heard' /\ h \in heard'
      BY <1>1, <1>2, Zenon
    <3>3. g[1] = c[1] /\ h[1] = c[1] /\ g[2] = c[2] /\ h[2] = c[2] /\ g[3] # h[3]
      BY <3>1, Zenon
    <3>. QED
      BY <3>2, <3>3, Zenon
  <2>. QED
    BY <2>1, <2>2, Zenon
<1>6. heard' \subseteq Kinds \X Numbers \X (Uuids \cup Operations)
  BY <1>1 DEF RecordsInvariant
<1>7. \A k \in Kinds : /\ DOMAIN recorded'[k] = remembered(k)'
                       /\ \A i \in DOMAIN recorded'[k] : <<k, i, recorded'[k][i]>> \in heard'
  BY <1>1, <1>3, Zenon DEF RecordsInvariant
<1>. QED
  BY <1>1, <1>4, <1>5, <1>6, <1>7, Zenon DEF RecordsInvariant

\* A claim to another number is recorded, unless the number is too low; then, if it had
\* been heard before, it stays forgotten.
LEMMA UnknownStep ==
    ASSUME RecordsInvariant, NEW kind \in Kinds, NEW n \in Numbers,
           NEW v \in Uuids \cup Operations, record(kind, n, v), n \notin DOMAIN recorded[kind]
    PROVE  RecordsInvariant'
<1> DEFINE map == recorded[kind]
           longer == [i \in DOMAIN map \cup {n} |-> IF i = n THEN v ELSE map[i]]
           kept == trim(kind, longer)
<1>1. /\ heard' = heard \cup {<<kind, n, v>>} /\ reported' = reported
      /\ recorded' = [recorded EXCEPT ![kind] = kept]
  BY Zenon DEF record
<1>2. /\ DOMAIN recorded = Kinds /\ DOMAIN map = remembered(kind)
      /\ \A k \in Kinds \ {kind} : recorded'[k] = recorded[k]
      /\ recorded'[kind] = kept /\ DOMAIN recorded' = Kinds
  BY <1>1, Zenon DEF RecordsInvariant
<1>3. n \in Nat /\ \A k \in Kinds : numbers(k) \in SUBSET Nat /\ IsFiniteSet(numbers(k))
  BY <1>1, NumbersStep, AuditAssumption, Zenon
<1>4. numbers(kind)' = numbers(kind) \cup {n}
      /\ \A k \in Kinds \ {kind} : numbers(k)' = numbers(k)
  BY <1>1, NumbersStep, Zenon
<1>5. DOMAIN kept = remembered(kind)' /\ DOMAIN kept \subseteq DOMAIN map \cup {n}
      /\ \A i \in DOMAIN kept : kept[i] = IF i = n THEN v ELSE map[i]
  <2>1. CASE kind \in {"primary", "pbft_commit"}
    BY <1>2, <1>4, <2>1, Zenon DEF trim, remembered
  <2>2. CASE kind \notin {"primary", "pbft_commit"}
    <3>1. kept = [i \in highest(DOMAIN map \cup {n}) |-> longer[i]]
      BY <2>2, Zenon DEF trim, Restrict
    <3>2. highest(DOMAIN map \cup {n}) \subseteq DOMAIN map \cup {n}
      BY Zenon DEF highest
    <3>3. highest(DOMAIN map \cup {n}) = highest(numbers(kind) \cup {n})
      BY <1>2, <1>3, <2>2, HighestOfHighest, Zenon DEF remembered
    <3>4. remembered(kind)' = highest(numbers(kind)')
      BY <2>2, Zenon DEF remembered, highest
    <3>. QED
      BY <1>4, <3>1, <3>2, <3>3, <3>4, Zenon
  <2>. QED
    BY <2>1, <2>2, Zenon
<1>6. n \in DOMAIN kept => n \notin numbers(kind)
  <2>1. ASSUME n \in numbers(kind), n \in DOMAIN kept PROVE FALSE
    <3>1. numbers(kind)' = numbers(kind)
      BY <1>4, <2>1, Zenon
    <3>2. remembered(kind)' = remembered(kind)
      BY <3>1, Zenon DEF remembered, highest
    <3>. QED
      BY <1>2, <1>5, <2>1, <3>2, Zenon
  <2>. QED
    BY <2>1, Zenon
<1>. HIDE DEF kept
<1>7. heard' \subseteq Kinds \X Numbers \X (Uuids \cup Operations)
  BY <1>1 DEF RecordsInvariant
<1>8. ASSUME NEW k \in Kinds
      PROVE  /\ DOMAIN recorded'[k] = remembered(k)'
             /\ \A i \in DOMAIN recorded'[k] : <<k, i, recorded'[k][i]>> \in heard'
  <2>1. CASE k = kind
    BY <1>1, <1>2, <1>5, <2>1, Zenon DEF RecordsInvariant
  <2>2. CASE k # kind
    <3>1. remembered(k)' = remembered(k)
      BY <1>4, <2>2, Zenon DEF remembered, highest
    <3>. QED
      BY <1>1, <1>2, <2>2, <3>1, Zenon DEF RecordsInvariant
  <2>. QED
    BY <2>1, <2>2, Zenon
<1>9. ASSUME NEW h \in heard', h[2] \in DOMAIN recorded'[h[1]], h[3] # recorded'[h[1]][h[2]]
      PROVE  <<h[1], h[2]>> \in reported'
  <2>1. h[1] \in Kinds /\ h[2] \in Numbers
    BY <1>7, <1>9, Zenon
  <2>2. CASE h[1] # kind
    BY <1>1, <1>2, <1>9, <2>1, <2>2 DEF RecordsInvariant
  <2>3. CASE h[1] = kind /\ h[2] = n
    <3>1. h \notin heard
      BY <1>2, <1>6, <1>9, <2>1, <2>3, Zenon DEF numbers
    <3>2. h = <<kind, n, v>>
      BY <1>1, <3>1, Zenon
    <3>. QED
      BY <1>2, <1>5, <1>9, <2>3, <3>2
  <2>4. CASE h[1] = kind /\ h[2] # n
    <3>1. h \in heard
      BY <1>1, <2>4
    <3>2. h[2] \in DOMAIN map /\ h[3] # map[h[2]]
      BY <1>2, <1>5, <1>9, <2>4, Zenon
    <3>. QED
      BY <1>1, <2>4, <3>1, <3>2, Zenon DEF RecordsInvariant
  <2>. QED
    BY <2>2, <2>3, <2>4, Zenon
<1>10. \A c \in reported' : \E g, h \in heard' :
           g[1] = c[1] /\ h[1] = c[1] /\ g[2] = c[2] /\ h[2] = c[2] /\ g[3] # h[3]
  BY <1>1 DEF RecordsInvariant
<1>. QED
  BY <1>2, <1>7, <1>8, <1>9, <1>10, Zenon DEF RecordsInvariant

\* Two claims to a number that audit remembers are reported, whatever the order of the
\* messages and what trim has dropped, and nothing else is: for any mem_size.
THEOREM ConflictsAlwaysReported == Spec => []ConflictsAreReported
<1>1. Init => RecordsInvariant
  <2> SUFFICES ASSUME Init PROVE RecordsInvariant
    BY Zenon
  <2>1. \A k \in Kinds : numbers(k) = {} /\ remembered(k) = {} /\ DOMAIN recorded[k] = {}
    BY DEF Init, numbers, remembered, highest
  <2>. QED
    BY <2>1, Zenon DEF Init, RecordsInvariant
<1>2. RecordsInvariant /\ [Next]_vars => RecordsInvariant'
  <2> SUFFICES ASSUME RecordsInvariant, [Next]_vars PROVE RecordsInvariant'
    BY Zenon
  <2>1. CASE UNCHANGED recordVars
    <3>1. heard' = heard /\ recorded' = recorded /\ reported' = reported
      BY <2>1, Zenon DEF recordVars
    <3>2. \A k : remembered(k)' = remembered(k)
      BY <3>1, Zenon DEF remembered, numbers, highest
    <3>. QED
      BY <3>1, <3>2 DEF RecordsInvariant
  <2>2. CASE handle
    <3>1. ASSUME NEW kind \in Kinds, NEW n \in Numbers, NEW v \in Uuids \cup Operations,
                 record(kind, n, v)
          PROVE  RecordsInvariant'
      BY <3>1, KnownStep, UnknownStep, Zenon
    <3>2. ASSUME NEW n \in Numbers, NEW v \in Operations,
                 handle_raft_commit(n, v) \/ handle_pbft_commit(n, v)
          PROVE  RecordsInvariant'
      BY <3>1, <3>2, Zenon DEF handle_raft_commit, handle_pbft_commit, Kinds
    <3>3. ASSUME NEW n \in Numbers, NEW v \in Uuids, handle_primary_status(n, v)
          PROVE  RecordsInvariant'
      BY <3>1, <3>3, Zenon DEF handle_primary_status, Kinds
    <3>4. ASSUME NEW s \in LeaderStatus, handle_leader_status(s)
          PROVE  RecordsInvariant'
      BY <3>1, <3>4, Zenon DEF handle_leader_status, Kinds, LeaderStatus
    <3>. QED
      BY <2>2, <3>2, <3>3, <3>4, Zenon DEF handle
  <2>3. ASSUME \/ UNCHANGED vars \/ proceed \/ alive_timer_expires \/ progress_timer_expires
               \/ callback
        PROVE  UNCHANGED recordVars
    <3>1. ASSUME proceed PROVE UNCHANGED recordVars
      BY <3>1, Zenon DEF proceed, reset_primary_alive_timer, reset_leader_alive_timer,
         handle_leader_data, reset_leader_progress_timer, handle_leader_data_end
    <3>2. ASSUME callback PROVE UNCHANGED recordVars
      BY <3>2, Zenon DEF callback, handle_primary_alive_timeout, handle_leader_alive_timeout,
         handle_leader_alive_timeout_flag, handle_alive_timeout_end,
         handle_leader_progress_timeout, handle_leader_progress_timeout_end
    <3>. QED
      BY <2>3, <3>1, <3>2, Zenon DEF vars, alive_timer_expires, progress_timer_expires
  <2>. QED
    BY <2>1, <2>2, <2>3, Zenon DEF Next
<1>3. RecordsInvariant => ConflictsAreReported
  BY DEF RecordsInvariant, ConflictsAreReported
<1>. QED
  BY <1>1, <1>2, <1>3, PTL DEF Spec
=============================================================================
