---------------------- MODULE PbftFailureDetectorProofs ----------------------
(***************************************************************************)
(* The failure detector's timer follows its list, for any set of requests: *)
(* with TypeOK, TimerFollowsList is inductive as it stands.  The first     *)
(* conjunct of ListCoversOutstanding needs the others, that only requests  *)
(* known as outstanding or completed are on the list.                      *)
(***************************************************************************)
EXTENDS PbftFailureDetector, SequenceTheorems, WellFoundedInduction, TLAPS

DetectorInvariant == TypeOK /\ TimerFollowsList /\ ListCoversOutstanding

\* The loop of handle_timeout ends, having removed completed requests only.
LEMMA CompletedPrefix ==
    ASSUME TypeOK
    PROVE  /\ completed_prefix \in 0..Len(ordered_requests)
           /\ \A i \in 1..completed_prefix : ordered_requests[i] \in completed_requests
<1> DEFINE n == Len(ordered_requests)
           T == {k \in 0..n : k < n => ordered_requests[k + 1] \notin completed_requests}
<1>1. n \in Nat
  BY LenProperties, Zenon DEF TypeOK
<1>. HIDE DEF n
<1>2. T \subseteq Nat /\ n \in T
  BY <1>1
<1>3. PICK k \in T : \A j \in T : ~ (<<j, k>> \in OpToRel(<, Nat))
  BY <1>2, NatLessThanWellFounded, WFMin, Zenon
<1>4. \A j \in T : ~ (j < k)
  BY <1>2, <1>3, Zenon DEF OpToRel
<1>5. \A i \in 1..k : ordered_requests[i] \in completed_requests
  <2>1. SUFFICES ASSUME NEW i \in 1..k PROVE ordered_requests[i] \in completed_requests
    BY Zenon
  <2>2. i - 1 \in 0..n /\ i - 1 < k /\ i - 1 < n /\ (i - 1) + 1 = i
    BY <1>1
  <2>. QED
    BY <1>4, <2>2, Zenon
<1>6. \E j \in 0..n : /\ \A i \in 1..j : ordered_requests[i] \in completed_requests
                      /\ j < n => ordered_requests[j + 1] \notin completed_requests
  BY <1>5, Zenon
<1>. QED
  BY <1>6, Zenon DEF completed_prefix, n

\* request_seen, request_executed, handle_timeout and the failure handler keep the
\* invariant.
LEMMA NextInvariant == DetectorInvariant /\ [Next]_vars => DetectorInvariant'
<1> SUFFICES ASSUME DetectorInvariant, [Next]_vars PROVE DetectorInvariant'
  BY Zenon
<1> USE DEF DetectorInvariant
<1>1. CASE UNCHANGED vars
  BY <1>1, Zenon DEF vars, TypeOK, TimerFollowsList, ListCoversOutstanding
<1>2. ASSUME NEW r \in Requests, request_seen(r) PROVE DetectorInvariant'
  <2>1. CASE r \in outstanding_requests \cup completed_requests
    BY <1>2, <2>1, Zenon DEF request_seen, TypeOK, TimerFollowsList, ListCoversOutstanding
  <2>2. CASE r \notin outstanding_requests \cup completed_requests
    <3> DEFINE n == Len(ordered_requests)
    <3>1. /\ ordered_requests' = Append(ordered_requests, r)
          /\ outstanding_requests' = outstanding_requests \cup {r}
          /\ waits' = IF ordered_requests = << >> THEN waits + 1 ELSE waits
          /\ UNCHANGED <<completed_requests, posted_failures>>
      BY <1>2, <2>2, Zenon DEF request_seen
    <3>2. /\ n \in Nat /\ DOMAIN ordered_requests = 1..n
          /\ ordered_requests' \in Seq(Requests) /\ ordered_requests' # << >>
          /\ DOMAIN ordered_requests' = 1..(n + 1)
          /\ ordered_requests'[n + 1] = r
          /\ \A i \in 1..n : ordered_requests'[i] = ordered_requests[i]
      BY <3>1, AppendProperties, LenProperties DEF TypeOK
    <3>3. TypeOK' /\ TimerFollowsList'
      BY <3>1, <3>2 DEF TypeOK, TimerFollowsList
    <3>. HIDE DEF n
    <3>4. \A i \in 1..n : ordered_requests[i] # r
      BY <2>2, <3>2, Zenon DEF ListCoversOutstanding
    <3>5. \A i \in 1..(n + 1) : i \in 1..n \/ i = n + 1
      BY <3>2
    <3>6. ListCoversOutstanding'
      BY <2>2, <3>1, <3>2, <3>4, <3>5 DEF ListCoversOutstanding
    <3>. QED
      BY <3>3, <3>6, Zenon
  <2>. QED
    BY <2>1, <2>2, Zenon
<1>3. ASSUME NEW r \in Requests, request_executed(r) PROVE DetectorInvariant'
  BY <1>3, Zenon DEF request_executed, TypeOK, TimerFollowsList, ListCoversOutstanding
<1>4. CASE handle_timeout
  <2>1. CASE ordered_requests[1] \notin completed_requests
    BY <1>4, <2>1, DetectorAssumption
       DEF handle_timeout, TypeOK, TimerFollowsList, ListCoversOutstanding
  <2>2. CASE ordered_requests[1] \in completed_requests
    <3> DEFINE n == Len(ordered_requests)
               k == completed_prefix
    <3>1. /\ ordered_requests' = SubSeq(ordered_requests, k + 1, n)
          /\ waits' = IF ordered_requests' # << >> THEN waits ELSE waits - 1
          /\ UNCHANGED <<outstanding_requests, completed_requests, posted_failures>>
      BY <1>4, <2>2, Zenon DEF handle_timeout
    <3>2. /\ n \in Nat /\ k \in 0..n /\ DOMAIN ordered_requests = 1..n
          /\ \A i \in 1..k : ordered_requests[i] \in completed_requests
      BY CompletedPrefix, LenProperties, Zenon DEF TypeOK
    <3>. HIDE DEF k, n
    <3>3. /\ ordered_requests' \in Seq(Requests)
          /\ DOMAIN ordered_requests' = 1..(n - k)
          /\ \A i \in 1..(n - k) : ordered_requests'[i] = ordered_requests[k + i]
      BY <3>1, <3>2, SubSeqProperties DEF TypeOK, n
    <3>4. TypeOK' /\ TimerFollowsList'
      <4>1. waits > 0 /\ waits = 1
        BY <1>4 DEF handle_timeout, TimerFollowsList
      <4>. QED
        BY <3>1, <3>3, <4>1 DEF TypeOK, TimerFollowsList
    <3>5. \A r \in outstanding_requests :
              \E i \in DOMAIN ordered_requests' : ordered_requests'[i] = r
      <4>1. SUFFICES ASSUME NEW r \in outstanding_requests
                     PROVE  \E i \in 1..(n - k) : ordered_requests[k + i] = r
        BY <3>3, Zenon
      <4>2. PICK j \in 1..n : ordered_requests[j] = r
        BY <3>2, Zenon DEF ListCoversOutstanding
      <4>3. ~(j \in 1..k)
        BY <3>2, <4>2, Zenon DEF ListCoversOutstanding
      <4>4. j - k \in 1..(n - k) /\ k + (j - k) = j
        BY <3>2, <4>3
      <4>. QED
        BY <4>2, <4>4, Zenon
    <3>6. \A i, j \in DOMAIN ordered_requests' :
              ordered_requests'[i] = ordered_requests'[j] => i = j
      <4>1. SUFFICES ASSUME NEW i \in 1..(n - k), NEW j \in 1..(n - k),
                            ordered_requests[k + i] = ordered_requests[k + j]
                     PROVE  i = j
        BY <3>3, Zenon
      <4>2. k + i \in DOMAIN ordered_requests /\ k + j \in DOMAIN ordered_requests
        BY <3>2
      <4>3. k + i = k + j
        BY <4>1, <4>2, Zenon DEF ListCoversOutstanding
      <4>. QED
        BY <3>2, <4>3
    <3>7. \A i \in DOMAIN ordered_requests' :
              ordered_requests'[i] \in outstanding_requests \cup completed_requests
      <4>1. \A i \in 1..(n - k) : k + i \in 1..n
        BY <3>2
      <4>. QED
        BY <3>2, <3>3, <4>1, Zenon DEF ListCoversOutstanding
    <3>. QED
      BY <3>1, <3>4, <3>5, <3>6, <3>7, Zenon DEF ListCoversOutstanding
  <2>. QED
    BY <2>1, <2>2, Zenon
<1>5. CASE handle_failure
  BY <1>5, DetectorAssumption DEF handle_failure, TypeOK, TimerFollowsList, ListCoversOutstanding
<1>. QED
  BY <1>1, <1>2, <1>3, <1>4, <1>5, Zenon DEF Next

LEMMA DetectorInvariance == Spec => []DetectorInvariant
<1>1. Init => DetectorInvariant
  BY DetectorAssumption DEF Init, DetectorInvariant, TypeOK, TimerFollowsList,
                            ListCoversOutstanding
<1>2. DetectorInvariant /\ [Next]_vars => DetectorInvariant'
  BY NextInvariant, Zenon
<1>. QED
  BY <1>1, <1>2, PTL DEF Spec

\* While requests are on the list exactly one timer callback is to come, and none
\* when the list is empty: handle_timeout takes no front() of an empty list.
THEOREM TimerAlwaysFollows == Spec => []TimerFollowsList
<1>1. DetectorInvariant => TimerFollowsList
  BY Zenon DEF DetectorInvariant
<1>. QED
  BY <1>1, DetectorInvariance, PTL

\* A request that request_executed has not yet seen is on the list that
\* handle_timeout goes through, once: start_timer and the loop that drops executed
\* requests lose none.
THEOREM OutstandingAlwaysListed == Spec => []ListCoversOutstanding
<1>1. DetectorInvariant => ListCoversOutstanding
  BY Zenon DEF DetectorInvariant
<1>. QED
  BY <1>1, DetectorInvariance, PTL

=============================================================================
