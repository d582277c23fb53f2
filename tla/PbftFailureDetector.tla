------------------------- MODULE PbftFailureDetector -------------------------
(***************************************************************************)
(* pbft/pbft_failure_detector of one peer: a list of the requests that     *)
(* were seen and a timer that runs as long as the list is not empty.  When *)
(* the timer runs out on a first request that was not executed, a failure  *)
(* is reported.  Message handlers (request_seen), execute handlers         *)
(* (request_executed) and timer callbacks run on different threads; the    *)
(* lock of the detector makes each of the three atomic.  expires_from_now  *)
(* does not undo an async_wait: its callback runs too, with an error code  *)
(* that handle_timeout ignores, so the waits are counted.                  *)
(***************************************************************************)
EXTENDS Naturals, Sequences, FiniteSets

CONSTANTS Requests,     \* requests, as told apart by their hash
          MaxPosted     \* bound: failure handlers waiting in the io_context

ASSUME DetectorAssumption == MaxPosted \in Nat \ {0}

VARIABLES ordered_requests, outstanding_requests, completed_requests,
          waits,            \* callbacks of the timer that are still to run
          posted_failures   \* failure handlers waiting in the io_context

vars == <<ordered_requests, outstanding_requests, completed_requests, waits,
          posted_failures>>

Init ==
    /\ ordered_requests = << >>
    /\ outstanding_requests = {}
    /\ completed_requests = {}
    /\ waits = 0
    /\ posted_failures = 0

\* Mutant: the timer is started with every new request.
request_seen_timer(r) ==
    /\ IF r \in outstanding_requests \cup completed_requests
       THEN UNCHANGED <<ordered_requests, outstanding_requests, waits>>
       ELSE /\ ordered_requests' = Append(ordered_requests, r)
            /\ outstanding_requests' = outstanding_requests \cup {r}
            /\ waits' = waits + 1
    /\ UNCHANGED <<completed_requests, posted_failures>>

\* Mutant: a request is looked for among the outstanding ones only.
request_seen_again(r) ==
    /\ IF r \in outstanding_requests
       THEN UNCHANGED <<ordered_requests, outstanding_requests, waits>>
       ELSE /\ ordered_requests' = Append(ordered_requests, r)
            /\ outstanding_requests' = outstanding_requests \cup {r}
            /\ waits' = IF ordered_requests = << >> THEN waits + 1 ELSE waits
    /\ UNCHANGED <<completed_requests, posted_failures>>

request_seen(r) ==
    /\ IF r \in outstanding_requests \cup completed_requests
       THEN UNCHANGED <<ordered_requests, outstanding_requests, waits>>
       ELSE /\ ordered_requests' = Append(ordered_requests, r)
            /\ outstanding_requests' = outstanding_requests \cup {r}
            /\ waits' = IF ordered_requests = << >> THEN waits + 1 ELSE waits
    /\ UNCHANGED <<completed_requests, posted_failures>>

request_executed(r) ==
    /\ outstanding_requests' = outstanding_requests \ {r}
    /\ completed_requests' = completed_requests \cup {r}
    /\ UNCHANGED <<ordered_requests, waits, posted_failures>>

\* How many requests the while loop of handle_timeout takes off the front.
completed_prefix ==
    CHOOSE k \in 0..Len(ordered_requests) :
        /\ \A i \in 1..k : ordered_requests[i] \in completed_requests
        /\ k < Len(ordered_requests) => ordered_requests[k + 1] \notin completed_requests

\* Mutant: the timer is started again and no failure handler posted.
handle_timeout_silent ==
    /\ waits > 0
    /\ ordered_requests[1] \in completed_requests
    /\ ordered_requests' =
           SubSeq(ordered_requests, completed_prefix + 1, Len(ordered_requests))
    /\ waits' = IF ordered_requests' # << >> THEN waits ELSE waits - 1
    /\ UNCHANGED <<outstanding_requests, completed_requests, posted_failures>>

\* front() of the list, whether or not it has one.
handle_timeout ==
    /\ waits > 0
    /\ \/ /\ ordered_requests[1] \notin completed_requests
          /\ posted_failures < MaxPosted
          /\ posted_failures' = posted_failures + 1
          /\ UNCHANGED <<ordered_requests, waits>>
       \/ /\ ordered_requests[1] \in completed_requests
          /\ ordered_requests' =
                 SubSeq(ordered_requests, completed_prefix + 1, Len(ordered_requests))
          /\ waits' = IF ordered_requests' # << >> THEN waits ELSE waits - 1
          /\ UNCHANGED posted_failures
    /\ UNCHANGED <<outstanding_requests, completed_requests>>

\* The posted failure handler: pbft::handle_failure tells the audits and does no more.
handle_failure ==
    /\ posted_failures > 0
    /\ posted_failures' = posted_failures - 1
    /\ UNCHANGED <<ordered_requests, outstanding_requests, completed_requests, waits>>

Next ==
    \/ \E r \in Requests : request_seen(r)
    \/ \E r \in Requests : request_executed(r)
    \/ handle_timeout
    \/ handle_failure

Spec == Init /\ [][Next]_vars

\* The timer runs out and the io_context runs what is posted.
FairSpec == Spec /\ WF_vars(handle_timeout) /\ WF_vars(handle_failure)

-----------------------------------------------------------------------------
\* The list and the two sets hold requests that request_seen was called with.
TypeOK ==
    /\ ordered_requests \in Seq(Requests)
    /\ outstanding_requests \subseteq Requests
    /\ completed_requests \subseteq Requests
    /\ waits \in Nat
    /\ posted_failures \in 0..MaxPosted

\* There is one timer callback to come while a request is on the list, and none
\* otherwise: handle_timeout never reads the front of an empty list, and no request
\* on the list is left without a timer.
TimerFollowsList == waits = IF ordered_requests = << >> THEN 0 ELSE 1

\* A request is on the list once, and is there as long as it is outstanding.
ListCoversOutstanding ==
    /\ \A i, j \in DOMAIN ordered_requests :
           ordered_requests[i] = ordered_requests[j] => i = j
    /\ \A r \in outstanding_requests :
           /\ \E i \in DOMAIN ordered_requests : ordered_requests[i] = r
           /\ r \notin completed_requests
    /\ \A i \in DOMAIN ordered_requests :
           ordered_requests[i] \in outstanding_requests \cup completed_requests

\* As long as a request stays unexecuted, failures are reported again and again,
\* even when the timer has to be started anew for it because the requests before it
\* on the list were executed.
StuckIsReported ==
    \A r \in Requests :
        (r \in outstanding_requests) ~> (r \in completed_requests \/ posted_failures > 0)
=============================================================================
