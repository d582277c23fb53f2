------------------------- MODULE DatabasePbftService -------------------------
(***************************************************************************)
(* pbft/database_pbft_service, one instance per peer.  pbft posts          *)
(* apply_operation to the io_context, whose worker threads run the posted  *)
(* calls in any order; the service stores every request under its sequence *)
(* number and executes the stored ones as long as the next one is there.   *)
(* The execute handlers it posts back run in any order, too.  The daemon   *)
(* gives it a mem_storage, so nothing of it survives a restart.            *)
(***************************************************************************)
EXTENDS Naturals, Sequences, FiniteSets

CONSTANTS Peers,        \* the configured peers
          Requests,     \* requests, as told apart by their hash
          NoRequest,    \* "no row", "no entry"
          MaxSequence   \* bound: sequence numbers the primary may issue

ASSUME ServiceAssumption ==
    /\ IsFiniteSet(Peers) /\ Cardinality(Peers) \in Nat \ {0}
    /\ NoRequest \notin Requests
    /\ MaxSequence \in Nat

SequenceNumbers == 1..MaxSequence

VARIABLES posted_applies,        \* apply_operation calls waiting in the io_context
          unstable_storage,      \* rows of stored requests, by sequence number
          next_request_sequence, \* next sequence number to execute
          executed,              \* what crud was asked to execute, in that order
          posted_executes,       \* execute handlers waiting in the io_context
          failed                 \* peers whose process is not running

serviceVars == <<posted_applies, unstable_storage, next_request_sequence,
                 executed, posted_executes, failed>>

EmptyStorage == [s \in SequenceNumbers |-> NoRequest]

ServiceInit ==
    /\ posted_applies = [n \in Peers |-> {}]
    /\ unstable_storage = [n \in Peers |-> EmptyStorage]
    /\ next_request_sequence = [n \in Peers |-> 1]
    /\ executed = [n \in Peers |-> << >>]
    /\ posted_executes = [n \in Peers |-> {}]

\* Mutant: counts the rows instead of following them.
first_missing_count(rows, from, stop) ==
    stop = from + Cardinality({s \in SequenceNumbers : rows[s] # NoRequest})

\* stop is the first sequence number at or after from that has no row: there the
\* while loop of process_awaiting_operations ends.
first_missing(rows, from, stop) ==
    /\ stop \in SequenceNumbers => rows[stop] = NoRequest
    /\ \A s \in from..(stop - 1) : rows[s] # NoRequest

\* process_awaiting_operations on the rows as they are after the create.
process_awaiting_operations(n, rows) ==
    LET from == next_request_sequence[n]
    IN  \E stop \in from..(MaxSequence + 1) :
        /\ first_missing(rows, from, stop)
        /\ executed' = [executed EXCEPT ![n] =
                           @ \o [i \in 1..(stop - from) |-> rows[from + i - 1]]]
        /\ posted_executes' = [posted_executes EXCEPT ![n] = @ \cup (from..(stop - 1))]
        /\ unstable_storage' = [unstable_storage EXCEPT ![n] =
               [s \in SequenceNumbers |-> IF s \in from..(stop - 1) THEN NoRequest
                                                               ELSE rows[s]]]
        /\ next_request_sequence' = [next_request_sequence EXCEPT ![n] = stop]

\* Mutant: a request is executed as it arrives.
apply_operation_at_once(n, s, r) ==
    /\ n \notin failed
    /\ <<s, r>> \in posted_applies[n]
    /\ posted_applies' = [posted_applies EXCEPT ![n] = @ \ {<<s, r>>}]
    /\ executed' = [executed EXCEPT ![n] = Append(@, r)]
    /\ posted_executes' = [posted_executes EXCEPT ![n] = @ \cup {s}]
    /\ next_request_sequence' = [next_request_sequence EXCEPT ![n] = @ + 1]
    /\ UNCHANGED <<unstable_storage, failed>>

\* A worker thread runs a posted apply_operation.  A second row for the same
\* sequence number is "something bad": the exception leaves io_context::run and
\* ends the process.
apply_operation(n, s, r) ==
    /\ n \notin failed
    /\ <<s, r>> \in posted_applies[n]
    /\ posted_applies' = [posted_applies EXCEPT ![n] = @ \ {<<s, r>>}]
    /\ IF unstable_storage[n][s] = NoRequest
       THEN /\ process_awaiting_operations(n, [unstable_storage[n] EXCEPT ![s] = r])
            /\ UNCHANGED failed
       ELSE /\ failed' = failed \cup {n}
            /\ UNCHANGED <<unstable_storage, next_request_sequence, executed,
                           posted_executes>>

\* The process of n dies and starts again with an empty mem_storage.
ServiceRestart(n) ==
    /\ posted_applies' = [posted_applies EXCEPT ![n] = {}]
    /\ unstable_storage' = [unstable_storage EXCEPT ![n] = EmptyStorage]
    /\ next_request_sequence' = [next_request_sequence EXCEPT ![n] = 1]
    /\ executed' = [executed EXCEPT ![n] = << >>]
    /\ posted_executes' = [posted_executes EXCEPT ![n] = {}]
    /\ failed' = failed \ {n}

\* Types; and exactly the sequence numbers before next_request_sequence have been
\* executed.
ServiceTypeOK ==
    /\ posted_applies \in [Peers -> SUBSET (SequenceNumbers \X Requests)]
    /\ unstable_storage \in [Peers -> [SequenceNumbers -> Requests \cup {NoRequest}]]
    /\ next_request_sequence \in [Peers -> 1..(MaxSequence + 1)]
    /\ executed \in [Peers -> Seq(Requests)]
    /\ \A n \in Peers : Len(executed[n]) = next_request_sequence[n] - 1
    /\ posted_executes \in [Peers -> SUBSET SequenceNumbers]
    /\ failed \subseteq Peers
=============================================================================
