---------------------------- MODULE ReplicatedLog ----------------------------
(***************************************************************************)
(* What the pbft half of a swarm promises its clients: one log of          *)
(* requests, in which every position is settled at most once and for all   *)
(* peers, and peers that execute it from the start, in order and without   *)
(* gaps.  A peer that loses its memory starts over.                        *)
(***************************************************************************)
EXTENDS Naturals

CONSTANTS Peers, Requests, NoRequest, MaxSequence

VARIABLES log,       \* [position]: the request settled there, or NoRequest
          done       \* [peer]: how many positions it has executed

Init == /\ log = [s \in 1..MaxSequence |-> NoRequest]
        /\ done = [n \in Peers |-> 0]

Settle(s, r) == /\ log[s] = NoRequest
                /\ log' = [log EXCEPT ![s] = r]
                /\ UNCHANGED done

Execute(n, k) == /\ k > done[n]
                 /\ \A s \in 1..k : log[s] # NoRequest
                 /\ done' = [done EXCEPT ![n] = k]
                 /\ UNCHANGED log

StartOver(n) == /\ done' = [done EXCEPT ![n] = 0]
                /\ UNCHANGED log

Next == \/ \E s \in 1..MaxSequence, r \in Requests : Settle(s, r)
        \/ \E n \in Peers : StartOver(n) \/ \E k \in 1..MaxSequence : Execute(n, k)

Spec == Init /\ [][Next]_<<log, done>>
=============================================================================
