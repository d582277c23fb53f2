--------------------------- MODULE RaftCrudProofs ---------------------------
(***************************************************************************)
(* What a raft peer stores and tells its subscribers, for any keys,        *)
(* values, threads, sessions, kinds of storage and bounds.                 *)
(*                                                                         *)
(* The rows are always those that the committed part of the log makes of   *)
(* the rows of the start, or of the rows that the last restart left.  Such *)
(* rows are leftovers of the same log: replayed over them, it makes what   *)
(* it would make of nothing.                                               *)
(***************************************************************************)
EXTENDS RaftCrud, WellFoundedInduction, TLAPS

Rows == [Keys -> Values \cup {NoValue}]

Thread == {Idle} \cup [pc : {"routed", "first", "second"}, msg : Messages]

-----------------------------------------------------------------------------
(* What the first i entries of a log say of a key *)

at(l, i, k, op) == {j \in 1..i : l[j].op = op /\ l[j].key = k}

since(l, i, k) == {c \in at(l, i, k, "create") : \A d \in at(l, i, k, "delete") : d < c}

updates(l, i, k) == {u \in at(l, i, k, "update") : \E c \in since(l, i, k) : c < u}

\* v is what they make of it: what "outcome" says, without its choices.
Made(l, i, k, v) ==
    \/ since(l, i, k) = {} /\ v = NoValue
    \/ /\ updates(l, i, k) = {}
       /\ \E c \in since(l, i, k) : v = l[c].value /\ \A j \in since(l, i, k) : c <= j
    \/ \E u \in updates(l, i, k) : v = l[u].value /\ \A j \in updates(l, i, k) : j <= u

Created(l, k) == \E j \in DOMAIN l : l[j].op = "create" /\ l[j].key = k

Changed(l, i, k) == \E j \in 1..i : l[j].op # "create" /\ l[j].key = k

\* A row that is left over from the same log: where nothing but creates tells what it is
\* to be, it is that of the first.
Leftover(l, k, v) ==
    v # NoValue => /\ Created(l, k)
                   /\ \/ Changed(l, Len(l), k)
                      \/ \E c \in at(l, Len(l), k, "create") :
                             v = l[c].value /\ \A j \in at(l, Len(l), k, "create") : c <= j

\* No update or delete comes before a create of its key.
WellFormed(l) ==
    \A i \in 1..Len(l) : l[i].op # "create" =>
        \E j \in 1..(i - 1) : l[j].op = "create" /\ l[j].key = l[i].key

\* f[i] is what the first i entries leave of the rows f[0].
Chain(l, f) ==
    /\ f \in [0..Len(l) -> Rows]
    /\ \A i \in 1..Len(l) : f[i] = commit_to(f[i - 1], l[i])

-----------------------------------------------------------------------------
(* The invariant *)

Types ==
    /\ log \in Seq(Messages)
    /\ commit_index \in 0..Len(log)
    /\ storage \in Rows
    /\ thread \in [Threads -> Thread]
    /\ session \in [Sessions -> {"new", "open", "closed"}]
    /\ subscribers \subseteq Subscriptions
    /\ notices \in [Subscriptions -> Values \cup {NoValue, "none"}]

\* A thread that has found the row of its key knows of a create in the log.
Checked(r) ==
    \/ r.pc \in {"first", "second"} /\ r.msg.op = "update"
    \/ r.pc = "second" /\ r.msg.op = "delete"

Stored ==
    \E f : /\ Chain(log, f)
           /\ storage = f[commit_index]
           /\ \A k \in Keys : Leftover(log, k, f[0][k])

Noticed ==
    \A x \in Subscriptions : notices[x] # "none" =>
        x \in subscribers /\ session[x[2]] = "open" /\ notices[x] = storage[x[1]]

Invariant ==
    /\ Types
    /\ WellFormed(log)
    /\ \A t \in Threads : Checked(thread[t]) => Created(log, thread[t].msg.key)
    /\ Stored
    /\ Noticed

-----------------------------------------------------------------------------
(* One entry more *)

LEMMA MessageFacts ==
    ASSUME NEW m \in Messages
    PROVE  /\ m.key \in Keys /\ m.op \in {"create", "update", "delete"}
           /\ m.op \in {"create", "update"} => m.value \in Values /\ m.value # NoValue
           /\ m.op = "delete" => m.value = NoValue
  BY CrudAssumption, Zenon DEF Messages

\* What commit_create, commit_update and commit_delete leave of a row.
After(v, m, k) ==
    IF m.key # k THEN v
    ELSE IF m.op = "create" THEN IF v = NoValue THEN m.value ELSE v
    ELSE IF m.op = "update" THEN IF v = NoValue THEN NoValue ELSE m.value
    ELSE NoValue

LEMMA CommitRow ==
    ASSUME NEW rows \in Rows, NEW m \in Messages
    PROVE  /\ commit_to(rows, m) \in Rows
           /\ \A k \in Keys : commit_to(rows, m)[k] = After(rows[k], m, k)
<1> USE DEF After
<1>1. CASE m.op = "create"
  BY <1>1, MessageFacts, Zenon DEF commit_to, create, has, Rows
<1>2. CASE m.op = "update"
  BY <1>2, MessageFacts, Zenon DEF commit_to, update, has, Rows
<1>3. CASE m.op = "delete"
  BY <1>3, MessageFacts, Zenon DEF commit_to, remove, Rows
<1>. QED
  BY <1>1, <1>2, <1>3, MessageFacts, Zenon

\* An entry of another key leaves all of it as it is.
LEMMA OtherKey ==
    ASSUME NEW l \in Seq(Messages), NEW i \in 1..Len(l), NEW k, l[i].key # k
    PROVE  /\ \A op : at(l, i, k, op) = at(l, i - 1, k, op)
           /\ since(l, i, k) = since(l, i - 1, k)
           /\ updates(l, i, k) = updates(l, i - 1, k)
           /\ Changed(l, i, k) = Changed(l, i - 1, k)
<1>1. \A op : at(l, i, k, op) = at(l, i - 1, k, op)
  BY DEF at
<1>2. since(l, i, k) = since(l, i - 1, k)
  BY <1>1 DEF since
<1>3. updates(l, i, k) = updates(l, i - 1, k)
  BY <1>1, <1>2 DEF updates
<1>4. Changed(l, i, k) = Changed(l, i - 1, k)
  BY DEF Changed
<1>. QED
  BY <1>1, <1>2, <1>3, <1>4, Zenon

LEMMA CreateKey ==
    ASSUME NEW l \in Seq(Messages), NEW i \in 1..Len(l), NEW k, l[i].key = k,
           l[i].op = "create"
    PROVE  /\ since(l, i, k) = since(l, i - 1, k) \cup {i}
           /\ updates(l, i, k) = updates(l, i - 1, k)
<1>1. /\ at(l, i, k, "create") = at(l, i - 1, k, "create") \cup {i}
      /\ at(l, i, k, "update") = at(l, i - 1, k, "update")
      /\ at(l, i, k, "delete") = at(l, i - 1, k, "delete")
  BY DEF at
<1>2. \A op : \A j \in at(l, i - 1, k, op) : j \in Nat /\ j < i
  BY DEF at
<1>3. since(l, i, k) = since(l, i - 1, k) \cup {i}
  BY <1>1, <1>2 DEF since
<1>4. updates(l, i, k) = updates(l, i - 1, k)
  BY <1>1, <1>2, <1>3 DEF updates
<1>. QED
  BY <1>3, <1>4, Zenon

LEMMA UpdateKey ==
    ASSUME NEW l \in Seq(Messages), NEW i \in 1..Len(l), NEW k, l[i].key = k,
           l[i].op = "update"
    PROVE  /\ since(l, i, k) = since(l, i - 1, k)
           /\ \A c \in since(l, i - 1, k) : updates(l, i, k) = updates(l, i - 1, k) \cup {i}
<1>1. /\ at(l, i, k, "create") = at(l, i - 1, k, "create")
      /\ at(l, i, k, "update") = at(l, i - 1, k, "update") \cup {i}
      /\ at(l, i, k, "delete") = at(l, i - 1, k, "delete")
  BY DEF at
<1>2. \A op : \A j \in at(l, i - 1, k, op) : j \in Nat /\ j < i
  BY DEF at
<1>3. since(l, i, k) = since(l, i - 1, k)
  BY <1>1, Zenon DEF since
<1>4. \A c \in since(l, i - 1, k) : c < i
  BY <1>2, Zenon DEF since
<1>5. ASSUME NEW c \in since(l, i - 1, k)
      PROVE  updates(l, i, k) = updates(l, i - 1, k) \cup {i}
  <2>1. c < i
    BY <1>4
  <2>2. i \in updates(l, i, k)
    <3>1. i \in at(l, i, k, "update") /\ c \in since(l, i, k)
      BY <1>1, <1>3, Zenon
    <3>. QED
      BY <2>1, <3>1, Zenon DEF updates
  <2>. QED
    BY <1>1, <1>3, <2>2 DEF updates
<1>. QED
  BY <1>3, <1>5, Zenon

LEMMA DeleteKey ==
    ASSUME NEW l \in Seq(Messages), NEW i \in 1..Len(l), NEW k, l[i].key = k,
           l[i].op = "delete"
    PROVE  since(l, i, k) = {}
<1>1. i \in at(l, i, k, "delete")
  BY DEF at
<1>2. \A c \in at(l, i, k, "create") : c \in Nat /\ ~(i < c)
  BY DEF at
<1>. QED
  BY <1>1, <1>2, Zenon DEF since

\* A key has a value exactly if it was created since its last delete.
LEMMA MadeValue ==
    ASSUME NEW l \in Seq(Messages), NEW i \in 0..Len(l), NEW k, NEW v, Made(l, i, k, v)
    PROVE  v = NoValue <=> since(l, i, k) = {}
<1>1. \A j \in since(l, i, k) : j \in 1..Len(l) /\ l[j] \in Messages /\ l[j].op = "create"
  BY DEF since, at
<1>2. \A j \in updates(l, i, k) : /\ j \in 1..Len(l) /\ l[j] \in Messages /\ l[j].op = "update"
                                  /\ since(l, i, k) # {}
  BY DEF updates, at
<1>. QED
  BY <1>1, <1>2, MessageFacts DEF Made

LEMMA MadeStep ==
    ASSUME NEW l \in Seq(Messages), NEW i \in 1..Len(l), NEW k, NEW v, Made(l, i - 1, k, v)
    PROVE  Made(l, i, k, After(v, l[i], k))
<1>1. /\ l[i] \in Messages /\ l[i].op \in {"create", "update", "delete"}
      /\ i - 1 \in 0..Len(l)
  BY MessageFacts
<1>2. \A j \in since(l, i - 1, k) \cup updates(l, i - 1, k) : j \in Nat /\ j <= i
  BY DEF since, updates, at
<1>3. updates(l, i - 1, k) # {} => since(l, i - 1, k) # {}
  BY Zenon DEF updates
<1>4. v = NoValue <=> since(l, i - 1, k) = {}
  BY <1>1, MadeValue, Zenon
<1>5. CASE l[i].key # k
  <2>1. After(v, l[i], k) = v
    BY <1>5, Zenon DEF After
  <2>. QED
    BY <1>5, <2>1, OtherKey DEF Made
<1>6. CASE l[i].key = k /\ l[i].op = "create"
  <2>1. /\ since(l, i, k) = since(l, i - 1, k) \cup {i}
        /\ updates(l, i, k) = updates(l, i - 1, k)
    BY <1>6, CreateKey, Zenon
  <2>2. CASE v = NoValue
    <3>1. After(v, l[i], k) = l[i].value
      BY <1>6, <2>2, Zenon DEF After
    <3>2. since(l, i, k) = {i} /\ updates(l, i, k) = {}
      BY <1>3, <1>4, <2>1, <2>2, Zenon
    <3>. QED
      BY <3>1, <3>2 DEF Made
  <2>3. CASE v # NoValue
    <3>1. After(v, l[i], k) = v
      BY <1>6, <2>3, Zenon DEF After
    <3>. QED
      BY <1>2, <1>4, <2>1, <2>3, <3>1, Zenon DEF Made
  <2>. QED
    BY <2>2, <2>3, Zenon
<1>7. CASE l[i].key = k /\ l[i].op = "update"
  <2>1. since(l, i, k) = since(l, i - 1, k)
    BY <1>7, UpdateKey
  <2>2. CASE v = NoValue
    <3>1. After(v, l[i], k) = NoValue
      BY <1>7, <2>2, Zenon DEF After
    <3>2. since(l, i, k) = {}
      BY <1>4, <2>1, <2>2, Zenon
    <3>. QED
      BY <3>1, <3>2, Zenon DEF Made
  <2>3. CASE v # NoValue
    <3>1. After(v, l[i], k) = l[i].value
      BY <1>7, <2>3, Zenon DEF After
    <3>2. updates(l, i, k) = updates(l, i - 1, k) \cup {i}
      <4>1. PICK c : c \in since(l, i - 1, k)
        BY <1>4, <2>3, Zenon
      <4>. QED
        BY <1>7, <4>1, UpdateKey, Zenon
    <3>3. i \in updates(l, i, k) /\ \A j \in updates(l, i, k) : j <= i
      BY <1>2, <3>2
    <3>. QED
      BY <3>1, <3>3, Zenon DEF Made
  <2>. QED
    BY <2>2, <2>3, Zenon
<1>8. CASE l[i].key = k /\ l[i].op = "delete"
  <2>1. since(l, i, k) = {}
    BY <1>8, DeleteKey, Zenon
  <2>2. After(v, l[i], k) = NoValue
    BY <1>8, Zenon DEF After
  <2>. QED
    BY <2>1, <2>2, Zenon DEF Made
<1>. QED
  BY <1>1, <1>5, <1>6, <1>7, <1>8, Zenon

-----------------------------------------------------------------------------
(* A log that is done to leftovers *)

\* The row b, and no update or delete so far, or what the entries make of nothing.
Replayed(l, i, k, b, v) ==
    \/ Made(l, i, k, v)
    \/ v = b /\ b # NoValue /\ ~Changed(l, i, k)

LEMMA ReplayStep ==
    ASSUME NEW l \in Seq(Messages), WellFormed(l), NEW i \in 1..Len(l), NEW k, NEW b, NEW v,
           Replayed(l, i - 1, k, b, v)
    PROVE  Replayed(l, i, k, b, After(v, l[i], k))
<1>1. l[i] \in Messages /\ l[i].op \in {"create", "update", "delete"}
  BY MessageFacts
<1>2. CASE Made(l, i - 1, k, v)
  BY <1>2, MadeStep, Zenon DEF Replayed
<1>3. CASE v = b /\ b # NoValue /\ ~Changed(l, i - 1, k)
  <2>1. CASE l[i].key # k
    <3>1. After(v, l[i], k) = v
      BY <2>1, Zenon DEF After
    <3>2. ~Changed(l, i, k)
      BY <1>3, <2>1, OtherKey, Zenon
    <3>. QED
      BY <1>3, <3>1, <3>2, Zenon DEF Replayed
  <2>2. CASE l[i].key = k /\ l[i].op = "create"
    <3>1. After(v, l[i], k) = v
      BY <1>3, <2>2, Zenon DEF After
    <3>2. ~Changed(l, i, k)
      BY <1>3, <2>2 DEF Changed
    <3>. QED
      BY <1>3, <3>1, <3>2, Zenon DEF Replayed
  <2>3. CASE l[i].key = k /\ l[i].op = "update"
    <3>1. After(v, l[i], k) = l[i].value
      BY <1>3, <2>3, Zenon DEF After
    <3>2. PICK j \in 1..(i - 1) : l[j].op = "create" /\ l[j].key = k
      BY <2>3, Zenon DEF WellFormed
    <3>3. at(l, i - 1, k, "delete") = {}
      BY <1>3, Zenon DEF Changed, at
    <3>4. j \in since(l, i - 1, k)
      BY <3>2, <3>3, Zenon DEF since, at
    <3>5. updates(l, i, k) = updates(l, i - 1, k) \cup {i}
      BY <2>3, <3>4, UpdateKey, Zenon
    <3>6. \A u \in updates(l, i - 1, k) : u <= i
      BY DEF updates, at
    <3>7. Made(l, i, k, l[i].value)
      BY <3>5, <3>6 DEF Made
    <3>. QED
      BY <3>1, <3>7, Zenon DEF Replayed
  <2>4. CASE l[i].key = k /\ l[i].op = "delete"
    <3>1. since(l, i, k) = {}
      BY <2>4, DeleteKey, Zenon
    <3>2. After(v, l[i], k) = NoValue
      BY <2>4, Zenon DEF After
    <3>. QED
      BY <3>1, <3>2, Zenon DEF Made, Replayed
  <2>. QED
    BY <1>1, <2>1, <2>2, <2>3, <2>4, Zenon
<1>. QED
  BY <1>2, <1>3, Zenon DEF Replayed

LEMMA MadeIsOutcome ==
    ASSUME NEW l \in Seq(Messages), NEW k, NEW v, Made(l, Len(l), k, v)
    PROVE  v = outcome(l, k)
<1> DEFINE A(op) == {i \in DOMAIN l : l[i].op = op /\ l[i].key = k}
           S == {i \in A("create") : \A d \in A("delete") : d < i}
           U == {u \in A("update") : \E c \in S : c < u}
           first == CHOOSE i \in S : \A j \in S : i <= j
           last == CHOOSE i \in U : \A j \in U : j <= i
<1>1. outcome(l, k) = IF S = {} THEN NoValue
                      ELSE IF U = {} THEN l[first].value ELSE l[last].value
  BY Zenon DEF outcome
<1>2. \A op : A(op) = at(l, Len(l), k, op) /\ \A i \in A(op) : i \in Nat
  BY DEF at
<1>. HIDE DEF A
<1>3. S = since(l, Len(l), k) /\ \A i \in S : i \in Nat
  BY <1>2, Zenon DEF since
<1>. HIDE DEF S
<1>4. U = updates(l, Len(l), k) /\ (\A i \in U : i \in Nat) /\ (U # {} => S # {})
  BY <1>2, <1>3, Zenon DEF updates
<1>. HIDE DEF U
<1>5. \A c \in S : (\A j \in S : c <= j) => c = first
  BY <1>3
<1>6. \A u \in U : (\A j \in U : j <= u) => u = last
  BY <1>4
<1>7. \/ S = {} /\ v = NoValue
      \/ U = {} /\ \E c \in S : v = l[c].value /\ \A j \in S : c <= j
      \/ \E u \in U : v = l[u].value /\ \A j \in U : j <= u
  BY <1>3, <1>4, Zenon DEF Made
<1>. HIDE DEF first, last
<1>. QED
  BY <1>1, <1>4, <1>5, <1>6, <1>7

LEMMA ReplayAll ==
    ASSUME NEW l \in Seq(Messages), WellFormed(l), NEW f, Chain(l, f), NEW k \in Keys
    PROVE  \A i \in 0..Len(l) : Replayed(l, i, k, f[0][k], f[i][k])
<1> DEFINE T == {i \in 0..Len(l) : ~Replayed(l, i, k, f[0][k], f[i][k])}
<1> SUFFICES ASSUME T # {} PROVE FALSE
  BY Zenon
<1>1. T \subseteq Nat
  OBVIOUS
<1>2. PICK i \in T : \A j \in T : ~ (<<j, i>> \in OpToRel(<, Nat))
  BY <1>1, NatLessThanWellFounded, WFMin, Zenon
<1>3. i \in 0..Len(l) /\ \A j \in 0..Len(l) : j < i => j \notin T
  BY <1>1, <1>2, Zenon DEF OpToRel
<1>4. CASE i = 0
  <2>1. since(l, 0, k) = {} /\ ~Changed(l, 0, k)
    BY DEF since, at, Changed
  <2>. QED
    BY <1>2, <1>4, <2>1, Zenon DEF Replayed, Made
<1>5. CASE i # 0
  <2>1. i \in 1..Len(l) /\ i - 1 \in 0..Len(l) /\ i - 1 < i
    BY <1>3, <1>5
  <2>2. Replayed(l, i - 1, k, f[0][k], f[i - 1][k])
    BY <1>3, <2>1, Zenon
  <2>3. f[i - 1] \in Rows /\ l[i] \in Messages /\ f[i] = commit_to(f[i - 1], l[i])
    <3>1. f \in [0..Len(l) -> Rows] /\ \A j \in 1..Len(l) : f[j] = commit_to(f[j - 1], l[j])
      BY Zenon DEF Chain
    <3>2. l[i] \in Messages
      BY <2>1
    <3>. QED
      BY <2>1, <3>1, <3>2, Zenon
  <2>4. f[i][k] = After(f[i - 1][k], l[i], k)
    BY <2>3, CommitRow
  <2>. QED
    BY <1>2, <2>1, <2>2, <2>4, ReplayStep, Zenon
<1>. QED
  BY <1>4, <1>5, Zenon

\* What is left at any point of a replay is a leftover again.
LEMMA ReplayLeftover ==
    ASSUME NEW l \in Seq(Messages), WellFormed(l), NEW f, Chain(l, f), NEW k \in Keys,
           Leftover(l, k, f[0][k]), NEW i \in 0..Len(l)
    PROVE  Leftover(l, k, f[i][k])
<1> DEFINE v == f[i][k]
           n == Len(l)
<1> SUFFICES ASSUME v # NoValue
             PROVE  /\ Created(l, k)
                    /\ \/ Changed(l, n, k)
                       \/ \E c \in at(l, n, k, "create") :
                              v = l[c].value /\ \A j \in at(l, n, k, "create") : c <= j
  BY Zenon DEF Leftover
<1>1. Replayed(l, i, k, f[0][k], v)
  BY ReplayAll, Zenon
<1>2. CASE v = f[0][k]
  BY <1>2, Zenon DEF Leftover
<1>3. CASE Made(l, i, k, v)
  <2>1. since(l, i, k) # {}
    BY <1>3, MadeValue
  <2>2. Created(l, k)
    BY <2>1 DEF since, at, Created
  <2>3. CASE ~Changed(l, n, k)
    <3>1. at(l, i, k, "delete") = {} /\ at(l, i, k, "update") = {}
      BY <2>3 DEF Changed, at
    <3>2. since(l, i, k) = at(l, i, k, "create") /\ updates(l, i, k) = {}
      BY <3>1, Zenon DEF since, updates
    <3>3. PICK c \in at(l, i, k, "create") :
              v = l[c].value /\ \A j \in at(l, i, k, "create") : c <= j
      BY <1>3, <2>1, <3>2, Zenon DEF Made
    <3>4. c \in at(l, n, k, "create") /\ \A j \in at(l, n, k, "create") : c <= j
      BY <3>3 DEF at
    <3>. QED
      BY <2>2, <3>3, <3>4, Zenon
  <2>. QED
    BY <2>2, <2>3, Zenon
<1>. QED
  BY <1>1, <1>2, <1>3, Zenon DEF Replayed

\* A log that has been done to leftovers makes what it makes of nothing.
LEMMA ReplayOutcome ==
    ASSUME NEW l \in Seq(Messages), WellFormed(l), NEW f, Chain(l, f), NEW k \in Keys,
           Leftover(l, k, f[0][k])
    PROVE  f[Len(l)][k] = outcome(l, k)
<1> DEFINE v == f[Len(l)][k]
           n == Len(l)
<1>1. n \in Nat /\ n \in 0..n
  OBVIOUS
<1>2. Replayed(l, n, k, f[0][k], v) /\ Leftover(l, k, v)
  BY <1>1, ReplayAll, ReplayLeftover, Zenon
<1>3. CASE v = f[0][k] /\ f[0][k] # NoValue /\ ~Changed(l, n, k)
  <2>1. at(l, n, k, "delete") = {} /\ at(l, n, k, "update") = {}
    BY <1>3, Zenon DEF Changed, at
  <2>2. since(l, n, k) = at(l, n, k, "create") /\ updates(l, n, k) = {}
    BY <2>1, Zenon DEF since, updates
  <2>3. Made(l, n, k, v)
    BY <1>2, <1>3, <2>2, Zenon DEF Leftover, Made
  <2>. QED
    BY <2>3, MadeIsOutcome, Zenon
<1>. QED
  BY <1>2, <1>3, MadeIsOutcome, Zenon DEF Replayed

-----------------------------------------------------------------------------
(* A replay, and an entry more in the log *)

LEMMA ChainExists ==
    ASSUME NEW l \in Seq(Messages), NEW rows \in Rows
    PROVE  \E f : Chain(l, f) /\ f[0] = rows
<1> DEFINE Upto(n, f) == /\ f \in [0..n -> Rows] /\ f[0] = rows
                         /\ \A i \in 1..n : f[i] = commit_to(f[i - 1], l[i])
           T == {n \in 0..Len(l) : ~ \E f : Upto(n, f)}
<1>1. Len(l) \in 0..Len(l)
  OBVIOUS
<1> SUFFICES ASSUME T # {} PROVE FALSE
  BY <1>1, Zenon DEF Chain
<1>2. T \subseteq Nat
  OBVIOUS
<1>3. PICK n \in T : \A j \in T : ~ (<<j, n>> \in OpToRel(<, Nat))
  BY <1>2, NatLessThanWellFounded, WFMin, Zenon
<1>4. n \in 0..Len(l) /\ \A j \in 0..Len(l) : j < n => j \notin T
  BY <1>2, <1>3, Zenon DEF OpToRel
<1>5. CASE n = 0
  <2>1. Upto(0, [i \in 0..0 |-> rows])
    OBVIOUS
  <2>. QED
    BY <1>3, <1>5, <2>1, Zenon
<1>6. CASE n # 0
  <2>1. n \in 1..Len(l) /\ n - 1 \in 0..Len(l) /\ n - 1 < n
    BY <1>4, <1>6
  <2>2. PICK f : Upto(n - 1, f)
    BY <1>4, <2>1, Zenon
  <2> DEFINE g == [i \in 0..n |-> IF i < n THEN f[i] ELSE commit_to(f[n - 1], l[n])]
  <2>3. f[n - 1] \in Rows /\ l[n] \in Messages
    BY <2>1, <2>2
  <2>4. commit_to(f[n - 1], l[n]) \in Rows
    BY <2>3, CommitRow, Zenon
  <2>5. g \in [0..n -> Rows] /\ g[0] = rows
    BY <2>1, <2>2, <2>4
  <2>6. \A i \in 1..n : g[i] = commit_to(g[i - 1], l[i])
    <3> SUFFICES ASSUME NEW i \in 1..n PROVE g[i] = commit_to(g[i - 1], l[i])
      BY Zenon
    <3>1. CASE i < n
      <4>1. g[i] = f[i] /\ g[i - 1] = f[i - 1] /\ i \in 1..(n - 1)
        BY <2>1, <3>1
      <4>. QED
        BY <2>2, <4>1, Zenon
    <3>2. CASE i = n
      <4>1. g[i] = commit_to(f[n - 1], l[n]) /\ g[i - 1] = f[n - 1]
        BY <2>1, <3>2
      <4>. QED
        BY <3>2, <4>1, Zenon
    <3>. QED
      BY <2>1, <3>1, <3>2
  <2>. QED
    BY <1>3, <2>5, <2>6, Zenon
<1>. QED
  BY <1>5, <1>6, Zenon

\* The equation of the function that a replay defines.
Replay(l, rows, a) ==
    a = [i \in 0..Len(l) |-> IF i = 0 THEN rows ELSE commit_to(a[i - 1], l[i])]

LEMMA ChainUnique ==
    ASSUME NEW l \in Seq(Messages), NEW rows, NEW f, Chain(l, f), f[0] = rows,
           NEW a, Replay(l, rows, a)
    PROVE  a[Len(l)] = f[Len(l)]
<1> DEFINE T == {i \in 0..Len(l) : a[i] # f[i]}
<1>1. Len(l) \in 0..Len(l)
  OBVIOUS
<1> SUFFICES ASSUME T # {} PROVE FALSE
  BY <1>1, Zenon
<1>2. T \subseteq Nat
  OBVIOUS
<1>3. PICK n \in T : \A j \in T : ~ (<<j, n>> \in OpToRel(<, Nat))
  BY <1>2, NatLessThanWellFounded, WFMin, Zenon
<1>4. n \in 0..Len(l) /\ \A j \in 0..Len(l) : j < n => j \notin T
  BY <1>2, <1>3, Zenon DEF OpToRel
<1>5. a[n] = IF n = 0 THEN rows ELSE commit_to(a[n - 1], l[n])
  BY <1>4, Zenon DEF Replay
<1>6. CASE n = 0
  BY <1>3, <1>5, <1>6, Zenon
<1>7. CASE n # 0
  <2>1. n \in 1..Len(l) /\ n - 1 \in 0..Len(l) /\ n - 1 < n
    BY <1>4, <1>7
  <2>2. a[n - 1] = f[n - 1]
    BY <1>4, <2>1, Zenon
  <2>. QED
    BY <1>3, <1>5, <1>7, <2>1, <2>2, Zenon DEF Chain
<1>. QED
  BY <1>6, <1>7, Zenon

\* The replay of a start ends where a chain from its rows ends.
LEMMA ReplayIs ==
    ASSUME log \in Seq(Messages), NEW rows \in Rows
    PROVE  \E f : Chain(log, f) /\ f[0] = rows
                  /\ initialize_storage_from_log(rows) = f[Len(log)]
<1>1. PICK f : Chain(log, f) /\ f[0] = rows
  BY ChainExists, Zenon
<1> DEFINE after == CHOOSE a : Replay(log, rows, a)
<1>2. Replay(log, rows, f)
  <2>1. f = [i \in 0..Len(log) |-> f[i]]
    BY <1>1, Zenon DEF Chain
  <2>2. \A i \in 0..Len(log) : f[i] = IF i = 0 THEN rows ELSE commit_to(f[i - 1], log[i])
    BY <1>1 DEF Chain
  <2>. QED
    BY <2>1, <2>2, Zenon DEF Replay
<1>3. Replay(log, rows, after)
  BY <1>2, Zenon
<1>4. initialize_storage_from_log(rows) = after[Len(log)]
  BY Zenon DEF initialize_storage_from_log, Replay
<1>5. after[Len(log)] = f[Len(log)]
  <2>. HIDE DEF after
  <2>. QED
    BY <1>1, <1>3, ChainUnique, Zenon
<1>. QED
  BY <1>1, <1>4, <1>5, Zenon

LEMMA AppendChain ==
    ASSUME NEW l \in Seq(Messages), NEW m \in Messages, NEW f, Chain(l, f)
    PROVE  \E g : /\ Chain(Append(l, m), g)
                  /\ \A i \in 0..Len(l) : g[i] = f[i]
<1> DEFINE n == Len(l)
           g == [i \in 0..n + 1 |-> IF i <= n THEN f[i] ELSE commit_to(f[n], m)]
           l2 == Append(l, m)
<1>1. n \in Nat /\ l2 \in Seq(Messages) /\ Len(l2) = n + 1 /\ l2[n + 1] = m
      /\ \A i \in 1..n : l2[i] = l[i]
  OBVIOUS
<1>. HIDE DEF n, l2
<1>2. f \in [0..n -> Rows] /\ \A i \in 1..n : f[i] = commit_to(f[i - 1], l[i])
  BY Zenon DEF Chain, n
<1>3. commit_to(f[n], m) \in Rows
  BY <1>1, <1>2, CommitRow
<1>4. g \in [0..n + 1 -> Rows] /\ \A i \in 0..n : g[i] = f[i]
  BY <1>1, <1>2, <1>3
<1>5. \A i \in 1..n + 1 : g[i] = commit_to(g[i - 1], l2[i])
  <2> TAKE i \in 1..n + 1
  <2>1. CASE i <= n
    <3>1. g[i] = f[i] /\ g[i - 1] = f[i - 1] /\ i \in 1..n
      BY <1>1, <2>1
    <3>. QED
      BY <1>1, <1>2, <3>1, Zenon
  <2>2. CASE i = n + 1
    <3>1. g[i] = commit_to(f[n], m) /\ g[i - 1] = f[n]
      BY <1>1, <2>2
    <3>. QED
      BY <1>1, <2>2, <3>1, Zenon
  <2>. QED
    BY <1>1, <2>1, <2>2
<1>. HIDE DEF g
<1>6. Chain(l2, g)
  BY <1>1, <1>4, <1>5, Zenon DEF Chain
<1>. QED
  BY <1>4, <1>6, Zenon DEF l2, n

\* An entry more in the log takes nothing away from what is known of it.
LEMMA AppendKeeps ==
    ASSUME NEW l \in Seq(Messages), NEW m \in Messages
    PROVE  /\ \A k : Created(l, k) => Created(Append(l, m), k)
           /\ \A k, v : Leftover(l, k, v) => Leftover(Append(l, m), k, v)
           /\ WellFormed(l) /\ (m.op # "create" => Created(l, m.key))
                  => WellFormed(Append(l, m))
<1> DEFINE n == Len(l)
           l2 == Append(l, m)
<1>1. n \in Nat /\ l2 \in Seq(Messages) /\ Len(l2) = n + 1 /\ l2[n + 1] = m
      /\ (\A i \in 1..n : l2[i] = l[i]) /\ DOMAIN l = 1..n /\ DOMAIN l2 = 1..n + 1
  OBVIOUS
<1>. HIDE DEF n, l2
<1>2. \A k : Created(l, k) => Created(l2, k)
  BY <1>1 DEF Created
<1>3. ASSUME NEW k, NEW v, Leftover(l, k, v)
      PROVE  Leftover(l2, k, v)
  <2> SUFFICES ASSUME v # NoValue
               PROVE  \/ Changed(l2, n + 1, k)
                      \/ \E c \in at(l2, n + 1, k, "create") :
                             v = l2[c].value /\ \A j \in at(l2, n + 1, k, "create") : c <= j
    BY <1>1, <1>2, <1>3, Zenon DEF Leftover
  <2>1. CASE Changed(l, n, k)
    BY <1>1, <2>1 DEF Changed
  <2>2. CASE ~Changed(l, n, k)
    <3>1. PICK c \in at(l, n, k, "create") :
              v = l[c].value /\ \A j \in at(l, n, k, "create") : c <= j
      BY <1>3, <2>2, Zenon DEF Leftover, n
    <3>2. c \in 1..n /\ c \in at(l2, n + 1, k, "create") /\ v = l2[c].value
      BY <1>1, <3>1 DEF at
    <3>3. \A j \in at(l2, n + 1, k, "create") : j \in at(l, n, k, "create") \/ j = n + 1
      BY <1>1 DEF at
    <3>. QED
      BY <1>1, <3>1, <3>2, <3>3
  <2>. QED
    BY <2>1, <2>2, Zenon
<1>4. ASSUME WellFormed(l), m.op # "create" => Created(l, m.key)
      PROVE  WellFormed(l2)
  <2> SUFFICES ASSUME NEW i \in 1..n + 1, l2[i].op # "create"
               PROVE  \E j \in 1..(i - 1) : l2[j].op = "create" /\ l2[j].key = l2[i].key
    BY <1>1, Zenon DEF WellFormed
  <2>1. CASE i \in 1..n
    <3>1. PICK j \in 1..(i - 1) : l[j].op = "create" /\ l[j].key = l[i].key
      BY <1>1, <1>4, <2>1, Zenon DEF WellFormed, n
    <3>. QED
      BY <1>1, <2>1, <3>1
  <2>2. CASE i = n + 1
    <3>1. PICK j \in 1..n : l[j].op = "create" /\ l[j].key = m.key
      BY <1>1, <1>4, <2>2, Zenon DEF Created
    <3>. QED
      BY <1>1, <2>2, <3>1
  <2>. QED
    BY <1>1, <2>1, <2>2
<1>. QED
  BY <1>2, <1>3, <1>4, Zenon DEF l2

\* Storage and its subscribers agree on what an entry does.
LEMMA CommitAccepted ==
    ASSUME NEW rows \in Rows, NEW m \in Messages
    PROVE  /\ accepted(rows, m) => commit_to(rows, m)[m.key] = m.value
           /\ ~accepted(rows, m) => commit_to(rows, m) = rows
           /\ \A k \in Keys : k # m.key => commit_to(rows, m)[k] = rows[k]
<1>1. m.key \in Keys /\ m.op \in {"create", "update", "delete"}
      /\ (m.op = "delete" => m.value = NoValue)
  BY MessageFacts, Zenon
<1>2. commit_to(rows, m) \in Rows
      /\ \A k \in Keys : commit_to(rows, m)[k] = After(rows[k], m, k)
  BY CommitRow, Zenon
<1>3. accepted(rows, m) => commit_to(rows, m)[m.key] = m.value
  BY <1>1, <1>2, Zenon DEF accepted, has, After
<1>4. ~accepted(rows, m) => \A k \in Keys : commit_to(rows, m)[k] = rows[k]
  BY <1>1, <1>2, Zenon DEF accepted, has, After
<1>5. ~accepted(rows, m) => commit_to(rows, m) = rows
  BY <1>2, <1>4 DEF Rows
<1>6. \A k \in Keys : k # m.key => commit_to(rows, m)[k] = rows[k]
  BY <1>2, Zenon DEF After
<1>. QED
  BY <1>3, <1>5, <1>6, Zenon

-----------------------------------------------------------------------------
(* The steps *)

\* Rows that are there were created by the log, committed or not.
LEMMA HasCreated ==
    ASSUME Types, WellFormed(log), Stored, NEW k \in Keys, has(storage, k)
    PROVE  Created(log, k)
<1>1. PICK f : /\ Chain(log, f)
               /\ storage = f[commit_index]
               /\ \A x \in Keys : Leftover(log, x, f[0][x])
  BY Zenon DEF Stored
<1>2. Leftover(log, k, storage[k])
  BY <1>1, ReplayLeftover, Zenon DEF Types
<1>. QED
  BY <1>2, Zenon DEF Leftover, has

\* What a check of a handler leaves of its thread.
LEMMA Checks ==
    ASSUME Types, WellFormed(log), Stored, NEW m \in Messages
    PROVE  /\ first_check(m) \in Thread
           /\ second_check(m) \in Thread
           /\ \A pc \in {"routed", "first", "second"} : role_checked(m, pc) \in Thread
           /\ Checked(first_check(m)) => Created(log, first_check(m).msg.key)
           /\ Checked(second_check(m)) /\ (m.op = "update" => Created(log, m.key))
                  => Created(log, second_check(m).msg.key)
           /\ ~Checked(role_checked(m, "routed"))
<1>1. m.key \in Keys /\ m.op \in {"create", "update", "delete"}
  BY MessageFacts, Zenon
<1>2. has(storage, m.key) => Created(log, m.key)
  BY <1>1, HasCreated, Zenon
<1>3. \A pc \in {"routed", "first", "second"} :
          /\ running(m, pc) \in Thread
          /\ running(m, pc).pc = pc /\ running(m, pc).msg = m
  BY Zenon DEF running, Thread
<1>4. Idle \in Thread /\ ~Checked(Idle)
  BY Zenon DEF Idle, Thread, Checked
<1>. HIDE DEF running
<1>5. \A pc \in {"routed", "first", "second"} :
          /\ role_checked(m, pc) \in {running(m, pc), Idle}
          /\ has_checked(m, pc) \in {running(m, pc), Idle}
          /\ has_checked(m, pc) = running(m, pc) \/ has_checked(m, pc) = Idle
          /\ has_checked(m, pc) # Idle => accepted(storage, m)
  BY Zenon DEF role_checked, has_checked
<1>6. first_check(m) \in {running(m, "first"), Idle}
      /\ second_check(m) \in {running(m, "second"), Idle}
  BY <1>5, Zenon DEF first_check, second_check
<1>7. ASSUME Checked(first_check(m)) PROVE Created(log, first_check(m).msg.key)
  <2>1. first_check(m) = running(m, "first") /\ m.op = "update" /\ first_check(m) # Idle
    BY <1>3, <1>4, <1>6, <1>7, Zenon DEF Checked
  <2>2. accepted(storage, m)
    BY <1>5, <2>1, Zenon DEF first_check
  <2>. QED
    BY <1>2, <1>3, <2>1, <2>2, Zenon DEF accepted
<1>8. ASSUME Checked(second_check(m)), m.op = "update" => Created(log, m.key)
      PROVE  Created(log, second_check(m).msg.key)
  <2>1. second_check(m) = running(m, "second") /\ second_check(m) # Idle
        /\ m.op \in {"update", "delete"}
    BY <1>3, <1>4, <1>6, <1>8, Zenon DEF Checked
  <2>2. m.op = "delete" => accepted(storage, m)
    BY <1>5, <2>1, Zenon DEF second_check
  <2>. QED
    BY <1>2, <1>3, <1>8, <2>1, <2>2, Zenon DEF accepted
<1>9. ~Checked(role_checked(m, "routed"))
  BY <1>3, <1>4, <1>5, Zenon DEF Checked
<1>. QED
  BY <1>3, <1>4, <1>5, <1>6, <1>7, <1>8, <1>9, Zenon

\* An entry more, of another leader or of a client.
LEMMA AppendStep ==
    ASSUME Invariant, NEW m \in Messages, m.op # "create" => Created(log, m.key),
           log' = Append(log, m), UNCHANGED <<commit_index, storage>>
    PROVE  /\ log' \in Seq(Messages) /\ commit_index' \in 0..Len(log')
           /\ WellFormed(log')
           /\ \A k : Created(log, k) => Created(log', k)
           /\ Stored'
<1>1. log \in Seq(Messages) /\ commit_index \in 0..Len(log) /\ WellFormed(log)
  BY Zenon DEF Invariant, Types
<1>2. log' \in Seq(Messages) /\ commit_index' \in 0..Len(log')
  BY <1>1
<1>3. PICK f : /\ Chain(log, f)
               /\ storage = f[commit_index]
               /\ \A k \in Keys : Leftover(log, k, f[0][k])
  BY Zenon DEF Invariant, Stored
<1>4. PICK g : Chain(log', g) /\ \A i \in 0..Len(log) : g[i] = f[i]
  BY <1>1, <1>3, AppendChain
<1>5. g[0] = f[0] /\ g[commit_index] = f[commit_index]
  BY <1>1, <1>4
<1>6. \A k \in Keys : Leftover(log', k, g[0][k])
  BY <1>1, <1>3, <1>5, AppendKeeps, Zenon
<1>7. Stored'
  BY <1>3, <1>4, <1>5, <1>6, Zenon DEF Stored
<1>. QED
  BY <1>1, <1>2, <1>7, AppendKeeps, Zenon

LEMMA InitStep == Init => Invariant
<1> SUFFICES ASSUME Init PROVE Invariant
  BY Zenon
<1>1. Types
  BY DEF Init, Types, NoRows, Rows, Thread
<1>2. Len(log) = 0 /\ log \in Seq(Messages)
  BY DEF Init
<1>3. WellFormed(log)
  BY <1>2 DEF WellFormed
<1>4. \A t \in Threads : ~Checked(thread[t])
  BY Zenon DEF Init, Checked, Idle
<1>5. PICK f : Chain(log, f) /\ f[0] = storage
  BY <1>1, ChainExists, Zenon DEF Types
<1>6. Stored
  <2>1. \A k \in Keys : Leftover(log, k, f[0][k])
    BY <1>5, Zenon DEF Leftover, Init, NoRows
  <2>. QED
    BY <1>5, <2>1, Zenon DEF Stored, Init
<1>7. Noticed
  BY Zenon DEF Noticed, Init
<1>. QED
  BY <1>1, <1>3, <1>4, <1>6, <1>7, Zenon DEF Invariant

LEMMA CommitStep ==
    ASSUME Invariant, commit_handler
    PROVE  Invariant'
<1> DEFINE m == log[commit_index + 1]
<1>1. Types /\ Noticed
  BY Zenon DEF Invariant
<1>2. /\ commit_index \in 0..Len(log) /\ commit_index + 1 \in 1..Len(log)
      /\ m \in Messages /\ storage \in Rows
  BY <1>1 DEF commit_handler, Types
<1>3. /\ commit_index' = commit_index + 1 /\ storage' = commit_to(storage, m)
      /\ UNCHANGED <<log, thread, session, subscribers>>
      /\ \/ accepted(storage, m) /\ notify_sessions(m)
         \/ ~accepted(storage, m) /\ UNCHANGED notices
  BY Zenon DEF commit_handler
<1>. HIDE DEF m
<1>4. storage' \in Rows
  BY <1>2, <1>3, CommitRow, Zenon
<1>5. Stored'
  <2>1. PICK f : /\ Chain(log, f)
                 /\ storage = f[commit_index]
                 /\ \A k \in Keys : Leftover(log, k, f[0][k])
    BY Zenon DEF Invariant, Stored
  <2>2. f[commit_index + 1] = commit_to(f[commit_index + 1 - 1], log[commit_index + 1])
    BY <1>2, <2>1 DEF Chain
  <2>3. storage' = f[commit_index']
    BY <1>2, <1>3, <2>1, <2>2 DEF m
  <2>. QED
    BY <1>3, <2>1, <2>3, Zenon DEF Stored
<1>6. notices' \in [Subscriptions -> Values \cup {NoValue, "none"}] /\ Noticed'
  <2>1. CASE accepted(storage, m) /\ notify_sessions(m)
    <3>1. m.key \in Keys /\ m.value \in Values \cup {NoValue}
      BY <1>2, MessageFacts, Zenon
    <3>2. notices' \in [Subscriptions -> Values \cup {NoValue, "none"}]
      BY <1>1, <2>1, <3>1, Zenon DEF notify_sessions, Types
    <3>3. storage'[m.key] = m.value /\ \A k \in Keys : k # m.key => storage'[k] = storage[k]
      BY <1>2, <1>3, <2>1, CommitAccepted, Zenon
    <3>4. ASSUME NEW x \in Subscriptions, notices'[x] # "none"
          PROVE  x \in subscribers /\ session[x[2]] = "open" /\ notices'[x] = storage'[x[1]]
      <4>1. x[1] \in Keys
        BY Zenon DEF Subscriptions
      <4>2. CASE x \in subscribers /\ x[1] = m.key /\ session[x[2]] = "open"
        BY <2>1, <3>3, <4>2, Zenon DEF notify_sessions
      <4>3. CASE ~(x \in subscribers /\ x[1] = m.key /\ session[x[2]] = "open")
        <5>1. notices'[x] = notices[x]
          BY <2>1, <4>3, Zenon DEF notify_sessions
        <5>2. x \in subscribers /\ session[x[2]] = "open" /\ notices[x] = storage[x[1]]
          BY <1>1, <3>4, <5>1, Zenon DEF Noticed
        <5>. QED
          BY <3>3, <4>1, <4>3, <5>1, <5>2, Zenon
      <4>. QED
        BY <4>2, <4>3, Zenon
    <3>. QED
      BY <1>3, <3>2, <3>4, Zenon DEF Noticed
  <2>2. CASE ~accepted(storage, m) /\ UNCHANGED notices
    <3>1. storage' = storage
      BY <1>2, <1>3, <2>2, CommitAccepted, Zenon
    <3>. QED
      BY <1>1, <1>3, <2>2, <3>1, Zenon DEF Noticed, Types
  <2>. QED
    BY <1>3, <2>1, <2>2, Zenon
<1>7. Types'
  BY <1>1, <1>2, <1>3, <1>4, <1>6 DEF Types
<1>8. /\ WellFormed(log')
      /\ \A t \in Threads : Checked(thread'[t]) => Created(log', thread'[t].msg.key)
  BY <1>3, Zenon DEF Invariant
<1>. QED
  BY <1>5, <1>6, <1>7, <1>8, Zenon DEF Invariant

LEMMA RestartStep ==
    ASSUME Invariant, restart
    PROVE  Invariant'
<1>1. Types /\ WellFormed(log) /\ log \in Seq(Messages) /\ storage \in Rows
  BY Zenon DEF Invariant, Types
<1>2. PICK rows \in {storage, NoRows} : storage' = initialize_storage_from_log(rows)
  BY Zenon DEF restart
<1>3. rows \in Rows /\ \A k \in Keys : Leftover(log, k, rows[k])
  <2>1. CASE rows = storage
    <3>1. PICK f : /\ Chain(log, f)
                   /\ storage = f[commit_index]
                   /\ \A k \in Keys : Leftover(log, k, f[0][k])
      BY Zenon DEF Invariant, Stored
    <3>2. \A k \in Keys : Leftover(log, k, f[commit_index][k])
      BY <1>1, <3>1, ReplayLeftover, Zenon DEF Types
    <3>. QED
      BY <1>1, <2>1, <3>1, <3>2, Zenon
  <2>2. CASE rows = NoRows
    BY <2>2, Zenon DEF NoRows, Rows, Leftover
  <2>. QED
    BY <2>1, <2>2, Zenon
<1>4. PICK f : Chain(log, f) /\ f[0] = rows /\ storage' = f[Len(log)]
  BY <1>1, <1>2, <1>3, ReplayIs, Zenon
<1>5. Len(log) \in 0..Len(log)
  BY <1>1
<1>6. storage' \in Rows /\ \A k \in Keys : Leftover(log, k, storage'[k])
  BY <1>1, <1>3, <1>4, <1>5, ReplayLeftover, Zenon DEF Chain
<1>7. PICK g : Chain(log, g) /\ g[0] = storage'
  BY <1>1, <1>6, ChainExists, Zenon
<1>8. /\ commit_index' = 0 /\ log' = log
      /\ thread' = [t \in Threads |-> Idle]
      /\ session' = [s \in Sessions |-> IF session[s] = "open" THEN "closed" ELSE session[s]]
      /\ subscribers' = {}
      /\ notices' = [x \in Subscriptions |-> "none"]
  BY Zenon DEF restart
<1>9. Stored'
  BY <1>6, <1>7, <1>8, Zenon DEF Stored
<1>10. Types'
  BY <1>1, <1>6, <1>8 DEF Types, Thread
<1>11. \A t \in Threads : ~Checked(thread'[t])
  BY <1>8, Zenon DEF Checked, Idle
<1>12. Noticed'
  BY <1>8, Zenon DEF Noticed
<1>. QED
  BY <1>1, <1>8, <1>9, <1>10, <1>11, <1>12, Zenon DEF Invariant

\* A thread that comes as far as r, and an entry at most.
LEMMA ThreadStep ==
    ASSUME Invariant, NEW t \in Threads, NEW r \in Thread,
           thread' = [thread EXCEPT ![t] = r],
           Checked(r) => Created(log, r.msg.key),
           log' \in Seq(Messages), commit_index' \in 0..Len(log'),
           WellFormed(log'), \A k : Created(log, k) => Created(log', k), Stored',
           UNCHANGED <<storage, session, subscribers, notices>>
    PROVE  Invariant'
<1>1. Types /\ Noticed /\ thread \in [Threads -> Thread]
  BY Zenon DEF Invariant, Types
<1>2. Types'
  BY <1>1, Zenon DEF Types
<1>3. Noticed'
  BY <1>1, Zenon DEF Noticed
<1>4. \A u \in Threads : Checked(thread'[u]) => Created(log', thread'[u].msg.key)
  <2> SUFFICES ASSUME NEW u \in Threads, Checked(thread'[u])
               PROVE  Created(log', thread'[u].msg.key)
    BY Zenon
  <2>1. CASE u = t
    <3>1. thread'[u] = r
      BY <1>1, <2>1, Zenon
    <3>. QED
      BY <3>1, Zenon
  <2>2. CASE u # t
    <3>1. thread'[u] = thread[u]
      BY <1>1, <2>2, Zenon
    <3>2. Checked(thread[u])
      BY <3>1, Zenon
    <3>3. Created(log, thread[u].msg.key)
      BY <3>2, Zenon DEF Invariant
    <3>. QED
      BY <3>1, <3>3, Zenon
  <2>. QED
    BY <2>1, <2>2, Zenon
<1>. QED
  BY <1>2, <1>3, <1>4, Zenon DEF Invariant

LEMMA ProceedStep ==
    ASSUME Invariant, NEW t \in Threads, proceed(t)
    PROVE  Invariant'
<1> DEFINE m == thread[t].msg
<1>1. /\ Types /\ WellFormed(log) /\ Stored
      /\ log \in Seq(Messages) /\ commit_index \in 0..Len(log)
      /\ thread[t] \in Thread
  BY Zenon DEF Invariant, Types
<1>2. Checked(thread[t]) => Created(log, m.key)
  BY Zenon DEF Invariant
<1>3. UNCHANGED <<commit_index, storage, session, subscribers, notices>>
  BY Zenon DEF proceed, sessionVars
<1>4. ASSUME log' = log PROVE Stored'
  BY <1>1, <1>3, <1>4, Zenon DEF Stored
<1>5. thread[t].pc \in {"routed", "first", "second"} => m \in Messages
  BY <1>1 DEF Thread, Idle
<1>. HIDE DEF m
<1>6. CASE thread[t].pc = "routed" /\ thread' = [thread EXCEPT ![t] = first_check(m)]
           /\ UNCHANGED log
  <2>1. first_check(m) \in Thread
        /\ (Checked(first_check(m)) => Created(log, first_check(m).msg.key))
    BY <1>1, <1>5, <1>6, Checks, Zenon
  <2>. QED
    BY <1>1, <1>3, <1>4, <1>6, <2>1, ThreadStep, Zenon
<1>7. CASE thread[t].pc = "first" /\ thread' = [thread EXCEPT ![t] = second_check(m)]
           /\ UNCHANGED log
  <2>1. m.op = "update" => Created(log, m.key)
    BY <1>2, <1>7, Zenon DEF Checked, m
  <2>2. second_check(m) \in Thread
        /\ (Checked(second_check(m)) => Created(log, second_check(m).msg.key))
    BY <1>1, <1>5, <1>7, <2>1, Checks, Zenon
  <2>. QED
    BY <1>1, <1>3, <1>4, <1>7, <2>2, ThreadStep, Zenon
<1>8. CASE thread[t].pc = "second" /\ thread' = [thread EXCEPT ![t] = Idle]
           /\ (log' = Append(log, m) \/ log' = log)
  <2>1. Idle \in Thread /\ ~Checked(Idle)
    BY Zenon DEF Idle, Thread, Checked
  <2>2. CASE log' = log
    BY <1>1, <1>3, <1>4, <1>8, <2>1, <2>2, ThreadStep, Zenon
  <2>3. CASE log' = Append(log, m)
    <3>1. m \in Messages /\ m.op \in {"create", "update", "delete"}
      BY <1>5, <1>8, MessageFacts, Zenon
    <3>2. m.op # "create" => Created(log, m.key)
      BY <1>2, <1>8, <3>1, Zenon DEF Checked, m
    <3>3. /\ log' \in Seq(Messages) /\ commit_index' \in 0..Len(log')
          /\ WellFormed(log')
          /\ \A k : Created(log, k) => Created(log', k)
          /\ Stored'
      BY <1>3, <2>3, <3>1, <3>2, AppendStep, Zenon
    <3>. QED
      BY <1>3, <1>8, <2>1, <3>3, ThreadStep, Zenon
  <2>. QED
    BY <1>8, <2>2, <2>3, Zenon
<1>. QED
  BY <1>6, <1>7, <1>8, Zenon DEF proceed, m

LEMMA InsertStep ==
    ASSUME Invariant, NEW m \in Messages, follower_insert_entry(m)
    PROVE  Invariant'
<1>1. log' = Append(log, m)
      /\ UNCHANGED <<commit_index, storage, thread, session, subscribers, notices>>
  BY Zenon DEF follower_insert_entry, sessionVars
<1>2. m.op # "create" => Created(log, m.key)
  BY Zenon DEF follower_insert_entry, Created
<1>3. /\ log' \in Seq(Messages) /\ commit_index' \in 0..Len(log')
      /\ WellFormed(log')
      /\ \A k : Created(log, k) => Created(log', k)
      /\ Stored'
  BY <1>1, <1>2, AppendStep, Zenon
<1>4. Types' /\ Noticed'
  BY <1>1, <1>3, Zenon DEF Invariant, Types, Noticed
<1>5. \A t \in Threads : Checked(thread'[t]) => Created(log', thread'[t].msg.key)
  BY <1>1, <1>3, Zenon DEF Invariant
<1>. QED
  BY <1>3, <1>4, <1>5, Zenon DEF Invariant

\* A step that leaves the log, the rows and the threads alone.
LEMMA SessionStep ==
    ASSUME Invariant, UNCHANGED <<log, commit_index, storage, thread>>,
           session' \in [Sessions -> {"new", "open", "closed"}],
           subscribers' \subseteq Subscriptions,
           notices' \in [Subscriptions -> Values \cup {NoValue, "none"}],
           Noticed'
    PROVE  Invariant'
<1>1. Types'
  BY Zenon DEF Invariant, Types
<1>2. Stored'
  BY Zenon DEF Invariant, Stored
<1>. QED
  BY <1>1, <1>2, Zenon DEF Invariant

LEMMA NextStep == Invariant /\ [Next]_vars => Invariant'
<1> SUFFICES ASSUME Invariant, [Next]_vars PROVE Invariant'
  BY Zenon
<1>1. /\ Types /\ WellFormed(log) /\ Stored /\ Noticed
      /\ log \in Seq(Messages) /\ commit_index \in 0..Len(log)
      /\ thread \in [Threads -> Thread]
      /\ session \in [Sessions -> {"new", "open", "closed"}]
      /\ subscribers \subseteq Subscriptions
      /\ notices \in [Subscriptions -> Values \cup {NoValue, "none"}]
  BY Zenon DEF Invariant, Types
<1>2. Websocket \in Threads /\ HttpThreads \subseteq Threads
  BY Zenon DEF Threads
<1>3. CASE UNCHANGED <<log, commit_index, storage, thread, session, subscribers, notices>>
  BY <1>1, <1>3, SessionStep, Zenon DEF Noticed
<1>4. ASSUME NEW state, update_raft_state(state) PROVE Invariant'
  BY <1>3, <1>4, Zenon DEF update_raft_state, sessionVars
<1>5. ASSUME NEW m \in Messages, NEW t \in Threads, NEW r,
             r = first_check(m) \/ r = role_checked(m, "routed"),
             thread' = [thread EXCEPT ![t] = r],
             UNCHANGED <<raftVars, storage, sessionVars, restarts>>
      PROVE  Invariant'
  <2>1. r \in Thread /\ (Checked(r) => Created(log, r.msg.key))
    BY <1>1, <1>5, Checks, Zenon
  <2>2. UNCHANGED <<log, commit_index, storage, session, subscribers, notices>>
    BY <1>5, Zenon DEF raftVars, sessionVars
  <2>3. Stored'
    BY <1>1, <2>2, Zenon DEF Stored
  <2>. QED
    BY <1>1, <1>5, <2>1, <2>2, <2>3, ThreadStep, Zenon
<1>6. ASSUME NEW m \in Messages, NEW t \in HttpThreads, handle_post(t, m) PROVE Invariant'
  BY <1>2, <1>5, <1>6, Zenon DEF handle_post
<1>7. ASSUME NEW m \in Messages, handle_ws_crud_messages(m) PROVE Invariant'
  BY <1>2, <1>5, <1>7, Zenon DEF handle_ws_crud_messages
<1>8. ASSUME NEW x \in Subscriptions, subscribe(x) PROVE Invariant'
  <2>1. /\ subscribers' = subscribers \cup {x}
        /\ UNCHANGED <<log, commit_index, storage, thread, session, notices>>
    BY <1>8, Zenon DEF subscribe, raftVars
  <2>2. Noticed'
    BY <1>1, <2>1, Zenon DEF Noticed
  <2>. QED
    BY <1>1, <2>1, <2>2, SessionStep, Zenon
<1>9. ASSUME NEW x \in Subscriptions, unsubscribe(x) PROVE Invariant'
  <2>1. /\ subscribers' = subscribers \ {x}
        /\ notices' = [notices EXCEPT ![x] = "none"]
        /\ UNCHANGED <<log, commit_index, storage, thread, session>>
    BY <1>9, Zenon DEF unsubscribe, raftVars
  <2>2. Noticed'
    BY <1>1, <2>1, Zenon DEF Noticed
  <2>. QED
    BY <1>1, <2>1, <2>2, SessionStep, Zenon
<1>10. ASSUME purge_closed_sessions PROVE Invariant'
  <2>1. /\ subscribers' = {x \in subscribers : session[x[2]] = "open"}
        /\ UNCHANGED <<log, commit_index, storage, thread, session, notices>>
    BY <1>10, Zenon DEF purge_closed_sessions, raftVars
  <2>2. Noticed'
    BY <1>1, <2>1, Zenon DEF Noticed
  <2>. QED
    BY <1>1, <2>1, <2>2, SessionStep, Zenon
<1>11. ASSUME NEW s \in Sessions, open_session(s) PROVE Invariant'
  <2>1. /\ session[s] = "new" /\ session' = [session EXCEPT ![s] = "open"]
        /\ UNCHANGED <<log, commit_index, storage, thread, subscribers, notices>>
    BY <1>11, Zenon DEF open_session, raftVars
  <2>2. Noticed'
    BY <1>1, <2>1, Zenon DEF Noticed, Subscriptions
  <2>. QED
    BY <1>1, <2>1, <2>2, SessionStep, Zenon
<1>12. ASSUME NEW s \in Sessions, close_session(s) PROVE Invariant'
  <2>1. /\ session' = [session EXCEPT ![s] = "closed"]
        /\ notices' = [x \in Subscriptions |-> IF x[2] = s THEN "none" ELSE notices[x]]
        /\ UNCHANGED <<log, commit_index, storage, thread, subscribers>>
    BY <1>12, Zenon DEF close_session, raftVars
  <2>2. Noticed'
    BY <1>1, <2>1, Zenon DEF Noticed, Subscriptions
  <2>. QED
    BY <1>1, <2>1, <2>2, SessionStep, Zenon
<1>13. ASSUME UNCHANGED vars PROVE Invariant'
  BY <1>3, <1>13, Zenon DEF vars, raftVars, sessionVars
<1>. QED
  BY <1>4, <1>6, <1>7, <1>8, <1>9, <1>10, <1>11, <1>12, <1>13,
     InsertStep, CommitStep, ProceedStep, RestartStep, Zenon DEF Next

-----------------------------------------------------------------------------
LEMMA Always == Spec => []Invariant
  BY InitStep, NextStep, PTL DEF Spec

\* A peer that has committed all of its log holds what the log makes of every key,
\* whatever the handlers of raft_crud let in on stale checks, and although a restart
\* replays the log (initialize_storage_from_log) and commits it again.
THEOREM StorageIsLog == Spec => []CommittedIsStored
<1>1. ASSUME Invariant PROVE CommittedIsStored
  <2> SUFFICES ASSUME commit_index = Len(log), NEW k \in Keys
               PROVE  storage[k] = outcome(log, k)
    BY Zenon DEF CommittedIsStored
  <2>1. log \in Seq(Messages) /\ WellFormed(log)
    BY <1>1, Zenon DEF Invariant, Types
  <2>2. PICK f : /\ Chain(log, f)
                 /\ storage = f[commit_index]
                 /\ \A x \in Keys : Leftover(log, x, f[0][x])
    BY <1>1, Zenon DEF Invariant, Stored
  <2>. QED
    BY <2>1, <2>2, ReplayOutcome, Zenon
<1>. QED
  BY <1>1, Always, PTL

\* What an open subscription was told last (notify_sessions, from the commit handler) is
\* what storage holds: storage refuses an entry exactly where its subscribers are not told.
THEOREM NoticeIsState == Spec => []LastNoticeIsState
<1>1. Invariant => LastNoticeIsState
  BY Zenon DEF Invariant, Types, Noticed, LastNoticeIsState
<1>. QED
  BY <1>1, Always, PTL
=============================================================================
