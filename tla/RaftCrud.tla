------------------------------ MODULE RaftCrud ------------------------------
(***************************************************************************)
(* What a raft peer does with its log and for its clients: crud/raft_crud, *)
(* storage and crud/subscription_manager of one daemon.                    *)
(*                                                                         *)
(* node handles one websocket message at a time, a client's or a peer's.   *)
(* HTTP connections call the same handlers of raft_crud from any worker    *)
(* thread.  A handler asks storage and raft one after the other, each      *)
(* under a lock of its own, so its calls are steps of their own.  raft is  *)
(* seen from here as a role that changes, a log that only grows and a      *)
(* commit handler that is called for its entries in order, from the first  *)
(* one on again after a restart.  A key stands for a database and a key in *)
(* it, and the log for its database entries.                               *)
(***************************************************************************)
EXTENDS Naturals, Sequences

CONSTANTS Keys, Values, NoValue,
          HttpThreads,    \* worker threads that serve HTTP connections
          Sessions,       \* websocket sessions, each of which is opened once
          Transactions,   \* transaction ids of subscriptions
          Backends,       \* of "mem" and "rocksdb", the storage the daemon may have (it
                          \* makes a difference at a restart, and is the same at all)
          MaxLog,         \* bound: entries of the log
          MaxRestarts     \* bound: restarts in a behaviour

ASSUME CrudAssumption ==
    /\ NoValue \notin Values
    /\ Backends \subseteq {"mem", "rocksdb"}
    /\ MaxLog \in Nat /\ MaxRestarts \in Nat
    /\ MaxRestarts <= 1 \/ \E backend \in Backends : Backends = {backend}

VARIABLES role,           \* raft->get_state()
          log,            \* the database messages of the raft log
          commit_index,   \* how many of them the commit handler has had
          storage,        \* [key]: its value, or NoValue
          thread,         \* [thread]: the handler it runs, and how far it has come
          session,        \* [session]: "new", "open" or "closed"
          subscribers,    \* {<<key, session, transaction>>}
          notices,        \* history, [subscription]: its last update, or "none"
          purge_timer,    \* whether purge_closed_sessions is to be called
          restarts

raftVars == <<role, log, commit_index>>
sessionVars == <<session, subscribers, notices, purge_timer>>
vars == <<raftVars, storage, thread, sessionVars, restarts>>

Websocket == "websocket"   \* the thread that holds message_map_mutex, if any
Threads == HttpThreads \cup {Websocket}

Messages == [op : {"create", "update"}, key : Keys, value : Values]
                \cup [op : {"delete"}, key : Keys, value : {NoValue}]
Subscriptions == Keys \X Sessions \X Transactions

-----------------------------------------------------------------------------
(* storage: what an operation leaves of the rows.  A refused one leaves them. *)

NoRows == [k \in Keys |-> NoValue]

has(rows, k) == rows[k] # NoValue

create(rows, k, v) == IF has(rows, k) THEN rows ELSE [rows EXCEPT ![k] = v]

\* Mutant: a row that is not there is made.
update_or_create(rows, k, v) == [rows EXCEPT ![k] = v]

update(rows, k, v) == IF has(rows, k) THEN [rows EXCEPT ![k] = v] ELSE rows

remove(rows, k) == [rows EXCEPT ![k] = NoValue]

\* commit_create, commit_update, commit_delete: the rows, and whether it is done.
commit_to(rows, m) ==
    CASE m.op = "create" -> create(rows, m.key, m.value)
      [] m.op = "update" -> update(rows, m.key, m.value)
      [] m.op = "delete" -> remove(rows, m.key)

accepted(rows, m) == has(rows, m.key) <=> m.op # "create"

initialize_storage_from_log(rows) ==
    LET after[i \in 0..Len(log)] == IF i = 0 THEN rows ELSE commit_to(after[i - 1], log[i])
    IN  after[Len(log)]

-----------------------------------------------------------------------------
Idle == [pc |-> "idle"]

Init ==
    /\ role = "follower"
    /\ log = << >>
    /\ commit_index = 0
    /\ storage = NoRows
    /\ thread = [t \in Threads |-> Idle]
    /\ session = [s \in Sessions |-> "new"]
    /\ subscribers = {}
    /\ notices = [x \in Subscriptions |-> "none"]
    /\ purge_timer = TRUE
    /\ restarts = 0

-----------------------------------------------------------------------------
(* raft.  All but an election timeout come with a message of a peer, and so not  *)
(* while a client's message is handled.                                          *)

message_map_mutex_free == thread[Websocket] = Idle

update_raft_state(state) ==
    /\ role # state
    /\ state = "candidate" \/ message_map_mutex_free
    /\ state = "leader" => role = "candidate"
    /\ role' = state
    /\ UNCHANGED <<log, commit_index, storage, thread, sessionVars, restarts>>

\* An entry of another leader, which looked for the row in its own storage: where the
\* two logs agree so far, the create of a row that it found is in this log.
follower_insert_entry(m) ==
    /\ message_map_mutex_free /\ role = "follower" /\ Len(log) < MaxLog
    /\ m.op # "create" => \E i \in DOMAIN log : log[i].op = "create" /\ log[i].key = m.key
    /\ log' = Append(log, m)
    /\ UNCHANGED <<role, commit_index, storage, thread, sessionVars, restarts>>

notify_sessions(m) ==
    notices' = [x \in Subscriptions |->
                   IF x \in subscribers /\ x[1] = m.key /\ session[x[2]] = "open"
                   THEN m.value ELSE notices[x]]

\* Mutant: subscribers are told of every entry.
commit_handler_always ==
    LET m == log[commit_index + 1]
    IN  /\ message_map_mutex_free /\ role # "candidate" /\ commit_index < Len(log)
        /\ commit_index' = commit_index + 1
        /\ storage' = commit_to(storage, m)
        /\ notify_sessions(m)
        /\ UNCHANGED <<role, log, thread, session, subscribers, purge_timer, restarts>>

\* Subscribers are told what storage has accepted.
commit_handler ==
    LET m == log[commit_index + 1]
    IN  /\ message_map_mutex_free /\ role # "candidate" /\ commit_index < Len(log)
        /\ commit_index' = commit_index + 1
        /\ storage' = commit_to(storage, m)
        /\ \/ accepted(storage, m) /\ notify_sessions(m)
           \/ ~accepted(storage, m) /\ UNCHANGED notices
        /\ UNCHANGED <<role, log, thread, session, subscribers, purge_timer, restarts>>

-----------------------------------------------------------------------------
(* The handlers of raft_crud look at storage, then at the role, and append     *)
(* (handle_delete: at the role first).  A thread that is done has answered its *)
(* client, with an error, the leader's address or nothing at all.              *)

running(m, pc) == [pc |-> pc, msg |-> m]

has_checked(m, pc) == IF accepted(storage, m) THEN running(m, pc) ELSE Idle

role_checked(m, pc) == IF role = "leader" THEN running(m, pc) ELSE Idle

first_check(m) == IF m.op = "delete" THEN role_checked(m, "first") ELSE has_checked(m, "first")

second_check(m) == IF m.op = "delete" THEN has_checked(m, "second") ELSE role_checked(m, "second")

\* A POST of an HTTP client.
handle_post(t, m) ==
    /\ t \in HttpThreads /\ thread[t] = Idle
    /\ thread' = [thread EXCEPT ![t] = first_check(m)]
    /\ UNCHANGED <<raftVars, storage, sessionVars, restarts>>

\* do_raft_task_routing and the tasks of the role, for a client's message.
handle_ws_crud_messages(m) ==
    /\ message_map_mutex_free
    /\ thread' = [thread EXCEPT ![Websocket] = role_checked(m, "routed")]
    /\ UNCHANGED <<raftVars, storage, sessionVars, restarts>>

\* A thread goes on, past whatever the others have done since.
proceed(t) ==
    /\ \/ /\ thread[t].pc = "routed"
          /\ thread' = [thread EXCEPT ![t] = first_check(@.msg)]
          /\ UNCHANGED log
       \/ /\ thread[t].pc = "first"
          /\ thread' = [thread EXCEPT ![t] = second_check(@.msg)]
          /\ UNCHANGED log
       \/ /\ thread[t].pc = "second"   \* append_log, whose result is ignored
          /\ thread' = [thread EXCEPT ![t] = Idle]
          /\ \/ role = "leader" /\ Len(log) < MaxLog /\ log' = Append(log, thread[t].msg)
             \/ role # "leader" /\ UNCHANGED log
    /\ UNCHANGED <<role, commit_index, storage, sessionVars, restarts>>

-----------------------------------------------------------------------------
(* subscription_manager *)

subscribe(x) ==
    /\ message_map_mutex_free /\ session[x[2]] = "open"
    /\ x \notin subscribers     \* otherwise the answer is MSG_DUPLICATE_SUB
    /\ subscribers' = subscribers \cup {x}
    /\ UNCHANGED <<raftVars, storage, thread, session, notices, purge_timer, restarts>>

unsubscribe(x) ==
    /\ message_map_mutex_free /\ session[x[2]] = "open"
    /\ x \in subscribers        \* otherwise MSG_INVALID_UUID, _KEY or _SUB
    /\ subscribers' = subscribers \ {x}
    /\ notices' = [notices EXCEPT ![x] = "none"]
    /\ UNCHANGED <<raftVars, storage, thread, session, purge_timer, restarts>>

\* Mutant: the timer is not started again.
purge_closed_sessions_once ==
    /\ purge_timer
    /\ subscribers' = {x \in subscribers : session[x[2]] = "open"}
    /\ purge_timer' = FALSE
    /\ UNCHANGED <<raftVars, storage, thread, session, notices, restarts>>

\* The references of closed sessions can not be locked any more.
purge_closed_sessions ==
    /\ purge_timer
    /\ subscribers' = {x \in subscribers : session[x[2]] = "open"}
    /\ purge_timer' = TRUE
    /\ UNCHANGED <<raftVars, storage, thread, session, notices, restarts>>

open_session(s) ==
    /\ session[s] = "new"
    /\ session' = [session EXCEPT ![s] = "open"]
    /\ UNCHANGED <<raftVars, storage, thread, subscribers, notices, purge_timer, restarts>>

close_session(s) ==
    /\ session[s] = "open"
    /\ session' = [session EXCEPT ![s] = "closed"]
    /\ notices' = [x \in Subscriptions |-> IF x[2] = s THEN "none" ELSE notices[x]]
    /\ UNCHANGED <<raftVars, storage, thread, subscribers, purge_timer, restarts>>

\* The daemon dies and starts again, with the rows that rocksdb has kept or none,
\* and all of its log, committed or not, done to them.
restart ==
    /\ restarts < MaxRestarts
    /\ restarts' = restarts + 1
    /\ \E backend \in Backends : storage' =
           initialize_storage_from_log(IF backend = "rocksdb" THEN storage ELSE NoRows)
    /\ role' = "follower"
    /\ commit_index' = 0
    /\ thread' = [t \in Threads |-> Idle]
    /\ session' = [s \in Sessions |-> IF session[s] = "open" THEN "closed" ELSE session[s]]
    /\ subscribers' = {}
    /\ notices' = [x \in Subscriptions |-> "none"]
    /\ UNCHANGED <<log, purge_timer>>

Next ==
    \/ \E state \in {"follower", "candidate", "leader"} : update_raft_state(state)
    \/ \E m \in Messages :
           \/ follower_insert_entry(m)
           \/ handle_ws_crud_messages(m)
           \/ \E t \in HttpThreads : handle_post(t, m)
    \/ commit_handler
    \/ \E t \in Threads : proceed(t)
    \/ \E x \in Subscriptions : subscribe(x) \/ unsubscribe(x)
    \/ \E s \in Sessions : open_session(s) \/ close_session(s)
    \/ purge_closed_sessions
    \/ restart

Spec == Init /\ [][Next]_vars

\* The timer of the purge runs out, whatever else goes on.
FairSpec == Spec /\ WF_vars(purge_closed_sessions)

-----------------------------------------------------------------------------
(* Properties *)

\* What a log makes of a key: the last update since the first create since the last
\* delete.
outcome(l, k) ==
    LET at(op) == {i \in DOMAIN l : l[i].op = op /\ l[i].key = k}
        last(S) == CHOOSE i \in S : \A j \in S : j <= i
        since == {i \in at("create") : \A d \in at("delete") : d < i}
        updates == {u \in at("update") : \E c \in since : c < u}
        first == CHOOSE i \in since : \A j \in since : i <= j
    IN  IF since = {} THEN NoValue
        ELSE IF updates = {} THEN l[first].value ELSE l[last(updates)].value

\* A peer that has committed all of its log holds what the log makes of every key,
\* although the checks of the handlers are stale when the entries commit, and although
\* a restart does the whole log to rows that may already hold it, and then commits it
\* a second time.
CommittedIsStored ==
    commit_index = Len(log) => \A k \in Keys : storage[k] = outcome(log, k)

\* The last update that an open subscription was sent is what storage holds.
LastNoticeIsState ==
    \A x \in subscribers : session[x[2]] = "open" /\ notices[x] # "none" =>
        notices[x] = storage[x[1]]

\* A subscription of a closed session does not stay for good.
ClosedArePurged ==
    \A x \in Subscriptions :
        (session[x[2]] = "closed") ~> (x \notin subscribers)
=============================================================================
