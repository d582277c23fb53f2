--------------------------- MODULE PbftConfigStore ---------------------------
(***************************************************************************)
(* pbft/pbft_config_store: the configurations a pbft peer knows, each with *)
(* its "enabled" flag, under the index it was added with, and the index of *)
(* the current one.  The std::map from next_index to <config, enabled> is  *)
(* a function whose domain are the indices it holds.  A configuration      *)
(* stands for its hash.                                                    *)
(***************************************************************************)
EXTENDS Naturals

EmptyStore == [configs |-> [i \in {} |-> {}], current_index |-> 0, next_index |-> 1]

add(store, config) ==
    [store EXCEPT !.configs = [i \in DOMAIN @ \cup {store.next_index} |->
                      IF i = store.next_index THEN [config |-> config, enabled |-> FALSE]
                                              ELSE store.configs[i]],
                  !.next_index = @ + 1]

\* The indices of the configuration, and the first of them.
indices(store, config) ==
    {i \in DOMAIN store.configs : store.configs[i].config = config}

find_by_hash(store, config) ==
    CHOOSE i \in indices(store, config) :
        \A j \in indices(store, config) : i <= j

enable(store, config) ==
    IF indices(store, config) = {} THEN store
    ELSE [store EXCEPT !.configs[find_by_hash(store, config)].enabled = TRUE]

set_current(store, config) ==
    IF indices(store, config) = {} THEN store
    ELSE [store EXCEPT !.current_index = find_by_hash(store, config)]

\* The entries left when those of the indices are erased.
erase(configs, erased) == [i \in DOMAIN configs \ erased |-> configs[i]]

\* Mutant: the current configuration is erased with the others.
remove_prior_to_all(store, config) ==
    IF indices(store, config) = {} THEN store
    ELSE [store EXCEPT !.configs =
             erase(@, {i \in DOMAIN @ : i < find_by_hash(store, config)})]

\* Erases the entries before the first one with this hash, but for the current.
remove_prior_to(store, config) ==
    IF indices(store, config) = {} THEN store
    ELSE [store EXCEPT !.configs =
             erase(@, {i \in DOMAIN @ : /\ i < find_by_hash(store, config)
                                        /\ i # store.current_index})]

\* The current configuration is still in the store (current() is not null).
has_current(store) == store.current_index \in DOMAIN store.configs
=============================================================================
