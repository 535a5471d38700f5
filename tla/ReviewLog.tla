----------------------------- MODULE ReviewLog ------------------------------
(***************************************************************************)
(* What the service promises to reviewers, without its tables: every store *)
(* keeps one append-only log of decisions for each reviewed finding (its   *)
(* key), and a backup of a project carries the logs of that project        *)
(* between stores.  A backup never mixes with a log that is already there: *)
(* it installs a whole log where the store has none, finds the same log,   *)
(* or is refused as a whole.                                               *)
(***************************************************************************)
EXTENDS Naturals, Sequences

CONSTANTS
    Stores,
    Projects,
    Keys,              \* the keys of each project
    Entries,           \* the decisions that can be recorded
    Allowed(_, _, _)   \* whether a decision may follow a log of a key

VARIABLES
    log,      \* the log of each key in each store
    carried   \* the backups: for some project, the log of each of its keys

AllKeys == UNION {Keys[p] : p \in Projects}

Init ==
    /\ log = [s \in Stores |-> [k \in AllKeys |-> <<>>]]
    /\ carried = {}

(* A reviewer decides: the log of a key ends in one more decision. *)
Decide(s, k) ==
    /\ Len(log'[s][k]) = Len(log[s][k]) + 1
    /\ \E e \in {log'[s][k][Len(log[s][k]) + 1]} :
          /\ e \in Entries /\ Allowed(k, log[s][k], e)
          /\ log' = [log EXCEPT ![s][k] = Append(@, e)]

(* An operator takes a backup of a project. *)
Carry(s, p) == carried' = carried \cup {[k \in Keys[p] |-> log[s][k]]}

(* An operator brings a backup to a store. *)
Agrees(logs, backup) ==
    \A k \in DOMAIN backup : backup[k] # <<>> => logs[k] \in {<<>>, backup[k]}

Install(s, backup) ==
    /\ Agrees(log[s], backup)
    /\ log' = [log EXCEPT ![s] =
                 [k \in AllKeys |-> IF k \in DOMAIN backup /\ @[k] = <<>>
                                    THEN backup[k] ELSE @[k]]]

Next ==
    \/ /\ UNCHANGED carried
       /\ \E s \in Stores :
             \/ \E k \in AllKeys : Decide(s, k)
             \/ \E backup \in carried : Install(s, backup)
    \/ /\ UNCHANGED log
       /\ \E s \in Stores, p \in Projects : Carry(s, p)

Spec == Init /\ [][Next]_<<log, carried>>
=============================================================================
