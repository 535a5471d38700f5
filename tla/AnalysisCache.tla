---------------------------- MODULE AnalysisCache ---------------------------
(***************************************************************************)
(* The directory of hoonarqube-cli's analysis cache, shared by every       *)
(* process that names it: entries under the digest of their key, and the   *)
(* temporary files they are written to.  Digests are taken to be free of   *)
(* collisions, so an entry's name is its key.                              *)
(***************************************************************************)
EXTENDS Naturals

CONSTANT TempAttempts      \* TEMP_ATTEMPTS

ASSUME CacheAssumption == TempAttempts \in Nat \ {0}

VARIABLES
    entries,   \* from the keys of the entries present to their frames
    temps      \* from the names of temporary files to their frames

directory == <<entries, temps>>

(* A frame: the key in its header, the result in its payload, what became of *)
(* its bytes, and whether they were synced.  "torn": not all of it was       *)
(* written; "cut": its length does not fit; "altered": the version, the      *)
(* checksum or the JSON is not as written.                                   *)
Damages == {"cut", "altered"}
FrameStates == {"whole", "torn"} \cup Damages
Frame(key, result) == [key |-> key, result |-> result, state |-> "torn", synced |-> FALSE]

TempName(key, pid, nonce) == [entry |-> key, pid |-> pid, nonce |-> nonce]

CacheInit == entries = <<>> /\ temps = <<>>

With(f, x, y) == [z \in DOMAIN f \cup {x} |-> IF z = x THEN y ELSE f[z]]
Without(f, x) == [z \in DOMAIN f \ {x} |-> f[z]]

-----------------------------------------------------------------------------
(* load: symlink_metadata, then open and read.  An entry that was replaced   *)
(* in between is read as a whole, but its length may not be the one seen.    *)
Length(frame) == <<frame.key, frame.result, frame.state \in {"torn", "cut"}>>

Usable(frame, key) == frame.state = "whole" /\ frame.key = key

Hit(key, length) ==
    /\ key \in DOMAIN entries
    /\ Length(entries[key]) = length
    /\ Usable(entries[key], key)

-----------------------------------------------------------------------------
(* store: create_new, write_all, sync_all, rename; a failure after the first *)
(* removes the file.                                                         *)
Create(name, frame) ==
    /\ name \notin DOMAIN temps
    /\ temps' = With(temps, name, frame)
    /\ UNCHANGED entries

Write(name) ==
    /\ temps' = [temps EXCEPT ![name].state = "whole"]
    /\ UNCHANGED entries

(* Mutant: the data is left to the system to write. *)
SyncLater(name) == UNCHANGED directory

Sync(name) ==
    /\ temps' = [temps EXCEPT ![name].synced = TRUE]
    /\ UNCHANGED entries

Rename(name) ==
    /\ entries' = With(entries, name.entry, temps[name])
    /\ temps' = Without(temps, name)

Remove(name) ==
    /\ temps' = Without(temps, name)
    /\ UNCHANGED entries

-----------------------------------------------------------------------------
(* What happens to the directory from outside: entries are damaged, put      *)
(* under another name, or removed.                                           *)
Damage ==
    \E key \in DOMAIN entries :
        /\ \/ \E s \in Damages : entries' = [entries EXCEPT ![key].state = s]
           \/ \E other \in DOMAIN entries : entries' = [entries EXCEPT ![key] = entries[other]]
           \/ entries' = Without(entries, key)
        /\ UNCHANGED temps

(* After a loss of power the latest names may be lost, and the bytes that    *)
(* were not synced.                                                          *)
Torn(frame) == IF frame.synced THEN frame ELSE [frame EXCEPT !.state = "torn"]

LosePower ==
    /\ \E kept \in SUBSET DOMAIN entries : entries' = [key \in kept |-> Torn(entries[key])]
    /\ temps' = [name \in DOMAIN temps |-> Torn(temps[name])]
=============================================================================
