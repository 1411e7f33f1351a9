---------------------------- MODULE UsbExecutables -----------------------------
(* Which executable a process of the application runs, as the diagnostics          *)
(* collector reports it (firmware/usb-diagnostics.c).                              *)
(*                                                                                 *)
(* A scan finds the application's process and opens an epoch for it, with the key  *)
(* of its executable: file and version, as fstat tells them.  A cache of digests   *)
(* by key is filled a portion per turn of the loop, while processes end, exec and  *)
(* start anew under the same pid, and a file nobody runs is rewritten in place.    *)
(* Processes and files are external; a pid is not reused within one read of /proc. *)
EXTENDS Naturals, Sequences, SequencesExt, FiniteSets

CONSTANTS Pids, Files,
          NoFile,       \* a pid with no process of the application
          Versions,     \* bound: contents a file goes through
          Starts,       \* bound: processes started
          Changes,      \* bound: changes to processes and files
          CacheSize,    \* MAX_EXE_CACHE
          EpochsKept,   \* MAX_EPOCHS
          Portions      \* reads before the end of a file

ASSUME ExecutableAssumption ==
    /\ NoFile \notin Files /\ {CacheSize, Starts, Changes} \subseteq Nat
    /\ {Versions, EpochsKept, Portions} \subseteq Nat \ {0}

VARIABLES procs,     \* pid -> the executable's file and the process's start time
          version,   \* file -> its content now
          genuine,   \* the keys whose content has the expected digest
          ran,       \* start time -> the keys the process has run
          loop,      \* where the collector's loop stands
          seen,      \* the process a scan found
          epochs, cache,
          hash,      \* the digest in progress: its open file and what it read
          changes

executableVars == <<procs, version, genuine, ran, loop, seen, epochs, cache, hash, changes>>
collector == <<loop, seen, epochs, cache, hash>>

Keys == Files \X (1 .. Versions)
NoKey == <<NoFile, 0>>
NoHash == [file |-> NoFile, read |-> {}, portions |-> 0]
Nobody == [pid |-> 0, start |-> 0]

-------------------------------------------------------------------------------
(* Processes and files. *)

Running == {p \in Pids : procs[p].file # NoFile}
KeyOf(f) == <<f, version[f]>>
Clock == Len(ran)
Changed == changes < Changes /\ changes' = changes + 1 /\ UNCHANGED collector

Start(p, f) ==
    /\ Changed
    /\ procs[p].file = NoFile /\ Clock < Starts
    /\ ran' = Append(ran, {KeyOf(f)})
    /\ procs' = [procs EXCEPT ![p] = [file |-> f, start |-> Clock + 1]]
    /\ UNCHANGED <<version, genuine>>
\* The same process, another executable.
Exec(p, f) ==
    /\ Changed
    /\ p \in Running /\ f # procs[p].file
    /\ ran' = [ran EXCEPT ![procs[p].start] = @ \cup {KeyOf(f)}]
    /\ procs' = [procs EXCEPT ![p].file = f]
    /\ UNCHANGED <<version, genuine>>
ExitProcess(p) ==
    /\ Changed
    /\ p \in Running /\ procs' = [procs EXCEPT ![p].file = NoFile]
    /\ UNCHANGED <<version, genuine, ran>>
\* A running executable cannot be written to.
Rewrite(f) ==
    /\ Changed
    /\ \A p \in Pids : procs[p].file # f
    /\ version[f] < Versions /\ version' = [version EXCEPT ![f] = @ + 1]
    /\ UNCHANGED <<procs, genuine, ran>>

-------------------------------------------------------------------------------
(* The cache, least recently used first. *)

\* process_exe_key: nothing, unless the pid still names that process.
process_exe_key(who) ==
    IF who.pid \in Running /\ procs[who.pid].start = who.start
    THEN KeyOf(procs[who.pid].file) ELSE NoKey

verification_find(c, key) == {i \in DOMAIN c : c[i].key = key}
\* Fault: room is made whatever the entry is doing.
EvictsAny(c) == DOMAIN c
Evictable(c) == {i \in DOMAIN c : c[i].state \notin {"hashing", "exact"}}
Oldest(c) == CHOOSE i \in Evictable(c) : \A j \in Evictable(c) : i <= j

\* A known key is asked for on behalf of its newest process, and tried again after a
\* failure, in time; a new one takes room or the place of the oldest.
verification_request(c, key, who) ==
    LET New == [key |-> key, state |-> "pending", who |-> who] IN
    IF verification_find(c, key) # {}
    THEN LET i == CHOOSE k \in verification_find(c, key) : TRUE
             again == IF c[i].state = "unavailable" THEN {"unavailable", "pending"} ELSE {c[i].state}
         IN {Append(RemoveAt(c, i), [c[i] EXCEPT !.who = who, !.state = s]) : s \in again}
    ELSE IF Len(c) < CacheSize THEN {Append(c, New)}
    ELSE IF Evictable(c) # {} THEN {Append(RemoveAt(c, Oldest(c)), New)}
    ELSE {c}

\* sync_epoch_verification
Synced(e, c) ==
    LET row == verification_find(c, e.key) IN
    [e EXCEPT !.verdict = IF e.key = NoKey \/ row = {} THEN "unavailable"
                          ELSE LET s == c[CHOOSE i \in row : TRUE].state IN
                               IF s = "hashing" THEN "pending" ELSE s]

-------------------------------------------------------------------------------
(* refresh_epoch: the steps of a scan. *)

Latest == Last(epochs)
Tracked == epochs # <<>> /\ Latest.who = seen

FindMpc ==
    /\ loop = "scan"
    /\ seen' = IF Cardinality(Running) = 1
               THEN LET p == CHOOSE q \in Running : TRUE IN [pid |-> p, start |-> procs[p].start]
               ELSE Nobody
    /\ loop' = IF seen' = Nobody THEN "step"
               ELSE IF epochs # <<>> /\ seen' = seen THEN "compare" ELSE "add"
    /\ UNCHANGED <<procs, version, genuine, ran, changes, epochs, cache, hash>>

\* The same process: has it executed another file?
CompareKey ==
    /\ loop = "compare"
    /\ LET key == process_exe_key(seen) IN
       loop' = IF key # NoKey /\ key # Latest.key THEN "add" ELSE "refresh"
    /\ UNCHANGED <<procs, version, genuine, ran, changes, seen, epochs, cache, hash>>

\* add_epoch; the oldest epoch makes room.
AddEpoch ==
    /\ loop = "add" /\ loop' = "refresh"
    /\ LET key == process_exe_key(seen)
           kept == IF Len(epochs) = EpochsKept THEN Tail(epochs) ELSE epochs
       IN /\ IF key = NoKey THEN UNCHANGED cache ELSE cache' \in verification_request(cache, key, seen)
          /\ epochs' = Append(kept, Synced([who |-> seen, key |-> key, verdict |-> "unavailable"], cache'))
    /\ UNCHANGED <<procs, version, genuine, ran, changes, seen, hash>>

RefreshEpoch ==
    /\ loop = "refresh" /\ loop' = "step"
    /\ IF Tracked /\ Latest.key # NoKey THEN cache' \in verification_request(cache, Latest.key, seen)
       ELSE UNCHANGED cache
    /\ epochs' = IF Tracked THEN [epochs EXCEPT ![Len(epochs)] = Synced(@, cache')] ELSE epochs
    /\ UNCHANGED <<procs, version, genuine, ran, changes, seen, hash>>

-------------------------------------------------------------------------------
(* verification_step: one digest at a time, a portion per turn. *)

In(state) == {i \in DOMAIN cache : cache[i].state = state}
Active == CHOOSE i \in In("hashing") : TRUE
Becomes(i, state) == cache' = [cache EXCEPT ![i].state = state]
SyncAll == epochs' = [i \in DOMAIN epochs |-> Synced(epochs[i], cache')]
Turn == /\ loop = "step" /\ loop' \in {"scan", "step"}
        /\ UNCHANGED <<procs, version, genuine, ran, changes, seen>>

\* The newest request: its process must still run the file with that key.
Begins ==
    /\ Turn /\ In("hashing") = {} /\ In("pending") # {}
    /\ LET i == CHOOSE k \in In("pending") : \A j \in In("pending") : j <= k
           who == cache[i].who
       IN IF process_exe_key(who) # cache[i].key
          THEN Becomes(i, "unavailable") /\ SyncAll /\ UNCHANGED hash
          ELSE /\ Becomes(i, "hashing") /\ UNCHANGED epochs
               /\ hash' = [NoHash EXCEPT !.file = procs[who.pid].file]
\* No request, or not yet time for the next digest.
Rests == Turn /\ In("hashing") = {} /\ UNCHANGED <<epochs, cache, hash>>

Reads ==
    /\ Turn /\ In("hashing") # {} /\ hash.portions < Portions
    /\ \/ /\ hash' = [hash EXCEPT !.portions = @ + 1, !.read = @ \cup {KeyOf(hash.file)}]
          /\ UNCHANGED <<epochs, cache>>
       \/ Becomes(Active, "unavailable") /\ SyncAll /\ hash' = NoHash

\* At the end the file must still be the one asked for.
Ends ==
    /\ Turn /\ In("hashing") # {} /\ hash.portions = Portions /\ hash' = NoHash
    /\ Becomes(Active, IF KeyOf(hash.file) # cache[Active].key THEN "unavailable"
                       ELSE IF hash.read \subseteq genuine THEN "exact" ELSE "mismatch")
    /\ SyncAll

-------------------------------------------------------------------------------
ExecutableInit ==
    /\ procs = [p \in Pids |-> [file |-> NoFile, start |-> 0]] /\ version = [f \in Files |-> 1]
    /\ \E key \in Keys : genuine = {key}
    /\ ran = <<>> /\ loop = "scan" /\ seen = Nobody /\ epochs = <<>> /\ cache = <<>> /\ hash = NoHash
    /\ changes = 0

ExecutableNext ==
    \/ \E p \in Pids, f \in Files : Start(p, f) \/ Exec(p, f)
    \/ \E p \in Pids : ExitProcess(p)
    \/ \E f \in Files : Rewrite(f)
    \/ FindMpc \/ CompareKey \/ AddEpoch \/ RefreshEpoch
    \/ Begins \/ Rests \/ Reads \/ Ends

ExecutableSpec == ExecutableInit /\ [][ExecutableNext]_executableVars

-------------------------------------------------------------------------------
Verdicts == {"unavailable", "pending", "exact", "mismatch"}
ExecutableTypeOK ==
    /\ procs \in [Pids -> [file : Files \cup {NoFile}, start : 0 .. Starts]]
    /\ Len(epochs) <= EpochsKept /\ Len(cache) <= CacheSize
    /\ \A e \in ToSet(epochs) : e.verdict \in Verdicts /\ e.key \in Keys \cup {NoKey}
    /\ Cardinality(In("hashing")) = (IF hash.file = NoFile THEN 0 ELSE 1)
    /\ \A key \in Keys : Cardinality(verification_find(cache, key)) <= 1

\* verification_step, sync_epoch_verification: an epoch called exact, or mismatched, is
\* of a process that did run an executable of which this is true, whatever was
\* executed, rewritten, replaced or started under the same pid while it was read.
VerdictsAreTrue ==
    \A e \in ToSet(epochs) :
        /\ e.key # NoKey => e.key \in ran[e.who.start]
        /\ e.verdict = "exact" => e.key \in genuine
        /\ e.verdict = "mismatch" => e.key \notin genuine
===============================================================================
