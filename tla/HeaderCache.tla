---------------------------- MODULE HeaderCache -----------------------------
(***************************************************************************)
(* cached_task_header: the process-wide cache of task-state headers that   *)
(* live counts and session-task searches read instead of the files.        *)
(* Readers run on many threads and the cache mutex is held only for the    *)
(* lookup and for the insert: between them a file may be replaced, and two *)
(* readers may work on the same path.                                      *)
(*                                                                         *)
(* Abstractions.  A file's contents are the number of times it has been    *)
(* saved, 0 when it is not there.  FileFingerprint (length and mtime) is   *)
(* taken to tell any two contents of a file apart, so a fingerprint is     *)
(* the contents it was taken from.                                         *)
(***************************************************************************)
EXTENDS Integers, FiniteSets

CONSTANTS
    Paths,      \* task-state files
    Readers,    \* threads that ask for headers
    Cap,        \* MAX_HEADER_CACHE_ENTRIES
    MaxSaves,   \* bound: saves of one file
    MaxCalls    \* bound: values of next_access

ASSUME CacheAssumption ==
    /\ Cap \in Nat \ {0} /\ MaxSaves \in Nat /\ MaxCalls \in Nat
    /\ IsFiniteSet(Paths)

VARIABLES
    disk,       \* contents of each file
    cached,     \* HeaderLruCache.entries: the paths that have one
    entry,      \* CacheEntry of each cached path: [header, stamp, access]
    nextAccess, \* HeaderLruCache.next_access
    call        \* what each reader is doing: [at, path, stamp, header, base]

vars == <<disk, cached, entry, nextAccess, call>>

Entry == [header : Nat, stamp : Nat, access : Nat]
\* base, a ghost: what was on disk when the call began
Call == [at : {"idle", "lookup", "read", "insert", "done"}, path : Paths,
         stamp : Nat, header : Nat, base : Nat]
NoEntry == [header |-> 0, stamp |-> 0, access |-> 0]
NoCall(p) == [at |-> "idle", path |-> p, stamp |-> 0, header |-> 0, base |-> 0]

Init ==
    /\ disk = [p \in Paths |-> 0]
    /\ cached = {} /\ entry = [p \in Paths |-> NoEntry]
    /\ nextAccess = 0
    /\ call \in [Readers -> [at : {"idle"}, path : Paths, stamp : {0}, header : {0}, base : {0}]]

\* Some process saves the file: a rename puts new contents under the name.
Save(p) ==
    /\ disk[p] < MaxSaves
    /\ disk' = [disk EXCEPT ![p] = @ + 1]
    /\ UNCHANGED <<cached, entry, nextAccess, call>>

\* FileFingerprint::from_path; a file that is not there answers None at once.
Fingerprint(r, p) ==
    /\ call[r].at = "idle" /\ disk[p] # 0 /\ nextAccess + 2 <= MaxCalls
    /\ call' = [call EXCEPT ![r] = [at |-> "lookup", path |-> p, stamp |-> disk[p],
                                    header |-> 0, base |-> disk[p]]]
    /\ UNCHANGED <<disk, cached, entry, nextAccess>>

Hit(r) == call[r].path \in cached /\ entry[call[r].path].stamp = call[r].stamp

\* The first critical section, with the fingerprint of the entry: its header is the answer.
LookupHit(r) ==
    LET p == call[r].path IN
    /\ call[r].at = "lookup" /\ Hit(r)
    /\ nextAccess' = nextAccess + 1
    /\ entry' = [entry EXCEPT ![p].access = nextAccess + 1]
    /\ call' = [call EXCEPT ![r] = [@ EXCEPT !.at = "done", !.header = entry[p].header]]
    /\ UNCHANGED <<disk, cached>>

\* Any other entry of that path is dropped.
LookupMiss(r) ==
    /\ call[r].at = "lookup" /\ ~Hit(r)
    /\ cached' = cached \ {call[r].path}
    /\ entry' = [entry EXCEPT ![call[r].path] = NoEntry]
    /\ call' = [call EXCEPT ![r].at = "read"]
    /\ UNCHANGED <<disk, nextAccess>>

\* TaskStateHeader::from_path, outside the mutex
ReadHeader(r) ==
    /\ call[r].at = "read"
    /\ call' = [call EXCEPT ![r] = [@ EXCEPT !.at = "insert", !.header = disk[call[r].path]]]
    /\ UNCHANGED <<disk, cached, entry, nextAccess>>

\* It cannot be read or parsed: None, and nothing is cached.
ReadFails(r) ==
    /\ call[r].at = "read"
    /\ call' = [call EXCEPT ![r] = NoCall(call[r].path)]
    /\ UNCHANGED <<disk, cached, entry, nextAccess>>

\* Mutant: the newest entry is evicted.
Victims_Newest(s, e) ==
    IF Cardinality(s) > Cap
    THEN {CHOOSE p \in s : \A q \in s : e[p].access >= e[q].access} ELSE {}

\* evict_lru: the least recently used entry goes while there are more than Cap; an
\* insert adds at most one.
Victims(s, e) ==
    IF Cardinality(s) > Cap
    THEN {CHOOSE p \in s : \A q \in s : e[p].access <= e[q].access} ELSE {}

\* Mutant: the fingerprint is taken when the header is inserted, not before it is read.
Insert_LateStamp(r) ==
    LET p == call[r].path
        e == [entry EXCEPT ![p] = [header |-> call[r].header, stamp |-> disk[p],
                                   access |-> nextAccess + 1]]
        gone == Victims(cached \cup {p}, e)
    IN
    /\ call[r].at = "insert"
    /\ nextAccess' = nextAccess + 1
    /\ cached' = (cached \cup {p}) \ gone
    /\ entry' = [q \in Paths |-> IF q \in gone THEN NoEntry ELSE e[q]]
    /\ call' = [call EXCEPT ![r].at = "done"]
    /\ UNCHANGED disk

\* The second critical section
Insert(r) ==
    LET p == call[r].path
        e == [entry EXCEPT ![p] = [header |-> call[r].header, stamp |-> call[r].stamp,
                                   access |-> nextAccess + 1]]
        gone == Victims(cached \cup {p}, e)
    IN
    /\ call[r].at = "insert"
    /\ nextAccess' = nextAccess + 1
    /\ cached' = (cached \cup {p}) \ gone
    /\ entry' = [q \in Paths |-> IF q \in gone THEN NoEntry ELSE e[q]]
    /\ call' = [call EXCEPT ![r].at = "done"]
    /\ UNCHANGED disk

\* The header is returned.
Return(r) ==
    /\ call[r].at = "done"
    /\ call' = [call EXCEPT ![r] = NoCall(call[r].path)]
    /\ UNCHANGED <<disk, cached, entry, nextAccess>>

Next ==
    \/ \E p \in Paths : Save(p)
    \/ \E r \in Readers, p \in Paths : Fingerprint(r, p)
    \/ \E r \in Readers : \/ LookupHit(r) \/ LookupMiss(r) \/ ReadHeader(r)
                          \/ ReadFails(r) \/ Insert(r) \/ Return(r)

Spec == Init /\ [][Next]_vars

----------------------------------------------------------------------------
\* Files, entries and calls have their types.
TypeOK ==
    /\ disk \in [Paths -> Nat]
    /\ cached \in SUBSET Paths
    /\ entry \in [Paths -> Entry]
    /\ nextAccess \in Nat
    /\ call \in [Readers -> Call]

\* cached_task_header never answers with a header older than the file was when the
\* call began, whatever is saved, read, cached or evicted meanwhile.
AnswerFresh ==
    \A r \in Readers : call[r].at = "done" => call[r].header >= call[r].base

\* The cache never holds more than MAX_HEADER_CACHE_ENTRIES outside its mutex.
CacheBounded == Cardinality(cached) <= Cap

\* What cached_task_header promises its concurrent callers and the process: no header
\* from before the call, and no more memory than the limit, in every interleaving of
\* its two critical sections with saves.
CacheSound == AnswerFresh /\ CacheBounded

\* An insert keeps the header it inserts: what is evicted is older.
InsertKept ==
    [][\A r \in Readers : call[r].at = "insert" /\ call'[r].at = "done"
                            => call[r].path \in cached']_vars

\* An entry was read after its fingerprint was taken, so it is at least as new as the
\* contents the fingerprint names, and so is what a reader is about to insert.
EntriesFollowStamps ==
    /\ \A p \in cached : entry[p].stamp <= entry[p].header /\ entry[p].header <= disk[p]
    /\ \A r \in Readers :
          /\ call[r].stamp <= disk[call[r].path]
          /\ call[r].base <= call[r].stamp
          /\ call[r].at = "insert" =>
                call[r].stamp <= call[r].header /\ call[r].header <= disk[call[r].path]
=============================================================================
