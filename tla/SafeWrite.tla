------------------------------ MODULE SafeWrite -------------------------------
(***************************************************************************)
(* write_bytes_safe: every state file (task states, leases, working sets,  *)
(* notes, join index, projections) is written to a temporary file beside   *)
(* it, synced and renamed over the old one.  The name of the temporary     *)
(* file depends on the final name only, and no lock is taken here: two     *)
(* writers of one file share it.  A process may die before any step.       *)
(*                                                                         *)
(* Abstractions.  Contents are the number of the write they come from.  A  *)
(* file handle stays with the file it was opened on, whatever its name     *)
(* becomes, so files are inodes here: [of, whole], and two names lead to   *)
(* them.                                                                   *)
(***************************************************************************)
EXTENDS Integers, FiniteSets

CONSTANTS
    Savers,         \* threads and processes that save the file
    MaxWrites,      \* bound: saves begun
    MaxCrashes      \* bound: processes that die

ASSUME SafeWriteAssumption == MaxWrites \in Nat /\ MaxCrashes \in Nat

Inodes == 0 .. MaxWrites
Missing == -1

VARIABLES
    inode,      \* inode -> [of, whole]: the write its bytes are from, and whether all are there
    final,      \* the inode under the file's name
    temp,       \* the inode under the temporary name
    saver,      \* [at, write, file] of each saver
    begun,      \* saves begun
    crashes,
    shared      \* ghost: two savers were at work at once

fileVars == <<inode, final, temp, saver, begun, crashes, shared>>
Ended == [at |-> "idle", write |-> 0, file |-> Missing]
Fresh(n) == [of |-> n, whole |-> FALSE]

SafeInit ==
    /\ inode = [i \in Inodes |-> [of |-> 0, whole |-> i = 0]]
    /\ final = 0 /\ temp = Missing
    /\ saver = [s \in Savers |-> Ended]
    /\ begun = 0 /\ crashes = 0 /\ shared = FALSE

\* Mutant: the file itself is opened for writing.
CreateTemp_InPlace(s) ==
    /\ saver[s].at = "idle" /\ begun < MaxWrites
    /\ begun' = begun + 1
    /\ saver' = [saver EXCEPT ![s] = [at |-> "write", write |-> begun', file |-> final]]
    /\ inode' = [inode EXCEPT ![final] = Fresh(begun')]
    /\ UNCHANGED <<final, temp, crashes, shared>>

\* File::create: a temporary file that is there is emptied, not replaced.
CreateTemp(s) ==
    /\ saver[s].at = "idle" /\ begun < MaxWrites
    /\ begun' = begun + 1
    /\ temp' = IF temp = Missing THEN begun' ELSE temp
    /\ inode' = [inode EXCEPT ![temp'] = Fresh(begun')]
    /\ saver' = [saver EXCEPT ![s] = [at |-> "write", write |-> begun', file |-> temp']]
    /\ shared' = (shared \/ \E t \in Savers \ {s} : saver[t].at # "idle")
    /\ UNCHANGED <<final, crashes>>

\* write_all and sync_all.  Bytes of two writers in one file are nobody's save.
WriteAndSync(s) ==
    /\ saver[s].at = "write"
    /\ inode' = [inode EXCEPT ![saver[s].file] =
                    [of |-> saver[s].write, whole |-> @.of = saver[s].write]]
    /\ saver' = [saver EXCEPT ![s].at = "rename"]
    /\ UNCHANGED <<final, temp, begun, crashes, shared>>

\* rename: whatever has the temporary name gets the final one.  When another
\* writer's rename took it, the save fails.
RenameTemp(s) ==
    /\ saver[s].at = "rename"
    /\ \/ temp = Missing /\ UNCHANGED <<final, temp>>
       \/ temp # Missing /\ final' = temp /\ temp' = Missing
    /\ saver' = [saver EXCEPT ![s] = Ended]
    /\ UNCHANGED <<inode, begun, crashes, shared>>

SaverDies(s) ==
    /\ saver[s].at # "idle" /\ crashes < MaxCrashes
    /\ crashes' = crashes + 1
    /\ saver' = [saver EXCEPT ![s] = Ended]
    /\ UNCHANGED <<inode, final, temp, begun, shared>>

SafeNext ==
    \E s \in Savers : CreateTemp(s) \/ WriteAndSync(s) \/ RenameTemp(s) \/ SaverDies(s)

SafeSpec == SafeInit /\ [][SafeNext]_fileVars

-----------------------------------------------------------------------------
SafeTypeOK ==
    /\ inode \in [Inodes -> [of: Inodes, whole: BOOLEAN]]
    /\ final \in Inodes \cup {Missing} /\ temp \in Inodes \cup {Missing}
    /\ \A s \in Savers : saver[s].at \in {"idle", "write", "rename"}

\* Whenever a process dies, and whatever temporary file it leaves behind, the file
\* has the whole contents of one save.  Not so once two savers were at work at once:
\* they share the temporary name, and one may publish what the other has not written.
FileIsWhole == ~shared => final # Missing /\ inode[final].whole
=============================================================================
