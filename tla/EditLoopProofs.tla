--------------------------- MODULE EditLoopProofs ---------------------------
(* Theorems about EditLoop and the tools under it, for any set of files, any *)
(* number of calls, turns, pulses, outside writes and late tasks, and any    *)
(* depth of the undo stack.                                                  *)
EXTENDS EditLoop, FiniteSetTheorems, SequenceTheorems, TLAPS

-----------------------------------------------------------------------------
(***************************************************************************)
(* Calls and tasks.  What got past the guards names a location; the task   *)
(* of the call in progress is the only one that is not late.               *)
(***************************************************************************)
Located == {r \in Requests : r.key # "none"}
Checkpoint == [path : Paths, cleanup : Paths \cup {NoPath}, previous : Nat, mark : [Paths -> Nat]]
Read == [m : Nat, seen : Nat, turn : Nat, raced : BOOLEAN, late : BOOLEAN]

DiskTypes == disk \in [Paths -> [c : Nat, m : Nat]] /\ clock \in Nat
TurnTypes == turn \in [on : BOOLEAN, n : Nat, kind : TurnKinds, mutated : BOOLEAN, wrote : BOOLEAN,
                       proposed : BOOLEAN]
CallTypes == call \in [st : {"idle", "ask", "pre", "exec", "embed", "post"}, req : Located \cup {NoRequest},
                       snap : Checkpoint \cup {NoSnap}, wrote : SUBSET Paths, asked : BOOLEAN]
IndexTypes == index \in [st : {"none", "building", "built"}, todo : SUBSET Paths, of : [Paths -> Nat]]
LedgerTypes == ledger \in [Paths -> Read] /\ foreign \in SUBSET Paths
LoopTypes == loop \in [st : {"off", "pulse", "driving", "validate"}, pulse : 0 .. MaxPulses,
                       stop : BOOLEAN, last : {"none", "pass", "fail"},
                       outcome : {"none", "max_turns", "cancelled", "success"}]
SpentTypes == spent \in [calls : Nat, outside : Nat]

\* A task has read its file in the stages that follow a read.
JobOK(j) ==
    /\ j \in Job /\ j.req \in Located /\ j.req.tool \in Mutating \cup {"read_file"}
    /\ j.st = "finger" => j.req.tool = "read_file"
    /\ j.st = "edit" => j.req.tool = "edit_file"
    /\ j.st = "refresh" => j.req.tool \in Mutating
JobTypes == \A j \in jobs : JobOK(j)

Types ==
    /\ DiskTypes /\ TurnTypes /\ CallTypes /\ IndexTypes /\ LedgerTypes /\ LoopTypes /\ SpentTypes
    /\ JobTypes

CallInv ==
    /\ call.st = "idle" => call = NoCall
    /\ call.st # "idle" => turn.on /\ call.req \in Located
    /\ call.st = "embed" => call.req.tool \notin Mutating
    /\ call.st \in {"ask", "pre"} => call.wrote = {}
    /\ \A j \in jobs : ~j.late =>
          /\ call.st = "exec" /\ j.req = call.req /\ j.turn = turn.n
          /\ j.st # "refresh" => call.wrote = {}
    /\ \A j, k \in jobs : ~j.late /\ ~k.late => j = k

\* What sanctions a call that may write.
SanctionInv ==
    /\ call.st # "idle" => ~Rejected(call.req)
    /\ call.st \in {"pre", "exec", "embed", "post"} /\ Requires(call.req.tool) => call.asked
    /\ call.st \in {"exec", "embed", "post"} => ~PolicyForbids(call.req)

-----------------------------------------------------------------------------
(***************************************************************************)
(* The undo stack.  Contents f, taken back by checkpoint cp, are what cp   *)
(* remembers, except on the files of ex.                                   *)
(***************************************************************************)
Back(f, cp, p) == IF p = cp.path THEN cp.previous ELSE IF p = cp.cleanup THEN 0 ELSE f[p]
Brings(f, cp, ex) == \A p \in Paths \ ex : Back(f, cp, p) = cp.mark[p]

\* The own task has written, or the call is past its task.
Done == call.st = "post" \/ \E j \in jobs : ~j.late /\ j.st = "refresh"

\* While the call runs, only what it wrote itself, and what no checkpoint stands for,
\* differs from its snapshot.
SnapInv ==
    call.snap # NoSnap =>
        /\ call.req.tool \in Mutating /\ call.snap.path = call.req.path
        /\ call.snap.previous = call.snap.mark[call.snap.path]
        /\ call.snap.cleanup \in {NoPath, call.req.to}
        /\ \A p \in Paths \ (foreign \cup call.wrote) : disk[p].c = call.snap.mark[p]
        /\ Done /\ call.snap.cleanup \in Paths \ (foreign \cup {call.snap.path})
              => call.snap.mark[call.snap.cleanup] = 0

\* Each checkpoint takes what the next one remembers back to what it remembers.
UndoInv ==
    /\ undo \in Seq(Checkpoint) /\ Len(undo) <= MaxUndo
    /\ \A k \in 1 .. Len(undo) - 1 : Brings(undo[k + 1].mark, undo[k], foreign)
    /\ undo # <<>> =>
          /\ Brings(Contents(disk), undo[Len(undo)], foreign \cup call.wrote)
          /\ call.snap # NoSnap => Brings(call.snap.mark, undo[Len(undo)], foreign)

-----------------------------------------------------------------------------
(***************************************************************************)
(* The index, the ledger and the loop.                                     *)
(***************************************************************************)
IndexInv ==
    /\ IndexFollows
    /\ index.st = "building" => \A p \in Paths \ index.todo : index.of[p] = disk[p].c \/ p \in stale
    /\ call.st = "exec" /\ call.req.tool = "codebase_search" => index.st # "none"

\* A modification time stands for one content.
TimesInv ==
    /\ \A p \in Paths : disk[p].m <= clock /\ ledger[p].m <= clock
    /\ \A p, q \in Paths :
          disk[p].c # 0 /\ disk[q].c # 0 /\ disk[p].m = disk[q].m => disk[p].c = disk[q].c
    /\ \A p, q \in Paths :
          ledger[p] # NoRead /\ ~ledger[p].raced /\ disk[q].c # 0 /\ disk[q].m = ledger[p].m
          => ledger[p].seen = disk[q].c

LedgerInv ==
    /\ \A p \in Paths : ledger[p] # NoRead /\ ~ledger[p].late => ledger[p].turn = turn.n
    /\ \A j \in jobs : j.st \in {"finger", "edit"} /\ ~j.raced => disk[j.req.path].c = j.base
    /\ AnchoredEditSawIt

\* A turn that counts as having changed something did, or proposed to.
Changed == turn.wrote \/ turn.proposed
ChangeInv ==
    /\ turn.mutated => Changed
    /\ Done /\ call.req.tool \in Mutating => Changed
    /\ loop.st \in {"pulse", "validate"} => ~turn.on
    /\ loop.st = "validate" => turn.mutated

EditInv ==
    /\ Types /\ CallInv /\ SanctionInv /\ SnapInv /\ UndoInv /\ IndexInv /\ TimesInv /\ LedgerInv
    /\ ChangeInv

-----------------------------------------------------------------------------
(* Facts about requests, tasks and the disk *)

\* A request that names a location.
LEMMA LocatedFacts ==
    ASSUME NEW r \in Located
    PROVE  /\ r \in Requests /\ r.tool \in Tools /\ r.key \in {"std", "alt"}
           /\ r.path \in Paths \cup {NoPath} /\ r.to \in Paths \cup {NoPath}
           /\ r.tool \in Mutating \cup {"read_file"} => r.path \in Paths
           /\ r.tool = "rename_file" => r.to \in Paths
           /\ r.tool # "rename_file" => r.to = NoPath
<1>. USE DEF Located, Tools, Mutating
<1>1. CASE r \in [tool : {"read_file", "write_file", "apply_patch", "edit_file"}, path : Paths,
                  to : {NoPath}, key : {"std", "alt"}]
  BY <1>1
<1>2. CASE r \in [tool : {"edit_file"}, path : {NoPath}, to : {NoPath}, key : {"none"}]
  BY <1>2
<1>3. CASE r \in [tool : {"rename_file"}, path : Paths, to : Paths, key : {"std", "alt"}]
  BY <1>3
<1>4. CASE r \in [tool : {"run_command", "codebase_search"}, path : {NoPath}, to : {NoPath},
                  key : {"std"}]
  BY <1>4
<1>. QED  BY <1>1, <1>2, <1>3, <1>4 DEF Requests

\* The fields of a task.
LEMMA JobFacts ==
    ASSUME NEW j, JobOK(j)
    PROVE  /\ j.st \in {"start", "finger", "edit", "refresh"} /\ j.base \in Nat
           /\ j.late \in BOOLEAN /\ j.raced \in BOOLEAN /\ j.turn \in Nat
           /\ j.req.path \in Paths /\ j.req.to \in Paths \cup {NoPath}
           /\ j.req.tool = "rename_file" => j.req.to \in Paths
           /\ j.req.tool # "codebase_search" /\ j.req.tool # "run_command"
<1>1. j \in Job /\ j.req \in Located /\ j.req.tool \in Mutating \cup {"read_file"}
  BY DEF JobOK
<1>2. /\ j.req.path \in Paths /\ j.req.to \in Paths \cup {NoPath}
      /\ j.req.tool = "rename_file" => j.req.to \in Paths
  BY <1>1, LocatedFacts
<1>3. /\ j.st \in {"start", "finger", "edit", "refresh"} /\ j.base \in Nat
      /\ j.late \in BOOLEAN /\ j.raced \in BOOLEAN /\ j.turn \in Nat
  BY <1>1 DEF Job
<1>. QED  BY <1>1, <1>2, <1>3 DEF Mutating

\* A task whose call is gone.
LEMMA JobLate ==
    ASSUME NEW j, JobOK(j)
    PROVE  LET k == [j EXCEPT !.late = TRUE]
           IN  /\ JobOK(k) /\ k.req = j.req /\ k.st = j.st /\ k.base = j.base /\ k.turn = j.turn
               /\ k.raced = j.raced /\ k.late
BY DEF JobOK, Job

\* A task that another write has raced.
LEMMA JobRaced ==
    ASSUME NEW j, JobOK(j)
    PROVE  LET k == [j EXCEPT !.raced = TRUE]
           IN  /\ JobOK(k) /\ k.req = j.req /\ k.st = j.st /\ k.base = j.base /\ k.turn = j.turn
               /\ k.raced /\ k.late = j.late
BY DEF JobOK, Job

\* A task that has done its work and goes on to refresh the index.
LEMMA JobToRefresh ==
    ASSUME NEW j, JobOK(j), j.req.tool \in Mutating
    PROVE  LET k == [j EXCEPT !.st = "refresh"]
           IN  /\ JobOK(k) /\ k.req = j.req /\ k.st = "refresh" /\ k.turn = j.turn /\ k.late = j.late
BY DEF JobOK, Job

\* What a write to ps leaves of the tasks: each goes on, raced if it has read one of ps.
Goes(k, j, ps) ==
    /\ JobOK(k) /\ k.req = j.req /\ k.st = j.st /\ k.base = j.base /\ k.turn = j.turn /\ k.late = j.late
    /\ k.st \in {"finger", "edit"} /\ ~k.raced => ~j.raced /\ j.req.path \notin ps
    /\ k.st \notin {"finger", "edit"} => k = j
\* Raced(js, ps) is js, task by task.
LEMMA RacedFacts ==
    ASSUME NEW js, \A j \in js : JobOK(j), NEW ps
    PROVE  /\ \A k \in Raced(js, ps) : \E j \in js : Goes(k, j, ps)
           /\ \A j \in js : \E k \in Raced(js, ps) : Goes(k, j, ps)
           /\ (\A i, j \in js : ~i.late /\ ~j.late => i = j)
              => \A k, l \in Raced(js, ps) : ~k.late /\ ~l.late => k = l
<1>. DEFINE R(j) == IF j.req.path \in ps /\ j.st \in {"finger", "edit"} THEN [j EXCEPT !.raced = TRUE]
                    ELSE j
<1>1. ASSUME NEW j \in js PROVE Goes(R(j), j, ps)
  <2>1. CASE j.req.path \in ps /\ j.st \in {"finger", "edit"}
    <3>. DEFINE k == [j EXCEPT !.raced = TRUE]
    <3>1. R(j) = k
      BY <2>1
    <3>2. /\ JobOK(k) /\ k.req = j.req /\ k.st = j.st /\ k.base = j.base /\ k.turn = j.turn
          /\ k.raced /\ k.late = j.late
      BY JobRaced
    <3>. HIDE DEF k, R
    <3>. QED  BY <2>1, <3>1, <3>2 DEF Goes
  <2>2. CASE ~(j.req.path \in ps /\ j.st \in {"finger", "edit"})
    <3>1. R(j) = j
      BY <2>2
    <3>. HIDE DEF R
    <3>. QED  BY <2>2, <3>1 DEF Goes
  <2>. QED  BY <2>1, <2>2
<1>2. Raced(js, ps) = {R(j) : j \in js}
  BY DEF Raced
<1>. HIDE DEF R
<1>3. \A j \in js : R(j).late = j.late
  BY <1>1 DEF Goes
<1>. QED  BY <1>1, <1>2, <1>3

-----------------------------------------------------------------------------
(* Parts of the invariant that a step leaves alone *)

\* No file, time or read changes.
LEMMA TimesFrame ==
    ASSUME TimesInv, UNCHANGED <<disk, clock, ledger>>
    PROVE  TimesInv'
BY DEF TimesInv

\* No read is recorded and no file changes; tasks go on from what they have read.
LEMMA LedgerFrame ==
    ASSUME LedgerInv, UNCHANGED <<disk, ledger, anchor>>, turn'.n = turn.n,
           \A k \in jobs' : k.st \in {"finger", "edit"} /\ ~k.raced =>
              disk[k.req.path].c = k.base
    PROVE  LedgerInv'
BY DEF LedgerInv, AnchoredEditSawIt

\* No file or entry of the index changes; tasks about to refresh it stay.
LEMMA IndexFrame ==
    ASSUME IndexInv, UNCHANGED <<disk, index, stale>>,
           \A j \in jobs : j.st = "refresh" => \E k \in jobs' : k.st = "refresh" /\ k.req = j.req,
           call'.st = "exec" /\ call'.req.tool = "codebase_search" =>
              call.st = "exec" /\ call.req.tool = "codebase_search"
    PROVE  IndexInv'
BY DEF IndexInv, IndexFollows

\* The stack stays and files change only where the call or something foreign is noted.
LEMMA UndoFrame ==
    ASSUME UndoInv, Types, undo' = undo, foreign \subseteq foreign',
           foreign \cup call.wrote \subseteq foreign' \cup call'.wrote,
           \A p \in Paths \ (foreign' \cup call'.wrote) : disk'[p].c = disk[p].c,
           call'.snap \in {call.snap, NoSnap}
    PROVE  UndoInv'
<1>1. \A f, cp, ex, ex2 : ex \subseteq ex2 /\ Brings(f, cp, ex) => Brings(f, cp, ex2)
  BY DEF Brings
<1>2. undo \in Seq(Checkpoint) /\ Len(undo) <= MaxUndo
  BY DEF UndoInv
<1>3. \A k \in 1 .. Len(undo') - 1 : Brings(undo'[k + 1].mark, undo'[k], foreign')
  BY <1>1 DEF UndoInv
<1>4. ASSUME undo # <<>>
      PROVE  Brings(Contents(disk)', undo[Len(undo)], foreign' \cup call'.wrote)
  <2>. DEFINE ex == foreign' \cup call'.wrote
              cp == undo[Len(undo)]
  <2>1. Brings(Contents(disk), cp, ex)
    BY <1>1, <1>4 DEF UndoInv
  <2>2. \A p \in Paths \ ex : Contents(disk)'[p] = Contents(disk)[p]
    BY DEF Contents
  <2>. HIDE DEF ex, cp
  <2>3. Brings(Contents(disk)', cp, ex)
    BY <2>1, <2>2 DEF Brings, Back
  <2>. QED  BY <2>3 DEF ex, cp
<1>5. undo # <<>> /\ call'.snap # NoSnap => Brings(call'.snap.mark, undo[Len(undo)], foreign')
  BY <1>1 DEF UndoInv
<1>. QED  BY <1>2, <1>3, <1>4, <1>5 DEF UndoInv

-----------------------------------------------------------------------------
(* The start, and the end of a call *)

\* The state at the start.
LEMMA InitInv == Init => EditInv
<1>. SUFFICES ASSUME Init PROVE EditInv
  OBVIOUS
<1>. USE DEF Init, ToolInit
<1>1. DiskTypes /\ SpentTypes
  BY DEF DiskTypes, SpentTypes, NoFile
<1>2. TurnTypes
  BY DEF TurnTypes, NoTurn, TurnKinds
<1>3. CallTypes
  BY DEF CallTypes, NoCall
<1>4. IndexTypes /\ LedgerTypes
  BY DEF IndexTypes, LedgerTypes, Read, NoRead
<1>5. LoopTypes
  BY PulsesAssumption DEF LoopTypes, NoLoop
<1>6. JobTypes
  BY DEF JobTypes
<1>7. CallInv /\ SanctionInv
  BY DEF CallInv, SanctionInv, NoCall
<1>8. SnapInv /\ UndoInv
  BY ToolAssumption DEF SnapInv, UndoInv, NoCall
<1>9. IndexInv
  BY DEF IndexInv, IndexFollows, NoCall
<1>10. TimesInv
  BY DEF TimesInv, NoFile, NoRead
<1>11. LedgerInv
  BY DEF LedgerInv, AnchoredEditSawIt, NoAnchor, NoRead
<1>12. ChangeInv
  BY DEF ChangeInv, Done, NoCall, NoTurn, NoLoop, NoRequest, Mutating
<1>. QED  BY <1>1, <1>2, <1>3, <1>4, <1>5, <1>6, <1>7, <1>8, <1>9, <1>10, <1>11, <1>12 DEF EditInv, Types

\* The fields of the call and the turn.
LEMMA CallFacts ==
    ASSUME Types
    PROVE  /\ call.st \in {"idle", "ask", "pre", "exec", "embed", "post"} /\ call.wrote \subseteq Paths
           /\ call.snap \in Checkpoint \cup {NoSnap} /\ call.req \in Located \cup {NoRequest}
           /\ turn.on \in BOOLEAN /\ turn.n \in Nat /\ turn.mutated \in BOOLEAN
           /\ turn.wrote \in BOOLEAN /\ turn.proposed \in BOOLEAN /\ foreign \subseteq Paths
           /\ \A p \in Paths : disk[p].c \in Nat /\ disk[p].m \in Nat
           /\ clock \in Nat
BY DEF Types, CallTypes, TurnTypes, LedgerTypes, DiskTypes

\* The fields of a checkpoint.
LEMMA CheckpointFacts ==
    ASSUME NEW cp \in Checkpoint
    PROVE  /\ cp.path \in Paths /\ cp.cleanup \in Paths \cup {NoPath} /\ cp.previous \in Nat
           /\ cp.mark \in [Paths -> Nat]
BY DEF Checkpoint

\* Pushing a checkpoint: a snapshot that takes the files back to what it remembers, on
\* a stack whose last checkpoint goes on from there.
LEMMA PushStep ==
    ASSUME UndoInv, NEW cp \in Checkpoint, undo' = PushUndoCheckpoint(cp), foreign \subseteq foreign',
           undo # <<>> => Brings(cp.mark, undo[Len(undo)], foreign),
           Brings(Contents(disk)', cp, foreign' \cup call'.wrote), call'.snap = NoSnap
    PROVE  UndoInv'
<1>. DEFINE n == Len(undo)
<1>1. undo \in Seq(Checkpoint) /\ n \in Nat /\ n <= MaxUndo /\ MaxUndo \in Nat
  BY ToolAssumption DEF UndoInv
<1>2. \A k \in 1 .. n - 1 : Brings(undo[k + 1].mark, undo[k], foreign)
  BY DEF UndoInv
<1>3. \A f, c : Brings(f, c, foreign) => Brings(f, c, foreign')
  BY DEF Brings
<1>4. CASE MaxUndo = 0
  <2>1. undo' = undo /\ n = 0
    BY <1>1, <1>4 DEF PushUndoCheckpoint
  <2>2. undo = <<>>
    BY <1>1, <2>1
  <2>. QED  BY <1>1, <2>1, <2>2 DEF UndoInv
<1>5. CASE MaxUndo # 0
  <2>. DEFINE t == IF n >= MaxUndo THEN Tail(undo) ELSE undo
  <2>1. undo' = Append(t, cp)
    BY <1>5 DEF PushUndoCheckpoint
  <2>2. PICK d \in {0, 1} : /\ t \in Seq(Checkpoint) /\ Len(t) = n - d /\ Len(t) < MaxUndo
                            /\ \A k \in 1 .. Len(t) : t[k] = undo[k + d]
    <3>1. CASE n >= MaxUndo
      <4>1. n > 0 /\ undo # <<>>
        BY <1>1, <1>5, <3>1
      <4>2. /\ Tail(undo) \in Seq(Checkpoint) /\ Len(Tail(undo)) = n - 1
            /\ \A k \in 1 .. Len(Tail(undo)) : Tail(undo)[k] = undo[k + 1]
        BY <1>1, <4>1
      <4>3. t = Tail(undo)
        BY <3>1
      <4>. HIDE DEF t, n
      <4>4. /\ t \in Seq(Checkpoint) /\ Len(t) = n - 1 /\ Len(t) < MaxUndo
            /\ \A k \in 1 .. Len(t) : t[k] = undo[k + 1]
        BY <1>1, <4>2, <4>3
      <4>. QED  BY <4>4
    <3>2. CASE ~(n >= MaxUndo)
      BY <1>1, <3>2
    <3>. QED  BY <3>1, <3>2
  <2>. HIDE DEF t
  <2>3. /\ undo' \in Seq(Checkpoint) /\ Len(undo') = Len(t) + 1 /\ Len(t) \in Nat
        /\ undo'[Len(t) + 1] = cp /\ \A k \in 1 .. Len(t) : undo'[k] = t[k]
    BY <2>1, <2>2
  <2>4. Len(undo') <= MaxUndo /\ undo' # <<>>
    BY <1>1, <2>2, <2>3
  <2>5. ASSUME NEW k \in 1 .. Len(undo') - 1
        PROVE  Brings(undo'[k + 1].mark, undo'[k], foreign')
    <3>1. k \in 1 .. Len(t) /\ undo'[k] = undo[k + d] /\ k + d \in 1 .. n
      BY <1>1, <2>2, <2>3
    <3>2. CASE k = Len(t)
      <4>1. k + d = n /\ undo # <<>> /\ undo'[k + 1] = cp
        BY <1>1, <2>2, <2>3, <3>1, <3>2
      <4>. QED  BY <1>3, <3>1, <4>1
    <3>3. CASE k # Len(t)
      <4>0. /\ Len(t) \in Nat /\ n \in Nat /\ Len(t) = n - d /\ k \in 1 .. Len(t) /\ k # Len(t)
            /\ d \in {0, 1}
        BY <1>1, <2>2, <2>3, <3>1, <3>3
      <4>1. k + 1 \in 1 .. Len(t) /\ k + d \in 1 .. n - 1
        <5>. HIDE DEF n
        <5>. QED  BY <4>0
      <4>2. undo'[k + 1] = undo[(k + 1) + d] /\ (k + 1) + d = (k + d) + 1
        BY <1>1, <2>2, <2>3, <4>1
      <4>. QED  BY <1>2, <1>3, <3>1, <4>1, <4>2
    <3>. QED  BY <3>2, <3>3
  <2>6. undo'[Len(undo')] = cp
    BY <2>3
  <2>. QED  BY <2>3, <2>4, <2>5, <2>6 DEF UndoInv
<1>. QED  BY <1>4, <1>5

\* What has to be said of the state after a call has moved on.
CallPart ==
    /\ TurnTypes /\ CallTypes /\ foreign \in SUBSET Paths /\ CallInv /\ SanctionInv /\ SnapInv /\ UndoInv
    /\ ChangeInv

\* The result is recorded.
LEMMA SettleStep ==
    ASSUME EditInv, NEW ok \in BOOLEAN, Settle(ok), ok => call.st = "post",
           UNCHANGED <<disk, loop>>, \A k \in jobs' : k.late
    PROVE  CallPart' /\ call' = NoCall /\ turn'.n = turn.n
<1>1. /\ call' = NoCall /\ turn' = [turn EXCEPT !.mutated = @ \/ (ok /\ call.req.tool \in Mutating)]
  BY DEF Settle
<1>2. /\ turn'.on = turn.on /\ turn'.n = turn.n /\ turn'.kind = turn.kind /\ TurnTypes'
      /\ turn'.wrote = turn.wrote /\ turn'.proposed = turn.proposed
      /\ turn'.mutated = (turn.mutated \/ (ok /\ call.req.tool \in Mutating))
  BY <1>1 DEF EditInv, Types, TurnTypes
<1>3. /\ call'.st = "idle" /\ call'.snap = NoSnap /\ call'.wrote = {} /\ call'.req.tool \notin Mutating
      /\ CallTypes'
  BY <1>1 DEF NoCall, NoRequest, Mutating, CallTypes
<1>4. CallInv' /\ SanctionInv' /\ SnapInv'
  BY <1>1, <1>3 DEF CallInv, SanctionInv, SnapInv
<1>5. ChangeInv'
  <2>1. turn'.mutated => turn'.wrote \/ turn'.proposed
    BY <1>2 DEF EditInv, ChangeInv, Changed, Done
  <2>. QED  BY <1>2, <1>3, <2>1 DEF EditInv, ChangeInv, Changed
<1>6. CASE ok /\ call.snap # NoSnap
  <2>. DEFINE cp == call.snap
  <2>1. undo' = PushUndoCheckpoint(cp) /\ foreign' = foreign \cup (call.wrote \ {cp.path, cp.cleanup})
    BY <1>6 DEF Settle
  <2>2. /\ cp \in Checkpoint /\ cp.previous = cp.mark[cp.path]
        /\ \A p \in Paths \ (foreign \cup call.wrote) : disk[p].c = cp.mark[p]
        /\ cp.cleanup \in Paths \ (foreign \cup {cp.path}) => cp.mark[cp.cleanup] = 0
    BY <1>6, CallFacts DEF EditInv, SnapInv, Done
  <2>3. undo # <<>> => Brings(cp.mark, undo[Len(undo)], foreign)
    BY <1>6 DEF EditInv, UndoInv
  <2>. HIDE DEF cp
  <2>4. foreign \subseteq foreign' /\ foreign' \in SUBSET Paths
    BY <2>1, CallFacts DEF EditInv
  <2>5. Brings(Contents(disk)', cp, foreign' \cup call'.wrote)
    <3>. SUFFICES ASSUME NEW p \in Paths, p \notin foreign'
                  PROVE  Back(Contents(disk)', cp, p) = cp.mark[p]
      BY <1>3 DEF Brings
    <3>1. Contents(disk)'[p] = disk[p].c
      BY DEF Contents
    <3>2. CASE p = cp.path
      BY <2>2, <3>2 DEF Back
    <3>3. CASE p # cp.path /\ p = cp.cleanup
      BY <2>2, <2>4, <3>3 DEF Back
    <3>4. CASE p # cp.path /\ p # cp.cleanup
      BY <2>1, <2>2, <3>1, <3>4 DEF Back
    <3>. QED  BY <3>2, <3>3, <3>4
  <2>6. UndoInv'
    BY <1>3, <2>1, <2>2, <2>3, <2>4, <2>5, PushStep DEF EditInv
  <2>. QED  BY <1>1, <1>2, <1>3, <1>4, <1>5, <2>4, <2>6 DEF CallPart
<1>7. CASE ~(ok /\ call.snap # NoSnap)
  <2>1. undo' = undo /\ foreign' = foreign \cup call.wrote
    BY <1>7 DEF Settle
  <2>2. foreign' \in SUBSET Paths
    BY <2>1, CallFacts DEF EditInv
  <2>3. UndoInv'
    BY <1>3, <2>1, UndoFrame DEF EditInv
  <2>. QED  BY <1>1, <1>2, <1>3, <1>4, <1>5, <2>2, <2>3 DEF CallPart
<1>. QED  BY <1>6, <1>7

\* The body of a call is over.
LEMMA ReturnStep ==
    ASSUME EditInv, NEW ok \in BOOLEAN, Return(ok), call.st \in {"exec", "embed"},
           ok => Done \/ call.req.tool \notin Mutating,
           UNCHANGED <<disk, loop>>, \A k \in jobs' : k.late
    PROVE  CallPart' /\ turn'.n = turn.n /\ call'.st # "exec"
<1>1. CASE ~ok
  <2>1. Settle(FALSE)
    BY <1>1 DEF Return
  <2>2. CallPart' /\ call' = NoCall /\ turn'.n = turn.n
    BY <2>1, SettleStep
  <2>. QED  BY <2>2 DEF NoCall
<1>2. CASE ok
  <2>1. call' = [call EXCEPT !.st = "post"] /\ UNCHANGED <<turn, undo, foreign>>
    BY <1>2 DEF Return
  <2>2. /\ call'.st = "post" /\ call'.req = call.req /\ call'.snap = call.snap /\ CallTypes'
        /\ call'.wrote = call.wrote /\ call'.asked = call.asked
    BY <2>1 DEF EditInv, Types, CallTypes
  <2>3. TurnTypes' /\ foreign' \in SUBSET Paths
    BY <2>1, CallFacts DEF EditInv, Types, TurnTypes
  <2>4. CallInv'
    BY <2>1, <2>2 DEF EditInv, CallInv
  <2>5. SanctionInv'
    BY <2>1, <2>2 DEF EditInv, SanctionInv, Rejected, MissingLocation, ReadOnlyConflict,
                      TestsOnlyConflict, PolicyForbids
  <2>6. SnapInv'
    BY <1>2, <2>1, <2>2 DEF EditInv, SnapInv
  <2>7. UndoInv'
    BY <2>1, <2>2, UndoFrame DEF EditInv
  <2>8. ChangeInv'
    BY <1>2, <2>1, <2>2 DEF EditInv, ChangeInv, Changed
  <2>. QED  BY <2>1, <2>2, <2>3, <2>4, <2>5, <2>6, <2>7, <2>8 DEF CallPart
<1>. QED  BY <1>1, <1>2

-----------------------------------------------------------------------------
(* Turns *)

\* All of the invariant but the loop's part.
ToolInv ==
    /\ DiskTypes /\ TurnTypes /\ CallTypes /\ IndexTypes /\ LedgerTypes /\ SpentTypes /\ JobTypes
    /\ CallInv /\ SanctionInv /\ SnapInv /\ UndoInv /\ IndexInv /\ TimesInv /\ LedgerInv

\* Without a turn there is no call, and every task is late.
LEMMA NoCallFacts ==
    ASSUME EditInv, call.st = "idle"
    PROVE  /\ call = NoCall /\ call.snap = NoSnap /\ call.wrote = {} /\ call.req.tool \notin Mutating
           /\ \A j \in jobs : j.late
<1>1. call = NoCall
  BY DEF EditInv, CallInv
<1>2. \A j \in jobs : j.late \in BOOLEAN
  BY JobFacts DEF EditInv, Types, JobTypes
<1>. QED  BY <1>1, <1>2 DEF NoCall, NoRequest, Mutating, EditInv, CallInv

\* send_message begins.
LEMMA StartStep ==
    ASSUME EditInv, NEW kind \in TurnKinds, StartTurn(kind)
    PROVE  ToolInv' /\ call' = NoCall /\ ~turn'.mutated /\ turn'.on /\ \A j \in jobs' : j.late
<1>1. /\ ~turn.on /\ turn' = [NoTurn EXCEPT !.on = TRUE, !.n = turn.n + 1, !.kind = kind]
      /\ ledger' = [p \in Paths |-> NoRead] /\ anchor' = NoAnchor
      /\ UNCHANGED <<disk, clock, call, jobs, cmd, undo, index, foreign, stale, spent>>
  BY DEF StartTurn
<1>2. call.st = "idle"
  BY <1>1 DEF EditInv, CallInv
<1>3. /\ call = NoCall /\ call.snap = NoSnap /\ call.wrote = {} /\ \A j \in jobs : j.late
  BY <1>2, NoCallFacts
<1>4. TurnTypes' /\ ~turn'.mutated /\ turn'.on
  <2>1. turn.n + 1 \in Nat
    BY CallFacts DEF EditInv
  <2>. QED  BY <1>1, <2>1 DEF TurnTypes, NoTurn
<1>5. /\ DiskTypes' /\ CallTypes' /\ IndexTypes' /\ SpentTypes' /\ JobTypes'
  BY <1>1 DEF EditInv, Types, DiskTypes, CallTypes, IndexTypes, SpentTypes, JobTypes
<1>6. LedgerTypes' /\ \A p \in Paths : ledger'[p] = NoRead
  BY <1>1 DEF EditInv, Types, LedgerTypes, Read, NoRead
<1>7. CallInv' /\ SanctionInv' /\ SnapInv'
  BY <1>1, <1>2, <1>3 DEF CallInv, SanctionInv, SnapInv
<1>8. UndoInv'
  BY <1>1, UndoFrame DEF EditInv
<1>9. IndexInv'
  BY <1>1, IndexFrame DEF EditInv
<1>10. TimesInv'
  <2>1. clock \in Nat
    BY CallFacts DEF EditInv
  <2>. QED  BY <1>1, <1>6, <2>1 DEF EditInv, TimesInv, NoRead
<1>11. LedgerInv'
  BY <1>1, <1>6 DEF EditInv, LedgerInv, AnchoredEditSawIt, NoAnchor
<1>. QED  BY <1>1, <1>3, <1>4, <1>5, <1>6, <1>7, <1>8, <1>9, <1>10, <1>11 DEF ToolInv

\* ... and ends.
LEMMA EndStep ==
    ASSUME EditInv, EndTurn
    PROVE  /\ ToolInv' /\ call' = NoCall /\ ~turn'.on /\ turn'.mutated = turn.mutated /\ turn'.n = turn.n
           /\ turn'.wrote = turn.wrote /\ turn'.proposed = turn.proposed /\ \A j \in jobs' : j.late
<1>1. /\ call.st = "idle" /\ turn' = [turn EXCEPT !.on = FALSE, !.kind = "default"]
      /\ UNCHANGED <<disk, clock, call, jobs, cmd, undo, ledger, index, foreign, stale, anchor, spent>>
  BY DEF EndTurn, books
<1>2. /\ call = NoCall /\ call.snap = NoSnap /\ call.wrote = {} /\ \A j \in jobs : j.late
  BY <1>1, NoCallFacts
<1>3. /\ TurnTypes' /\ ~turn'.on /\ turn'.mutated = turn.mutated /\ turn'.n = turn.n
      /\ turn'.wrote = turn.wrote /\ turn'.proposed = turn.proposed
  BY <1>1 DEF EditInv, Types, TurnTypes, TurnKinds
<1>4. DiskTypes' /\ CallTypes' /\ IndexTypes' /\ LedgerTypes' /\ SpentTypes' /\ JobTypes'
  BY <1>1 DEF EditInv, Types, DiskTypes, CallTypes, IndexTypes, LedgerTypes, SpentTypes, JobTypes
<1>5. CallInv' /\ SanctionInv' /\ SnapInv'
  BY <1>1, <1>2 DEF CallInv, SanctionInv, SnapInv
<1>6. UndoInv'
  BY <1>1, UndoFrame DEF EditInv
<1>7. IndexInv'
  BY <1>1, IndexFrame DEF EditInv
<1>8. TimesInv' /\ LedgerInv'
  BY <1>1, <1>3, TimesFrame DEF EditInv, LedgerInv, AnchoredEditSawIt
<1>. QED  BY <1>1, <1>2, <1>3, <1>4, <1>5, <1>6, <1>7, <1>8 DEF ToolInv

\* The turn's task is aborted: what the call wrote has no checkpoint.
LEMMA CancelStep ==
    ASSUME EditInv, CancelTurn
    PROVE  /\ ToolInv' /\ call' = NoCall /\ ~turn'.on /\ turn'.mutated = turn.mutated
           /\ turn'.wrote = turn.wrote /\ turn'.proposed = turn.proposed /\ \A j \in jobs' : j.late
<1>1. /\ turn' = [turn EXCEPT !.on = FALSE, !.kind = "default"] /\ call' = NoCall
      /\ jobs' = {[j EXCEPT !.late = TRUE] : j \in jobs} /\ foreign' = foreign \cup call.wrote
      /\ UNCHANGED <<disk, clock, undo, ledger, index, stale, anchor, spent>>
  BY DEF CancelTurn
<1>2. /\ TurnTypes' /\ ~turn'.on /\ turn'.mutated = turn.mutated /\ turn'.n = turn.n
      /\ turn'.wrote = turn.wrote /\ turn'.proposed = turn.proposed
  BY <1>1 DEF EditInv, Types, TurnTypes, TurnKinds
<1>3. call'.st = "idle" /\ call'.snap = NoSnap /\ call'.wrote = {} /\ CallTypes'
  BY <1>1 DEF NoCall, CallTypes
<1>4. \A j \in jobs : JobOK(j)
  BY DEF EditInv, Types, JobTypes
<1>5. \A k \in jobs' : /\ k.late /\ JobOK(k)
                       /\ \E j \in jobs : k.req = j.req /\ k.st = j.st /\ k.base = j.base /\ k.raced = j.raced
  <2>. SUFFICES ASSUME NEW j \in jobs
                PROVE  LET k == [j EXCEPT !.late = TRUE]
                       IN  /\ k.late /\ JobOK(k) /\ k.req = j.req /\ k.st = j.st /\ k.base = j.base
                           /\ k.raced = j.raced
    BY <1>1
  <2>. QED  BY <1>4, JobLate
<1>6. \A j \in jobs : \E k \in jobs' : k.st = j.st /\ k.req = j.req
  <2>. SUFFICES ASSUME NEW j \in jobs
                PROVE  LET k == [j EXCEPT !.late = TRUE] IN k.st = j.st /\ k.req = j.req
    BY <1>1
  <2>. QED  BY <1>4, JobLate
<1>7. DiskTypes' /\ IndexTypes' /\ LedgerTypes' /\ SpentTypes' /\ JobTypes'
  BY <1>1, <1>5, CallFacts DEF EditInv, Types, DiskTypes, IndexTypes, LedgerTypes, SpentTypes, JobTypes
<1>8. CallInv' /\ SanctionInv' /\ SnapInv'
  BY <1>1, <1>3, <1>5 DEF CallInv, SanctionInv, SnapInv
<1>9. UndoInv'
  BY <1>1, <1>3, UndoFrame DEF EditInv
<1>10. IndexInv'
  BY <1>1, <1>3, <1>6, IndexFrame DEF EditInv
<1>11. TimesInv'
  BY <1>1, TimesFrame DEF EditInv
<1>12. LedgerInv'
  <2>1. \A k \in jobs' : k.st \in {"finger", "edit"} /\ ~k.raced => disk[k.req.path].c = k.base
    BY <1>5 DEF EditInv, LedgerInv
  <2>. QED  BY <1>1, <1>2, <2>1, LedgerFrame DEF EditInv
<1>. QED  BY <1>1, <1>2, <1>3, <1>5, <1>7, <1>8, <1>9, <1>10, <1>11, <1>12 DEF ToolInv

\* The loop's part, when no call is in progress.
LEMMA LoopPart ==
    ASSUME EditInv, ToolInv', call' = NoCall, \A j \in jobs' : j.late, LoopTypes',
           turn'.mutated => turn'.wrote \/ turn'.proposed,
           loop'.st \in {"pulse", "validate"} => ~turn'.on, loop'.st = "validate" => turn'.mutated
    PROVE  EditInv'
<1>1. ChangeInv'
  BY DEF ChangeInv, Changed, Done, NoCall, NoRequest, Mutating
<1>. QED  BY <1>1 DEF EditInv, Types, ToolInv

\* A turn of the user's.
LEMMA UserTurnStep == ASSUME EditInv, NEW kind \in TurnKinds, UserTurn(kind) PROVE EditInv'
<1>1. loop.st = "off" /\ StartTurn(kind) /\ loop' = loop
  BY DEF UserTurn
<1>2. ToolInv' /\ call' = NoCall /\ ~turn'.mutated /\ \A j \in jobs' : j.late
  BY <1>1, StartStep
<1>3. LoopTypes'
  BY <1>1 DEF EditInv, Types, LoopTypes
<1>. QED  BY <1>1, <1>2, <1>3, LoopPart

\* ... and its end, or its abort.
LEMMA UserTurnEndsStep == ASSUME EditInv, UserTurnEnds PROVE EditInv'
<1>1. loop.st = "off" /\ (EndTurn \/ CancelTurn) /\ loop' = loop
  BY DEF UserTurnEnds
<1>2. /\ ToolInv' /\ call' = NoCall /\ turn'.mutated = turn.mutated
      /\ turn'.wrote = turn.wrote /\ turn'.proposed = turn.proposed /\ \A j \in jobs' : j.late
  BY <1>1, EndStep, CancelStep
<1>3. LoopTypes' /\ (turn.mutated => turn.wrote \/ turn.proposed)
  BY <1>1 DEF EditInv, Types, LoopTypes, ChangeInv, Changed
<1>. QED  BY <1>1, <1>2, <1>3, LoopPart

\* A step of the loop alone, while no turn is on.
LEMMA LoopAlone ==
    ASSUME EditInv, UNCHANGED toolVars, LoopTypes', ~turn.on, loop'.st # "validate"
    PROVE  EditInv'
<1>1. UNCHANGED <<disk, clock, turn, call, jobs, cmd, undo, ledger, index, foreign, stale, anchor, spent>>
  BY DEF toolVars, books
<1>2. call.st = "idle"
  BY DEF EditInv, CallInv
<1>3. call = NoCall /\ \A j \in jobs : j.late
  BY <1>2, NoCallFacts
<1>4. DiskTypes' /\ TurnTypes' /\ CallTypes' /\ IndexTypes' /\ LedgerTypes' /\ SpentTypes' /\ JobTypes'
  BY <1>1 DEF EditInv, Types, DiskTypes, TurnTypes, CallTypes, IndexTypes, LedgerTypes, SpentTypes, JobTypes
<1>5. CallInv' /\ SanctionInv' /\ SnapInv'
  <2>1. call'.st = "idle" /\ call'.snap = NoSnap
    BY <1>1, <1>3 DEF NoCall
  <2>. QED  BY <1>1, <1>3, <2>1 DEF CallInv, SanctionInv, SnapInv
<1>6. UndoInv'
  BY <1>1, UndoFrame DEF EditInv
<1>7. IndexInv' /\ TimesInv'
  BY <1>1, IndexFrame, TimesFrame DEF EditInv
<1>8. LedgerInv'
  BY <1>1 DEF EditInv, LedgerInv, AnchoredEditSawIt
<1>9. ToolInv'
  BY <1>4, <1>5, <1>6, <1>7, <1>8 DEF ToolInv
<1>10. turn.mutated => turn.wrote \/ turn.proposed
  BY DEF EditInv, ChangeInv, Changed
<1>. QED  BY <1>1, <1>3, <1>9, <1>10, LoopPart

\* EditLoop::run begins.
LEMMA LoopStartsStep == ASSUME EditInv, NEW stop \in BOOLEAN, LoopStarts(stop) PROVE EditInv'
<1>1. loop' = [loop EXCEPT !.st = "pulse", !.pulse = 0, !.stop = stop] /\ ~turn.on /\ UNCHANGED toolVars
  BY DEF LoopStarts
<1>2. LoopTypes' /\ loop'.st # "validate"
  <2>1. 0 \in 0 .. MaxPulses
    BY PulsesAssumption
  <2>. QED  BY <1>1, <2>1 DEF EditInv, Types, LoopTypes
<1>. QED  BY <1>1, <1>2, LoopAlone

\* The head of the loop: it ends, or it drives a turn.
LEMMA LoopPulseStep == ASSUME EditInv, NEW cancelled \in BOOLEAN, LoopPulse(cancelled) PROVE EditInv'
<1>1. loop.st = "pulse" /\ ~turn.on
  BY DEF LoopPulse, EditInv, ChangeInv
<1>2. CASE loop.pulse = MaxPulses \/ cancelled
  <2>1. (Ends("max_turns") \/ Ends("cancelled")) /\ UNCHANGED toolVars
    BY <1>2 DEF LoopPulse
  <2>2. LoopTypes' /\ loop'.st # "validate"
    BY <2>1 DEF EditInv, Types, LoopTypes, Ends
  <2>. QED  BY <1>1, <2>1, <2>2, LoopAlone
<1>3. CASE ~(loop.pulse = MaxPulses \/ cancelled)
  <2>1. StartTurn("default") /\ loop' = [loop EXCEPT !.st = "driving", !.pulse = @ + 1]
    BY <1>3 DEF LoopPulse
  <2>2. "default" \in TurnKinds
    BY DEF TurnKinds
  <2>3. ToolInv' /\ call' = NoCall /\ ~turn'.mutated /\ \A j \in jobs' : j.late
    BY <2>1, <2>2, StartStep
  <2>4. loop.pulse \in 0 .. MaxPulses /\ MaxPulses \in Nat /\ loop.pulse # MaxPulses
    BY <1>3, PulsesAssumption DEF EditInv, Types, LoopTypes
  <2>5. LoopTypes' /\ loop'.st = "driving"
    <3>1. loop.pulse + 1 \in 0 .. MaxPulses
      BY <2>4
    <3>. QED  BY <2>1, <3>1 DEF EditInv, Types, LoopTypes
  <2>. QED  BY <2>3, <2>5, LoopPart
<1>. QED  BY <1>2, <1>3

\* The turn the loop drove is over.
LEMMA LoopTurnEndsStep ==
    ASSUME EditInv, NEW ok \in BOOLEAN, NEW cancelled \in BOOLEAN, LoopTurnEnds(ok, cancelled)
    PROVE  EditInv'
<1>1. EndTurn /\ AfterTurn(ok, cancelled)
  BY DEF LoopTurnEnds
<1>2. /\ ToolInv' /\ call' = NoCall /\ ~turn'.on /\ turn'.mutated = turn.mutated
      /\ turn'.wrote = turn.wrote /\ turn'.proposed = turn.proposed /\ \A j \in jobs' : j.late
  BY <1>1, EndStep
<1>3. turn.mutated => turn.wrote \/ turn.proposed
  BY DEF EditInv, ChangeInv, Changed
<1>4. LoopTypes' /\ (loop'.st = "validate" => turn.mutated)
  <2>1. CASE ~ok \/ (ok /\ ~cancelled)
    <3>1. \/ loop' = [loop EXCEPT !.st = "pulse"]
          \/ loop' = [loop EXCEPT !.st = "validate"] /\ turn.mutated
      BY <1>1, <2>1 DEF AfterTurn
    <3>. QED  BY <3>1 DEF EditInv, Types, LoopTypes
  <2>2. CASE ok /\ cancelled
    BY <1>1, <2>2 DEF AfterTurn, Ends, EditInv, Types, LoopTypes
  <2>. QED  BY <2>1, <2>2
<1>. QED  BY <1>2, <1>3, <1>4, LoopPart

\* The validation commands have run.
LEMMA ValidateStep == ASSUME EditInv, NEW codes, Validate(codes) PROVE EditInv'
<1>. DEFINE passed == Passed(codes)
<1>1. /\ loop.st = "validate" /\ UNCHANGED toolVars
      /\ loop' = [loop EXCEPT !.last = IF passed THEN "pass" ELSE "fail",
                              !.st = IF passed /\ loop.stop THEN "off" ELSE "pulse",
                              !.outcome = IF passed /\ loop.stop THEN "success" ELSE @]
  BY DEF Validate
<1>. HIDE DEF passed
<1>2. LoopTypes' /\ loop'.st # "validate"
  BY <1>1 DEF EditInv, Types, LoopTypes
<1>3. ~turn.on
  BY <1>1 DEF EditInv, ChangeInv
<1>. QED  BY <1>1, <1>2, <1>3, LoopAlone

-----------------------------------------------------------------------------
(* A call, up to its task *)

\* A step of a call that touches no file, index or read.
LEMMA SameBooks ==
    ASSUME EditInv, CallPart', JobTypes', SpentTypes',
           UNCHANGED <<disk, clock, ledger, index, stale, anchor, loop>>, turn'.n = turn.n,
           \A j \in jobs : j.st = "refresh" => \E k \in jobs' : k.st = "refresh" /\ k.req = j.req,
           \A k \in jobs' : k.st \in {"finger", "edit"} /\ ~k.raced => disk[k.req.path].c = k.base,
           call'.st = "exec" /\ call'.req.tool = "codebase_search" =>
              call.st = "exec" /\ call.req.tool = "codebase_search"
    PROVE  EditInv'
<1>1. DiskTypes' /\ IndexTypes' /\ LedgerTypes' /\ LoopTypes'
  BY DEF EditInv, Types, DiskTypes, IndexTypes, LedgerTypes, LoopTypes, CallPart
<1>2. TimesInv'
  BY TimesFrame DEF EditInv
<1>3. LedgerInv'
  BY LedgerFrame DEF EditInv
<1>4. IndexInv'
  BY IndexFrame DEF EditInv
<1>. QED  BY <1>1, <1>2, <1>3, <1>4 DEF EditInv, Types, CallPart

\* ... nor a task.
LEMMA SameJobs ==
    ASSUME EditInv, CallPart', SpentTypes', jobs' = jobs,
           UNCHANGED <<disk, clock, ledger, index, stale, anchor, loop>>, turn'.n = turn.n,
           call'.st = "exec" /\ call'.req.tool = "codebase_search" =>
              call.st = "exec" /\ call.req.tool = "codebase_search"
    PROVE  EditInv'
<1>1. JobTypes'
  BY DEF EditInv, Types, JobTypes
<1>2. \A k \in jobs' : k.st \in {"finger", "edit"} /\ ~k.raced => disk[k.req.path].c = k.base
  BY DEF EditInv, LedgerInv
<1>. QED  BY <1>1, <1>2, SameBooks

\* The model proposes a call: the guards, then the approval if the tool needs one.
LEMMA ProposeStep == ASSUME EditInv, NEW r \in Asked, Propose(r), loop' = loop PROVE EditInv'
<1>1. /\ turn.on /\ call.st = "idle" /\ spent' = [spent EXCEPT !.calls = @ + 1]
      /\ UNCHANGED <<disk, clock, turn, jobs, cmd, undo, ledger, index, foreign, stale, anchor>>
  BY DEF Propose, books
<1>2. \/ call' = NoCall
      \/ /\ ~Rejected(r) /\ call' = [NoCall EXCEPT !.st = "ask", !.req = r]
      \/ /\ ~Rejected(r) /\ call' = [NoCall EXCEPT !.st = "pre", !.req = r] /\ ~Requires(r.tool)
  BY DEF Propose
<1>3. call = NoCall /\ \A j \in jobs : j.late
  BY <1>1, NoCallFacts
<1>4. ~Rejected(r) => r \in Located
  BY ToolAssumption DEF Rejected, MissingLocation, Located
<1>5. /\ call'.snap = NoSnap /\ call'.wrote = {} /\ CallTypes' /\ ~call'.asked
      /\ \/ call'.st = "idle" /\ call' = NoCall
         \/ /\ call'.st \in {"ask", "pre"} /\ call'.req = r /\ ~Rejected(r)
            /\ call'.st = "pre" => ~Requires(r.tool)
  <2>1. CASE call' = NoCall
    BY <2>1 DEF CallTypes, NoCall
  <2>2. CASE ~Rejected(r) /\ call' = [NoCall EXCEPT !.st = "ask", !.req = r]
    <3>1. /\ call'.st = "ask" /\ call'.req = r /\ call'.snap = NoSnap /\ call'.wrote = {} /\ ~call'.asked
      BY <2>2 DEF NoCall
    <3>2. CallTypes'
      BY <1>4, <2>2 DEF CallTypes, NoCall
    <3>. QED  BY <2>2, <3>1, <3>2
  <2>3. CASE ~Rejected(r) /\ call' = [NoCall EXCEPT !.st = "pre", !.req = r] /\ ~Requires(r.tool)
    <3>1. /\ call'.st = "pre" /\ call'.req = r /\ call'.snap = NoSnap /\ call'.wrote = {} /\ ~call'.asked
      BY <2>3 DEF NoCall
    <3>2. CallTypes'
      BY <1>4, <2>3 DEF CallTypes, NoCall
    <3>. QED  BY <2>3, <3>1, <3>2
  <2>. QED  BY <1>2, <2>1, <2>2, <2>3
<1>6. TurnTypes' /\ foreign' \in SUBSET Paths
  BY <1>1, CallFacts DEF EditInv, Types, TurnTypes
<1>7. CallInv' /\ SnapInv'
  BY <1>1, <1>3, <1>4, <1>5 DEF CallInv, SnapInv
<1>8. SanctionInv'
  BY <1>1, <1>5 DEF SanctionInv, Rejected, MissingLocation, ReadOnlyConflict, TestsOnlyConflict
<1>9. UndoInv'
  BY <1>1, <1>3, <1>5, UndoFrame DEF EditInv, NoCall
<1>10. ChangeInv'
  BY <1>1, <1>3, <1>5 DEF EditInv, ChangeInv, Changed, Done
<1>11. SpentTypes'
  BY <1>1 DEF EditInv, Types, SpentTypes
<1>12. CallPart'
  BY <1>5, <1>6, <1>7, <1>8, <1>9, <1>10 DEF CallPart
<1>. QED  BY <1>1, <1>5, <1>11, <1>12, SameJobs

\* What capture_undo_snapshot takes.
LEMMA SnapshotFacts ==
    ASSUME EditInv, NEW r \in Located
    PROVE  LET cp == CaptureUndoSnapshot(r)
           IN  /\ cp \in Checkpoint \cup {NoSnap}
               /\ cp # NoSnap => /\ r.tool \in Mutating /\ cp.path = r.path /\ cp.cleanup \in {NoPath, r.to}
                                 /\ cp.mark = Contents(disk) /\ cp.previous = Contents(disk)[cp.path]
<1>. DEFINE cp == [path |-> r.path,
                   cleanup |-> IF r.tool = "rename_file" /\ r.key = "std" THEN r.to ELSE NoPath,
                   previous |-> disk[r.path].c, mark |-> Contents(disk)]
<1>1. CASE CaptureUndoSnapshot(r) = NoSnap
  BY <1>1
<1>2. CASE CaptureUndoSnapshot(r) = cp /\ r.tool \in Mutating
  <2>1. r.path \in Paths /\ r.to \in Paths \cup {NoPath}
    BY <1>2, LocatedFacts
  <2>2. Contents(disk) \in [Paths -> Nat] /\ disk[r.path].c = Contents(disk)[r.path]
    BY <2>1, CallFacts DEF EditInv, Contents
  <2>3. cp \in Checkpoint
    BY <2>1, <2>2 DEF Checkpoint
  <2>4. /\ cp.path = r.path /\ cp.cleanup \in {NoPath, r.to} /\ cp.mark = Contents(disk)
        /\ cp.previous = Contents(disk)[cp.path]
    BY <2>2
  <2>. HIDE DEF cp
  <2>. QED  BY <1>2, <2>3, <2>4
<1>3. CaptureUndoSnapshot(r) = NoSnap \/ (CaptureUndoSnapshot(r) = cp /\ r.tool \in Mutating)
  BY DEF CaptureUndoSnapshot
<1>. QED  BY <1>1, <1>2, <1>3

\* The user answers; a yes takes the snapshot.
LEMMA AnswerStep == ASSUME EditInv, NEW yes \in BOOLEAN, Answer(yes), loop' = loop PROVE EditInv'
<1>. DEFINE cp == CaptureUndoSnapshot(call.req)
<1>1. /\ call.st = "ask"
      /\ UNCHANGED <<disk, clock, turn, jobs, cmd, undo, ledger, index, foreign, stale, anchor, spent>>
      /\ \/ call' = NoCall
         \/ call' = [call EXCEPT !.st = "pre", !.asked = TRUE, !.snap = cp]
  BY DEF Answer, books
<1>2. turn.on /\ call.req \in Located /\ call.wrote = {} /\ \A j \in jobs : j.late
  <2>1. \A j \in jobs : j.late \in BOOLEAN
    BY JobFacts DEF EditInv, Types, JobTypes
  <2>. QED  BY <1>1, <2>1 DEF EditInv, CallInv
<1>3. /\ cp \in Checkpoint \cup {NoSnap}
      /\ cp # NoSnap => /\ call.req.tool \in Mutating /\ cp.path = call.req.path
                        /\ cp.cleanup \in {NoPath, call.req.to}
                        /\ cp.mark = Contents(disk) /\ cp.previous = Contents(disk)[cp.path]
  BY <1>2, SnapshotFacts
<1>. HIDE DEF cp
<1>4. /\ CallTypes' /\ call'.wrote = {}
      /\ \/ call'.st = "idle" /\ call' = NoCall /\ call'.snap = NoSnap
         \/ call'.st = "pre" /\ call'.req = call.req /\ call'.snap = cp /\ call'.asked
  <2>1. CASE call' = NoCall
    BY <2>1 DEF NoCall, CallTypes
  <2>2. CASE call' = [call EXCEPT !.st = "pre", !.asked = TRUE, !.snap = cp]
    BY <1>2, <1>3, <2>2 DEF EditInv, Types, CallTypes
  <2>. QED  BY <1>1, <2>1, <2>2
<1>5. TurnTypes' /\ foreign' \in SUBSET Paths /\ SpentTypes'
  BY <1>1, CallFacts DEF EditInv, Types, TurnTypes, SpentTypes
<1>6. CallInv'
  BY <1>1, <1>2, <1>4 DEF CallInv
<1>7. SanctionInv'
  BY <1>1, <1>4 DEF EditInv, SanctionInv, Rejected, MissingLocation, ReadOnlyConflict, TestsOnlyConflict
<1>8. ~Done'
  BY <1>1, <1>2, <1>4 DEF Done
<1>9. SnapInv'
  <2>. SUFFICES ASSUME call'.snap # NoSnap PROVE SnapInv'
    BY DEF SnapInv
  <2>1. call'.snap = cp /\ call'.req = call.req /\ cp # NoSnap
    BY <1>4
  <2>2. \A p \in Paths : disk'[p].c = cp.mark[p]
    BY <1>1, <1>3, <2>1 DEF Contents
  <2>. QED  BY <1>3, <1>8, <2>1, <2>2 DEF SnapInv
<1>10. UndoInv'
  <2>1. undo \in Seq(Checkpoint) /\ Len(undo) <= MaxUndo
    BY DEF EditInv, UndoInv
  <2>2. \A k \in 1 .. Len(undo) - 1 : Brings(undo[k + 1].mark, undo[k], foreign)
    BY DEF EditInv, UndoInv
  <2>3. undo # <<>> => Brings(Contents(disk), undo[Len(undo)], foreign)
    BY <1>2 DEF EditInv, UndoInv
  <2>4. Contents(disk)' = Contents(disk) /\ foreign' \cup call'.wrote = foreign
    BY <1>1, <1>4 DEF Contents
  <2>5. undo # <<>> /\ call'.snap # NoSnap => Brings(call'.snap.mark, undo[Len(undo)], foreign)
    BY <1>3, <1>4, <2>3
  <2>. QED  BY <1>1, <2>1, <2>2, <2>3, <2>4, <2>5 DEF UndoInv
<1>11. ChangeInv'
  BY <1>1, <1>8 DEF EditInv, ChangeInv, Changed
<1>12. CallPart'
  BY <1>4, <1>5, <1>6, <1>7, <1>9, <1>10, <1>11 DEF CallPart
<1>. QED  BY <1>1, <1>4, <1>5, <1>12, SameJobs

\* The call begins to execute.
LEMMA ExecPart ==
    ASSUME EditInv, call.st = "pre", call' = [call EXCEPT !.st = "exec"], ~PolicyForbids(call.req),
           UNCHANGED <<disk, turn, undo, foreign, loop>>,
           \A k \in jobs' : k.late \/ (k.req = call.req /\ k.turn = turn.n /\ k.st = "start"),
           \A j, k \in jobs' : ~j.late /\ ~k.late => j = k
    PROVE  CallPart' /\ call'.st = "exec" /\ call'.req = call.req
<1>1. /\ call'.st = "exec" /\ call'.req = call.req /\ call'.snap = call.snap /\ CallTypes'
      /\ call'.wrote = call.wrote /\ call'.asked = call.asked
  BY DEF EditInv, Types, CallTypes
<1>2. TurnTypes' /\ foreign' \in SUBSET Paths
  BY CallFacts DEF EditInv, Types, TurnTypes
<1>3. turn.on /\ call.req \in Located /\ call.wrote = {}
  BY DEF EditInv, CallInv
<1>4. CallInv'
  BY <1>1, <1>3 DEF CallInv
<1>5. SanctionInv'
  BY <1>1 DEF EditInv, SanctionInv, Rejected, MissingLocation, ReadOnlyConflict, TestsOnlyConflict,
              PolicyForbids
<1>6. ~Done'
  BY <1>1 DEF Done
<1>7. SnapInv'
  BY <1>1, <1>6 DEF EditInv, SnapInv
<1>8. UndoInv'
  BY <1>1, UndoFrame DEF EditInv
<1>9. ChangeInv'
  BY <1>6 DEF EditInv, ChangeInv, Changed
<1>. QED  BY <1>1, <1>2, <1>4, <1>5, <1>7, <1>8, <1>9 DEF CallPart

\* The policy check, the PreTool hooks, the dispatch.
LEMMA BeginStep == ASSUME EditInv, NEW hookOk \in BOOLEAN, Begin(hookOk), loop' = loop PROVE EditInv'
<1>1. call.st = "pre" /\ UNCHANGED <<disk, clock, ledger, anchor, spent>>
  BY DEF Begin
<1>2. turn.on /\ call.req \in Located /\ call.wrote = {} /\ \A j \in jobs : j.late
  <2>1. \A j \in jobs : j.late \in BOOLEAN
    BY JobFacts DEF EditInv, Types, JobTypes
  <2>. QED  BY <1>1, <2>1 DEF EditInv, CallInv
<1>3. SpentTypes'
  BY <1>1 DEF EditInv, Types, SpentTypes
<1>4. CASE PolicyForbids(call.req) \/ ~hookOk
  <2>1. Settle(FALSE) /\ UNCHANGED <<jobs, index, stale>>
    BY <1>4 DEF Begin
  <2>2. CallPart' /\ call' = NoCall /\ turn'.n = turn.n
    BY <1>1, <1>2, <2>1, SettleStep
  <2>3. call'.st = "idle"
    BY <2>2 DEF NoCall
  <2>. QED  BY <1>1, <1>3, <2>1, <2>2, <2>3, SameJobs
<1>5. CASE ~(PolicyForbids(call.req) \/ ~hookOk)
  <2>1. call' = [call EXCEPT !.st = "exec"] /\ UNCHANGED <<turn, undo, foreign>>
    BY <1>5 DEF Begin
  <2>2. CASE call.req.tool = "run_command"
    <3>1. UNCHANGED <<jobs, index, stale>>
      BY <1>5, <2>2 DEF Begin
    <3>2. CallPart' /\ call'.st = "exec" /\ call'.req = call.req
      BY <1>1, <1>2, <1>5, <2>1, <3>1, ExecPart
    <3>. QED  BY <1>1, <1>3, <2>1, <2>2, <3>1, <3>2, SameJobs
  <2>3. CASE call.req.tool = "codebase_search"
    <3>1. /\ UNCHANGED <<jobs, stale>>
          /\ \/ index.st = "none" /\ index' = [index EXCEPT !.st = "building", !.todo = Paths]
             \/ index.st # "none" /\ index' = index
      BY <1>5, <2>3 DEF Begin
    <3>2. CallPart' /\ call'.st = "exec" /\ call'.req = call.req
      BY <1>1, <1>2, <1>5, <2>1, <3>1, ExecPart
    <3>3. IndexTypes' /\ index'.st # "none"
      BY <3>1 DEF EditInv, Types, IndexTypes
    <3>4. IndexInv'
      <4>1. CASE index' = index
        BY <1>1, <3>1, <3>3, <4>1 DEF EditInv, IndexInv, IndexFollows
      <4>2. CASE index' = [index EXCEPT !.st = "building", !.todo = Paths]
        <5>1. index'.st = "building" /\ index'.todo = Paths
          BY <4>2 DEF EditInv, Types, IndexTypes
        <5>. QED  BY <5>1 DEF IndexInv, IndexFollows
      <4>. QED  BY <3>1, <4>1, <4>2
    <3>5. DiskTypes' /\ LedgerTypes' /\ LoopTypes' /\ JobTypes'
      BY <1>1, <2>1, <3>1 DEF EditInv, Types, DiskTypes, LedgerTypes, LoopTypes, JobTypes
    <3>6. TimesInv' /\ LedgerInv'
      BY <1>1, <2>1, <3>1, TimesFrame DEF EditInv, LedgerInv, AnchoredEditSawIt
    <3>. QED  BY <1>3, <3>2, <3>3, <3>4, <3>5, <3>6 DEF EditInv, Types, CallPart
  <2>4. CASE call.req.tool \notin {"run_command", "codebase_search"}
    <3>1. jobs' = jobs \cup {NewJob} /\ UNCHANGED <<index, stale>>
      BY <1>5, <2>4 DEF Begin
    <3>2. /\ JobOK(NewJob) /\ NewJob.st = "start" /\ NewJob.req = call.req /\ NewJob.turn = turn.n
          /\ ~NewJob.late
      <4>1. call.req \in Requests /\ call.req.tool \in Mutating \cup {"read_file"}
        BY <1>2, <2>4, LocatedFacts DEF Tools
      <4>2. turn.n \in Nat /\ spent.calls \in Nat
        BY CallFacts DEF EditInv, Types, SpentTypes
      <4>3. NewJob \in Job
        BY <4>1, <4>2 DEF NewJob, Job
      <4>4. /\ NewJob.st = "start" /\ NewJob.req = call.req /\ NewJob.turn = turn.n /\ ~NewJob.late
        BY DEF NewJob
      <4>. HIDE DEF NewJob
      <4>. QED  BY <1>2, <4>1, <4>3, <4>4 DEF JobOK
    <3>3. CallPart' /\ call'.st = "exec" /\ call'.req = call.req
      BY <1>1, <1>2, <1>5, <2>1, <3>1, <3>2, ExecPart
    <3>4. JobTypes'
      BY <3>1, <3>2 DEF EditInv, Types, JobTypes
    <3>5. \A k \in jobs' : k.st \in {"finger", "edit"} /\ ~k.raced => disk[k.req.path].c = k.base
      BY <3>1, <3>2 DEF EditInv, LedgerInv
    <3>. QED  BY <1>1, <1>3, <2>1, <2>4, <3>1, <3>3, <3>4, <3>5, SameBooks
  <2>. QED  BY <2>2, <2>3, <2>4
<1>. QED  BY <1>4, <1>5

\* The PostTool hooks.
LEMMA PostStep == ASSUME EditInv, NEW hookOk \in BOOLEAN, PostTool(hookOk), loop' = loop PROVE EditInv'
<1>1. /\ call.st = "post" /\ Settle(hookOk)
      /\ UNCHANGED <<disk, clock, jobs, ledger, index, stale, anchor, spent>>
  BY DEF PostTool
<1>2. \A j \in jobs : j.late
  <2>1. \A j \in jobs : j.late \in BOOLEAN
    BY JobFacts DEF EditInv, Types, JobTypes
  <2>. QED  BY <1>1, <2>1 DEF EditInv, CallInv
<1>3. CallPart' /\ call' = NoCall /\ turn'.n = turn.n
  BY <1>1, <1>2, SettleStep
<1>4. SpentTypes' /\ call'.st = "idle"
  BY <1>1, <1>3 DEF EditInv, Types, SpentTypes, NoCall
<1>. QED  BY <1>1, <1>3, <1>4, SameJobs

-----------------------------------------------------------------------------
(* Commands and the index *)

\* Steps of the command's process and its waiter change nothing else.
LEMMA CommandStep ==
    ASSUME EditInv, UNCHANGED <<disk, clock, turn, call, jobs, undo, ledger, index, foreign, stale,
                                anchor, spent, loop>>
    PROVE  EditInv'
<1>1. Types'
  BY DEF EditInv, Types, DiskTypes, TurnTypes, CallTypes, IndexTypes, LedgerTypes, LoopTypes, SpentTypes, JobTypes
<1>2. CallInv' /\ SanctionInv'
  BY DEF EditInv, CallInv, SanctionInv, Rejected, MissingLocation, ReadOnlyConflict, TestsOnlyConflict,
         PolicyForbids
<1>3. SnapInv' /\ ChangeInv'
  BY DEF EditInv, SnapInv, ChangeInv, Changed, Done
<1>4. UndoInv'
  BY UndoFrame DEF EditInv
<1>5. IndexInv' /\ TimesInv'
  BY IndexFrame, TimesFrame DEF EditInv
<1>6. LedgerInv'
  BY DEF EditInv, LedgerInv, AnchoredEditSawIt
<1>. QED  BY <1>1, <1>2, <1>3, <1>4, <1>5, <1>6 DEF EditInv

\* The command's result.
LEMMA CommandReturnsStep == ASSUME EditInv, CommandReturns, loop' = loop PROVE EditInv'
<1>1. /\ call.st = "exec" /\ call.req.tool = "run_command" /\ Return(~cmd.cancel)
      /\ UNCHANGED <<disk, clock, jobs, ledger, index, stale, anchor, spent>>
  BY DEF CommandReturns, CommandOn
<1>2. \A j \in jobs : j.late
  <2>1. \A j \in jobs : j.late \in BOOLEAN /\ j.req.tool # "run_command"
    BY JobFacts DEF EditInv, Types, JobTypes
  <2>. QED  BY <1>1, <2>1 DEF EditInv, CallInv
<1>3. call.req.tool \notin Mutating
  BY <1>1 DEF Mutating
<1>4. PICK ok \in BOOLEAN : Return(ok)
  <2>1. CASE cmd.cancel
    BY <1>1, <2>1 DEF Return
  <2>2. CASE ~cmd.cancel
    BY <1>1, <2>2 DEF Return
  <2>. QED  BY <2>1, <2>2
<1>5. CallPart' /\ turn'.n = turn.n /\ call'.st # "exec"
  BY <1>1, <1>2, <1>3, <1>4, ReturnStep
<1>6. SpentTypes'
  BY <1>1 DEF EditInv, Types, SpentTypes
<1>. QED  BY <1>1, <1>5, <1>6, SameJobs

\* A file is scanned while the index is built.
LEMMA ScanStep == ASSUME EditInv, NEW p \in Paths, ScanFile(p), loop' = loop PROVE EditInv'
<1>1. /\ index.st = "building" /\ p \in index.todo
      /\ index' = [index EXCEPT !.todo = @ \ {p}, !.of[p] = disk[p].c]
      /\ UNCHANGED <<disk, clock, turn, call, jobs, cmd, undo, ledger, foreign, stale, anchor, spent>>
  BY DEF ScanFile
<1>2. disk[p].c \in Nat
  BY CallFacts DEF EditInv
<1>3. /\ IndexTypes' /\ index'.st = "building" /\ index'.todo = index.todo \ {p}
      /\ index'.of = [index.of EXCEPT ![p] = disk[p].c]
  BY <1>1, <1>2 DEF EditInv, Types, IndexTypes
<1>4. index.of \in [Paths -> Nat]
  BY DEF EditInv, Types, IndexTypes
<1>5. IndexInv'
  <2>1. \A q \in Paths \ index'.todo : index'.of[q] = disk'[q].c \/ q \in stale'
    BY <1>1, <1>3, <1>4 DEF EditInv, IndexInv
  <2>. QED  BY <1>3, <2>1 DEF IndexInv, IndexFollows
<1>6. DiskTypes' /\ TurnTypes' /\ CallTypes' /\ LedgerTypes' /\ LoopTypes' /\ SpentTypes' /\ JobTypes'
  BY <1>1 DEF EditInv, Types, DiskTypes, TurnTypes, CallTypes, LedgerTypes, LoopTypes, SpentTypes, JobTypes
<1>7. CallInv' /\ SanctionInv'
  BY <1>1 DEF EditInv, CallInv, SanctionInv, Rejected, MissingLocation, ReadOnlyConflict, TestsOnlyConflict,
              PolicyForbids
<1>8. SnapInv' /\ ChangeInv'
  BY <1>1 DEF EditInv, SnapInv, ChangeInv, Changed, Done
<1>9. UndoInv'
  BY <1>1, UndoFrame DEF EditInv
<1>10. TimesInv' /\ LedgerInv'
  BY <1>1, TimesFrame DEF EditInv, LedgerInv, AnchoredEditSawIt
<1>. QED  BY <1>3, <1>5, <1>6, <1>7, <1>8, <1>9, <1>10 DEF EditInv, Types

\* The embedding provider is asked.
LEMMA EmbedPart ==
    ASSUME EditInv, call.st = "exec", call.req.tool \notin Mutating,
           call' = [call EXCEPT !.st = "embed"],
           UNCHANGED <<disk, turn, jobs, undo, foreign, loop>>, \A k \in jobs : k.late
    PROVE  CallPart' /\ turn'.n = turn.n /\ call'.st # "exec"
<1>1. /\ call'.st = "embed" /\ call'.req = call.req /\ call'.snap = call.snap /\ CallTypes'
      /\ call'.wrote = call.wrote /\ call'.asked = call.asked
  BY DEF EditInv, Types, CallTypes
<1>2. TurnTypes' /\ foreign' \in SUBSET Paths
  BY CallFacts DEF EditInv, Types, TurnTypes
<1>3. CallInv'
  BY <1>1 DEF EditInv, CallInv
<1>4. SanctionInv'
  BY <1>1 DEF EditInv, SanctionInv, Rejected, MissingLocation, ReadOnlyConflict, TestsOnlyConflict,
              PolicyForbids
<1>5. ~Done'
  BY <1>1 DEF Done
<1>6. SnapInv'
  BY <1>1, <1>5 DEF EditInv, SnapInv
<1>7. UndoInv'
  BY <1>1, UndoFrame DEF EditInv
<1>8. ChangeInv'
  BY <1>5 DEF EditInv, ChangeInv, Changed
<1>. QED  BY <1>1, <1>2, <1>3, <1>4, <1>6, <1>7, <1>8 DEF CallPart

\* The index is built, or was, and is searched.
LEMMA SearchStep == ASSUME EditInv, Search, loop' = loop PROVE EditInv'
<1>1. /\ call.st = "exec" /\ call.req.tool = "codebase_search" /\ index.todo = {}
      /\ index' = [index EXCEPT !.st = "built"]
      /\ \/ \E ok \in BOOLEAN : Return(ok)
         \/ call' = [call EXCEPT !.st = "embed"] /\ UNCHANGED <<cmd, turn, undo, foreign>>
      /\ UNCHANGED <<disk, clock, jobs, ledger, stale, anchor, spent>>
  BY DEF Search
<1>2. \A j \in jobs : j.late
  <2>1. \A j \in jobs : j.late \in BOOLEAN /\ j.req.tool # "codebase_search"
    BY JobFacts DEF EditInv, Types, JobTypes
  <2>. QED  BY <1>1, <2>1 DEF EditInv, CallInv
<1>3. call.req.tool \notin Mutating
  BY <1>1 DEF Mutating
<1>4. CallPart' /\ turn'.n = turn.n /\ call'.st # "exec"
  <2>1. CASE \E ok \in BOOLEAN : Return(ok)
    <3>1. PICK ok \in BOOLEAN : Return(ok)
      BY <2>1
    <3>. QED  BY <1>1, <1>2, <1>3, <3>1, ReturnStep
  <2>2. CASE call' = [call EXCEPT !.st = "embed"] /\ UNCHANGED <<cmd, turn, undo, foreign>>
    BY <1>1, <1>2, <1>3, <2>2, EmbedPart
  <2>. QED  BY <1>1, <2>1, <2>2
<1>5. IndexTypes' /\ index'.st = "built" /\ index'.of = index.of
  BY <1>1 DEF EditInv, Types, IndexTypes
<1>6. index.st \in {"building", "built"}
  BY <1>1 DEF EditInv, Types, IndexTypes, IndexInv
<1>7. IndexInv'
  BY <1>1, <1>4, <1>5, <1>6 DEF EditInv, IndexInv, IndexFollows
<1>8. DiskTypes' /\ LoopTypes' /\ SpentTypes' /\ JobTypes'
  BY <1>1 DEF EditInv, Types, DiskTypes, LoopTypes, SpentTypes, JobTypes
<1>9. LedgerTypes'
  BY <1>1, <1>4 DEF EditInv, Types, LedgerTypes, CallPart
<1>10. TimesInv' /\ LedgerInv'
  BY <1>1, <1>4, TimesFrame DEF EditInv, LedgerInv, AnchoredEditSawIt
<1>. QED  BY <1>4, <1>5, <1>7, <1>8, <1>9, <1>10 DEF EditInv, Types, CallPart

\* The embeddings are there, or the request has failed.
LEMMA EmbeddingStep ==
    ASSUME EditInv, NEW ok \in BOOLEAN, EmbeddingAnswers(ok), loop' = loop
    PROVE  EditInv'
<1>1. /\ call.st = "embed" /\ Return(ok)
      /\ UNCHANGED <<disk, clock, jobs, ledger, index, stale, anchor, spent>>
  BY DEF EmbeddingAnswers
<1>2. \A j \in jobs : j.late
  <2>1. \A j \in jobs : j.late \in BOOLEAN
    BY JobFacts DEF EditInv, Types, JobTypes
  <2>. QED  BY <1>1, <2>1 DEF EditInv, CallInv
<1>3. call.req.tool \notin Mutating
  BY <1>1 DEF EditInv, CallInv
<1>4. CallPart' /\ turn'.n = turn.n /\ call'.st # "exec"
  BY <1>1, <1>2, <1>3, ReturnStep
<1>5. SpentTypes'
  BY <1>1 DEF EditInv, Types, SpentTypes
<1>. QED  BY <1>1, <1>4, <1>5, SameJobs

-----------------------------------------------------------------------------
(* Tasks *)

\* The timeout of a blocking call.
LEMMA TimeoutStep ==
    ASSUME EditInv, NEW j \in jobs, NEW queued \in BOOLEAN, JobTimeout(j, queued), loop' = loop
    PROVE  EditInv'
<1>. DEFINE k == [j EXCEPT !.late = TRUE]
<1>1. /\ call.st = "exec" /\ ~j.late /\ (queued => j.st = "start") /\ Settle(FALSE)
      /\ jobs' = (jobs \ {j}) \cup (IF queued THEN {} ELSE {k})
      /\ UNCHANGED <<disk, clock, ledger, index, stale, anchor, spent>>
  BY DEF JobTimeout
<1>2. \A i \in jobs : JobOK(i) /\ i.late \in BOOLEAN
  BY JobFacts DEF EditInv, Types, JobTypes
<1>3. JobOK(k) /\ k.req = j.req /\ k.st = j.st /\ k.base = j.base /\ k.raced = j.raced /\ k.late
  BY <1>2, JobLate
<1>. HIDE DEF k
<1>4. \A i \in jobs' : i.late /\ JobOK(i)
  BY <1>1, <1>2, <1>3 DEF EditInv, CallInv
<1>5. CallPart' /\ call' = NoCall /\ turn'.n = turn.n
  BY <1>1, <1>4, SettleStep
<1>6. JobTypes' /\ SpentTypes' /\ call'.st = "idle"
  BY <1>1, <1>4, <1>5 DEF EditInv, Types, JobTypes, SpentTypes, NoCall
<1>7. \A i \in jobs : i.st = "refresh" => \E l \in jobs' : l.st = "refresh" /\ l.req = i.req
  BY <1>1, <1>3
<1>8. \A i \in jobs' : i.st \in {"finger", "edit"} /\ ~i.raced => disk[i.req.path].c = i.base
  BY <1>1, <1>3 DEF EditInv, LedgerInv
<1>. QED  BY <1>1, <1>5, <1>6, <1>7, <1>8, SameBooks

\* The task ends: its call, if it still waits, goes on.
LEMMA JobReturnsStep ==
    ASSUME EditInv, NEW j \in jobs, NEW ok \in BOOLEAN, JobReturns(j, ok), UNCHANGED <<disk, loop>>,
           ok => j.st = "refresh" \/ j.req.tool \notin Mutating
    PROVE  /\ CallPart' /\ turn'.n = turn.n /\ jobs' = jobs \ {j} /\ JobTypes'
           /\ call'.st = "exec" => call.st = "exec" /\ call'.req = call.req
<1>1. jobs' = jobs \ {j}
  BY DEF JobReturns
<1>2. \A i \in jobs : JobOK(i) /\ i.late \in BOOLEAN
  BY JobFacts DEF EditInv, Types, JobTypes
<1>3. JobTypes'
  BY <1>1, <1>2 DEF JobTypes
<1>4. CASE j.late
  <2>1. UNCHANGED <<call, turn, undo, foreign>>
    BY <1>4 DEF JobReturns
  <2>2. TurnTypes' /\ CallTypes' /\ foreign' \in SUBSET Paths
    BY <2>1, CallFacts DEF EditInv, Types, TurnTypes, CallTypes
  <2>3. CallInv'
    BY <1>1, <2>1 DEF EditInv, CallInv
  <2>4. SanctionInv'
    BY <2>1 DEF EditInv, SanctionInv, Rejected, MissingLocation, ReadOnlyConflict, TestsOnlyConflict,
                PolicyForbids
  <2>5. Done' => Done
    BY <1>1, <2>1 DEF Done
  <2>6. SnapInv'
    BY <2>1, <2>5 DEF EditInv, SnapInv
  <2>7. UndoInv'
    BY <2>1, UndoFrame DEF EditInv
  <2>8. ChangeInv'
    BY <2>1, <2>5 DEF EditInv, ChangeInv, Changed
  <2>. QED  BY <1>1, <1>3, <2>1, <2>2, <2>3, <2>4, <2>6, <2>7, <2>8 DEF CallPart
<1>5. CASE ~j.late
  <2>1. Return(ok)
    BY <1>5 DEF JobReturns
  <2>2. call.st = "exec" /\ j.req = call.req /\ \A i \in jobs' : i.late
    BY <1>1, <1>2, <1>5 DEF EditInv, CallInv
  <2>3. ok => Done \/ call.req.tool \notin Mutating
    BY <1>5, <2>2 DEF Done
  <2>4. CallPart' /\ turn'.n = turn.n /\ call'.st # "exec"
    BY <2>1, <2>2, <2>3, ReturnStep
  <2>. QED  BY <1>1, <1>3, <2>4
<1>. QED  BY <1>2, <1>4, <1>5

\* A task that fails before it has changed anything.
LEMMA FailStep ==
    ASSUME EditInv, NEW j \in jobs, JobReturns(j, FALSE), j.st # "refresh",
           UNCHANGED <<disk, clock, ledger, index, stale, anchor, spent, loop>>
    PROVE  EditInv'
<1>1. /\ CallPart' /\ turn'.n = turn.n /\ jobs' = jobs \ {j} /\ JobTypes'
      /\ call'.st = "exec" => call.st = "exec" /\ call'.req = call.req
  BY JobReturnsStep
<1>2. SpentTypes'
  BY DEF EditInv, Types, SpentTypes
<1>3. \A i \in jobs : i.st = "refresh" => \E l \in jobs' : l.st = "refresh" /\ l.req = i.req
  BY <1>1
<1>4. \A i \in jobs' : i.st \in {"finger", "edit"} /\ ~i.raced => disk[i.req.path].c = i.base
  BY <1>1 DEF EditInv, LedgerInv
<1>. QED  BY <1>1, <1>2, <1>3, <1>4, SameBooks

\* The task goes on and nothing else changes: it has read its file.
LEMMA ReadStep ==
    ASSUME EditInv, NEW j \in jobs, NEW s, j.st = "start",
           (s = "finger" /\ j.req.tool = "read_file") \/ (s = "edit" /\ j.req.tool = "edit_file"),
           Becomes(j, [j EXCEPT !.st = s, !.base = disk[j.req.path].c]),
           UNCHANGED <<disk, clock, call, turn, undo, ledger, index, foreign, stale, anchor, spent, loop>>
    PROVE  EditInv'
<1>. DEFINE b == disk[j.req.path].c
            k == [j EXCEPT !.st = s, !.base = b]
<1>1. jobs' = (jobs \ {j}) \cup {k}
  BY DEF Becomes
<1>2. \A i \in jobs : JobOK(i) /\ i.late \in BOOLEAN
  BY JobFacts DEF EditInv, Types, JobTypes
<1>3. b \in Nat
  BY <1>2, JobFacts, CallFacts DEF EditInv
<1>4. /\ JobOK(k) /\ k.req = j.req /\ k.st = s /\ k.base = b /\ k.turn = j.turn
      /\ k.late = j.late /\ k.raced = j.raced
  <2>. HIDE DEF b
  <2>1. JobOK(j)
    BY <1>2
  <2>. QED  BY <1>3, <2>1 DEF JobOK, Job
<1>. HIDE DEF k
<1>5. JobTypes' /\ SpentTypes' /\ TurnTypes' /\ CallTypes' /\ foreign' \in SUBSET Paths
  BY <1>1, <1>2, <1>4, CallFacts DEF EditInv, Types, JobTypes, SpentTypes, TurnTypes, CallTypes
<1>6. CallInv'
  BY <1>1, <1>4 DEF EditInv, CallInv
<1>7. SanctionInv'
  BY DEF EditInv, SanctionInv, Rejected, MissingLocation, ReadOnlyConflict, TestsOnlyConflict,
         PolicyForbids
<1>8. Done' => Done
  BY <1>1, <1>4 DEF Done
<1>9. SnapInv' /\ ChangeInv'
  BY <1>8 DEF EditInv, SnapInv, ChangeInv, Changed
<1>10. UndoInv'
  BY UndoFrame DEF EditInv
<1>11. CallPart'
  BY <1>5, <1>6, <1>7, <1>9, <1>10 DEF CallPart
<1>12. \A i \in jobs : i.st = "refresh" => \E l \in jobs' : l.st = "refresh" /\ l.req = i.req
  BY <1>1
<1>13. \A i \in jobs' : i.st \in {"finger", "edit"} /\ ~i.raced => disk[i.req.path].c = i.base
  BY <1>1, <1>4 DEF EditInv, LedgerInv
<1>. QED  BY <1>5, <1>11, <1>12, <1>13, SameBooks

\* The task goes on to its refresh with a proposal: no file has changed.
LEMMA ProposalStep ==
    ASSUME EditInv, NEW j \in jobs, j.st = "start", j.req.tool \in Mutating,
           j.req.to \in {NoPath, j.req.path}, Becomes(j, [j EXCEPT !.st = "refresh"]),
           turn' = IF j.late THEN turn ELSE [turn EXCEPT !.proposed = TRUE],
           UNCHANGED <<disk, clock, call, undo, ledger, index, foreign, stale, anchor, spent, loop>>
    PROVE  EditInv'
<1>. DEFINE k == [j EXCEPT !.st = "refresh"]
<1>1. jobs' = (jobs \ {j}) \cup {k}
  BY DEF Becomes
<1>2. \A i \in jobs : JobOK(i) /\ i.late \in BOOLEAN
  BY JobFacts DEF EditInv, Types, JobTypes
<1>3. JobOK(k) /\ k.req = j.req /\ k.st = "refresh" /\ k.turn = j.turn /\ k.late = j.late
  BY <1>2, JobToRefresh
<1>. HIDE DEF k
<1>4. /\ TurnTypes' /\ turn'.on = turn.on /\ turn'.n = turn.n /\ turn'.kind = turn.kind
      /\ turn'.mutated = turn.mutated /\ turn'.wrote = turn.wrote
      /\ turn'.proposed = (turn.proposed \/ ~j.late)
  <2>1. CASE j.late
    BY <2>1 DEF EditInv, Types, TurnTypes
  <2>2. CASE ~j.late
    BY <2>2 DEF EditInv, Types, TurnTypes
  <2>. QED  BY <2>1, <2>2
<1>5. JobTypes' /\ SpentTypes' /\ CallTypes' /\ foreign' \in SUBSET Paths
  BY <1>1, <1>2, <1>3, CallFacts DEF EditInv, Types, JobTypes, SpentTypes, CallTypes
<1>6. CallInv'
  BY <1>1, <1>3, <1>4 DEF EditInv, CallInv
<1>7. SanctionInv'
  BY <1>4 DEF EditInv, SanctionInv, Rejected, MissingLocation, ReadOnlyConflict, TestsOnlyConflict,
              PolicyForbids
<1>8. j.late => (Done' => Done)
  BY <1>1, <1>3 DEF Done
<1>9. ~j.late => call.req = j.req
  BY DEF EditInv, CallInv
<1>10. SnapInv'
  <2>1. CASE j.late
    BY <1>8, <2>1 DEF EditInv, SnapInv
  <2>2. CASE ~j.late
    BY <1>9, <2>2, ToolAssumption DEF EditInv, SnapInv
  <2>. QED  BY <1>2, <2>1, <2>2
<1>11. ChangeInv'
  BY <1>2, <1>4, <1>8 DEF EditInv, ChangeInv, Changed
<1>12. UndoInv'
  BY UndoFrame DEF EditInv
<1>13. CallPart'
  BY <1>4, <1>5, <1>6, <1>7, <1>10, <1>11, <1>12 DEF CallPart
<1>14. \A i \in jobs : i.st = "refresh" => \E l \in jobs' : l.st = "refresh" /\ l.req = i.req
  BY <1>1
<1>15. \A i \in jobs' : i.st \in {"finger", "edit"} /\ ~i.raced => disk[i.req.path].c = i.base
  BY <1>1, <1>3 DEF EditInv, LedgerInv
<1>. QED  BY <1>4, <1>5, <1>13, <1>14, <1>15, SameBooks

-----------------------------------------------------------------------------
(* Writes *)

\* A file gets a content and a time nothing had before.
LEMMA FreshFile ==
    ASSUME EditInv, NEW p \in Paths, disk' = [disk EXCEPT ![p] = [c |-> clock + 1, m |-> clock + 1]],
           clock' = clock + 1, ledger' = ledger
    PROVE  DiskTypes' /\ TimesInv' /\ \A q \in Paths \ {p} : disk'[q] = disk[q]
<1>1. /\ disk \in [Paths -> [c : Nat, m : Nat]] /\ clock \in Nat
      /\ \A q \in Paths : disk[q].c \in Nat /\ disk[q].m \in Nat
  BY DEF EditInv, Types, DiskTypes
<1>2. DiskTypes'
  <2>1. clock + 1 \in Nat
    BY <1>1
  <2>. QED  BY <1>1, <2>1 DEF DiskTypes
<1>3. /\ disk'[p].c = clock + 1 /\ disk'[p].m = clock + 1 /\ \A q \in Paths \ {p} : disk'[q] = disk[q]
  BY <1>1
<1>4. \A q \in Paths : ledger[q].m \in Nat
  BY DEF EditInv, Types, LedgerTypes, Read
<1>5. \A q \in Paths : disk[q].m <= clock /\ ledger[q].m <= clock
  BY DEF EditInv, TimesInv
<1>6. \A q \in Paths : disk'[q].m <= clock + 1 /\ ledger[q].m <= clock + 1 /\ ledger[q].m # clock + 1
                       /\ disk[q].m # clock + 1
  BY <1>1, <1>3, <1>4, <1>5
<1>7. ASSUME NEW q \in Paths, NEW r \in Paths, disk'[q].c # 0, disk'[r].c # 0, disk'[q].m = disk'[r].m
      PROVE  disk'[q].c = disk'[r].c
  BY <1>3, <1>6, <1>7 DEF EditInv, TimesInv
<1>8. ASSUME NEW q \in Paths, NEW r \in Paths, ledger[q] # NoRead, ~ledger[q].raced, disk'[r].c # 0,
             disk'[r].m = ledger[q].m
      PROVE  ledger[q].seen = disk'[r].c
  BY <1>3, <1>6, <1>8 DEF EditInv, TimesInv
<1>. QED  BY <1>2, <1>3, <1>6, <1>7, <1>8 DEF TimesInv

\* A task writes: what it changed is the call's, or something no checkpoint stands for, and
\* the refresh that follows covers it.
LEMMA WriteStep ==
    ASSUME EditInv, NEW j \in jobs, NEW d, NEW ps, NEW gone, NEW a, JobWrites(j, d, ps, gone, a),
           UNCHANGED <<spent, loop>>, j.req.tool \in Mutating, j.st # "refresh",
           ps \subseteq RefreshedPaths(j.req), ps \subseteq Paths, gone \subseteq ps, DiskTypes', TimesInv',
           \A p \in Paths \ ps : d[p] = disk[p],
           ~j.late /\ call.snap # NoSnap /\ call.snap.cleanup \in Paths \ (foreign \cup gone \cup {call.snap.path})
              => call.snap.mark[call.snap.cleanup] = 0,
           ~a.raced /\ ~a.late => a.seen = a.base /\ a.readIn = a.editIn
    PROVE  EditInv'
<1>. DEFINE k == [j EXCEPT !.st = "refresh"]
            js == Raced(jobs \ {j}, ps)
<1>1. /\ disk' = d /\ jobs' = js \cup {k} /\ anchor' = a
      /\ stale' = IF index.st = "building" THEN stale \cup ps ELSE stale
      /\ UNCHANGED <<undo, ledger, index, spent, loop>>
  BY DEF JobWrites
<1>2. \A i \in jobs : JobOK(i) /\ i.late \in BOOLEAN
  BY JobFacts DEF EditInv, Types, JobTypes
<1>3. JobOK(k) /\ k.req = j.req /\ k.st = "refresh" /\ k.turn = j.turn /\ k.late = j.late
  BY <1>2, JobToRefresh
<1>4. /\ \A l \in js : \E i \in jobs \ {j} : Goes(l, i, ps)
      /\ \A i \in jobs \ {j} : \E l \in js : Goes(l, i, ps)
      /\ (\A h, i \in jobs \ {j} : ~h.late /\ ~i.late => h = i)
         => \A l, m \in js : ~l.late /\ ~m.late => l = m
  BY <1>2, RacedFacts
<1>. HIDE DEF k, js
<1>5. /\ \A h, i \in jobs : ~h.late /\ ~i.late => h = i
      /\ \A i \in jobs : ~i.late => /\ call.st = "exec" /\ i.req = call.req /\ i.turn = turn.n
                                    /\ i.st # "refresh" => call.wrote = {}
  BY DEF EditInv, CallInv
<1>6. /\ j.late => turn' = turn /\ call' = call /\ foreign' = foreign \cup ps
      /\ ~j.late => /\ turn' = [turn EXCEPT !.wrote = TRUE] /\ call' = [call EXCEPT !.wrote = @ \cup ps]
                    /\ foreign' = foreign \cup gone
  BY DEF JobWrites
<1>7. /\ TurnTypes' /\ turn'.on = turn.on /\ turn'.n = turn.n /\ turn'.kind = turn.kind
      /\ turn'.mutated = turn.mutated /\ turn'.wrote = (turn.wrote \/ ~j.late)
      /\ turn'.proposed = turn.proposed
  <2>1. CASE j.late
    BY <1>6, <2>1 DEF EditInv, Types, TurnTypes
  <2>2. CASE ~j.late
    BY <1>6, <2>2 DEF EditInv, Types, TurnTypes
  <2>. QED  BY <2>1, <2>2
<1>8. /\ CallTypes' /\ call'.st = call.st /\ call'.req = call.req /\ call'.snap = call.snap
      /\ call'.asked = call.asked /\ call'.wrote = (IF j.late THEN call.wrote ELSE call.wrote \cup ps)
  <2>1. CASE j.late
    BY <1>6, <2>1 DEF EditInv, Types, CallTypes
  <2>2. CASE ~j.late
    BY <1>6, <2>2 DEF EditInv, Types, CallTypes
  <2>. QED  BY <2>1, <2>2
<1>9. /\ foreign' \in SUBSET Paths /\ foreign \subseteq foreign'
      /\ foreign \cup call.wrote \cup ps \subseteq foreign' \cup call'.wrote
  <2>1. foreign \subseteq Paths
    BY CallFacts DEF EditInv
  <2>2. CASE j.late
    BY <1>6, <1>8, <2>1, <2>2
  <2>3. CASE ~j.late
    BY <1>6, <1>8, <2>1, <2>3
  <2>. QED  BY <2>2, <2>3
<1>10. \A l \in js : JobOK(l) /\ l.late \in BOOLEAN
  BY <1>2, <1>4 DEF Goes
<1>11. JobTypes' /\ SpentTypes' /\ IndexTypes' /\ LoopTypes' /\ LedgerTypes'
  BY <1>1, <1>3, <1>9, <1>10 DEF EditInv, Types, JobTypes, SpentTypes, IndexTypes, LoopTypes, LedgerTypes
<1>12. ~j.late => \A l \in js : l.late
  BY <1>2, <1>4, <1>5, <1>10 DEF Goes
<1>13. CallInv'
  <2>1. \A l, m \in jobs' : ~l.late /\ ~m.late => l = m
    BY <1>1, <1>3, <1>4, <1>5, <1>12
  <2>2. ASSUME NEW l \in jobs', ~l.late
        PROVE  /\ call.st = "exec" /\ l.req = call.req /\ l.turn = turn.n
               /\ l.st # "refresh" => call'.wrote = {}
    <3>1. CASE l = k
      BY <1>3, <1>5, <2>2, <3>1
    <3>2. CASE l \in js
      <4>1. PICK i \in jobs \ {j} : Goes(l, i, ps)
        BY <1>4, <3>2
      <4>2. ~i.late /\ j.late /\ l.req = i.req /\ l.turn = i.turn /\ l.st = i.st
        BY <1>2, <1>12, <2>2, <3>2, <4>1 DEF Goes
      <4>. QED  BY <1>5, <1>8, <4>2
    <3>. QED  BY <1>1, <3>1, <3>2
  <2>3. /\ call'.st = "idle" => call' = NoCall
        /\ call'.st # "idle" => turn'.on /\ call'.req \in Located
        /\ call'.st = "embed" => call'.req.tool \notin Mutating
        /\ call'.st \in {"ask", "pre"} => call'.wrote = {}
    <3>1. CASE j.late
      BY <1>6, <3>1 DEF EditInv, CallInv
    <3>2. CASE ~j.late
      BY <1>5, <1>7, <1>8, <3>2 DEF EditInv, CallInv
    <3>. QED  BY <1>2, <3>1, <3>2
  <2>. QED  BY <1>7, <1>8, <2>1, <2>2, <2>3 DEF CallInv
<1>14. SanctionInv'
  BY <1>7, <1>8 DEF EditInv, SanctionInv, Rejected, MissingLocation, ReadOnlyConflict, TestsOnlyConflict,
                    PolicyForbids
<1>15. j.late => (Done' => Done)
  <2>. SUFFICES ASSUME j.late, NEW l \in jobs', ~l.late, l.st = "refresh" PROVE Done
    BY <1>8 DEF Done
  <2>1. PICK i \in jobs : Goes(l, i, ps)
    BY <1>1, <1>3, <1>4
  <2>. QED  BY <1>2, <2>1 DEF Goes, Done
<1>16. SnapInv'
  <2>. SUFFICES ASSUME call.snap # NoSnap PROVE SnapInv'
    BY <1>8 DEF SnapInv
  <2>. DEFINE cp == call.snap
  <2>1. /\ call.req.tool \in Mutating /\ cp.path = call.req.path /\ cp.previous = cp.mark[cp.path]
        /\ cp.cleanup \in {NoPath, call.req.to}
        /\ \A p \in Paths \ (foreign \cup call.wrote) : disk[p].c = cp.mark[p]
        /\ Done /\ cp.cleanup \in Paths \ (foreign \cup {cp.path}) => cp.mark[cp.cleanup] = 0
    BY DEF EditInv, SnapInv
  <2>2. ~j.late /\ cp.cleanup \in Paths \ (foreign \cup gone \cup {cp.path}) => cp.mark[cp.cleanup] = 0
    OBVIOUS
  <2>. HIDE DEF cp
  <2>3. \A p \in Paths \ (foreign' \cup call'.wrote) : disk'[p].c = cp.mark[p]
    BY <1>1, <1>9, <2>1
  <2>4. Done' /\ cp.cleanup \in Paths \ (foreign' \cup {cp.path}) => cp.mark[cp.cleanup] = 0
    <3>1. CASE j.late
      BY <1>9, <1>15, <2>1, <3>1
    <3>2. CASE ~j.late
      BY <1>6, <2>2, <3>2
    <3>. QED  BY <1>2, <3>1, <3>2
  <2>5. call'.snap = cp /\ call'.req = call.req
    BY <1>8 DEF cp
  <2>. QED  BY <2>1, <2>3, <2>4, <2>5 DEF SnapInv
<1>17. UndoInv'
  <2>1. \A p \in Paths \ (foreign' \cup call'.wrote) : disk'[p].c = disk[p].c
    BY <1>1, <1>9
  <2>. QED  BY <1>1, <1>8, <1>9, <2>1, UndoFrame DEF EditInv
<1>18. ChangeInv'
  BY <1>1, <1>2, <1>7, <1>8, <1>15 DEF EditInv, ChangeInv, Changed
<1>19. IndexInv'
  <2>1. ASSUME NEW i \in jobs, i.st = "refresh" PROVE i \in jobs'
    <3>1. PICK l \in js : Goes(l, i, ps)
      BY <1>4, <2>1
    <3>. QED  BY <1>1, <2>1, <3>1 DEF Goes
  <2>2. \A p \in ps : k \in jobs' /\ k.st = "refresh" /\ p \in {k.req.path, k.req.to}
    BY <1>1, <1>3 DEF RefreshedPaths
  <2>3. \A p \in Paths \ ps : disk'[p].c = disk[p].c
    BY <1>1
  <2>4. IndexFollows'
    <3>. SUFFICES ASSUME index.st = "built", NEW p \in Paths
                  PROVE  \/ index.of[p] = disk'[p].c \/ p \in stale'
                         \/ \E i \in jobs' : i.st = "refresh" /\ p \in {i.req.path, i.req.to}
      BY <1>1 DEF IndexFollows
    <3>1. CASE p \in ps
      BY <2>2, <3>1
    <3>2. CASE p \notin ps
      BY <1>1, <2>1, <2>3, <3>2 DEF EditInv, IndexInv, IndexFollows
    <3>. QED  BY <3>1, <3>2
  <2>5. index'.st = "building" => \A p \in Paths \ index'.todo : index'.of[p] = disk'[p].c \/ p \in stale'
    BY <1>1, <2>3 DEF EditInv, IndexInv
  <2>. QED  BY <1>1, <1>8, <2>4, <2>5 DEF EditInv, IndexInv
<1>20. LedgerInv'
  <2>1. ASSUME NEW l \in jobs', l.st \in {"finger", "edit"}, ~l.raced
        PROVE  disk'[l.req.path].c = l.base
    <3>1. PICK i \in jobs : Goes(l, i, ps)
      BY <1>1, <1>3, <1>4, <2>1
    <3>2. /\ i.st \in {"finger", "edit"} /\ ~i.raced /\ l.req = i.req /\ l.base = i.base
          /\ i.req.path \notin ps
      BY <2>1, <3>1 DEF Goes
    <3>3. i.req.path \in Paths
      BY <1>2, JobFacts
    <3>. QED  BY <1>1, <3>2, <3>3 DEF EditInv, LedgerInv
  <2>. QED  BY <1>1, <1>7, <2>1 DEF EditInv, LedgerInv, AnchoredEditSawIt
<1>. QED  BY <1>7, <1>8, <1>11, <1>13, <1>14, <1>16, <1>17, <1>18, <1>19, <1>20 DEF EditInv, Types

\* rename(2): content and time move together.
LEMMA RenamedFile ==
    ASSUME EditInv, NEW p \in Paths, NEW q \in Paths, p # q,
           disk' = [disk EXCEPT ![q] = disk[p], ![p] = NoFile], clock' = clock + 1, ledger' = ledger
    PROVE  DiskTypes' /\ TimesInv' /\ \A r \in Paths \ {p, q} : disk'[r] = disk[r]
<1>1. /\ disk \in [Paths -> [c : Nat, m : Nat]] /\ clock \in Nat
      /\ \A r \in Paths : disk[r].c \in Nat /\ disk[r].m \in Nat
  BY DEF EditInv, Types, DiskTypes
<1>2. /\ disk'[p] = NoFile /\ disk'[q] = disk[p] /\ \A r \in Paths \ {p, q} : disk'[r] = disk[r]
  BY <1>1
<1>3. NoFile \in [c : Nat, m : Nat] /\ NoFile.c = 0 /\ NoFile.m = 0
  BY DEF NoFile
<1>4. DiskTypes'
  <2>1. clock + 1 \in Nat
    BY <1>1
  <2>. QED  BY <1>1, <1>3, <2>1 DEF DiskTypes
<1>5. \A r \in Paths : disk'[r].c # 0 => \E s \in Paths : disk'[r] = disk[s]
  BY <1>2, <1>3
<1>6. \A r \in Paths : ledger[r].m \in Nat /\ ledger[r].m <= clock /\ disk[r].m <= clock
  BY DEF EditInv, Types, LedgerTypes, Read, TimesInv
<1>7. \A r \in Paths : disk'[r].m <= clock + 1 /\ ledger[r].m <= clock + 1
  BY <1>1, <1>2, <1>3, <1>6
<1>8. \A r, s \in Paths : disk'[r].c # 0 /\ disk'[s].c # 0 /\ disk'[r].m = disk'[s].m => disk'[r].c = disk'[s].c
  <2>. SUFFICES ASSUME NEW r \in Paths, NEW s \in Paths, disk'[r].c # 0, disk'[s].c # 0,
                       disk'[r].m = disk'[s].m
                PROVE  disk'[r].c = disk'[s].c
    OBVIOUS
  <2>1. PICK t \in Paths : disk'[r] = disk[t]
    BY <1>5
  <2>2. PICK u \in Paths : disk'[s] = disk[u]
    BY <1>5
  <2>3. disk[t].c # 0 /\ disk[u].c # 0 /\ disk[t].m = disk[u].m
    BY <2>1, <2>2
  <2>4. disk[t].c = disk[u].c
    BY <2>3 DEF EditInv, TimesInv
  <2>. QED  BY <2>1, <2>2, <2>4
<1>9. \A r, s \in Paths : ledger[r] # NoRead /\ ~ledger[r].raced /\ disk'[s].c # 0 /\ disk'[s].m = ledger[r].m
                         => ledger[r].seen = disk'[s].c
  <2>. SUFFICES ASSUME NEW r \in Paths, NEW s \in Paths, ledger[r] # NoRead, ~ledger[r].raced,
                       disk'[s].c # 0, disk'[s].m = ledger[r].m
                PROVE  ledger[r].seen = disk'[s].c
    OBVIOUS
  <2>1. PICK t \in Paths : disk'[s] = disk[t]
    BY <1>5
  <2>2. disk[t].c # 0 /\ disk[t].m = ledger[r].m
    BY <2>1
  <2>3. ledger[r].seen = disk[t].c
    BY <2>2 DEF EditInv, TimesInv
  <2>. QED  BY <2>1, <2>3
<1>10. TimesInv'
  <2>1. \A r \in Paths : disk'[r].m <= clock' /\ ledger'[r].m <= clock'
    BY <1>7
  <2>2. \A r, s \in Paths : ledger'[r] # NoRead /\ ~ledger'[r].raced /\ disk'[s].c # 0
                           /\ disk'[s].m = ledger'[r].m => ledger'[r].seen = disk'[s].c
    <3>1. ledger' = ledger
      OBVIOUS
    <3>. QED  BY ONLY <1>9, <3>1
  <2>. QED  BY ONLY <1>8, <2>1, <2>2 DEF TimesInv
<1>. QED  BY <1>2, <1>4, <1>10

\* What an own task that has not written knows.
LEMMA OwnFacts ==
    ASSUME EditInv, NEW j \in jobs, ~j.late
    PROVE  /\ call.st = "exec" /\ j.req = call.req /\ j.turn = turn.n
           /\ j.st # "refresh" => call.wrote = {}
           /\ call.snap # NoSnap => /\ call.snap.cleanup \in {NoPath, j.req.to}
                                    /\ call.snap.path = j.req.path
BY DEF EditInv, CallInv, SnapInv

\* A task puts a fresh content into the file it names.
LEMMA FreshStep ==
    ASSUME EditInv, NEW j \in jobs, NEW a, j.st # "refresh", UNCHANGED <<spent, loop>>,
           j.req.tool \in Mutating, j.req.tool # "rename_file",
           JobWrites(j, [disk EXCEPT ![j.req.path] = [c |-> clock + 1, m |-> clock + 1]],
                     {j.req.path}, {}, a),
           ~a.raced /\ ~a.late => a.seen = a.base /\ a.readIn = a.editIn
    PROVE  EditInv'
<1>. DEFINE p == j.req.path
            d == [disk EXCEPT ![p] = [c |-> clock + 1, m |-> clock + 1]]
<1>1. disk' = d /\ clock' = clock + 1 /\ ledger' = ledger
  BY DEF JobWrites
<1>2. JobOK(j) /\ p \in Paths /\ j.req.to = NoPath
  <2>1. JobOK(j)
    BY DEF EditInv, Types, JobTypes
  <2>. QED  BY <2>1, JobFacts, LocatedFacts DEF JobOK
<1>3. DiskTypes' /\ TimesInv' /\ \A q \in Paths \ {p} : d[q] = disk[q]
  <2>1. DiskTypes' /\ TimesInv' /\ \A q \in Paths \ {p} : disk'[q] = disk[q]
    <3>. HIDE DEF p
    <3>. QED  BY <1>1, <1>2, FreshFile DEF d
  <2>. QED  BY <1>1, <2>1
<1>4. {p} \subseteq RefreshedPaths(j.req) /\ {p} \subseteq Paths
  BY <1>2, ToolAssumption DEF RefreshedPaths
<1>5. ~j.late /\ call.snap # NoSnap => call.snap.cleanup \notin Paths
  BY <1>2, OwnFacts, ToolAssumption
<1>6. JobWrites(j, d, {p}, {}, a)
  OBVIOUS
<1>. HIDE DEF d, p
<1>7. {} \subseteq {p}
  OBVIOUS
<1>. QED  BY <1>3, <1>4, <1>5, <1>6, <1>7, WriteStep

\* The first stage of a task.
LEMMA JobStartStep == ASSUME EditInv, NEW j \in jobs, JobStart(j), UNCHANGED <<spent, loop>> PROVE EditInv'
<1>1. j.st = "start" /\ (JobRead(j) \/ JobOverwrite(j) \/ JobEditRead(j) \/ JobRename(j))
  BY DEF JobStart
<1>2. JobOK(j) /\ j.req.path \in Paths /\ (j.req.tool # "rename_file" => j.req.to = NoPath)
  <2>1. JobOK(j)
    BY DEF EditInv, Types, JobTypes
  <2>. QED  BY <2>1, JobFacts, LocatedFacts DEF JobOK
<1>3. ~anchor.raced /\ ~anchor.late => anchor.seen = anchor.base /\ anchor.readIn = anchor.editIn
  BY DEF EditInv, LedgerInv, AnchoredEditSawIt
<1>4. CASE JobReturns(j, FALSE) /\ UNCHANGED <<disk, clock, ledger, index, stale, anchor>>
  BY <1>1, <1>4, FailStep
<1>5. CASE /\ j.req.tool = "read_file"
           /\ Becomes(j, [j EXCEPT !.st = "finger", !.base = disk[j.req.path].c])
           /\ UNCHANGED <<disk, clock, call, turn, cmd, books>>
  <2>. DEFINE s == "finger"
  <2>1. /\ (s = "finger" /\ j.req.tool = "read_file") \/ (s = "edit" /\ j.req.tool = "edit_file")
        /\ Becomes(j, [j EXCEPT !.st = s, !.base = disk[j.req.path].c])
        /\ UNCHANGED <<disk, clock, call, turn, undo, ledger, index, foreign, stale, anchor, spent, loop>>
    BY <1>5 DEF books
  <2>. HIDE DEF s
  <2>. QED  BY <1>1, <2>1, ReadStep
<1>6. CASE /\ j.req.tool = "edit_file"
           /\ Becomes(j, [j EXCEPT !.st = "edit", !.base = disk[j.req.path].c])
           /\ UNCHANGED <<disk, clock, call, turn, cmd, books>>
  BY <1>1, <1>6, ReadStep DEF books
<1>7. CASE /\ j.req.tool \in Mutating /\ j.req.to \in {NoPath, j.req.path}
           /\ Becomes(j, [j EXCEPT !.st = "refresh"])
           /\ turn' = IF j.late THEN turn ELSE [turn EXCEPT !.proposed = TRUE]
           /\ UNCHANGED <<disk, clock, call, cmd, books>>
  BY <1>1, <1>7, ProposalStep DEF books
<1>8. CASE /\ j.req.tool \in {"write_file", "apply_patch"}
           /\ JobWrites(j, [disk EXCEPT ![j.req.path] = [c |-> clock + 1, m |-> clock + 1]],
                        {j.req.path}, {}, anchor)
  BY <1>1, <1>3, <1>8, FreshStep DEF Mutating
<1>9. CASE JobRead(j)
  BY <1>4, <1>5, <1>9 DEF JobRead
<1>10. CASE JobOverwrite(j)
  BY <1>2, <1>4, <1>7, <1>8, <1>10 DEF JobOverwrite, Mutating
<1>11. CASE JobEditRead(j)
  BY <1>4, <1>6, <1>11 DEF JobEditRead
<1>12. CASE JobRename(j)
  <2>. DEFINE p == j.req.path
              q == j.req.to
              d == [disk EXCEPT ![q] = disk[p], ![p] = NoFile]
              gone == IF disk[q].c # 0 THEN {q} ELSE {}
  <2>1. j.req.tool = "rename_file" /\ j.req.tool \in Mutating /\ q \in Paths
    BY <1>2, <1>12, JobFacts DEF JobRename, Mutating
  <2>2. CASE disk[p].c = 0
    BY <1>4, <1>12, <2>2 DEF JobRename
  <2>3. CASE disk[p].c # 0 /\ p = q
    BY <1>7, <1>12, <2>1, <2>3 DEF JobRename
  <2>4. CASE disk[p].c # 0 /\ p # q
    <3>1. JobWrites(j, d, {p, q}, gone, anchor)
      BY <1>12, <2>4 DEF JobRename
    <3>2. disk' = d /\ clock' = clock + 1 /\ ledger' = ledger
      BY <3>1 DEF JobWrites
    <3>3. DiskTypes' /\ TimesInv' /\ \A r \in Paths \ {p, q} : d[r] = disk[r]
      <4>. HIDE DEF p, q
      <4>1. p \in Paths
        BY <1>2 DEF p
      <4>2. DiskTypes' /\ TimesInv' /\ \A r \in Paths \ {p, q} : disk'[r] = disk[r]
        BY <2>1, <2>4, <3>2, <4>1, RenamedFile
      <4>. QED  BY <3>2, <4>2
    <3>4. {p, q} \subseteq RefreshedPaths(j.req) /\ {p, q} \subseteq Paths /\ gone \subseteq {p, q}
      BY <1>2, <2>1, ToolAssumption DEF RefreshedPaths
    <3>5. ASSUME ~j.late, call.snap # NoSnap,
                 call.snap.cleanup \in Paths \ (foreign \cup gone \cup {call.snap.path})
          PROVE  call.snap.mark[call.snap.cleanup] = 0
      <4>1. call.wrote = {} /\ call.snap.cleanup = q /\ q \notin foreign /\ q \notin gone
        BY <1>1, <3>5, OwnFacts, ToolAssumption
      <4>2. disk[q].c = 0
        BY <4>1
      <4>. QED  BY <2>1, <3>5, <4>1, <4>2 DEF EditInv, SnapInv
    <3>. HIDE DEF d, gone, p, q
    <3>. QED  BY <1>1, <1>3, <2>1, <3>1, <3>3, <3>4, <3>5, WriteStep
  <2>. QED  BY <2>2, <2>3, <2>4
<1>. QED  BY <1>1, <1>9, <1>10, <1>11, <1>12

\* edit_file decides and writes.
LEMMA JobEditStep ==
    ASSUME EditInv, NEW j \in jobs, NEW occ, NEW near, JobEdit(j, occ, near), UNCHANGED <<spent, loop>>
    PROVE  EditInv'
<1>. DEFINE p == j.req.path
            e == ledger[p]
            a == [seen |-> e.seen, base |-> j.base, raced |-> j.raced \/ e.raced,
                  readIn |-> e.turn, editIn |-> j.turn, late |-> j.late \/ e.late]
            new == [disk EXCEPT ![p] = [c |-> clock + 1, m |-> clock + 1]]
<1>1. j.st = "edit"
  BY DEF JobEdit
<1>2. /\ p \in Paths /\ j.req.tool = "edit_file" /\ j.req.tool \in Mutating /\ j.req.tool # "rename_file"
  <2>1. JobOK(j)
    BY DEF EditInv, Types, JobTypes
  <2>. QED  BY <1>1, <2>1, JobFacts DEF JobOK, Mutating
<1>3. CASE JobReturns(j, FALSE) /\ UNCHANGED <<disk, clock, ledger, index, stale, anchor>>
  BY <1>1, <1>3, FailStep
<1>4. CASE JobWrites(j, new, {p}, {}, anchor)
  <2>1. ~anchor.raced /\ ~anchor.late => anchor.seen = anchor.base /\ anchor.readIn = anchor.editIn
    BY DEF EditInv, LedgerInv, AnchoredEditSawIt
  <2>. QED  BY <1>1, <1>2, <1>4, <2>1, FreshStep
<1>5. CASE FindPulseRead(p) /\ JobWrites(j, new, {p}, {}, a)
  <2>1. e # NoRead /\ disk[p].c # 0 /\ e.m = disk[p].m
    BY <1>5 DEF FindPulseRead
  <2>2. ~e.raced => e.seen = disk[p].c
    BY <1>2, <2>1 DEF EditInv, TimesInv
  <2>3. ~j.raced => disk[p].c = j.base
    BY <1>1 DEF EditInv, LedgerInv
  <2>4. ~e.late => e.turn = turn.n
    BY <1>2, <2>1 DEF EditInv, LedgerInv
  <2>5. ~j.late => j.turn = turn.n
    BY OwnFacts
  <2>6. ~a.raced /\ ~a.late => a.seen = a.base /\ a.readIn = a.editIn
    BY <2>2, <2>3, <2>4, <2>5
  <2>. HIDE DEF a
  <2>. QED  BY <1>1, <1>2, <1>5, <2>6, FreshStep
<1>. QED  BY <1>3, <1>4, <1>5 DEF JobEdit, AnchoredUnique

\* The read's fingerprint is taken and its entry recorded.
LEMMA JobFingerStep == ASSUME EditInv, NEW j \in jobs, JobFinger(j), UNCHANGED <<spent, loop>> PROVE EditInv'
<1>. DEFINE p == j.req.path
            e == [m |-> disk[p].m, seen |-> j.base, turn |-> j.turn, raced |-> j.raced, late |-> j.late]
<1>1. /\ j.st = "finger" /\ JobReturns(j, TRUE) /\ UNCHANGED <<disk, clock, index, stale, anchor>>
      /\ ledger' = IF disk[p].c = 0 THEN ledger ELSE [ledger EXCEPT ![p] = e]
  BY DEF JobFinger, RecordPulseRead
<1>2. JobOK(j) /\ j.req.tool \notin Mutating /\ p \in Paths
  <2>1. JobOK(j)
    BY DEF EditInv, Types, JobTypes
  <2>. QED  BY <1>1, <2>1, JobFacts DEF JobOK, Mutating
<1>3. /\ CallPart' /\ turn'.n = turn.n /\ jobs' = jobs \ {j} /\ JobTypes'
      /\ call'.st = "exec" => call.st = "exec" /\ call'.req = call.req
  BY <1>1, <1>2, JobReturnsStep
<1>4. /\ e.m = disk[p].m /\ e.seen = j.base /\ e.turn = j.turn /\ e.raced = j.raced /\ e.late = j.late
      /\ e \in Read
  <2>1. disk[p].m \in Nat /\ j.base \in Nat /\ j.turn \in Nat /\ j.raced \in BOOLEAN /\ j.late \in BOOLEAN
    BY <1>2, JobFacts, CallFacts DEF EditInv
  <2>. QED  BY <2>1 DEF Read
<1>5. ~j.late => j.turn = turn.n
  BY OwnFacts
<1>6. ~j.raced => disk[p].c = j.base
  BY <1>1 DEF EditInv, LedgerInv
<1>. HIDE DEF e
<1>7. ledger \in [Paths -> Read]
  BY DEF EditInv, Types, LedgerTypes
<1>8. \A q \in Paths : ledger'[q] = ledger[q] \/ (q = p /\ ledger'[q] = e /\ disk[p].c # 0)
  BY <1>1, <1>2, <1>7
<1>9. ledger' \in [Paths -> Read]
  BY <1>1, <1>4, <1>7
<1>. HIDE DEF p
<1>10. TimesInv'
  <2>1. \A q \in Paths : disk[q].m <= clock /\ ledger[q].m <= clock
    BY DEF EditInv, TimesInv
  <2>2. \A q \in Paths : disk'[q].m <= clock' /\ ledger'[q].m <= clock'
    BY <1>1, <1>2, <1>4, <1>8, <2>1
  <2>3. ASSUME NEW q \in Paths, NEW r \in Paths, ledger'[q] # NoRead, ~ledger'[q].raced, disk[r].c # 0,
               disk[r].m = ledger'[q].m
        PROVE  ledger'[q].seen = disk[r].c
    <3>1. CASE ledger'[q] = ledger[q]
      BY <2>3, <3>1 DEF EditInv, TimesInv
    <3>2. CASE ledger'[q] = e /\ disk[p].c # 0
      <4>1. ~j.raced /\ disk[r].m = disk[p].m /\ ledger'[q].seen = j.base
        BY <1>4, <2>3, <3>2
      <4>2. disk[r].c = disk[p].c
        BY <1>2, <2>3, <3>2, <4>1 DEF EditInv, TimesInv
      <4>. QED  BY <1>6, <4>1, <4>2
    <3>. QED  BY <1>8, <3>1, <3>2
  <2>4. disk' = disk
    BY <1>1
  <2>5. \A q, r \in Paths : disk[q].c # 0 /\ disk[r].c # 0 /\ disk[q].m = disk[r].m => disk[q].c = disk[r].c
    BY DEF EditInv, TimesInv
  <2>. QED  BY ONLY <2>2, <2>3, <2>4, <2>5 DEF TimesInv
<1>11. LedgerInv'
  <2>1. \A q \in Paths : ledger'[q] # NoRead /\ ~ledger'[q].late => ledger'[q].turn = turn'.n
    BY <1>3, <1>4, <1>5, <1>8 DEF EditInv, LedgerInv
  <2>2. \A i \in jobs' : i.st \in {"finger", "edit"} /\ ~i.raced => disk'[i.req.path].c = i.base
    BY <1>1, <1>3 DEF EditInv, LedgerInv
  <2>. QED  BY <1>1, <2>1, <2>2 DEF EditInv, LedgerInv, AnchoredEditSawIt
<1>12. IndexInv'
  <2>1. \A i \in jobs : i.st = "refresh" => \E l \in jobs' : l.st = "refresh" /\ l.req = i.req
    BY <1>1, <1>3
  <2>. QED  BY <1>1, <1>3, <2>1, IndexFrame DEF EditInv
<1>13. DiskTypes' /\ IndexTypes' /\ LoopTypes' /\ SpentTypes' /\ LedgerTypes'
  BY <1>1, <1>3, <1>9 DEF EditInv, Types, DiskTypes, IndexTypes, LoopTypes, SpentTypes, LedgerTypes, CallPart
<1>. QED  BY <1>3, <1>10, <1>11, <1>12, <1>13 DEF EditInv, Types, CallPart

\* The index takes the files as they are.
LEMMA JobRefreshStep == ASSUME EditInv, NEW j \in jobs, JobRefresh(j), UNCHANGED <<spent, loop>> PROVE EditInv'
<1>. DEFINE ps == RefreshedPaths(j.req)
<1>1. /\ j.st = "refresh" /\ JobReturns(j, TRUE) /\ UNCHANGED <<disk, clock, ledger, anchor>>
      /\ \/ index.st # "built" /\ UNCHANGED <<index, stale>>
         \/ /\ index.st = "built" /\ index' = [index EXCEPT !.of = UpdateIndex(ps)]
            /\ stale' = stale \ ps
  BY DEF JobRefresh
<1>2. /\ CallPart' /\ turn'.n = turn.n /\ jobs' = jobs \ {j} /\ JobTypes'
      /\ call'.st = "exec" => call.st = "exec" /\ call'.req = call.req
  BY <1>1, JobReturnsStep
<1>3. index \in [st : {"none", "building", "built"}, todo : SUBSET Paths, of : [Paths -> Nat]]
  BY DEF EditInv, Types, IndexTypes
<1>4. /\ IndexTypes' /\ index'.st = index.st /\ index'.todo = index.todo
      /\ index.st = "built" => index'.of = UpdateIndex(ps)
      /\ index.st # "built" => index' = index /\ stale' = stale
  <2>1. UpdateIndex(ps) \in [Paths -> Nat]
    BY <1>3, CallFacts DEF EditInv, UpdateIndex
  <2>. QED  BY <1>1, <1>3, <2>1 DEF IndexTypes
<1>5. IndexFollows'
  <2>. SUFFICES ASSUME index.st = "built", NEW p \in Paths
                PROVE  \/ index'.of[p] = disk[p].c \/ p \in stale'
                       \/ \E i \in jobs' : i.st = "refresh" /\ p \in {i.req.path, i.req.to}
    BY <1>1, <1>4 DEF IndexFollows
  <2>1. CASE p \in ps
    BY <1>4, <2>1 DEF UpdateIndex
  <2>2. CASE p \notin ps
    <3>1. index'.of[p] = index.of[p] /\ (p \in stale => p \in stale')
      BY <1>1, <1>4, <2>2 DEF UpdateIndex
    <3>2. p \notin {j.req.path, j.req.to}
      BY <2>2, ToolAssumption DEF RefreshedPaths
    <3>. QED  BY <1>2, <3>1, <3>2 DEF EditInv, IndexInv, IndexFollows
  <2>. QED  BY <2>1, <2>2
<1>6. IndexInv'
  <2>1. index'.st = "building" => \A p \in Paths \ index'.todo : index'.of[p] = disk'[p].c \/ p \in stale'
    BY <1>1, <1>4 DEF EditInv, IndexInv
  <2>. QED  BY <1>2, <1>4, <1>5, <2>1 DEF EditInv, IndexInv
<1>7. LedgerInv'
  <2>1. \A i \in jobs' : i.st \in {"finger", "edit"} /\ ~i.raced => disk[i.req.path].c = i.base
    BY <1>2 DEF EditInv, LedgerInv
  <2>. QED  BY <1>1, <1>2, <2>1, LedgerFrame DEF EditInv
<1>8. TimesInv'
  BY <1>1, TimesFrame DEF EditInv
<1>9. DiskTypes' /\ LoopTypes' /\ SpentTypes' /\ LedgerTypes'
  BY <1>1, <1>2 DEF EditInv, Types, DiskTypes, LoopTypes, SpentTypes, LedgerTypes, CallPart
<1>. QED  BY <1>2, <1>4, <1>6, <1>7, <1>8, <1>9 DEF EditInv, Types, CallPart

-----------------------------------------------------------------------------
(* The user and the rest of the machine *)

\* Something outside writes ps while no call moves: the tasks are raced, the index is stale.
LEMMA OutsidePart ==
    ASSUME EditInv, NEW ps, jobs' = Raced(jobs, ps), ps \cap Paths \subseteq stale', stale \subseteq stale',
           \A p \in Paths \ ps : disk'[p] = disk[p], DiskTypes', TimesInv', SpentTypes',
           UNCHANGED <<turn, call, ledger, index, anchor, loop>>, foreign' \in SUBSET Paths,
           foreign \subseteq foreign',
           call.snap # NoSnap => ps \cap Paths \subseteq foreign', UndoInv'
    PROVE  EditInv'
<1>1. \A i \in jobs : JobOK(i) /\ i.late \in BOOLEAN
  BY JobFacts DEF EditInv, Types, JobTypes
<1>2. /\ \A l \in jobs' : \E i \in jobs : Goes(l, i, ps)
      /\ \A i \in jobs : \E l \in jobs' : Goes(l, i, ps)
      /\ (\A h, i \in jobs : ~h.late /\ ~i.late => h = i)
         => \A l, m \in jobs' : ~l.late /\ ~m.late => l = m
  BY <1>1, RacedFacts
<1>3. JobTypes'
  BY <1>2 DEF JobTypes, Goes
<1>4. TurnTypes' /\ CallTypes' /\ IndexTypes' /\ LedgerTypes' /\ LoopTypes'
  BY DEF EditInv, Types, TurnTypes, CallTypes, IndexTypes, LedgerTypes, LoopTypes
<1>5. CallInv'
  <2>1. \A l \in jobs' : ~l.late => \E i \in jobs : ~i.late /\ l.req = i.req /\ l.turn = i.turn /\ l.st = i.st
    BY <1>2 DEF Goes
  <2>. QED  BY <1>2, <2>1 DEF EditInv, CallInv
<1>6. SanctionInv'
  BY DEF EditInv, SanctionInv, Rejected, MissingLocation, ReadOnlyConflict, TestsOnlyConflict, PolicyForbids
<1>7. Done' => Done
  BY <1>2 DEF Done, Goes
<1>8. SnapInv'
  <2>. SUFFICES ASSUME call.snap # NoSnap PROVE SnapInv'
    BY DEF SnapInv
  <2>1. \A p \in Paths \ (foreign' \cup call'.wrote) : disk'[p].c = call'.snap.mark[p]
    BY DEF EditInv, SnapInv
  <2>. QED  BY <1>7, <2>1 DEF EditInv, SnapInv
<1>9. ChangeInv'
  BY <1>7 DEF EditInv, ChangeInv, Changed
<1>10. IndexInv'
  <2>1. \A i \in jobs : i.st = "refresh" => \E l \in jobs' : l.st = "refresh" /\ l.req = i.req
    BY <1>2 DEF Goes
  <2>2. IndexFollows'
    <3>. SUFFICES ASSUME index.st = "built", NEW p \in Paths
                  PROVE  \/ index.of[p] = disk'[p].c \/ p \in stale'
                         \/ \E i \in jobs' : i.st = "refresh" /\ p \in {i.req.path, i.req.to}
      BY DEF IndexFollows
    <3>1. CASE p \in ps
      BY <3>1
    <3>2. CASE p \notin ps
      BY <2>1, <3>2 DEF EditInv, IndexInv, IndexFollows
    <3>. QED  BY <3>1, <3>2
  <2>3. index'.st = "building" => \A p \in Paths \ index'.todo : index'.of[p] = disk'[p].c \/ p \in stale'
    BY DEF EditInv, IndexInv
  <2>. QED  BY <2>2, <2>3 DEF EditInv, IndexInv
<1>11. LedgerInv'
  <2>1. ASSUME NEW l \in jobs', l.st \in {"finger", "edit"}, ~l.raced
        PROVE  disk'[l.req.path].c = l.base
    <3>1. PICK i \in jobs : Goes(l, i, ps)
      BY <1>2
    <3>2. /\ i.st \in {"finger", "edit"} /\ ~i.raced /\ l.req = i.req /\ l.base = i.base
          /\ i.req.path \notin ps
      BY <2>1, <3>1 DEF Goes
    <3>3. i.req.path \in Paths
      BY <1>1, JobFacts
    <3>. QED  BY <3>2, <3>3 DEF EditInv, LedgerInv
  <2>. QED  BY <2>1 DEF EditInv, LedgerInv, AnchoredEditSawIt
<1>. QED  BY <1>3, <1>4, <1>5, <1>6, <1>8, <1>9, <1>10, <1>11 DEF EditInv, Types

\* An editor writes a file.
LEMMA OutsideStep == ASSUME EditInv, NEW p \in Paths, OutsideEdit(p), loop' = loop PROVE EditInv'
<1>1. /\ spent' = [spent EXCEPT !.outside = @ + 1]
      /\ disk' = [disk EXCEPT ![p] = [c |-> clock + 1, m |-> clock + 1]] /\ clock' = clock + 1
      /\ foreign' = foreign \cup {p} /\ stale' = stale \cup {p} /\ jobs' = Raced(jobs, {p})
      /\ UNCHANGED <<turn, call, cmd, undo, ledger, index, anchor>>
  BY DEF OutsideEdit
<1>2. DiskTypes' /\ TimesInv' /\ \A q \in Paths \ {p} : disk'[q] = disk[q]
  BY <1>1, FreshFile
<1>3. SpentTypes'
  BY <1>1 DEF EditInv, Types, SpentTypes
<1>4. foreign' \in SUBSET Paths /\ foreign \subseteq foreign' /\ {p} \cap Paths \subseteq foreign'
  BY <1>1, CallFacts DEF EditInv
<1>5. UndoInv'
  <2>1. \A q \in Paths \ (foreign' \cup call'.wrote) : disk'[q].c = disk[q].c
    BY <1>2, <1>4
  <2>2. foreign \cup call.wrote \subseteq foreign' \cup call'.wrote /\ call'.snap \in {call.snap, NoSnap}
    BY <1>1
  <2>. QED  BY <1>1, <1>4, <2>1, <2>2, UndoFrame DEF EditInv
<1>6. {p} \cap Paths \subseteq stale' /\ stale \subseteq stale'
  BY <1>1
<1>. QED  BY <1>1, <1>2, <1>3, <1>4, <1>5, <1>6, OutsidePart

\* Taking back a checkpoint, file by file.
LEMMA UndoneFacts ==
    ASSUME EditInv, NEW cp \in Checkpoint, NEW now
    PROVE  /\ \A p \in Paths : Undone(disk, cp, now)[p].c = Back(Contents(disk), cp, p)
           /\ \A p \in Paths : \/ Undone(disk, cp, now)[p] = NoFile
                               \/ Undone(disk, cp, now)[p] = disk[p]
                               \/ p = cp.path /\ Undone(disk, cp, now)[p] = [c |-> cp.previous, m |-> now]
           /\ \A p \in Paths \ {cp.path, cp.cleanup} : Undone(disk, cp, now)[p] = disk[p]
           /\ Undone(disk, cp, now) = [p \in Paths |-> Undone(disk, cp, now)[p]]
BY DEF Undone, Back, Contents, NoFile

\* /undo: the contents the checkpoint remembers are those the next one goes on from.
LEMMA UndoStep == ASSUME EditInv, Undo, loop' = loop PROVE EditInv'
<1>. DEFINE n == Len(undo)
            cp == undo[n]
            ps == {cp.path, cp.cleanup}
<1>1. /\ ~turn.on /\ undo # <<>> /\ disk' = Undone(disk, cp, clock + 1) /\ clock' = clock + 1
      /\ stale' = stale \cup (ps \ {NoPath}) /\ jobs' = Raced(jobs, ps) /\ undo' = SubSeq(undo, 1, n - 1)
      /\ UNCHANGED <<turn, call, cmd, ledger, index, foreign, anchor, spent>>
  BY DEF Undo
<1>2. call.st = "idle"
  BY <1>1 DEF EditInv, CallInv
<1>3. call.snap = NoSnap /\ call.wrote = {}
  BY <1>2, NoCallFacts
<1>4. undo \in Seq(Checkpoint) /\ n \in Nat /\ n # 0 /\ n <= MaxUndo /\ MaxUndo \in Nat
  BY <1>1, ToolAssumption DEF EditInv, UndoInv
<1>5. cp \in Checkpoint
  BY <1>4
<1>6. Brings(Contents(disk), cp, foreign)
  BY <1>1, <1>3 DEF EditInv, UndoInv
<1>7. \A k \in 1 .. n - 1 : Brings(undo[k + 1].mark, undo[k], foreign)
  BY DEF EditInv, UndoInv
<1>8. \A k \in 1 .. n - 1 : undo[k] \in Checkpoint
  BY <1>4
<1>9. /\ undo' \in Seq(Checkpoint) /\ Len(undo') = n - 1 /\ \A k \in 1 .. n - 1 : undo'[k] = undo[k]
  <2>. DEFINE l == n - 1
  <2>. HIDE DEF n
  <2>1. 1 \in 1 .. n + 1 /\ l \in 0 .. n /\ 1 - 1 = 0
    BY <1>4
  <2>2. /\ SubSeq(undo, 1, l) \in Seq(Checkpoint) /\ Len(SubSeq(undo, 1, l)) = l
        /\ \A k \in 1 .. l : SubSeq(undo, 1, l)[k] = undo[k]
    <3>. HIDE DEF l
    <3>1. l \in Nat /\ l <= n /\ l \in Int
      BY <1>4, <2>1
    <3>. QED  BY <1>4, <2>1, <3>1 DEF n
  <2>. QED  BY <1>1, <2>2
<1>. HIDE DEF ps, cp
<1>10. /\ \A p \in Paths : disk'[p].c = Back(Contents(disk), cp, p)
       /\ \A p \in Paths : \/ disk'[p] = NoFile \/ disk'[p] = disk[p]
                           \/ p = cp.path /\ disk'[p] = [c |-> cp.previous, m |-> clock + 1]
       /\ \A p \in Paths \ ps : disk'[p] = disk[p]
       /\ disk' = [p \in Paths |-> disk'[p]]
  <2>1. /\ \A p \in Paths : Undone(disk, cp, clock + 1)[p].c = Back(Contents(disk), cp, p)
        /\ \A p \in Paths : \/ Undone(disk, cp, clock + 1)[p] = NoFile
                            \/ Undone(disk, cp, clock + 1)[p] = disk[p]
                            \/ /\ p = cp.path
                               /\ Undone(disk, cp, clock + 1)[p] = [c |-> cp.previous, m |-> clock + 1]
        /\ \A p \in Paths \ {cp.path, cp.cleanup} : Undone(disk, cp, clock + 1)[p] = disk[p]
        /\ Undone(disk, cp, clock + 1) = [p \in Paths |-> Undone(disk, cp, clock + 1)[p]]
    BY <1>5, UndoneFacts
  <2>2. disk' = Undone(disk, cp, clock + 1)
    BY <1>1
  <2>. QED  BY ONLY <2>1, <2>2 DEF ps
<1>11. /\ disk \in [Paths -> [c : Nat, m : Nat]] /\ clock \in Nat /\ cp.previous \in Nat
       /\ \A p \in Paths : disk[p].c \in Nat /\ disk[p].m \in Nat
       /\ \A p \in Paths : ledger[p].m \in Nat /\ ledger[p].m <= clock /\ disk[p].m <= clock
  BY <1>5, CheckpointFacts DEF EditInv, Types, DiskTypes, LedgerTypes, Read, TimesInv
<1>12. NoFile \in [c : Nat, m : Nat] /\ NoFile.c = 0 /\ NoFile.m = 0
  BY DEF NoFile
<1>13. DiskTypes'
  <2>1. clock + 1 \in Nat
    BY <1>11
  <2>2. \A p \in Paths : disk'[p] \in [c : Nat, m : Nat]
    BY <1>10, <1>11, <1>12, <2>1
  <2>. QED  BY <1>1, <1>10, <2>1, <2>2 DEF DiskTypes
<1>14. TimesInv'
  <2>0. ledger' = ledger /\ clock' = clock + 1
    BY <1>1
  <2>1. \A p \in Paths : \/ disk'[p].c = 0 /\ disk'[p].m = 0
                         \/ disk'[p].c = disk[p].c /\ disk'[p].m = disk[p].m
                         \/ p = cp.path /\ disk'[p].m = clock + 1
    BY <1>10, <1>12
  <2>2. \A p \in Paths : /\ disk'[p].m <= clock + 1 /\ ledger[p].m <= clock + 1
                         /\ ledger[p].m # clock + 1 /\ disk[p].m # clock + 1
    BY ONLY <1>11, <2>1
  <2>3. ASSUME NEW p \in Paths, NEW q \in Paths, disk'[p].c # 0, disk'[q].c # 0, disk'[p].m = disk'[q].m
        PROVE  disk'[p].c = disk'[q].c
    BY <2>1, <2>2, <2>3 DEF EditInv, TimesInv
  <2>4. ASSUME NEW p \in Paths, NEW q \in Paths, ledger[p] # NoRead, ~ledger[p].raced, disk'[q].c # 0,
               disk'[q].m = ledger[p].m
        PROVE  ledger[p].seen = disk'[q].c
    BY <2>1, <2>2, <2>4 DEF EditInv, TimesInv
  <2>. QED  BY ONLY <2>0, <2>2, <2>3, <2>4 DEF TimesInv
<1>15. UndoInv'
  <2>0. undo' = <<>> <=> n = 1
    BY <1>4, <1>9
  <2>1. \A k \in 1 .. Len(undo') - 1 : Brings(undo'[k + 1].mark, undo'[k], foreign')
    <3>. SUFFICES ASSUME NEW k \in 1 .. Len(undo') - 1
                  PROVE  Brings(undo'[k + 1].mark, undo'[k], foreign)
      BY <1>1
    <3>1. k \in 1 .. n - 1 /\ k + 1 \in 1 .. n - 1
      <4>. HIDE DEF n
      <4>. QED  BY <1>4, <1>9
    <3>2. undo'[k] = undo[k] /\ undo'[k + 1] = undo[k + 1]
      BY <1>9, <3>1
    <3>. QED  BY <1>7, <3>1, <3>2
  <2>2. ASSUME undo' # <<>>
        PROVE  Brings(Contents(disk)', undo'[Len(undo')], foreign' \cup call'.wrote)
    <3>. DEFINE t == undo[n - 1]
    <3>1. n - 1 \in 1 .. n - 1 /\ (n - 1) + 1 = n
      <4>. HIDE DEF n
      <4>. QED  BY <1>4, <2>0, <2>2
    <3>2. Brings(cp.mark, t, foreign) /\ undo'[Len(undo')] = t
      BY <1>7, <1>9, <3>1 DEF cp
    <3>3. \A p \in Paths \ foreign : Contents(disk)'[p] = cp.mark[p]
      BY <1>6, <1>10 DEF Brings, Contents
    <3>. HIDE DEF t
    <3>4. Brings(Contents(disk)', t, foreign)
      BY <3>2, <3>3 DEF Brings, Back
    <3>5. foreign' \cup call'.wrote = foreign
      BY <1>1, <1>3
    <3>. QED  BY <3>2, <3>4, <3>5
  <2>3. Len(undo') <= MaxUndo
    <3>. HIDE DEF n
    <3>. QED  BY <1>4, <1>9
  <2>4. call'.snap = NoSnap
    BY <1>1, <1>3
  <2>. QED  BY <1>9, <2>1, <2>2, <2>3, <2>4 DEF UndoInv
<1>16. ps \cap Paths \subseteq stale' /\ stale \subseteq stale'
  BY <1>1, ToolAssumption
<1>17. SpentTypes' /\ foreign' \in SUBSET Paths /\ foreign \subseteq foreign'
  BY <1>1, CallFacts DEF EditInv, Types, SpentTypes
<1>. QED  BY <1>1, <1>3, <1>10, <1>13, <1>14, <1>15, <1>16, <1>17, OutsidePart

-----------------------------------------------------------------------------
(* Theorems *)

\* Every step keeps the invariant.
LEMMA NextInv == EditInv /\ [Next]_vars => EditInv'
<1>. SUFFICES ASSUME EditInv, [Next]_vars PROVE EditInv'
  OBVIOUS
<1>1. CASE UNCHANGED vars
  BY <1>1, CommandStep DEF vars, toolVars, books
<1>2. CASE ToolNext /\ loop' = loop
  <2>1. CASE \E r \in Asked : Propose(r)
    BY <1>2, <2>1, ProposeStep
  <2>2. CASE \E b \in BOOLEAN : Answer(b) \/ Begin(b) \/ PostTool(b)
    BY <1>2, <2>2, AnswerStep, BeginStep, PostStep
  <2>3. CASE \/ \E b \in BOOLEAN : CommandExits(b)
             \/ CommandClosesOutput \/ CommandTimeout \/ CommandWaiter
    <3>1. UNCHANGED <<disk, clock, turn, call, jobs, books, spent>>
      BY <2>3 DEF CommandExits, CommandClosesOutput, CommandTimeout, CommandWaiter
    <3>. QED  BY <1>2, <3>1, CommandStep DEF books
  <2>8. CASE \E b \in BOOLEAN : EmbeddingAnswers(b)
    BY <1>2, <2>8, EmbeddingStep
  <2>4. CASE \E j \in jobs : JobStep(j)
    <3>1. PICK j \in jobs : JobStep(j)
      BY <2>4
    <3>2. UNCHANGED <<spent, loop>>
      BY <1>2, <3>1 DEF JobStep
    <3>3. \/ JobStart(j) \/ JobFinger(j) \/ JobRefresh(j) \/ \E occ, near : JobEdit(j, occ, near)
      BY <3>1 DEF JobStep
    <3>. QED  BY <3>2, <3>3, JobStartStep, JobFingerStep, JobRefreshStep, JobEditStep
  <2>5. CASE \E j \in jobs, q \in BOOLEAN : JobTimeout(j, q)
    BY <1>2, <2>5, TimeoutStep
  <2>6. CASE \E p \in Paths : ScanFile(p) \/ OutsideEdit(p)
    BY <1>2, <2>6, ScanStep, OutsideStep
  <2>7. CASE Search \/ CommandReturns \/ Undo
    BY <1>2, <2>7, SearchStep, CommandReturnsStep, UndoStep
  <2>. QED  BY <1>2, <2>1, <2>2, <2>3, <2>4, <2>5, <2>6, <2>7, <2>8 DEF ToolNext
<1>3. CASE (\E kind \in TurnKinds : UserTurn(kind)) \/ UserTurnEnds
  BY <1>3, UserTurnStep, UserTurnEndsStep
<1>4. CASE \E b, c \in BOOLEAN : LoopTurnEnds(b, c)
  BY <1>4, LoopTurnEndsStep
<1>5. CASE \E b \in BOOLEAN : LoopStarts(b) \/ LoopPulse(b)
  BY <1>5, LoopStartsStep, LoopPulseStep
<1>6. CASE \E codes \in SUBSET ExitCodes : Validate(codes)
  BY <1>6, ValidateStep
<1>. QED  BY <1>1, <1>2, <1>3, <1>4, <1>5, <1>6 DEF Next

\* The inductive invariant holds throughout.
THEOREM EditInvariant == Spec => []EditInv
BY InitInv, NextInv, PTL DEF Spec

\* /undo brings back what the last successful change replaced, however many calls, late
\* tasks and outside writes came before, and however deep the stack is.
THEOREM UndoRestoresThm == Spec => []UndoRestores
<1>1. EditInv => UndoRestores
  <2>. SUFFICES ASSUME EditInv, undo # <<>>, call.st = "idle", NEW p \in Paths \ foreign
                PROVE  Undone(disk, undo[Len(undo)], clock)[p].c = undo[Len(undo)].mark[p]
    BY DEF UndoRestores
  <2>. DEFINE cp == undo[Len(undo)]
  <2>1. cp \in Checkpoint
    BY DEF EditInv, UndoInv
  <2>2. Brings(Contents(disk), cp, foreign)
    BY NoCallFacts DEF EditInv, UndoInv
  <2>. HIDE DEF cp
  <2>3. Undone(disk, cp, clock)[p].c = cp.mark[p]
    <3>1. \A q \in Paths : Undone(disk, cp, clock)[q].c = Back(Contents(disk), cp, q)
      BY <2>1 DEF Undone, Back, Contents, NoFile
    <3>. QED  BY <2>2, <3>1 DEF Brings
  <2>. QED  BY <2>3 DEF cp
<1>. QED  BY <1>1, EditInvariant, PTL

\* The index follows the files, an anchored edit was seen by the model in the same turn, and
\* the edit loop validates only a change, with one task at most for the call in progress.
THEOREM WorkspaceKnownThm == Spec => []WorkspaceKnown
<1>1. EditInv => WorkspaceKnown
  <2>. SUFFICES ASSUME EditInv PROVE WorkspaceKnown
    OBVIOUS
  <2>1. Cardinality({j \in jobs : ~j.late}) <= 1
    <3>. DEFINE own == {j \in jobs : ~j.late}
    <3>1. \A j, k \in own : j = k
      BY DEF EditInv, CallInv
    <3>. HIDE DEF own
    <3>2. CASE own = {}
      BY <3>2, FS_EmptySet DEF own
    <3>3. CASE own # {}
      <4>1. PICK j : own = {j}
        BY <3>1, <3>3
      <4>2. Cardinality(own) = 1
        BY <4>1, FS_Singleton
      <4>. QED  BY <4>2 DEF own
    <3>. QED  BY <3>2, <3>3
  <2>2. /\ disk \in [Paths -> [c : Nat, m : Nat]] /\ \A j \in jobs : j \in Job
        /\ call.st \in {"idle", "ask", "pre", "exec", "embed", "post"}
    BY DEF EditInv, Types, DiskTypes, JobTypes, JobOK, CallTypes
  <2>3. /\ index.st \in {"none", "building", "built"} /\ index.todo \subseteq Paths
        /\ loop.pulse \in 0 .. MaxPulses /\ loop.st \in {"off", "pulse", "driving", "validate"}
    BY DEF EditInv, Types, IndexTypes, LoopTypes
  <2>4. TypeOK
    BY <2>1, <2>2, <2>3 DEF TypeOK
  <2>5. IndexFollows /\ AnchoredEditSawIt
    BY DEF EditInv, IndexInv, LedgerInv
  <2>6. ValidatesAChange
    BY DEF EditInv, ChangeInv, Changed, ValidatesAChange
  <2>. QED  BY <2>4, <2>5, <2>6 DEF WorkspaceKnown
<1>. QED  BY <1>1, EditInvariant, PTL

\* Only a task's write, /undo and an outside edit change a file.
TaskWrote(j) ==
    \E ps \in SUBSET Paths : \E d, gone, a :
       /\ JobWrites(j, d, ps, gone, a) /\ j.req.tool \in Mutating /\ ps \subseteq RefreshedPaths(j.req)
       /\ \A p \in Paths \ ps : d[p] = disk[p]
\* A step that changes a file is one of these.
LEMMA WhoWrites ==
    ASSUME EditInv, Next, disk' # disk
    PROVE  (\E ps : jobs' = Raced(jobs, ps)) \/ \E j \in jobs : TaskWrote(j)
<1>1. CASE Undo \/ \E p \in Paths : OutsideEdit(p)
  BY <1>1 DEF Undo, OutsideEdit
<1>2. CASE \E j \in jobs : JobStep(j)
  <2>1. PICK j \in jobs : JobStep(j)
    BY <1>2
  <2>. DEFINE p == j.req.path
              q == j.req.to
  <2>2. JobOK(j) /\ p \in Paths /\ (j.req.tool = "rename_file" => q \in Paths)
    <3>1. JobOK(j)
      BY DEF EditInv, Types, JobTypes
    <3>. QED  BY <3>1, JobFacts
  <2>3. disk \in [Paths -> [c : Nat, m : Nat]]
    BY DEF EditInv, Types, DiskTypes
  <2>4. ASSUME NEW a, JobWrites(j, [disk EXCEPT ![p] = [c |-> clock + 1, m |-> clock + 1]], {p}, {}, a),
               j.req.tool \in Mutating
        PROVE  TaskWrote(j)
    <3>. DEFINE d == [disk EXCEPT ![p] = [c |-> clock + 1, m |-> clock + 1]]
    <3>1. \A r \in Paths \ {p} : d[r] = disk[r]
      BY <2>2, <2>3
    <3>2. {p} \subseteq RefreshedPaths(j.req) /\ {p} \in SUBSET Paths
      BY <2>2, ToolAssumption DEF RefreshedPaths
    <3>. HIDE DEF d
    <3>3. JobWrites(j, d, {p}, {}, a)
      BY <2>4 DEF d
    <3>. QED  BY <2>4, <3>1, <3>2, <3>3 DEF TaskWrote
  <2>5. CASE JobStart(j)
    <3>1. CASE JobRead(j) \/ JobEditRead(j)
      BY <3>1 DEF JobRead, JobEditRead
    <3>2. CASE JobOverwrite(j)
      BY <2>4, <3>2 DEF JobOverwrite, Mutating
    <3>3. CASE JobRename(j)
      <4>. DEFINE d == [disk EXCEPT ![q] = disk[p], ![p] = NoFile]
                  gone == IF disk[q].c # 0 THEN {q} ELSE {}
      <4>1. JobWrites(j, d, {p, q}, gone, anchor) /\ j.req.tool = "rename_file"
        BY <3>3 DEF JobRename
      <4>2. \A r \in Paths \ {p, q} : d[r] = disk[r]
        BY <2>2, <2>3, <4>1
      <4>3. {p, q} \subseteq RefreshedPaths(j.req) /\ {p, q} \in SUBSET Paths /\ j.req.tool \in Mutating
        BY <2>2, <4>1, ToolAssumption DEF RefreshedPaths, Mutating
      <4>. HIDE DEF d, gone
      <4>4. TaskWrote(j)
        BY <4>1, <4>2, <4>3 DEF TaskWrote
      <4>. QED  BY <4>4
    <3>. QED  BY <2>5, <3>1, <3>2, <3>3 DEF JobStart
  <2>6. CASE \E occ, near : JobEdit(j, occ, near)
    <3>1. PICK occ, near : JobEdit(j, occ, near)
      BY <2>6
    <3>2. j.req.tool \in Mutating
      BY <2>2, <3>1 DEF JobEdit, JobOK, Mutating
    <3>3. \E a : JobWrites(j, [disk EXCEPT ![p] = [c |-> clock + 1, m |-> clock + 1]], {p}, {}, a)
      BY <3>1 DEF JobEdit
    <3>. QED  BY <2>4, <3>2, <3>3
  <2>7. CASE JobFinger(j) \/ JobRefresh(j)
    BY <2>7 DEF JobFinger, JobRefresh
  <2>. QED  BY <2>1, <2>5, <2>6, <2>7 DEF JobStep
<1>3. CASE \E j \in jobs, b \in BOOLEAN : JobTimeout(j, b)
  BY <1>3 DEF JobTimeout
<1>4. CASE \/ \E r \in Asked : Propose(r)
           \/ \E b \in BOOLEAN :
                 Answer(b) \/ Begin(b) \/ PostTool(b) \/ CommandExits(b) \/ EmbeddingAnswers(b)
  BY <1>4 DEF Propose, Answer, Begin, PostTool, CommandExits, EmbeddingAnswers
<1>5. CASE \/ \E p \in Paths : ScanFile(p)
           \/ Search \/ CommandClosesOutput \/ CommandTimeout \/ CommandWaiter \/ CommandReturns
  BY <1>5 DEF ScanFile, Search, CommandClosesOutput, CommandTimeout, CommandWaiter, CommandReturns
<1>6. CASE (\E kind \in TurnKinds : UserTurn(kind)) \/ UserTurnEnds \/ \E b, c \in BOOLEAN : LoopTurnEnds(b, c)
  BY <1>6 DEF UserTurn, UserTurnEnds, LoopTurnEnds, StartTurn, EndTurn, CancelTurn
<1>7. CASE \/ \E b \in BOOLEAN : LoopStarts(b) \/ LoopPulse(b)
           \/ \E codes \in SUBSET ExitCodes : Validate(codes)
  BY <1>7 DEF LoopStarts, LoopPulse, Validate, StartTurn, toolVars
<1>. QED  BY <1>1, <1>2, <1>3, <1>4, <1>5, <1>6, <1>7 DEF Next, ToolNext

\* A tool changes a file only for an approved call, in a turn that is neither read-only nor
\* chat nor plan, and in a tests-only turn only a test, unless it is the task of a call that
\* timed out.
THEOREM WritesAreSanctionedThm == Spec => WritesAreSanctioned
<1>. DEFINE Sanctioned ==
         disk' # disk =>
            \A j \in jobs : ([j EXCEPT !.st = "refresh"] \in jobs' \ jobs /\ ~j.late) =>
               /\ turn.on /\ call.asked /\ turn.kind \in {"default", "tests_only"}
               /\ turn.kind = "tests_only" =>
                     \A p \in Paths : disk'[p] # disk[p] => p \in TestPaths
<1>1. EditInv /\ [Next]_vars => [Sanctioned]_vars
  <2>. SUFFICES ASSUME EditInv, Next, disk' # disk, NEW j \in jobs,
                       [j EXCEPT !.st = "refresh"] \in jobs' \ jobs, ~j.late
                PROVE  /\ turn.on /\ call.asked /\ turn.kind \in {"default", "tests_only"}
                       /\ turn.kind = "tests_only" =>
                             \A p \in Paths : disk'[p] # disk[p] => p \in TestPaths
    OBVIOUS
  <2>. DEFINE k == [j EXCEPT !.st = "refresh"]
  <2>1. \A i \in jobs : JobOK(i) /\ i.late \in BOOLEAN
    BY JobFacts DEF EditInv, Types, JobTypes
  <2>2. k.late = j.late /\ k.st = "refresh" /\ k \in jobs' /\ k \notin jobs
    BY <2>1 DEF JobOK, Job
  <2>. HIDE DEF k
  <2>3. \A js, ps : js \subseteq jobs => k \notin Raced(js, ps)
    <3>. SUFFICES ASSUME NEW js, NEW ps, js \subseteq jobs, k \in Raced(js, ps) PROVE FALSE
      OBVIOUS
    <3>1. PICK i \in js : Goes(k, i, ps)
      BY <2>1, RacedFacts
    <3>. QED  BY <2>2, <3>1 DEF Goes
  <2>4. PICK i \in jobs : TaskWrote(i)
    BY <2>2, <2>3, WhoWrites
  <2>5. PICK ps \in SUBSET Paths : \E d, gone, a :
           /\ JobWrites(i, d, ps, gone, a) /\ i.req.tool \in Mutating /\ ps \subseteq RefreshedPaths(i.req)
           /\ \A p \in Paths \ ps : d[p] = disk[p]
    BY <2>4 DEF TaskWrote
  <2>6. /\ jobs' = Raced(jobs \ {i}, ps) \cup {[i EXCEPT !.st = "refresh"]} /\ i.req.tool \in Mutating
        /\ ps \subseteq RefreshedPaths(i.req) /\ \A p \in Paths \ ps : disk'[p] = disk[p]
    BY <2>5 DEF JobWrites
  <2>7. k = [i EXCEPT !.st = "refresh"]
    BY <2>2, <2>3, <2>6
  <2>8. ~i.late
    BY <2>1, <2>2, <2>7 DEF JobOK, Job
  <2>9. /\ call.st = "exec" /\ i.req = call.req /\ turn.on /\ Requires(call.req.tool)
        /\ call.req.tool \in Mutating
    BY <2>6, <2>8 DEF EditInv, CallInv, Requires
  <2>10. call.asked /\ ~PolicyForbids(call.req) /\ ~Rejected(call.req)
    BY <2>9 DEF EditInv, SanctionInv
  <2>11. turn.kind \in {"default", "tests_only"}
    BY <2>9, <2>10 DEF PolicyForbids, Rejected, ReadOnlyConflict, Mutating, EditInv, Types, TurnTypes, TurnKinds
  <2>12. turn.kind = "tests_only" => ps \subseteq TestPaths
    BY <2>6, <2>9, <2>10 DEF Rejected, TestsOnlyConflict, TargetPaths, RefreshedPaths
  <2>. QED  BY <2>6, <2>9, <2>10, <2>11, <2>12
<1>. QED  BY <1>1, EditInvariant, PTL DEF Spec, WritesAreSanctioned
=============================================================================
