------------------------------ MODULE TaskWatch ------------------------------
(***************************************************************************)
(* GET /v1/session-tasks/{id}/watch (src/server/handlers/session.rs): a    *)
(* client reads the record of a session task once and then follows the     *)
(* rollups that the other handlers publish on a broadcast channel.  The    *)
(* status and release handlers load the record, save it and publish it in  *)
(* three steps; another process may save a record and publishes nothing.   *)
(*                                                                         *)
(* Times are milliseconds of one clock that may stand still between two    *)
(* saves.  A rollup is the id, the lifecycle state and updated_at_ms.      *)
(***************************************************************************)
EXTENDS Integers, Sequences, FiniteSets

CONSTANTS Tasks,          \* session tasks; Watched is the one the client asked for
          Watched,
          Handlers,       \* concurrent status or release requests
          Buffer,         \* SESSION_TASK_EVENT_BUFFER
          MaxTime,        \* bound on the clock
          MaxSaves        \* bound on the saves

ASSUME WatchAssumption ==
    Watched \in Tasks /\ Buffer \in Nat /\ MaxTime \in Nat \ {0} /\ MaxSaves \in Nat

VARIABLES clock, disk, sent, handler, watcher, saves

watchVars == <<clock, disk, sent, handler, watcher, saves>>

LifecycleIsTerminal(s) == s \in {"failed", "cancelled", "completed"}
States == {"running", "completed", "cancelled"}

NoRequest == [step |-> "idle", id |-> Watched, state |-> "running", at |-> 0]

WatchInit ==
    /\ clock = 1
    /\ disk = [t \in Tasks |-> [state |-> "running", at |-> 0]]
    /\ sent = <<>>                                  \* everything ever published
    /\ handler = [h \in Handlers |-> NoRequest]
    /\ watcher = [phase |-> "absent", pos |-> 0, last |-> 0, told |-> <<>>, lagged |-> FALSE]
    /\ saves = 0

Tick == /\ clock < MaxTime /\ clock' = clock + 1
        /\ UNCHANGED <<disk, sent, handler, watcher, saves>>

(***************************************************************************)
(* facade_update_session_task_status and facade_release_session_task.      *)
(***************************************************************************)
Load(h, t, s) ==
    /\ handler[h].step = "idle" /\ saves < MaxSaves
    /\ ~LifecycleIsTerminal(disk[t].state)          \* TransitionNotAllowed
    /\ handler' = [handler EXCEPT ![h] = [step |-> "loaded", id |-> t, state |-> s, at |-> 0]]
    /\ saves' = saves + 1
    /\ UNCHANGED <<clock, disk, sent, watcher>>

Save(h) ==
    /\ handler[h].step = "loaded"
    /\ disk' = [disk EXCEPT ![handler[h].id] = [state |-> handler[h].state, at |-> clock]]
    /\ handler' = [handler EXCEPT ![h].step = "saved", ![h].at = clock]
    /\ UNCHANGED <<clock, sent, watcher, saves>>

Publish(h) ==
    /\ handler[h].step = "saved"
    /\ sent' = Append(sent, [id |-> handler[h].id, state |-> handler[h].state, at |-> handler[h].at])
    /\ handler' = [handler EXCEPT ![h] = NoRequest]
    /\ UNCHANGED <<clock, disk, watcher, saves>>

\* release_session_task_handler publishes what it reads back after the save.
PublishReread(h) ==
    /\ handler[h].step = "saved" /\ handler[h].state = "cancelled"
    /\ LET r == disk[handler[h].id]
       IN  sent' = Append(sent, [id |-> handler[h].id, state |-> r.state, at |-> r.at])
    /\ handler' = [handler EXCEPT ![h] = NoRequest]
    /\ UNCHANGED <<clock, disk, watcher, saves>>

OtherProcess(t, s) ==
    /\ saves < MaxSaves /\ ~LifecycleIsTerminal(disk[t].state)
    /\ disk' = [disk EXCEPT ![t] = [state |-> s, at |-> clock]] /\ saves' = saves + 1
    /\ UNCHANGED <<clock, sent, handler, watcher>>

(***************************************************************************)
(* The watcher: subscribe, read the record, send it, follow.               *)
(***************************************************************************)
Subscribe ==
    /\ watcher.phase = "absent"
    /\ watcher' = [watcher EXCEPT !.phase = "subscribed", !.pos = Len(sent)]
    /\ UNCHANGED <<clock, disk, sent, handler, saves>>

ReadInitial ==
    /\ watcher.phase = "subscribed"
    /\ watcher' = [watcher EXCEPT !.phase = "read", !.last = disk[Watched].at,
                                  !.told = <<disk[Watched].state>>]
    /\ UNCHANGED <<clock, disk, sent, handler, saves>>

\* Mutant: the subscription is made by the spawned loop, after the read.
SpawnFollower_Subscribes ==
    /\ watcher.phase = "read"
    /\ watcher' = [watcher EXCEPT
                     !.phase = IF LifecycleIsTerminal(Head(watcher.told)) THEN "ended" ELSE "following",
                     !.pos = Len(sent)]
    /\ UNCHANGED <<clock, disk, sent, handler, saves>>

SpawnFollower ==
    /\ watcher.phase = "read"
    /\ watcher' = [watcher EXCEPT
                     !.phase = IF LifecycleIsTerminal(Head(watcher.told)) THEN "ended" ELSE "following"]
    /\ UNCHANGED <<clock, disk, sent, handler, saves>>

\* A receiver that fell behind by more than the buffer is moved to the oldest kept message.
Lagged ==
    /\ watcher.phase = "following" /\ Len(sent) - watcher.pos > Buffer
    /\ watcher' = [watcher EXCEPT !.pos = Len(sent) - Buffer, !.lagged = TRUE]
    /\ UNCHANGED <<clock, disk, sent, handler, saves>>

Follow(w, r) ==
    CASE r.id # Watched -> [w EXCEPT !.pos = @ + 1]
      [] r.id = Watched /\ r.at <= w.last ->
           [w EXCEPT !.pos = @ + 1, !.phase = IF LifecycleIsTerminal(r.state) THEN "ended" ELSE @]
      [] r.id = Watched /\ r.at > w.last ->
           [w EXCEPT !.pos = @ + 1, !.last = r.at, !.told = Append(@, r.state),
                     !.phase = IF LifecycleIsTerminal(r.state) THEN "ended" ELSE @]

Receive ==
    /\ watcher.phase = "following"
    /\ watcher.pos < Len(sent) /\ Len(sent) - watcher.pos <= Buffer
    /\ watcher' = Follow(watcher, sent[watcher.pos + 1])
    /\ UNCHANGED <<clock, disk, sent, handler, saves>>

WatcherStep == Subscribe \/ ReadInitial \/ SpawnFollower \/ Lagged \/ Receive

WatchNext ==
    \/ Tick \/ WatcherStep
    \/ \E h \in Handlers : \/ Save(h) \/ Publish(h) \/ PublishReread(h)
                           \/ \E t \in Tasks, s \in States : Load(h, t, s)
    \/ \E t \in Tasks, s \in States : OtherProcess(t, s)

\* The spawned receiver and the handlers are tasks of a running executor.
WatchFairness == WF_watchVars(ReadInitial \/ SpawnFollower \/ Lagged \/ Receive)

WatchTypeOK ==
    /\ clock \in 1..MaxTime /\ saves \in 0..MaxSaves
    /\ \A t \in Tasks : disk[t].state \in States /\ disk[t].at \in 0..MaxTime
    /\ \A h \in Handlers : handler[h].step \in {"idle", "loaded", "saved"}
    /\ watcher.phase \in {"absent", "subscribed", "read", "following", "ended"}
    /\ watcher.pos \in 0..Len(sent)

\* What the watcher of session.rs:162 was told never runs backwards in time: rollups of
\* concurrent handlers may be published in the other order than they were saved.
ToldInOrder ==
    /\ watcher.phase \in {"following", "ended"} => watcher.last <= disk[Watched].at
    /\ \A i \in 1..(Len(watcher.told) - 1) : ~LifecycleIsTerminal(watcher.told[i])

\* A watcher that has consumed the channel, never lagged and still follows has missed no
\* rollup: its last time is that of the newest published one (it subscribes before it
\* reads, so no save falls between).
NoRollupMissed ==
    watcher.phase = "following" /\ watcher.pos = Len(sent) /\ ~watcher.lagged =>
       \A i \in DOMAIN sent : sent[i].id = Watched => sent[i].at <= watcher.last

\* A terminal rollup that a subscribed receiver can still get ends its stream.
TerminalEndsWatch ==
    (/\ watcher.phase = "following"
     /\ \E i \in DOMAIN sent : i > watcher.pos /\ i > Len(sent) - Buffer
                               /\ sent[i].id = Watched /\ LifecycleIsTerminal(sent[i].state))
       ~> watcher.phase = "ended" \/ watcher.lagged
=============================================================================
