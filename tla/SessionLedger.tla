---------------------------- MODULE SessionLedger ----------------------------
(***************************************************************************)
(* What an interactive session keeps of its tasks and what the slash       *)
(* commands do to it: the task document of TuiMode, the task state files   *)
(* and working-set records it writes, the notes store, the grants, and     *)
(* the conversation the next request is built from.                        *)
(*                                                                         *)
(* The conversation is behind a mutex.  A command that must clear or seed  *)
(* it does so at once when the mutex is free, and otherwise in a task of   *)
(* its own; a turn takes the mutex in a task of its own as well, and the   *)
(* scheduler decides who comes first.  Commands are only read while no     *)
(* pulse is open, so they meet a busy mutex only after an error event in   *)
(* a stream closed the pulse of a turn that goes on.                       *)
(*                                                                         *)
(* Abstractions.  A turn is its number; its text, files and tools are in   *)
(* TaskTranscript and TaskBridge.  One capability (run-command) stands     *)
(* for all.  Notes are their kind and the number they were made with.      *)
(* Commands that only print (/about, /tools, /usage, /permissions ...) or  *)
(* only start a turn (/explain, /review, /edit, a custom command ...)      *)
(* change nothing here but through that turn.                              *)
(***************************************************************************)
EXTENDS Integers, Sequences, FiniteSets, SequencesExt

CONSTANTS
    MaxTasks,       \* bound: tasks the session creates
    MaxInputs,      \* bound: turns the user starts
    MaxSteps,       \* bound: commands the user types
    MaxDeferred     \* bound: clears and seeds waiting for the mutex

ASSUME LedgerAssumption ==
    MaxTasks \in Nat \ {0} /\ MaxInputs \in Nat /\ MaxSteps \in Nat /\ MaxDeferred \in Nat

TaskIds == 1 .. MaxTasks
LedgerScopes == {"none", "once", "task", "session"}
NoteKinds == {"user", "auto", "plan"}

VARIABLES
    doc,        \* task_doc: id, completed turns, notes, grant, session tasks
    active,     \* active_pulse: the turn it captures (0: none), plan_turn_active
    autoOn,     \* auto_memory_enabled
    memory,     \* the memory candidates file, in order
    listed,     \* ghost: what the last /memory listing numbered
    clearing,   \* overlay_state.pending_memory_clear
    choosing,   \* overlay_state.pending_resume_selection
    asking,     \* overlay_state.pending_approval of a turn's tool (0: none)
    saved,      \* task id -> its state file
    records,    \* task id -> its working-set record
    talk,       \* ConversationManager: messages and the record they were seeded with
    holder,     \* the turn that holds the conversation (0: none)
    queue,      \* tasks waiting for the conversation: turns, clears, seeds
    made,       \* how many task ids were handed out
    asked,      \* how many turns were started
    typed,      \* how many commands were typed
    late,       \* ghost: turns still waiting when the session left their task
    crossed,    \* ghost: a clear or seed was asked for while an earlier one still waited
    given,      \* ghost: task id -> once grants given (or inherited by a fork)
    used,       \* ghost: task id -> commands started under a once grant
    sent        \* ghost: task id -> session tasks delegated from this session

ledgerVars == <<doc, active, autoOn, memory, listed, clearing, choosing, asking, saved, records, talk,
                holder, queue, made, asked, typed, late, crossed, given, used, sent>>
screenVars == <<active, clearing, choosing, asking>>
grants == <<given, used>>
ghosts == <<late, crossed, grants, sent>>

NewDoc(i) == [id |-> i, turns |-> <<>>, notes |-> <<>>, grant |-> "none", tasks |-> {}]
NoFile == [NewDoc(0) EXCEPT !.id = 0]
NoRecord == [objective |-> 0, decisions |-> {}, constraints |-> <<>>, results |-> <<>>]
Request(k, x) == [op |-> k, of |-> x]

LedgerInit ==
    /\ doc = NewDoc(1) /\ active = [turn |-> 0, plan |-> FALSE] /\ autoOn = TRUE
    /\ memory = <<>> /\ listed = <<>> /\ clearing = FALSE /\ choosing = FALSE /\ asking = 0
    /\ saved = [i \in TaskIds |-> NoFile] /\ records = [i \in TaskIds |-> NoRecord]
    /\ talk = [messages |-> <<>>, seed |-> 0] /\ holder = 0 /\ queue = {}
    /\ made = 1 /\ asked = 0 /\ typed = 0
    /\ late = {} /\ crossed = FALSE
    /\ given = [i \in TaskIds |-> 0] /\ used = [i \in TaskIds |-> 0]
    /\ sent = [i \in TaskIds |-> {}]

-----------------------------------------------------------------------------
(* Files.                                                                  *)

\* persist_task_document: the document replaces the whole file.
Persist(d) == [saved EXCEPT ![d.id] = d]

FirstOf(s) == IF s = <<>> THEN 0 ELSE s[1]

\* Mutant: the record on disk is replaced, not merged.
WriteWorkingSet_Fresh(d) ==
    [records EXCEPT ![d.id] = [objective |-> FirstOf(d.turns), decisions |-> {},
                               constraints |-> d.notes, results |-> d.turns]]

\* retain_durable_objective, retain_referenced_decisions: a recorded objective
\* and the decisions of earlier joins are kept.
RetainDurable(new, old) ==
    [new EXCEPT !.objective = IF old.objective # 0 THEN old.objective ELSE @,
                !.decisions = old.decisions]

\* write_working_set: episodic fields from the document.
WriteWorkingSet(d) ==
    [records EXCEPT ![d.id] =
        RetainDurable([objective |-> FirstOf(d.turns), decisions |-> {},
                       constraints |-> d.notes, results |-> d.turns], @)]

-----------------------------------------------------------------------------
(* The conversation.                                                       *)

Emptied(i) == [messages |-> <<>>, seed |-> i]

\* Mutant: a busy mutex is left alone.
Replace_OnlyIfFree(i) ==
    IF holder = 0 THEN talk' = Emptied(i) /\ UNCHANGED <<queue, crossed>>
                  ELSE UNCHANGED <<talk, queue, crossed>>

\* clear_conversation and seed_from_working_set: at once when the mutex can be
\* taken, in a spawned task otherwise.  A seed of 0 is a plain clear.
Replace(i) ==
    /\ crossed' = (crossed \/ \E q \in queue : q.op = "replace")
    /\ \/ holder = 0 /\ talk' = Emptied(i) /\ UNCHANGED queue
       \/ /\ holder # 0 /\ UNCHANGED talk
          /\ Cardinality({q \in queue : q.op = "replace"}) < MaxDeferred
          /\ queue' = queue \cup {Request("replace", i)}

\* The turns that may still write although the session has left their task.
Stragglers == {q.of : q \in {p \in queue : p.op = "turn"}} \cup {holder}

RunReplace(q) ==
    /\ holder = 0 /\ q.op = "replace"
    /\ queue' = queue \ {q}
    /\ talk' = Emptied(q.of)

Deferred ==
    \E q \in queue :
        /\ q.op = "replace" /\ RunReplace(q)
        /\ UNCHANGED <<doc, screenVars, autoOn, memory, listed, saved, records, holder, made,
                       asked, typed, ghosts>>

\* send_message's task gets the mutex and puts the request into the messages.
TakeConversation ==
    \E q \in queue :
        /\ q.op = "turn" /\ holder = 0
        /\ holder' = q.of
        /\ queue' = queue \ {q}
        /\ talk' = [talk EXCEPT !.messages = Append(@, q.of)]
        /\ UNCHANGED <<doc, screenVars, autoOn, memory, listed, saved, records, made, asked,
                       typed, ghosts>>

-----------------------------------------------------------------------------
(* Turns.                                                                  *)

\* on_user_input reads commands and text only with no prompt and no pulse.
Prompting == clearing \/ choosing \/ asking # 0
Ready == ~Prompting /\ active.turn = 0
Typed == Ready /\ typed < MaxSteps /\ typed' = typed + 1

\* reset_turn_capture: nothing of the capture before stays, plan_turn_active
\* included.  handle_plan_command sets that mark and then starts the turn, which
\* resets it: no turn runs with it.
ResetCapture(t, mark) == [turn |-> t, plan |-> FALSE]

\* grant_task_capabilities: /edit and /fix leave task grants before their turn.
LeavesGrants(kind, scope) ==
    IF kind = "edit" /\ scope \in {"none", "once"} THEN "task" ELSE scope

\* Free text or a command that starts a turn.  begin_turn_capture persists the
\* document.
StartLedgerTurn(kind) ==
    /\ Ready /\ asked < MaxInputs
    /\ asked' = asked + 1
    /\ doc' = [doc EXCEPT !.grant = LeavesGrants(kind, @)]
    /\ active' = ResetCapture(asked', kind = "plan" \/ active.plan)
    /\ saved' = Persist(doc')
    /\ queue' = queue \cup {Request("turn", asked')}
    /\ UNCHANGED <<clearing, choosing, asking, autoOn, memory, listed, records, talk, holder, made,
                   typed, late, crossed, grants, sent>>

\* finish_turn: the open pulse, whoever it belongs to, becomes a completed turn.
Finished == IF active.turn = 0 THEN doc.turns ELSE Append(doc.turns, active.turn)

\* An error event in the stream closes the pulse as failed; the turn goes on.
StreamErrorCloses ==
    /\ holder # 0
    /\ doc' = [doc EXCEPT !.turns = Finished] /\ saved' = Persist(doc')
    /\ active' = ResetCapture(0, active.plan) /\ asking' = 0
    /\ UNCHANGED <<clearing, choosing, autoOn, memory, listed, records, talk, holder, queue, made,
                   asked, typed, ghosts>>

\* A tool of the running turn asks for approval.
ToolAsks ==
    /\ holder # 0 /\ asking = 0 /\ typed < MaxSteps
    /\ typed' = typed + 1
    /\ asking' = holder
    /\ UNCHANGED <<doc, active, clearing, choosing, autoOn, memory, listed, saved, records, talk, holder,
                   queue, made, asked, ghosts>>

PlanNote == [kind |-> "plan", of |-> active.turn]
AutoNote(t) == [kind |-> "auto", of |-> t]

\* append_feedback_notes: a pending candidate at the end, learnt from turn t.
Learn(t) == Append(memory, [source |-> "auto", of |-> t, accepted |-> FALSE])

\* maybe_extract_auto_memory: an answer has something to learn or not.
KeepsNote(learns) == learns /\ autoOn

\* commit_completed_turn and then maybe_extract_auto_memory on the open pulse,
\* whoever it belongs to.
Commit(learns) ==
    LET planned == IF active.plan THEN Append(doc.notes, PlanNote) ELSE doc.notes
        closed  == [doc EXCEPT !.turns = Finished, !.notes = planned]
        keeps   == KeepsNote(learns)
        final   == [closed EXCEPT !.notes = IF keeps THEN Append(@, AutoNote(active.turn)) ELSE @]
    IN  /\ doc' = final
        /\ saved' = Persist(final)
        /\ records' = WriteWorkingSet(closed)
        /\ memory' = IF keeps THEN Learn(active.turn) ELSE memory
        /\ active' = ResetCapture(0, active.plan) /\ asking' = 0

\* The same with no pulse open: the document is saved as it is, and the turn it
\* recorded last is learnt from again.
CommitNothing(learns) ==
    LET last == doc.turns[Len(doc.turns)]
    IN  /\ \/ /\ KeepsNote(learns) /\ doc.turns # <<>>
              /\ doc' = [doc EXCEPT !.notes = Append(@, AutoNote(last))]
              /\ memory' = Learn(last)
           \/ ~(KeepsNote(learns) /\ doc.turns # <<>>) /\ UNCHANGED <<doc, memory>>
        /\ saved' = Persist(doc')
        /\ active' = ResetCapture(0, active.plan) /\ asking' = 0
        /\ UNCHANGED records

\* The turn lets go of the conversation and reports its end.
TurnReports(learns) ==
    /\ holder # 0 /\ asking # holder /\ holder' = 0
    /\ \/ active.turn # 0 /\ Commit(learns)
       \/ active.turn = 0 /\ CommitNothing(learns)
    /\ UNCHANGED <<clearing, choosing, autoOn, listed, talk, queue, made, asked, typed, ghosts>>

-----------------------------------------------------------------------------
(* Commands on the task.                                                   *)

\* Leaving a task: the turns that still run or wait are ghosts from now on.
Leave == late' = late \cup (Stragglers \ {0})

NewCommand ==
    /\ Typed /\ made < MaxTasks
    /\ made' = made + 1
    /\ saved' = Persist(doc)
    /\ doc' = NewDoc(made')
    /\ Replace(0) /\ Leave
    /\ UNCHANGED <<screenVars, autoOn, memory, listed, records, holder, asked, grants, sent>>

\* handle_fork_command: the parent is saved, the fork takes over its grants.
ForkCommand ==
    /\ Typed /\ made < MaxTasks
    /\ made' = made + 1
    /\ saved' = Persist(doc)
    /\ doc' = [NewDoc(made') EXCEPT !.grant = doc.grant]
    /\ given' = IF doc.grant = "once" THEN [given EXCEPT ![made'] = @ + 1] ELSE given
    /\ Replace(0) /\ Leave
    /\ UNCHANGED <<screenVars, autoOn, memory, listed, records, holder, asked, used, sent>>

\* seed_next_request_from_working_set: the record, if there is one.
Seed(i) == IF records[i] = NoRecord THEN 0 ELSE i

\* apply_resumed_task: the file becomes the document, the record the seed of the
\* conversation.
Resumed(i) ==
    /\ saved[i] # NoFile
    /\ doc' = saved[i]
    /\ Replace(Seed(i)) /\ Leave
    /\ UNCHANGED <<active, clearing, asking, autoOn, memory, listed, saved, records, holder, made,
                   asked, grants, sent>>

ResumeCommand(i) == Typed /\ Resumed(i) /\ UNCHANGED choosing

\* /resume without an id lists saved tasks; the next input chooses one of them.
ResumeList ==
    /\ Typed
    /\ \E i \in TaskIds : saved[i] # NoFile
    /\ choosing' = TRUE
    /\ UNCHANGED <<doc, active, clearing, asking, autoOn, memory, listed, saved, records, talk, queue,
                   holder, made, asked, ghosts>>

ChooseTask(i) ==
    /\ choosing /\ ~clearing
    /\ choosing' = FALSE
    /\ Resumed(i)
    /\ UNCHANGED typed

\* handle_compact_command: the record is written from the turns, then they go.
\* A record that cannot be written leaves an empty conversation.
CompactCommand(writes) ==
    /\ Typed
    /\ doc' = [doc EXCEPT !.turns = <<>>]
    /\ records' = IF writes THEN WriteWorkingSet(doc) ELSE records
    /\ saved' = Persist(doc')
    /\ Replace(IF writes THEN doc.id ELSE 0)
    /\ UNCHANGED <<screenVars, autoOn, memory, listed, holder, made, asked, late, grants, sent>>

\* /delegate: the facade adds the task to the file, which must be there, and the
\* document takes the tasks of the file over.
DelegateCommand(k) ==
    /\ Typed /\ saved[doc.id] # NoFile
    /\ k \notin saved[doc.id].tasks
    /\ saved' = [saved EXCEPT ![doc.id].tasks = @ \cup {k}]
    /\ doc' = [doc EXCEPT !.tasks = saved'[doc.id].tasks]
    /\ sent' = [sent EXCEPT ![doc.id] = @ \cup {k}]
    /\ UNCHANGED <<screenVars, autoOn, memory, listed, records, talk, queue, holder, made, asked,
                   late, crossed, grants>>

\* record_join_evidence by whoever joins the session tasks of a task.
JoinEvidence(i) ==
    /\ typed < MaxSteps /\ typed' = typed + 1
    /\ saved[i].tasks # {}
    /\ records' = [records EXCEPT ![i].decisions = @ \cup saved[i].tasks]
    /\ UNCHANGED <<doc, screenVars, autoOn, memory, listed, saved, talk, queue, holder, made,
                   asked, ghosts>>

-----------------------------------------------------------------------------
(* Grants.                                                                 *)

AllowCommand(scope) ==
    /\ Typed
    /\ doc' = [doc EXCEPT !.grant = scope]
    /\ given' = IF scope = "once" THEN [given EXCEPT ![doc.id] = @ + 1] ELSE given
    /\ UNCHANGED <<screenVars, autoOn, memory, listed, saved, records, talk, queue, holder, made,
                   asked, late, crossed, used, sent>>

DenyCommand ==
    /\ Typed
    /\ doc' = [doc EXCEPT !.grant = "none"]
    /\ UNCHANGED <<screenVars, autoOn, memory, listed, saved, records, talk, queue, holder, made,
                   asked, ghosts>>

\* handle_bang_command under a grant: a once grant goes before
\* start_command_session, whose begin_turn_capture saves the document.  The
\* command itself is PulseRuntime's.
BangCommand ==
    /\ Ready /\ doc.grant # "none"
    /\ doc' = [doc EXCEPT !.grant = IF @ = "once" THEN "none" ELSE @]
    /\ saved' = Persist(doc')
    /\ used' = IF doc.grant = "once" THEN [used EXCEPT ![doc.id] = @ + 1] ELSE used
    /\ UNCHANGED <<screenVars, autoOn, memory, listed, records, talk, queue, holder, made, asked,
                   typed, late, crossed, given, sent>>

-----------------------------------------------------------------------------
(* Notes.                                                                  *)

Pending(m) == SelectSeq(m, LAMBDA c : ~c.accepted)

\* /memory lists the pending candidates with the numbers /memory accept takes.
MemoryShow ==
    /\ Typed
    /\ listed' = Pending(memory)
    /\ UNCHANGED <<doc, screenVars, autoOn, memory, saved, records, talk, queue, holder, made,
                   asked, ghosts>>

MemoryAdd ==
    /\ Typed
    /\ memory' = Append(memory, [source |-> "user", of |-> typed, accepted |-> TRUE])
    /\ doc' = [doc EXCEPT !.notes = Append(@, [kind |-> "user", of |-> typed])]
    /\ saved' = Persist(doc')
    /\ UNCHANGED <<screenVars, autoOn, listed, records, talk, queue, holder, made, asked, ghosts>>

\* accept_pending by number; it renumbers what is left, so a listing is good for
\* one accept.
MemoryAccept(n) ==
    /\ Typed /\ n \in DOMAIN Pending(memory)
    /\ memory' = LET chosen == Pending(memory)[n]
                 IN  [i \in DOMAIN memory |->
                        IF memory[i] = chosen THEN [chosen EXCEPT !.accepted = TRUE] ELSE memory[i]]
    /\ listed' = <<>>
    /\ UNCHANGED <<doc, screenVars, autoOn, saved, records, talk, queue, holder, made, asked,
                   ghosts>>

\* /memory clear asks first; the next input answers it before anything else.
MemoryClear ==
    /\ Typed
    /\ clearing' = TRUE
    /\ UNCHANGED <<doc, active, choosing, asking, autoOn, memory, listed, saved, records, talk, queue,
                   holder, made, asked, ghosts>>

\* What on_user_input does with a yes or a no: the notes prompt comes before the list
\* of /resume, which a no cancels, and that before the approval of a tool.
AnswerPrompt(yes) ==
    /\ Prompting
    /\ \/ /\ clearing
          /\ clearing' = FALSE
          /\ memory' = IF yes THEN <<>> ELSE memory
          /\ listed' = IF yes THEN <<>> ELSE listed
          /\ doc' = IF yes THEN [doc EXCEPT !.notes = <<>>] ELSE doc
          /\ saved' = IF yes THEN Persist(doc') ELSE saved
          /\ UNCHANGED <<choosing, asking>>
       \/ /\ ~clearing /\ choosing /\ ~yes
          /\ choosing' = FALSE
          /\ UNCHANGED <<clearing, asking, memory, listed, doc, saved>>
       \/ /\ ~clearing /\ ~choosing
          /\ asking' = 0
          /\ saved' = IF yes THEN Persist(doc) ELSE saved
          /\ UNCHANGED <<clearing, choosing, memory, listed, doc>>
    /\ UNCHANGED <<active, autoOn, records, talk, queue, holder, made, asked, typed, ghosts>>

\* /memory auto clear: learnt notes leave the store and the document.
MemoryAutoClear ==
    /\ Typed
    /\ \E i \in DOMAIN memory : memory[i].source = "auto"
    /\ memory' = SelectSeq(memory, LAMBDA c : c.source # "auto")
    /\ listed' = <<>>
    /\ doc' = [doc EXCEPT !.notes = SelectSeq(@, LAMBDA n : n.kind # "auto")]
    /\ saved' = Persist(doc')
    /\ UNCHANGED <<screenVars, autoOn, records, talk, queue, holder, made, asked, ghosts>>

MemoryAuto ==
    /\ Typed
    /\ autoOn' = ~autoOn
    /\ UNCHANGED <<doc, screenVars, memory, listed, saved, records, talk, queue, holder, made,
                   asked, ghosts>>

LedgerNext ==
    \/ Deferred \/ TakeConversation \/ StreamErrorCloses \/ ToolAsks
    \/ \E k \in {"text", "plan", "edit"} : StartLedgerTurn(k)
    \/ \E b \in BOOLEAN : TurnReports(b) \/ CompactCommand(b) \/ AnswerPrompt(b)
    \/ NewCommand \/ ForkCommand \/ ResumeList
    \/ \E i \in TaskIds : ResumeCommand(i) \/ ChooseTask(i) \/ JoinEvidence(i)
    \/ \E k \in {1} : DelegateCommand(k)
    \/ \E s \in {"once", "session"} : AllowCommand(s)
    \/ DenyCommand \/ BangCommand
    \/ MemoryShow \/ MemoryAdd \/ MemoryClear \/ MemoryAutoClear \/ MemoryAuto
    \/ \E n \in 1 .. 2 : MemoryAccept(n)

LedgerSpec == LedgerInit /\ [][LedgerNext]_ledgerVars

-----------------------------------------------------------------------------
Docs == [id: 0 .. MaxTasks, turns: Seq(1 .. MaxInputs),
         notes: Seq([kind: NoteKinds, of: 0 .. MaxInputs + MaxSteps]),
         grant: LedgerScopes, tasks: SUBSET {1}]

LedgerTypeOK ==
    /\ doc \in Docs /\ doc.id # 0
    /\ active \in [turn: 0 .. MaxInputs, plan: BOOLEAN]
    /\ autoOn \in BOOLEAN /\ clearing \in BOOLEAN /\ choosing \in BOOLEAN /\ asking \in 0 .. MaxInputs
    /\ saved \in [TaskIds -> Docs]
    /\ holder \in 0 .. MaxInputs /\ talk.seed \in 0 .. MaxTasks
    /\ made \in TaskIds /\ asked \in 0 .. MaxInputs /\ typed \in 0 .. MaxSteps

\* The task a turn was started in: the file of every task is written before the
\* session leaves it, and a turn is recorded in the document it was started in.
TurnsOf(i) == IF i = doc.id THEN Range(doc.turns) \cup {active.turn} ELSE Range(saved[i].turns)

\* The conversation follows the task: once nothing waits for the conversation, no
\* request of another task is left in it, except of a turn that was still running
\* when the session left its task, and no record of another task seeds it, unless
\* a clear or seed was asked for while an earlier one still waited (either may run last).  /compact
\* removes turns from the document, so only turns another task lists count.
ConversationFollowsTask ==
    queue = {} /\ holder = 0 =>
        /\ \A i \in TaskIds \ {doc.id} : \A t \in Range(talk.messages) \cap TurnsOf(i) :
               t \in late \/ crossed
        /\ talk.seed \in {0, doc.id} \/ crossed

\* A working-set record keeps its objective and never loses the evidence of a join,
\* whatever is compacted, resumed, forked or committed in between.
RecordKept ==
    \A i \in TaskIds :
        /\ records[i].objective # 0 => records'[i].objective = records[i].objective
        /\ records[i].decisions \subseteq records'[i].decisions

\* A grant for one command starts one command, across saving, leaving, resuming and
\* crashing into the saved file.
OnceGrantUsedOnce == \A i \in TaskIds : used[i] <= given[i]

\* A number of the last listing still names the candidate it was shown with: notes
\* learnt since then do not renumber it.
ListingStaysGood ==
    \A n \in DOMAIN listed : n \in DOMAIN Pending(memory) /\ Pending(memory)[n] = listed[n]

\* A session task delegated from this session stays in its parent's file, through
\* every save of the document over that file.
DelegatedTasksKept == \A i \in TaskIds : sent[i] \subseteq saved[i].tasks

\* An answer has one reader: of the notes prompt and the list of /resume one at most is
\* open, and an approval can only come up beside either from a turn that outlived its pulse.
OnePrompt ==
    /\ ~(clearing /\ choosing)
    /\ (clearing \/ choosing) /\ asking # 0 => active.turn = 0 /\ asking \in late \cup {holder}
=============================================================================
