------------------------------ MODULE TaskBridge ------------------------------
(***************************************************************************)
(* How a task document goes to its state file and comes back.  Saving      *)
(* keeps of each completed turn its input, its final text and one outcome  *)
(* per tool call; loading renumbers tool steps that are missing or were    *)
(* handed out twice; restoring builds entries again and works out where    *)
(* new step ids begin.  A session may be resumed any number of times, and  *)
(* the open turn of a session that ends is not saved.                      *)
(*                                                                         *)
(* Abstractions.  A text is a sequence of pieces, so that joining shows;   *)
(* the input of a turn is its number.  Tool names stand for whole calls,   *)
(* numbered in the order they were made; their ids are unique (the         *)
(* transcript merges reused ones, TaskTranscript).  Grants, notes, session *)
(* tasks and the fields copied without change are SessionLedger's.         *)
(***************************************************************************)
EXTENDS Integers, Sequences, FiniteSets, SequencesExt, FiniteSetsExt

CONSTANTS
    AnswersGiven,    \* outcomes the results of tool calls report
    StepBase,        \* distance of the step ids of two restored turns (1000)
    MaxDocTurns,     \* bound: completed turns
    MaxEntries,      \* bound: entries of a turn after its input
    MaxResumes       \* bound: times the file is loaded

ASSUME BridgeAssumption ==
    /\ AnswersGiven \subseteq {"ok", "denied", "cancelled", "error"}
    /\ StepBase \in Nat \ {0} /\ MaxDocTurns \in Nat /\ MaxEntries \in Nat /\ MaxResumes \in Nat

Outcomes == {"ok", "denied", "cancelled", "error", "pending"}
CallStatuses == {"Complete", "Cancelled", "Error", "Pending"}

VARIABLES
    turns,       \* completed_turns, each the sequence of its entries
    open,        \* active_pulse's entries (<<>>: none)
    nextStep,    \* info.next_step_id
    resumes,     \* how often the task was resumed
    told         \* ghost: turn -> its final texts and the outcomes of its calls

bridgeVars == <<turns, open, nextStep, resumes, told>>

StepEntry(k, s) == [kind |-> k, step |-> s, text |-> <<>>, call |-> 0, status |-> "Complete"]
NoTale == [text |-> <<>>, calls |-> <<>>]

BridgeInit ==
    turns = <<>> /\ open = <<>> /\ nextStep = 0 /\ resumes = 0 /\ told = <<>>

-----------------------------------------------------------------------------
(* Saving.                                                                 *)

ExtractFinalText(entries) ==
    LET finals == SelectSeq(entries, LAMBDA e : e.kind = "final")
    IN  FlattenSeq([i \in DOMAIN finals |-> finals[i].text])

\* outcome_from_status, for a call no result came for.
OutcomeFromStatus(st) ==
    CASE st = "Complete"  -> "ok"
      [] st = "Cancelled" -> "cancelled"
      [] st = "Error"     -> "error"
      [] st = "Pending"   -> "pending"

\* extract_tool_invocations: one summary per call, with the outcome of its result
\* or of the status it was left in, sorted by step.
ExtractToolInvocations(entries) ==
    LET results(c) == {e \in Range(entries) : e.kind = "result" /\ e.call = c.call}
        summary(c) == [step |-> c.step, name |-> c.call,
                       outcome |-> IF results(c) = {} THEN OutcomeFromStatus(c.status)
                                   ELSE (CHOOSE r \in results(c) : TRUE).status]
        calls == {e \in Range(entries) : e.kind = "call"}
    IN  SetToSortSeq({summary(c) : c \in calls}, LAMBDA a, b : a.step < b.step)

\* persistable_snapshot
PersistableSnapshot(ts) ==
    [i \in DOMAIN ts |-> [input |-> ts[i][1].text, response |-> ExtractFinalText(ts[i]),
                          calls |-> ExtractToolInvocations(ts[i])]]

-----------------------------------------------------------------------------
(* Loading.                                                                *)

FreeFrom(n, seen) == CHOOSE k \in n .. n + Cardinality(seen) :
                        k \notin seen /\ \A j \in n .. k - 1 : j \in seen

\* normalize_tool_invocation_step_ids: the steps of a turn's calls, after those
\* seen in the turns before; zero and repeated ids get the next free one.
NormalizeTurn(acc, pulse) ==
    LET one(a, c) ==
          LET fresh == c.step # 0 /\ c.step \notin a.seen
              step  == IF fresh THEN c.step ELSE FreeFrom(a.next, a.seen)
          IN  [seen |-> a.seen \cup {step},
               next |-> Max({IF fresh THEN a.next ELSE step, step + 1}),
               calls |-> Append(a.calls, [c EXCEPT !.step = step])]
        done == FoldLeft(one, [acc EXCEPT !.calls = <<>>], pulse.calls)
    IN  [seen |-> done.seen, next |-> done.next, calls |-> <<>>,
         pulses |-> Append(acc.pulses, [pulse EXCEPT !.calls = done.calls])]

NormalizeStepIds(pulses) ==
    FoldLeft(NormalizeTurn, [seen |-> {}, next |-> 1, calls |-> <<>>, pulses |-> <<>>],
             pulses).pulses

\* tool_status_from_outcome
StatusFromOutcome(o) ==
    CASE o = "cancelled"           -> "Cancelled"
      [] o \in {"denied", "error"} -> "Error"
      [] o = "ok"                  -> "Complete"
      [] o = "pending"             -> "Pending"

\* entries_from_evidence: the input, the response and the calls, the last with
\* the step they had unless it is too low for the turn's place.
EntriesFromEvidence(base, ev) ==
    LET start == base * StepBase
        head  == <<[StepEntry("input", start) EXCEPT !.text = ev.input]>>
        said  == IF ev.response = <<>> THEN <<>>
                 ELSE <<[StepEntry("final", start + 1) EXCEPT !.text = ev.response]>>
        call(acc, c) ==
            LET step == Max({c.step, acc.step + 1})
            IN  [step |-> step,
                 entries |-> Append(acc.entries,
                    [StepEntry("call", step) EXCEPT !.call = c.name,
                        !.status = StatusFromOutcome(c.outcome)])]
    IN  FoldLeft(call, [step |-> start + 1, entries |-> head \o said], ev.calls).entries

StepsOf(ts) == UNION {{e.step : e \in Range(ts[i])} : i \in DOMAIN ts}

\* restore_from_snapshot: new ids begin after the largest one restored.
NextStepId(ts) == IF StepsOf(ts) = {} THEN 1 ELSE Max(StepsOf(ts)) + 1

\* restore_from_snapshot
RestoreFromSnapshot(pulses) == [i \in DOMAIN pulses |-> EntriesFromEvidence(i - 1, pulses[i])]

-----------------------------------------------------------------------------
(* The session.                                                            *)

StepSays(kind, text, call, st) ==
    [StepEntry(kind, nextStep) EXCEPT !.text = text, !.call = call, !.status = st]
Put(entry) ==
    /\ Len(open) \in 1 .. MaxEntries
    /\ open' = Append(open, entry)
    /\ nextStep' = nextStep + 1
    /\ UNCHANGED <<turns, resumes, told>>

OpenTurn ==
    /\ open = <<>> /\ Len(turns) < MaxDocTurns
    /\ open' = <<[StepEntry("input", nextStep) EXCEPT !.text = <<Len(turns) + 1>>]>>
    /\ nextStep' = nextStep + 1
    /\ UNCHANGED <<turns, resumes, told>>

MadeCalls == {e.call : e \in {x \in Range(open) : x.kind = "call"}}
Answered == {e.call : e \in {x \in Range(open) : x.kind = "result"}}

PutText(kind) == Put(StepSays(kind, <<Len(open)>>, 0, "Complete"))
PutCall == Put(StepSays("call", <<>>, Cardinality(MadeCalls) + 1, "Pending"))

\* A result entry; the TUI sets the status of the call as well.
PutResult(c, o) ==
    /\ c \in MadeCalls \ Answered
    /\ Put(StepSays("result", <<>>, c, o))

\* A call that failed or was cancelled without a result entry.
SettleCall(c, st) ==
    /\ c \in MadeCalls \ Answered
    /\ open' = [i \in DOMAIN open |->
                   IF open[i].kind = "call" /\ open[i].call = c /\ open[i].status = "Pending"
                   THEN [open[i] EXCEPT !.status = st] ELSE open[i]]
    /\ open' # open
    /\ UNCHANGED <<turns, nextStep, resumes, told>>

\* The turn ends; what a reader of the task is told of it.
CloseTurn ==
    /\ open # <<>>
    /\ turns' = Append(turns, open)
    /\ open' = <<>>
    /\ told' = Append(told, [text |-> ExtractFinalText(open),
                             calls |-> [c \in MadeCalls |->
                                 LET call   == CHOOSE e \in Range(open) : e.kind = "call" /\ e.call = c
                                     answer == {e \in Range(open) : e.kind = "result" /\ e.call = c}
                                 IN  IF answer = {} THEN OutcomeFromStatus(call.status)
                                     ELSE (CHOOSE e \in answer : TRUE).status]])
    /\ UNCHANGED <<nextStep, resumes>>

\* The session ends (the open turn is lost) and the saved task is loaded again.
ResumeTask ==
    /\ resumes < MaxResumes
    /\ resumes' = resumes + 1
    /\ turns' = RestoreFromSnapshot(NormalizeStepIds(PersistableSnapshot(turns)))
    /\ nextStep' = NextStepId(turns')
    /\ open' = <<>>
    /\ UNCHANGED told

BridgeNext ==
    \/ OpenTurn \/ PutCall \/ CloseTurn \/ ResumeTask
    \/ \E k \in {"final", "thinking"} : PutText(k)
    \/ \E c \in 1 .. MaxEntries : \E o \in AnswersGiven : PutResult(c, o)
    \/ \E c \in 1 .. MaxEntries : SettleCall(c, "Cancelled")

-----------------------------------------------------------------------------
BridgeTypeOK ==
    /\ \A i \in DOMAIN turns : turns[i] # <<>> /\ turns[i][1].kind = "input"
    /\ nextStep \in Nat /\ resumes \in 0 .. MaxResumes /\ Len(told) = Len(turns)
    /\ \A e \in Range(open) : e.status \in CallStatuses \cup Outcomes

\* How a reader tells outcomes apart after a restart: a denied call is kept as an
\* error by the second save.
Told(o) == IF o = "denied" THEN "error" ELSE o

\* Resuming loses no finished turn and tells the same of it, however often: the
\* input, whether and what was answered, and every call with its outcome, in the
\* order the calls were made.
HistorySurvivesResume ==
    LET pulses == PersistableSnapshot(turns)
    IN  /\ Len(turns) = Len(told)
        /\ \A i \in DOMAIN turns :
              /\ pulses[i].input = <<i>>
              /\ pulses[i].response = told[i].text
              /\ Len(pulses[i].calls) = Cardinality(DOMAIN told[i].calls)
              /\ \A j \in DOMAIN pulses[i].calls :
                    /\ pulses[i].calls[j].name = j
                    /\ Told(pulses[i].calls[j].outcome) = Told(told[i].calls[j])

\* Step ids name entries: within a turn they grow, and an id handed out next is
\* larger than every id of the document, resumed or not.
StepIdsFresh ==
    /\ \A i \in DOMAIN turns : \A j \in DOMAIN turns[i] :
          /\ turns[i][j].step < nextStep
          /\ j > 1 => turns[i][j - 1].step < turns[i][j].step
    /\ \A j \in DOMAIN open : open[j].step < nextStep
=============================================================================
