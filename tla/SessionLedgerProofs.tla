------------------------- MODULE SessionLedgerProofs -------------------------
(* Theorems about SessionLedger, for any number of tasks, turns, commands    *)
(* and waiting clears and seeds.                                             *)
EXTENDS SessionLedger, SequenceTheorems, TLAPS

-----------------------------------------------------------------------------
(***************************************************************************)
(* The ledger.  The files hold documents under their own ids, and no id    *)
(* beyond those handed out; turns are numbered in the order they start.    *)
(***************************************************************************)
IsDoc(d, n) ==
    /\ d = [id |-> d.id, turns |-> d.turns, notes |-> d.notes, grant |-> d.grant, tasks |-> d.tasks]
    /\ d.turns \in Seq(Nat) /\ Range(d.turns) \subseteq 1 .. n

DocInv == IsDoc(doc, asked) /\ doc.id \in 1 .. made

FilesInv ==
    /\ saved = [i \in TaskIds |-> saved[i]]
    /\ \A i \in TaskIds : IsDoc(saved[i], asked) /\ (saved[i] = NoFile \/ (saved[i].id = i /\ i <= made))

CountsInv ==
    /\ made \in TaskIds /\ asked \in Nat
    /\ active.turn \in 0 .. asked /\ holder \in 0 .. asked
    /\ talk = [messages |-> talk.messages, seed |-> talk.seed] /\ talk.messages \in Seq(Nat)
    /\ \A q \in queue : q.op = "turn" => q.of \in 1 .. asked

RecordsInv ==
    /\ records = [i \in TaskIds |-> records[i]]
    /\ \A i \in TaskIds :
          records[i] = [objective |-> records[i].objective, decisions |-> records[i].decisions,
                        constraints |-> records[i].constraints, results |-> records[i].results]

\* A once grant, in the document or in a file, has not been used yet.
GrantInv ==
    /\ given \in [TaskIds -> Nat] /\ used \in [TaskIds -> Nat]
    /\ \A i \in TaskIds :
          /\ used[i] <= given[i]
          /\ saved[i].grant = "once" \/ (i = doc.id /\ doc.grant = "once") => used[i] < given[i]

\* The document knows every task delegated in its name, so saving it loses none.
SentInv ==
    /\ sent = [i \in TaskIds |-> sent[i]]
    /\ \A i \in TaskIds : sent[i] \subseteq saved[i].tasks
    /\ sent[doc.id] \subseteq doc.tasks

\* The notes prompt and the list of /resume come up with no pulse open and no other
\* prompt, and no pulse opens beside them.
PromptInv ==
    /\ ~(clearing /\ choosing)
    /\ clearing \/ choosing => active.turn = 0 /\ (asking # 0 => asking \in late \cup {holder})

\* A turn that can still write belongs to the task, or is known to be late.
StragglerInv ==
    \A t \in Stragglers \ {0} : \A i \in TaskIds \ {doc.id} : t \in Range(saved[i].turns) => t \in late

Replacing == \E q \in queue : q.op = "replace"

\* At most one replacement waits, and it brings the conversation to this task;
\* when none waits, the conversation is this task's.
TalkInv ==
    ~crossed =>
        /\ \A p, q \in queue : p.op = "replace" /\ q.op = "replace" => p = q
        /\ \A q \in queue : q.op = "replace" => q.of \in {0, doc.id}
        /\ ~Replacing =>
              /\ talk.seed \in {0, doc.id}
              /\ \A i \in TaskIds \ {doc.id} : \A t \in Range(talk.messages) \cap Range(saved[i].turns) :
                    t \in late

LedgerInv ==
    /\ DocInv /\ FilesInv /\ CountsInv /\ RecordsInv /\ GrantInv /\ SentInv
    /\ PromptInv /\ StragglerInv /\ TalkInv

-----------------------------------------------------------------------------
\* What a list holds after an append.
LEMMA AppendedRange ==
    ASSUME NEW s \in Seq(Nat), NEW x \in Nat
    PROVE  Append(s, x) \in Seq(Nat) /\ Range(Append(s, x)) = Range(s) \cup {x}
<1>1. Append(s, x) \in Seq(Nat) /\ Len(Append(s, x)) = Len(s) + 1
  OBVIOUS
<1>2. /\ DOMAIN s = 1 .. Len(s) /\ DOMAIN Append(s, x) = 1 .. Len(s) + 1 /\ Len(s) \in Nat
      /\ \A i \in 1 .. Len(s) : Append(s, x)[i] = s[i]
      /\ Append(s, x)[Len(s) + 1] = x
  OBVIOUS
<1>3. Range(Append(s, x)) = Range(s) \cup {x}
  <2>1. ASSUME NEW y \in Range(Append(s, x)) PROVE y \in Range(s) \cup {x}
    <3>1. PICK i \in 1 .. Len(s) + 1 : y = Append(s, x)[i]
      BY <1>2, <2>1 DEF Range
    <3>. QED  BY <1>2, <3>1 DEF Range
  <2>2. ASSUME NEW y \in Range(s) PROVE y \in Range(Append(s, x))
    <3>1. PICK i \in 1 .. Len(s) : y = s[i]
      BY <1>2, <2>2 DEF Range
    <3>2. i \in DOMAIN Append(s, x) /\ Append(s, x)[i] = y
      BY <1>2, <3>1
    <3>. QED  BY <3>2 DEF Range
  <2>3. x \in Range(Append(s, x))
    BY <1>2 DEF Range
  <2>. QED  BY <2>1, <2>2, <2>3
<1>. QED  BY <1>1, <1>3

\* An empty list holds nothing.
LEMMA EmptyRange == <<>> \in Seq(Nat) /\ Range(<<>>) = {}
  BY DEF Range

\* New documents and the missing file.
LEMMA FreshDocs ==
    /\ \A i, n : IsDoc(NewDoc(i), n) /\ NewDoc(i).id = i /\ NewDoc(i).grant = "none" /\ NewDoc(i).tasks = {}
    /\ \A n : IsDoc(NoFile, n)
    /\ NoFile.id = 0 /\ NoFile.grant = "none" /\ NoFile.tasks = {} /\ NoFile.turns = <<>>
  BY EmptyRange DEF IsDoc, NewDoc, NoFile

\* A document stays one when more turns are started.
LEMMA DocGrows ==
    ASSUME NEW d, NEW m \in Nat, NEW n \in Nat, IsDoc(d, m), m <= n
    PROVE  IsDoc(d, n)
  BY DEF IsDoc

\* A document with other turns and notes.
LEMMA Rewritten ==
    ASSUME NEW d, NEW n, IsDoc(d, n), NEW turns, NEW notes
    PROVE  [d EXCEPT !.turns = turns, !.notes = notes] =
              [id |-> d.id, turns |-> turns, notes |-> notes, grant |-> d.grant, tasks |-> d.tasks]
<1> DEFINE once == [d EXCEPT !.turns = turns]
           both == [once EXCEPT !.notes = notes]
<1>1. once = [id |-> d.id, turns |-> turns, notes |-> d.notes, grant |-> d.grant, tasks |-> d.tasks]
  BY DEF IsDoc
<1> HIDE DEF once
<1>2. both = [id |-> d.id, turns |-> turns, notes |-> notes, grant |-> d.grant, tasks |-> d.tasks]
  BY <1>1
<1>. QED  BY <1>2 DEF once

\* Saving a document changes the file of its task.
LEMMA Persisted ==
    ASSUME FilesInv, NEW d, d.id \in TaskIds
    PROVE  /\ Persist(d) = [i \in TaskIds |-> Persist(d)[i]]
           /\ Persist(d)[d.id] = d
           /\ \A i \in TaskIds \ {d.id} : Persist(d)[i] = saved[i]
  BY DEF FilesInv, Persist

\* At the start there is one empty document and nothing waits.
LEMMA LedgerInitHolds == LedgerInit => LedgerInv
<1> SUFFICES ASSUME LedgerInit PROVE LedgerInv
  OBVIOUS
<1>0. 1 \in TaskIds
  BY LedgerAssumption DEF TaskIds
<1>1. DocInv
  BY FreshDocs DEF LedgerInit, DocInv
<1>2. FilesInv
  BY FreshDocs DEF LedgerInit, FilesInv
<1>3. CountsInv
  BY <1>0, EmptyRange DEF LedgerInit, CountsInv
<1>4. RecordsInv
  BY DEF LedgerInit, RecordsInv, NoRecord
<1>5. GrantInv
  BY FreshDocs DEF LedgerInit, GrantInv
<1>6. SentInv
  BY <1>0, FreshDocs DEF LedgerInit, SentInv
<1>7. PromptInv /\ StragglerInv
  BY DEF LedgerInit, PromptInv, StragglerInv, Stragglers
<1>8. TalkInv
  BY EmptyRange DEF LedgerInit, TalkInv, Replacing
<1>. QED  BY <1>1, <1>2, <1>3, <1>4, <1>5, <1>6, <1>7, <1>8 DEF LedgerInv

-----------------------------------------------------------------------------
(* What a step does to the documents.                                      *)

PapersInv == DocInv /\ FilesInv /\ GrantInv /\ SentInv

\* Neither the document nor the files change.
LEMMA PapersStay ==
    ASSUME LedgerInv, UNCHANGED <<doc, saved, made, asked, given, used, sent>>
    PROVE  PapersInv'
<1>1. DocInv' /\ FilesInv'
  BY DEF LedgerInv, DocInv, FilesInv
<1>2. GrantInv' /\ SentInv'
  BY DEF LedgerInv, GrantInv, SentInv
<1>. QED  BY <1>1, <1>2 DEF PapersInv

\* The document changes and is saved; its grant is not a new one.
LEMMA OwnPaperSaved ==
    ASSUME LedgerInv, UNCHANGED <<made, given, sent>>, asked' \in Nat, asked <= asked',
           IsDoc(doc', asked'), doc'.id = doc.id, doc'.tasks = doc.tasks, saved' = Persist(doc'),
           used' \in [TaskIds -> Nat],
           \A i \in TaskIds \ {doc.id} : used'[i] = used[i],
           \/ used' = used /\ (doc'.grant = "once" => doc.grant = "once")
           \/ used'[doc.id] = used[doc.id] + 1 /\ doc.grant = "once" /\ doc'.grant # "once"
    PROVE  PapersInv' /\ \A i \in TaskIds \ {doc.id} : saved'[i] = saved[i]
<1>1. /\ doc.id \in TaskIds /\ doc.id \in 1 .. made /\ asked \in Nat
  BY LedgerAssumption DEF LedgerInv, DocInv, CountsInv, TaskIds
<1>2. /\ saved' = [i \in TaskIds |-> saved'[i]] /\ saved'[doc.id] = doc'
      /\ \A i \in TaskIds \ {doc.id} : saved'[i] = saved[i]
  BY <1>1, Persisted DEF LedgerInv
<1>3. DocInv'
  BY <1>1 DEF DocInv
<1>4. FilesInv'
  <2> SUFFICES ASSUME NEW i \in TaskIds
               PROVE  IsDoc(saved'[i], asked') /\ (saved'[i] = NoFile \/ (saved'[i].id = i /\ i <= made'))
    BY <1>2 DEF FilesInv
  <2>1. CASE i = doc.id
    BY <1>1, <1>2, <2>1
  <2>2. CASE i # doc.id
    BY <1>1, <1>2, <2>2, DocGrows DEF LedgerInv, FilesInv
  <2>. QED  BY <2>1, <2>2
<1>5. GrantInv'
  <2> SUFFICES ASSUME NEW i \in TaskIds
               PROVE  /\ used'[i] <= given'[i]
                      /\ saved'[i].grant = "once" \/ (i = doc'.id /\ doc'.grant = "once") =>
                            used'[i] < given'[i]
    BY DEF LedgerInv, GrantInv
  <2>1. given[i] \in Nat /\ used[i] \in Nat /\ used'[i] \in Nat
    BY DEF LedgerInv, GrantInv
  <2>2. /\ used[i] <= given[i]
        /\ saved[i].grant = "once" \/ (i = doc.id /\ doc.grant = "once") => used[i] < given[i]
    BY DEF LedgerInv, GrantInv
  <2>3. CASE i = doc.id
    BY <1>2, <2>1, <2>2, <2>3
  <2>4. CASE i # doc.id
    BY <1>2, <2>1, <2>2, <2>4
  <2>. QED  BY <2>3, <2>4
<1>6. SentInv'
  BY <1>1, <1>2 DEF LedgerInv, SentInv
<1>. QED  BY <1>2, <1>3, <1>4, <1>5, <1>6 DEF PapersInv

-----------------------------------------------------------------------------
(* What a step does to the conversation.                                   *)

\* Nothing, and the other tasks' files are as they were.
LEMMA TalkStays ==
    ASSUME LedgerInv, doc'.id = doc.id, \A i \in TaskIds \ {doc.id} : saved'[i] = saved[i],
           UNCHANGED <<talk, holder, queue, late, crossed>>
    PROVE  StragglerInv' /\ TalkInv'
<1>1. StragglerInv'
  BY DEF LedgerInv, StragglerInv, Stragglers
<1>2. TalkInv'
  BY DEF LedgerInv, TalkInv, Replacing
<1>. QED  BY <1>1, <1>2

\* A clear or a seed for the task the session is in from now on.
LEMMA TalkReplaced ==
    ASSUME LedgerInv, NEW i, Replace(i), i \in {0, doc'.id}, UNCHANGED holder
    PROVE  /\ TalkInv' /\ Stragglers' = Stragglers
           /\ talk' = [messages |-> talk'.messages, seed |-> talk'.seed] /\ talk'.messages \in Seq(Nat)
           /\ \A q \in queue' : q.op = "turn" => q.of \in 1 .. asked
<1>1. crossed' = (crossed \/ Replacing)
  BY DEF Replace, Replacing
<1>2. CASE talk' = Emptied(i) /\ UNCHANGED queue
  <2>1. talk'.messages = <<>> /\ talk'.seed = i /\ talk' = [messages |-> <<>>, seed |-> i]
    BY <1>2 DEF Emptied
  <2>2. TalkInv'
    <3> SUFFICES ASSUME ~crossed'
                 PROVE  /\ ~Replacing /\ talk'.seed \in {0, doc'.id} /\ Range(talk'.messages) = {}
      BY <1>2 DEF TalkInv, Replacing
    <3>. QED  BY <1>1, <2>1, EmptyRange
  <2>. QED  BY <1>2, <2>1, <2>2, EmptyRange DEF LedgerInv, CountsInv, Stragglers
<1>3. CASE UNCHANGED talk /\ queue' = queue \cup {Request("replace", i)}
  <2>1. /\ Request("replace", i).op = "replace" /\ Request("replace", i).of = i
    BY DEF Request
  <2>2. \A q \in queue' : q \in queue \/ q = Request("replace", i)
    BY <1>3
  <2>3. TalkInv'
    <3> SUFFICES ASSUME ~crossed'
                 PROVE  /\ \A q \in queue' : q.op = "replace" => q = Request("replace", i)
                        /\ Replacing'
      BY <2>1 DEF TalkInv
    <3>1. ~Replacing
      BY <1>1
    <3>2. Replacing'
      BY <1>3, <2>1 DEF Replacing
    <3>. QED  BY <2>2, <3>1, <3>2 DEF Replacing
  <2>4. {p \in queue' : p.op = "turn"} = {p \in queue : p.op = "turn"}
    BY <1>3, <2>1
  <2>5. Stragglers' = Stragglers
    BY <2>4 DEF Stragglers
  <2>. QED  BY <1>3, <2>1, <2>2, <2>3, <2>5 DEF LedgerInv, CountsInv
<1>. QED  BY <1>2, <1>3 DEF Replace

\* The session leaves its task: whoever can still write is known to be late.
LEMMA TalkLeft ==
    ASSUME LedgerInv, NEW i, Replace(i), i \in {0, doc'.id}, Leave, UNCHANGED holder
    PROVE  StragglerInv'
<1>1. Stragglers' = Stragglers
  BY TalkReplaced
<1>. QED  BY <1>1 DEF Leave, StragglerInv

-----------------------------------------------------------------------------
(* The steps.                                                              *)

\* A clear or seed that waited runs.
LEMMA DeferredKeeps == ASSUME LedgerInv, Deferred PROVE LedgerInv'
<1>1. PICK q \in queue : q.op = "replace" /\ RunReplace(q)
  BY DEF Deferred
<1>2. UNCHANGED <<doc, active, clearing, choosing, asking, saved, records, holder, made, asked, late, crossed,
                  given, used, sent>>
  BY DEF Deferred, screenVars, ghosts, grants
<1>3. queue' = queue \ {q} /\ talk' = [messages |-> <<>>, seed |-> q.of]
  BY <1>1 DEF RunReplace, Emptied
<1>4. talk'.messages = <<>> /\ talk'.seed = q.of
  BY <1>3
<1>5. PapersInv' /\ RecordsInv' /\ PromptInv'
  BY <1>2, PapersStay DEF LedgerInv, RecordsInv, PromptInv
<1>6. CountsInv'
  BY <1>2, <1>3, <1>4, EmptyRange DEF LedgerInv, CountsInv
<1>7. StragglerInv'
  BY <1>2, <1>3 DEF LedgerInv, StragglerInv, Stragglers
<1>8. TalkInv'
  <2>1. \A p \in queue' : p \in queue /\ p # q
    BY <1>3
  <2>. QED  BY <1>1, <1>2, <1>4, <2>1, EmptyRange DEF LedgerInv, TalkInv, Replacing
<1>. QED  BY <1>5, <1>6, <1>7, <1>8 DEF LedgerInv, PapersInv

\* A turn that waited gets the conversation.
LEMMA TakeKeeps == ASSUME LedgerInv, TakeConversation PROVE LedgerInv'
<1>1. PICK q \in queue : /\ q.op = "turn" /\ holder = 0 /\ holder' = q.of /\ queue' = queue \ {q}
                         /\ talk' = [talk EXCEPT !.messages = Append(@, q.of)]
  BY DEF TakeConversation
<1>2. UNCHANGED <<doc, active, clearing, choosing, asking, saved, records, made, asked, late, crossed,
                  given, used, sent>>
  BY DEF TakeConversation, screenVars, ghosts, grants
<1>3. q.of \in 1 .. asked /\ asked \in Nat /\ talk.messages \in Seq(Nat)
  BY <1>1 DEF LedgerInv, CountsInv
<1>4. /\ talk' = [messages |-> Append(talk.messages, q.of), seed |-> talk.seed]
      /\ talk'.messages = Append(talk.messages, q.of) /\ talk'.seed = talk.seed
  BY <1>1 DEF LedgerInv, CountsInv
<1>5. talk'.messages \in Seq(Nat) /\ Range(talk'.messages) = Range(talk.messages) \cup {q.of}
  BY <1>3, <1>4, AppendedRange
<1>6. PapersInv' /\ RecordsInv'
  BY <1>2, PapersStay DEF LedgerInv, RecordsInv
<1>7. PromptInv'
  BY <1>1, <1>2 DEF LedgerInv, PromptInv
<1>8. CountsInv'
  <2>1. holder' \in 0 .. asked /\ talk'.messages \in Seq(Nat)
    BY <1>1, <1>3, <1>5
  <2>2. talk' = [messages |-> talk'.messages, seed |-> talk'.seed]
    BY <1>4
  <2>3. \A p \in queue' : p.op = "turn" => p.of \in 1 .. asked
    BY <1>1 DEF LedgerInv, CountsInv
  <2>. QED  BY <1>2, <2>1, <2>2, <2>3 DEF LedgerInv, CountsInv
<1>9. q.of \in Stragglers /\ Stragglers' \subseteq Stragglers
  BY <1>1 DEF Stragglers
<1>10. StragglerInv'
  BY <1>2, <1>9 DEF LedgerInv, StragglerInv
<1>11. TalkInv'
  <2>1. Replacing' = Replacing /\ \A p \in queue' : p \in queue
    BY <1>1 DEF Replacing
  <2>2. \A i \in TaskIds \ {doc.id} : q.of \in Range(saved[i].turns) => q.of \in late
    BY <1>3, <1>9 DEF LedgerInv, StragglerInv
  <2>. QED  BY <1>2, <1>4, <1>5, <2>1, <2>2 DEF LedgerInv, TalkInv
<1>. QED  BY <1>6, <1>7, <1>8, <1>10, <1>11 DEF LedgerInv, PapersInv

\* A turn starts and its document is saved.
LEMMA StartKeeps == ASSUME LedgerInv, NEW kind, StartLedgerTurn(kind) PROVE LedgerInv'
<1>1. /\ Ready /\ asked' = asked + 1 /\ saved' = Persist(doc')
      /\ doc' = [doc EXCEPT !.grant = LeavesGrants(kind, @)]
      /\ active' = ResetCapture(asked', kind = "plan" \/ active.plan)
      /\ queue' = queue \cup {Request("turn", asked')}
      /\ UNCHANGED <<clearing, choosing, asking, records, talk, holder, made, late, crossed, given, used, sent>>
  BY DEF StartLedgerTurn, grants
<1>2. asked \in Nat /\ asked' \in Nat /\ asked <= asked' /\ active'.turn = asked'
  BY <1>1 DEF LedgerInv, CountsInv, ResetCapture
<1>3. /\ doc'.id = doc.id /\ doc'.tasks = doc.tasks /\ doc'.turns = doc.turns
      /\ doc'.grant = LeavesGrants(kind, doc.grant) /\ IsDoc(doc', asked)
  BY <1>1 DEF LedgerInv, DocInv, IsDoc
<1>4. IsDoc(doc', asked')
  BY <1>2, <1>3, DocGrows
<1>5. doc'.grant = "once" => doc.grant = "once"
  BY <1>3 DEF LeavesGrants
<1>6. PapersInv' /\ \A i \in TaskIds \ {doc.id} : saved'[i] = saved[i]
  BY <1>1, <1>2, <1>3, <1>4, <1>5, OwnPaperSaved DEF LedgerInv, GrantInv
<1>7. Request("turn", asked').op = "turn" /\ Request("turn", asked').of = asked'
  BY DEF Request
<1>8. CountsInv' /\ RecordsInv' /\ PromptInv'
  <2>1. ~clearing' /\ ~choosing'
    BY <1>1 DEF Ready, Prompting
  <2>. QED  BY <1>1, <1>2, <1>7, <2>1 DEF LedgerInv, CountsInv, RecordsInv, PromptInv
<1>9. Stragglers' = Stragglers \cup {asked'}
  <2>1. {p \in queue' : p.op = "turn"} = {p \in queue : p.op = "turn"} \cup {Request("turn", asked')}
    BY <1>1, <1>7
  <2>. QED  BY <1>1, <1>7, <2>1 DEF Stragglers
<1>10. StragglerInv'
  <2>1. \A i \in TaskIds : asked' \notin Range(saved[i].turns)
    BY <1>1, <1>2 DEF LedgerInv, FilesInv, IsDoc
  <2>. QED  BY <1>1, <1>3, <1>6, <1>9, <2>1 DEF LedgerInv, StragglerInv
<1>11. TalkInv'
  <2>1. Replacing' = Replacing /\ \A q \in queue' : q.op = "replace" => q \in queue
    BY <1>1, <1>7 DEF Replacing
  <2>. QED  BY <1>1, <1>3, <1>6, <2>1 DEF LedgerInv, TalkInv
<1>. QED  BY <1>6, <1>8, <1>10, <1>11 DEF LedgerInv, PapersInv

\* The turns of a document whose pulse is finished.
LEMMA FinishedTurns ==
    ASSUME LedgerInv
    PROVE  Finished \in Seq(Nat) /\ Range(Finished) \subseteq 1 .. asked
<1>1. doc.turns \in Seq(Nat) /\ Range(doc.turns) \subseteq 1 .. asked /\ active.turn \in 0 .. asked /\ asked \in Nat
  BY DEF LedgerInv, DocInv, IsDoc, CountsInv
<1>2. CASE active.turn = 0
  BY <1>1, <1>2 DEF Finished
<1>3. CASE active.turn # 0
  <2>1. active.turn \in 1 .. asked
    BY <1>1, <1>3
  <2>. QED  BY <1>1, <1>3, <2>1, AppendedRange DEF Finished
<1>. QED  BY <1>2, <1>3

\* An error closes the pulse, if one is open.
LEMMA ErrorClosesKeeps == ASSUME LedgerInv, StreamErrorCloses PROVE LedgerInv'
<1>1. /\ doc' = [doc EXCEPT !.turns = Finished] /\ saved' = Persist(doc')
      /\ active' = ResetCapture(0, active.plan) /\ asking' = 0
      /\ UNCHANGED <<clearing, choosing, records, talk, holder, queue, made, asked, late, crossed, given, used, sent>>
  BY DEF StreamErrorCloses, ghosts, grants
<1>2. doc' = [id |-> doc.id, turns |-> Finished, notes |-> doc.notes, grant |-> doc.grant, tasks |-> doc.tasks]
  BY <1>1 DEF LedgerInv, DocInv, IsDoc
<1>3. doc'.id = doc.id /\ doc'.tasks = doc.tasks /\ doc'.grant = doc.grant /\ IsDoc(doc', asked)
  BY <1>2, FinishedTurns DEF IsDoc
<1>4. PapersInv' /\ \A i \in TaskIds \ {doc.id} : saved'[i] = saved[i]
  <2>1. asked \in Nat /\ asked <= asked /\ used \in [TaskIds -> Nat]
    BY DEF LedgerInv, GrantInv, CountsInv
  <2>. QED  BY <1>1, <1>3, <2>1, OwnPaperSaved
<1>5. active'.turn = 0
  BY <1>1 DEF ResetCapture
<1>6. CountsInv' /\ RecordsInv' /\ PromptInv'
  BY <1>1, <1>5 DEF LedgerInv, CountsInv, RecordsInv, PromptInv
<1>7. StragglerInv' /\ TalkInv'
  BY <1>1, <1>4, <1>3, TalkStays
<1>. QED  BY <1>4, <1>6, <1>7 DEF LedgerInv, PapersInv

\* A tool asks; beside the notes prompt only a turn without a pulse can.
LEMMA ToolAsksKeeps == ASSUME LedgerInv, ToolAsks PROVE LedgerInv'
<1>1. /\ asking' = holder
      /\ UNCHANGED <<doc, active, clearing, choosing, saved, records, talk, holder, queue, made, asked, late, crossed,
                     given, used, sent>>
  BY DEF ToolAsks, ghosts, grants
<1>2. PapersInv' /\ RecordsInv' /\ CountsInv' /\ PromptInv'
  BY <1>1, PapersStay DEF LedgerInv, RecordsInv, CountsInv, PromptInv
<1>3. StragglerInv' /\ TalkInv'
  BY <1>1, TalkStays
<1>. QED  BY <1>2, <1>3 DEF LedgerInv, PapersInv

\* The record written for a document.
LEMMA RecordWritten ==
    ASSUME RecordsInv, NEW d, d.id \in TaskIds, records' = WriteWorkingSet(d)
    PROVE  RecordsInv' /\ RecordKept
  BY DEF RecordsInv, WriteWorkingSet, RetainDurable, RecordKept

\* The end of a turn with an open pulse is committed.
LEMMA CommitKeeps ==
    ASSUME LedgerInv, NEW learns, Commit(learns), active.turn # 0, holder # 0, asking # holder, holder' = 0,
           UNCHANGED <<clearing, choosing, autoOn, listed, talk, queue, made, asked, typed, ghosts>>
    PROVE  LedgerInv' /\ RecordKept
<1> DEFINE planned == IF active.plan THEN Append(doc.notes, PlanNote) ELSE doc.notes
           turned == Finished
           closed == [doc EXCEPT !.turns = turned, !.notes = planned]
           noted == IF KeepsNote(learns) THEN Append(closed.notes, AutoNote(active.turn)) ELSE closed.notes
           final == [closed EXCEPT !.notes = noted]
<1>1. /\ doc' = final /\ saved' = Persist(final) /\ records' = WriteWorkingSet(closed)
      /\ active' = ResetCapture(0, active.plan) /\ asking' = 0
      /\ UNCHANGED <<late, crossed, given, used, sent>>
  BY DEF Commit, ghosts, grants
<1> HIDE DEF planned, turned, noted
<1>2. /\ active.turn \in 1 .. asked /\ asked \in Nat /\ doc.id \in TaskIds
  BY LedgerAssumption DEF LedgerInv, CountsInv, DocInv, TaskIds
<1>3. closed = [id |-> doc.id, turns |-> turned, notes |-> planned, grant |-> doc.grant, tasks |-> doc.tasks]
  BY Rewritten DEF LedgerInv, DocInv
<1> HIDE DEF closed
<1>4. /\ final = [id |-> doc.id, turns |-> turned, notes |-> noted, grant |-> doc.grant, tasks |-> doc.tasks]
      /\ final.turns = turned /\ final.id = doc.id /\ final.grant = doc.grant
      /\ final.tasks = doc.tasks /\ final.notes = noted /\ closed.id = doc.id
  BY <1>3
<1> HIDE DEF final
<1>5. IsDoc(final, asked)
  <2>1. turned \in Seq(Nat) /\ Range(turned) \subseteq 1 .. asked
    BY FinishedTurns DEF turned
  <2>. QED  BY <1>2, <1>4, <2>1 DEF IsDoc
<1>6. PapersInv' /\ \A i \in TaskIds \ {doc.id} : saved'[i] = saved[i]
  BY <1>1, <1>2, <1>4, <1>5, OwnPaperSaved DEF LedgerInv, GrantInv
<1>7. RecordsInv' /\ RecordKept
  BY <1>1, <1>2, <1>4, RecordWritten DEF LedgerInv
<1>8. active'.turn = 0
  BY <1>1 DEF ResetCapture
<1>9. CountsInv' /\ PromptInv'
  BY <1>1, <1>2, <1>8 DEF LedgerInv, CountsInv, PromptInv
<1>10. Stragglers' \subseteq Stragglers \cup {0}
  BY DEF Stragglers
<1>11. StragglerInv'
  BY <1>1, <1>4, <1>6, <1>10 DEF LedgerInv, StragglerInv
<1>12. TalkInv'
  BY <1>1, <1>4, <1>6 DEF LedgerInv, TalkInv, Replacing
<1>. QED  BY <1>6, <1>7, <1>9, <1>11, <1>12 DEF LedgerInv, PapersInv

\* A step that leaves the records alone keeps them.
LEMMA RecordsStay == ASSUME UNCHANGED records PROVE RecordKept
  BY DEF RecordKept

\* The notes of the document change and it is saved.
LEMMA NotesChange ==
    ASSUME LedgerInv, NEW notes, doc' = [doc EXCEPT !.notes = notes], saved' = Persist(doc'),
           UNCHANGED <<made, asked, given, used, sent>>
    PROVE  /\ PapersInv' /\ doc'.id = doc.id /\ \A i \in TaskIds \ {doc.id} : saved'[i] = saved[i]
<1>1. doc' = [id |-> doc.id, turns |-> doc.turns, notes |-> notes, grant |-> doc.grant, tasks |-> doc.tasks]
  BY DEF LedgerInv, DocInv, IsDoc
<1>2. doc'.id = doc.id /\ doc'.grant = doc.grant /\ doc'.tasks = doc.tasks /\ IsDoc(doc', asked)
  BY <1>1 DEF LedgerInv, DocInv, IsDoc
<1>3. asked \in Nat /\ asked <= asked /\ used \in [TaskIds -> Nat]
  BY DEF LedgerInv, GrantInv, CountsInv
<1>. QED  BY <1>2, <1>3, OwnPaperSaved

\* A turn whose pulse is closed reports its end: only notes change.
LEMMA NothingKeeps ==
    ASSUME LedgerInv, NEW learns, CommitNothing(learns), active.turn = 0, holder # 0, holder' = 0,
           UNCHANGED <<clearing, choosing, autoOn, listed, talk, queue, made, asked, typed, ghosts>>
    PROVE  LedgerInv' /\ RecordKept
<1>1. /\ saved' = Persist(doc') /\ active' = ResetCapture(0, active.plan) /\ asking' = 0 /\ UNCHANGED records
      /\ UNCHANGED <<late, crossed, given, used, sent>>
  BY DEF CommitNothing, ghosts, grants
<1>2. PapersInv' /\ doc'.id = doc.id /\ \A i \in TaskIds \ {doc.id} : saved'[i] = saved[i]
  <2>1. CASE doc' = doc
    BY <1>1, <2>1, OwnPaperSaved DEF LedgerInv, GrantInv, CountsInv, DocInv
  <2>2. CASE \E notes : doc' = [doc EXCEPT !.notes = notes]
    BY <1>1, <2>2, NotesChange
  <2>3. doc' = doc \/ \E notes : doc' = [doc EXCEPT !.notes = notes]
    BY Zenon DEF CommitNothing
  <2>. QED  BY <2>1, <2>2, <2>3
<1>3. active'.turn = 0
  BY <1>1 DEF ResetCapture
<1>4. CountsInv' /\ RecordsInv' /\ PromptInv'
  BY <1>1, <1>3 DEF LedgerInv, CountsInv, RecordsInv, PromptInv
<1>5. Stragglers' \subseteq Stragglers \cup {0}
  BY DEF Stragglers
<1>6. StragglerInv'
  BY <1>1, <1>2, <1>5 DEF LedgerInv, StragglerInv
<1>7. TalkInv'
  BY <1>1, <1>2 DEF LedgerInv, TalkInv, Replacing
<1>. QED  BY <1>1, <1>2, <1>4, <1>6, <1>7, RecordsStay DEF LedgerInv, PapersInv

\* A turn ends, its pulse open or closed.
LEMMA ReportsKeeps == ASSUME LedgerInv, NEW learns, TurnReports(learns) PROVE LedgerInv' /\ RecordKept
<1>1. /\ holder # 0 /\ asking # holder /\ holder' = 0
      /\ UNCHANGED <<clearing, choosing, autoOn, listed, talk, queue, made, asked, typed, ghosts>>
  BY DEF TurnReports
<1>2. CASE active.turn # 0 /\ Commit(learns)
  BY <1>1, <1>2, CommitKeeps
<1>3. CASE active.turn = 0 /\ CommitNothing(learns)
  BY <1>1, <1>3, NothingKeeps
<1>. QED  BY <1>2, <1>3 DEF TurnReports

\* A command that leaves the conversation, the records and the prompts alone.
LEMMA PlainCommand ==
    ASSUME LedgerInv, PapersInv', doc'.id = doc.id,
           \A i \in TaskIds \ {doc.id} : saved'[i] = saved[i],
           UNCHANGED <<active, clearing, choosing, asking, records, talk, queue, holder, made, asked, late, crossed>>
    PROVE  LedgerInv' /\ RecordKept
<1>1. CountsInv' /\ RecordsInv' /\ PromptInv'
  BY DEF LedgerInv, CountsInv, RecordsInv, PromptInv
<1>. QED  BY <1>1, TalkStays, RecordsStay DEF LedgerInv, PapersInv

\* New tasks: the next id, with no file and nothing delegated yet.
LEMMA NextId ==
    ASSUME LedgerInv, made < MaxTasks
    PROVE  /\ made + 1 \in TaskIds /\ made + 1 # doc.id /\ doc.id \in TaskIds
           /\ saved[made + 1] = NoFile /\ sent[made + 1] = {}
<1>1. made \in 1 .. MaxTasks /\ doc.id \in 1 .. made /\ MaxTasks \in Nat
  BY LedgerAssumption DEF LedgerInv, CountsInv, DocInv, TaskIds
<1>2. made + 1 \in TaskIds /\ made + 1 # doc.id /\ doc.id \in TaskIds
  BY <1>1 DEF TaskIds
<1>3. saved[made + 1] = NoFile
  BY <1>1, <1>2 DEF LedgerInv, FilesInv
<1>. QED  BY <1>2, <1>3, FreshDocs DEF LedgerInv, SentInv

\* The document is saved and the next task's begins, with a grant or without.
LEMMA PapersBegin ==
    ASSUME LedgerInv, made < MaxTasks, made' = made + 1, saved' = Persist(doc), UNCHANGED <<asked, used, sent>>,
           IsDoc(doc', asked), doc'.id = made', doc'.tasks = {},
           \/ given' = given /\ doc'.grant # "once"
           \/ given' = [given EXCEPT ![made'] = @ + 1]
    PROVE  PapersInv'
<1>1. /\ made' \in TaskIds /\ made' # doc.id /\ doc.id \in TaskIds /\ doc.id \in 1 .. made /\ made \in Nat
      /\ saved[made'] = NoFile /\ sent[made'] = {}
  BY NextId DEF LedgerInv, DocInv, CountsInv, TaskIds
<1>2. /\ saved' = [i \in TaskIds |-> saved'[i]] /\ saved'[doc.id] = doc
      /\ \A i \in TaskIds \ {doc.id} : saved'[i] = saved[i]
  BY <1>1, Persisted DEF LedgerInv
<1>3. DocInv'
  BY <1>1 DEF DocInv
<1>4. FilesInv'
  <2> SUFFICES ASSUME NEW i \in TaskIds
               PROVE  IsDoc(saved'[i], asked') /\ (saved'[i] = NoFile \/ (saved'[i].id = i /\ i <= made'))
    BY <1>2 DEF FilesInv
  <2>1. CASE i = doc.id
    BY <1>1, <1>2, <2>1 DEF LedgerInv, DocInv
  <2>2. CASE i # doc.id
    <3>1. i \in Int
      BY DEF TaskIds
    <3>. QED  BY <1>1, <1>2, <2>2, <3>1 DEF LedgerInv, FilesInv
  <2>. QED  BY <2>1, <2>2
<1>5. GrantInv'
  <2>1. given' \in [TaskIds -> Nat] /\ \A i \in TaskIds \ {made'} : given'[i] = given[i]
    BY <1>1 DEF LedgerInv, GrantInv
  <2>2. \/ given'[made'] = given[made'] /\ doc'.grant # "once"
        \/ given'[made'] = given[made'] + 1
    BY <1>1 DEF LedgerInv, GrantInv
  <2> SUFFICES ASSUME NEW i \in TaskIds
               PROVE  /\ used'[i] <= given'[i]
                      /\ saved'[i].grant = "once" \/ (i = doc'.id /\ doc'.grant = "once") =>
                            used'[i] < given'[i]
    BY <2>1 DEF LedgerInv, GrantInv
  <2>3. /\ given[i] \in Nat /\ used[i] \in Nat /\ used[i] <= given[i] /\ used' = used
        /\ saved[i].grant = "once" \/ (i = doc.id /\ doc.grant = "once") => used[i] < given[i]
    BY DEF LedgerInv, GrantInv
  <2>4. CASE i = made'
    BY <1>1, <1>2, <2>2, <2>3, <2>4, FreshDocs
  <2>5. CASE i # made'
    BY <1>1, <1>2, <2>1, <2>3, <2>5
  <2>. QED  BY <2>4, <2>5
<1>6. SentInv'
  BY <1>1, <1>2 DEF LedgerInv, SentInv
<1>. QED  BY <1>3, <1>4, <1>5, <1>6 DEF PapersInv

\* The session leaves for another task.
LEMMA LeavingKeeps ==
    ASSUME LedgerInv, PapersInv', NEW i, Replace(i), i \in {0, doc'.id}, Leave, made' \in TaskIds,
           choosing' => choosing, UNCHANGED <<active, clearing, asking, records, holder, asked>>
    PROVE  LedgerInv' /\ RecordKept
<1>1. TalkInv' /\ StragglerInv'
  BY TalkReplaced, TalkLeft
<1>2. CountsInv'
  BY TalkReplaced DEF LedgerInv, CountsInv
<1>3. RecordsInv'
  BY DEF LedgerInv, RecordsInv
<1>4. PromptInv'
  BY DEF LedgerInv, PromptInv, Leave
<1>. QED  BY <1>1, <1>2, <1>3, <1>4, RecordsStay DEF LedgerInv, PapersInv

\* /new.
LEMMA NewKeeps == ASSUME LedgerInv, NewCommand PROVE LedgerInv' /\ RecordKept
<1>1. /\ made < MaxTasks /\ made' = made + 1 /\ saved' = Persist(doc) /\ doc' = NewDoc(made')
      /\ Replace(0) /\ Leave
      /\ UNCHANGED <<active, clearing, choosing, asking, records, holder, asked, given, used, sent>>
  BY DEF NewCommand, screenVars, grants
<1>2. IsDoc(doc', asked) /\ doc'.id = made' /\ doc'.tasks = {} /\ doc'.grant # "once"
  BY <1>1, FreshDocs
<1>3. PapersInv'
  BY <1>1, <1>2, PapersBegin
<1>4. made' \in TaskIds
  BY <1>1, NextId
<1>. QED  BY <1>1, <1>3, <1>4, LeavingKeeps

\* /fork: a once grant of the parent is given to the fork as well.
LEMMA ForkKeeps == ASSUME LedgerInv, ForkCommand PROVE LedgerInv' /\ RecordKept
<1>1. /\ made < MaxTasks /\ made' = made + 1 /\ saved' = Persist(doc)
      /\ doc' = [NewDoc(made') EXCEPT !.grant = doc.grant]
      /\ given' = IF doc.grant = "once" THEN [given EXCEPT ![made'] = @ + 1] ELSE given
      /\ Replace(0) /\ Leave
      /\ UNCHANGED <<active, clearing, choosing, asking, records, holder, asked, used, sent>>
  BY DEF ForkCommand, screenVars
<1>2. doc' = [id |-> made', turns |-> <<>>, notes |-> <<>>, grant |-> doc.grant, tasks |-> {}]
  BY <1>1 DEF NewDoc
<1>3. IsDoc(doc', asked) /\ doc'.id = made' /\ doc'.tasks = {} /\ doc'.grant = doc.grant
  BY <1>2, EmptyRange DEF IsDoc
<1>4. PapersInv'
  BY <1>1, <1>3, PapersBegin
<1>5. made' \in TaskIds
  BY <1>1, NextId
<1>. QED  BY <1>1, <1>4, <1>5, LeavingKeeps

\* /resume, with an id or by the number of a list: the file is the document.
LEMMA ResumeKeeps ==
    ASSUME LedgerInv, NEW i \in TaskIds, Resumed(i), choosing' => choosing
    PROVE  LedgerInv' /\ RecordKept
<1>1. /\ saved[i] # NoFile /\ doc' = saved[i] /\ Replace(Seed(i)) /\ Leave
      /\ UNCHANGED <<active, clearing, asking, saved, records, holder, made, asked, given, used, sent>>
  BY DEF Resumed, grants
<1>2. doc'.id = i /\ i <= made /\ IsDoc(doc', asked) /\ made \in TaskIds
  BY <1>1 DEF LedgerInv, FilesInv, CountsInv
<1>3. DocInv' /\ FilesInv'
  BY <1>1, <1>2 DEF LedgerInv, DocInv, FilesInv, TaskIds
<1>4. GrantInv' /\ SentInv'
  BY <1>1, <1>2 DEF LedgerInv, GrantInv, SentInv
<1>5. PapersInv' /\ Seed(i) \in {0, doc'.id} /\ made' \in TaskIds
  BY <1>1, <1>2, <1>3, <1>4 DEF PapersInv, Seed
<1>. QED  BY <1>1, <1>5, LeavingKeeps

\* /compact.
LEMMA CompactKeeps == ASSUME LedgerInv, NEW writes, CompactCommand(writes) PROVE LedgerInv' /\ RecordKept
<1>1. /\ doc' = [doc EXCEPT !.turns = <<>>] /\ saved' = Persist(doc')
      /\ records' = IF writes THEN WriteWorkingSet(doc) ELSE records
      /\ Replace(IF writes THEN doc.id ELSE 0)
      /\ UNCHANGED <<active, clearing, choosing, asking, holder, made, asked, late, given, used, sent>>
  BY DEF CompactCommand, screenVars, grants
<1>2. doc' = [id |-> doc.id, turns |-> <<>>, notes |-> doc.notes, grant |-> doc.grant, tasks |-> doc.tasks]
  BY <1>1 DEF LedgerInv, DocInv, IsDoc
<1>3. /\ doc'.id = doc.id /\ doc'.tasks = doc.tasks /\ doc'.grant = doc.grant /\ IsDoc(doc', asked)
  BY <1>2, EmptyRange DEF IsDoc
<1>4. PapersInv' /\ \A i \in TaskIds \ {doc.id} : saved'[i] = saved[i]
  <2>1. asked \in Nat /\ asked <= asked /\ used \in [TaskIds -> Nat]
    BY DEF LedgerInv, GrantInv, CountsInv
  <2>. QED  BY <1>1, <1>3, <2>1, OwnPaperSaved
<1>5. RecordsInv' /\ RecordKept
  <2>1. doc.id \in TaskIds
    BY LedgerAssumption DEF LedgerInv, DocInv, CountsInv, TaskIds
  <2>2. CASE writes
    BY <1>1, <2>1, <2>2, RecordWritten DEF LedgerInv
  <2>3. CASE ~writes
    BY <1>1, <2>3, RecordsStay DEF LedgerInv, RecordsInv
  <2>. QED  BY <2>2, <2>3
<1>6. PICK r \in {0, doc'.id} : Replace(r)
  BY <1>1, <1>3
<1>7. TalkInv' /\ Stragglers' = Stragglers /\ CountsInv' /\ PromptInv'
  BY <1>1, <1>6, TalkReplaced DEF LedgerInv, CountsInv, PromptInv
<1>8. StragglerInv'
  BY <1>1, <1>3, <1>4, <1>7 DEF LedgerInv, StragglerInv
<1>. QED  BY <1>4, <1>5, <1>7, <1>8 DEF LedgerInv, PapersInv

\* /delegate: the file and the document gain the task together.
LEMMA DelegateKeeps == ASSUME LedgerInv, NEW k, DelegateCommand(k) PROVE LedgerInv' /\ RecordKept
<1>1. /\ saved[doc.id] # NoFile
      /\ saved' = [saved EXCEPT ![doc.id].tasks = @ \cup {k}]
      /\ doc' = [doc EXCEPT !.tasks = saved'[doc.id].tasks]
      /\ sent' = [sent EXCEPT ![doc.id] = @ \cup {k}]
      /\ UNCHANGED <<active, clearing, choosing, asking, records, talk, queue, holder, made, asked, late, crossed,
                     given, used>>
  BY DEF DelegateCommand, screenVars, grants
<1> DEFINE file == saved[doc.id]
           kept == [file EXCEPT !.tasks = @ \cup {k}]
<1>2. doc.id \in TaskIds /\ IsDoc(file, asked) /\ IsDoc(doc, asked) /\ file.id = doc.id
  BY <1>1, LedgerAssumption DEF LedgerInv, DocInv, CountsInv, FilesInv, TaskIds
<1>3. /\ kept = [id |-> file.id, turns |-> file.turns, notes |-> file.notes, grant |-> file.grant,
                 tasks |-> file.tasks \cup {k}]
  <2> DEFINE more == file.tasks \cup {k}
  <2>1. kept = [file EXCEPT !.tasks = more]
    OBVIOUS
  <2> HIDE DEF file, kept, more
  <2>2. kept = [id |-> file.id, turns |-> file.turns, notes |-> file.notes, grant |-> file.grant, tasks |-> more]
    BY <1>2, <2>1 DEF IsDoc
  <2>. QED  BY <2>2 DEF more
<1>4. /\ saved' = [i \in TaskIds |-> saved'[i]] /\ saved'[doc.id] = kept
      /\ \A i \in TaskIds \ {doc.id} : saved'[i] = saved[i]
  BY <1>1, <1>2 DEF LedgerInv, FilesInv
<1> HIDE DEF kept
<1>5. /\ kept.id = doc.id /\ kept.turns = file.turns /\ kept.grant = file.grant
      /\ kept.tasks = file.tasks \cup {k} /\ IsDoc(kept, asked)
  BY <1>2, <1>3 DEF IsDoc
<1>6. /\ doc' = [id |-> doc.id, turns |-> doc.turns, notes |-> doc.notes, grant |-> doc.grant,
                 tasks |-> kept.tasks]
  BY <1>1, <1>2, <1>4 DEF IsDoc
<1>7. /\ doc'.id = doc.id /\ doc'.grant = doc.grant /\ doc'.tasks = kept.tasks /\ IsDoc(doc', asked)
  BY <1>2, <1>6 DEF IsDoc
<1>8. DocInv' /\ FilesInv'
  BY <1>1, <1>2, <1>4, <1>5, <1>7 DEF LedgerInv, DocInv, FilesInv
<1>9. GrantInv'
  <2>1. \A i \in TaskIds : saved'[i].grant = saved[i].grant
    BY <1>4, <1>5
  <2>. QED  BY <1>1, <1>7, <2>1 DEF LedgerInv, GrantInv
<1>10. SentInv'
  <2>1. /\ sent' = [i \in TaskIds |-> sent'[i]] /\ sent'[doc.id] = sent[doc.id] \cup {k}
        /\ \A i \in TaskIds \ {doc.id} : sent'[i] = sent[i]
    BY <1>1, <1>2 DEF LedgerInv, SentInv
  <2>2. sent[doc.id] \subseteq file.tasks /\ \A i \in TaskIds : sent[i] \subseteq saved[i].tasks
    BY <1>2 DEF LedgerInv, SentInv
  <2> HIDE DEF file
  <2>3. sent'[doc.id] \subseteq kept.tasks
    BY <1>5, <2>1, <2>2
  <2>4. \A i \in TaskIds : sent'[i] \subseteq saved'[i].tasks
    BY <1>4, <2>1, <2>2, <2>3
  <2>. QED  BY <1>7, <2>1, <2>3, <2>4 DEF SentInv
<1>. QED  BY <1>1, <1>4, <1>7, <1>8, <1>9, <1>10, PlainCommand DEF PapersInv

\* Evidence of a join is added to the record.
LEMMA JoinKeeps == ASSUME LedgerInv, NEW i \in TaskIds, JoinEvidence(i) PROVE LedgerInv' /\ RecordKept
<1>1. /\ records' = [records EXCEPT ![i].decisions = @ \cup saved[i].tasks]
      /\ UNCHANGED <<doc, active, clearing, choosing, asking, saved, talk, queue, holder, made, asked, late, crossed,
                     given, used, sent>>
  BY DEF JoinEvidence, screenVars, ghosts, grants
<1>2. RecordsInv' /\ RecordKept
  <2> DEFINE more == records[i].decisions \cup saved[i].tasks
  <2>1. /\ records = [j \in TaskIds |-> records[j]]
        /\ records[i] = [objective |-> records[i].objective, decisions |-> records[i].decisions,
                         constraints |-> records[i].constraints, results |-> records[i].results]
    BY DEF LedgerInv, RecordsInv
  <2>2. /\ records' = [j \in TaskIds |-> records'[j]]
        /\ records'[i] = [records[i] EXCEPT !.decisions = more]
        /\ \A j \in TaskIds \ {i} : records'[j] = records[j]
    BY <1>1, <2>1
  <2>3. records[i].decisions \subseteq more
    OBVIOUS
  <2> HIDE DEF more
  <2>4. records'[i] = [objective |-> records[i].objective, decisions |-> more,
                       constraints |-> records[i].constraints, results |-> records[i].results]
    BY <2>1, <2>2
  <2>5. RecordKept
    BY <2>2, <2>3, <2>4 DEF RecordKept
  <2>. QED  BY <2>2, <2>4, <2>5 DEF LedgerInv, RecordsInv
<1>3. PapersInv' /\ CountsInv' /\ PromptInv'
  BY <1>1, PapersStay DEF LedgerInv, CountsInv, PromptInv
<1>4. StragglerInv' /\ TalkInv'
  BY <1>1, TalkStays
<1>. QED  BY <1>2, <1>3, <1>4 DEF LedgerInv, PapersInv

\* The grant of the document changes and is not saved.
LEMMA GrantChanges ==
    ASSUME LedgerInv, NEW g, doc' = [doc EXCEPT !.grant = g],
           UNCHANGED <<active, clearing, choosing, asking, saved, records, talk, queue, holder, made, asked, late, crossed,
                       used, sent>>,
           \/ g # "once" /\ given' = given
           \/ given' = [given EXCEPT ![doc.id] = @ + 1]
    PROVE  LedgerInv' /\ RecordKept
<1>1. doc' = [id |-> doc.id, turns |-> doc.turns, notes |-> doc.notes, grant |-> g, tasks |-> doc.tasks]
  BY DEF LedgerInv, DocInv, IsDoc
<1>2. doc'.id = doc.id /\ doc'.grant = g /\ doc'.tasks = doc.tasks /\ IsDoc(doc', asked)
  BY <1>1 DEF LedgerInv, DocInv, IsDoc
<1>3. DocInv' /\ FilesInv' /\ SentInv'
  BY <1>2 DEF LedgerInv, DocInv, FilesInv, SentInv
<1>4. GrantInv'
  <2>1. doc.id \in TaskIds
    BY LedgerAssumption DEF LedgerInv, DocInv, CountsInv, TaskIds
  <2>2. /\ given' \in [TaskIds -> Nat] /\ \A i \in TaskIds \ {doc.id} : given'[i] = given[i]
        /\ given'[doc.id] = given[doc.id] + 1 \/ (given'[doc.id] = given[doc.id] /\ g # "once")
    BY <2>1 DEF LedgerInv, GrantInv
  <2> SUFFICES ASSUME NEW i \in TaskIds
               PROVE  /\ used'[i] <= given'[i]
                      /\ saved'[i].grant = "once" \/ (i = doc'.id /\ doc'.grant = "once") =>
                            used'[i] < given'[i]
    BY <2>2 DEF LedgerInv, GrantInv
  <2>3. /\ given[i] \in Nat /\ used[i] \in Nat /\ used[i] <= given[i]
        /\ saved[i].grant = "once" \/ (i = doc.id /\ doc.grant = "once") => used[i] < given[i]
    BY DEF LedgerInv, GrantInv
  <2>4. CASE i = doc.id
    BY <1>2, <2>2, <2>3, <2>4
  <2>5. CASE i # doc.id
    BY <1>2, <2>2, <2>3, <2>5
  <2>. QED  BY <2>4, <2>5
<1>. QED  BY <1>2, <1>3, <1>4, PlainCommand DEF PapersInv

\* /allow.
LEMMA AllowKeeps == ASSUME LedgerInv, NEW scope, AllowCommand(scope) PROVE LedgerInv' /\ RecordKept
<1>1. /\ doc' = [doc EXCEPT !.grant = scope]
      /\ given' = IF scope = "once" THEN [given EXCEPT ![doc.id] = @ + 1] ELSE given
      /\ UNCHANGED <<active, clearing, choosing, asking, saved, records, talk, queue, holder, made, asked, late, crossed,
                     used, sent>>
  BY DEF AllowCommand, screenVars
<1>. QED  BY <1>1, GrantChanges

\* /deny.
LEMMA DenyKeeps == ASSUME LedgerInv, DenyCommand PROVE LedgerInv' /\ RecordKept
<1>1. /\ doc' = [doc EXCEPT !.grant = "none"]
      /\ UNCHANGED <<active, clearing, choosing, asking, saved, records, talk, queue, holder, made, asked, late, crossed,
                     given, used, sent>>
  BY DEF DenyCommand, screenVars, ghosts, grants
<1>. QED  BY <1>1, GrantChanges

\* A command uses the once grant, in the document and the file at once.
LEMMA BangKeeps == ASSUME LedgerInv, BangCommand PROVE LedgerInv' /\ RecordKept
<1>1. /\ doc' = [doc EXCEPT !.grant = IF @ = "once" THEN "none" ELSE @] /\ saved' = Persist(doc')
      /\ used' = IF doc.grant = "once" THEN [used EXCEPT ![doc.id] = @ + 1] ELSE used
      /\ UNCHANGED <<active, clearing, choosing, asking, records, talk, queue, holder, made, asked, late, crossed,
                     given, sent>>
  BY DEF BangCommand, screenVars
<1> DEFINE g == IF doc.grant = "once" THEN "none" ELSE doc.grant
<1>2. doc' = [id |-> doc.id, turns |-> doc.turns, notes |-> doc.notes, grant |-> g, tasks |-> doc.tasks]
  BY <1>1 DEF LedgerInv, DocInv, IsDoc
<1>3. doc'.id = doc.id /\ doc'.grant = g /\ doc'.tasks = doc.tasks /\ IsDoc(doc', asked) /\ g # "once"
  BY <1>2 DEF LedgerInv, DocInv, IsDoc
<1>4. doc.id \in TaskIds /\ used \in [TaskIds -> Nat] /\ asked \in Nat
  BY LedgerAssumption DEF LedgerInv, DocInv, CountsInv, TaskIds, GrantInv
<1>5. /\ used' \in [TaskIds -> Nat] /\ \A i \in TaskIds \ {doc.id} : used'[i] = used[i]
      /\ used' = used \/ (used'[doc.id] = used[doc.id] + 1 /\ doc.grant = "once")
  BY <1>1, <1>4
<1>6. PapersInv' /\ \A i \in TaskIds \ {doc.id} : saved'[i] = saved[i]
  BY <1>1, <1>3, <1>4, <1>5, OwnPaperSaved
<1>. QED  BY <1>1, <1>3, <1>6, PlainCommand

\* Commands on the notes that leave the document alone.
LEMMA NoteCommandKeeps ==
    ASSUME LedgerInv, UNCHANGED <<doc, active, asking, saved, records, talk, queue, holder, made, asked,
                                  late, crossed, given, used, sent>>,
           \/ UNCHANGED <<clearing, choosing>>
           \/ ~(clearing' /\ choosing') /\ asking = 0 /\ active.turn = 0
    PROVE  LedgerInv' /\ RecordKept
<1>1. PapersInv' /\ CountsInv' /\ RecordsInv'
  BY PapersStay DEF LedgerInv, CountsInv, RecordsInv
<1>2. StragglerInv' /\ TalkInv'
  BY TalkStays
<1>3. PromptInv'
  BY DEF LedgerInv, PromptInv
<1>. QED  BY <1>1, <1>2, <1>3, RecordsStay DEF LedgerInv, PapersInv

\* The /memory commands, and the list of /resume.
LEMMA NotesKeep ==
    ASSUME LedgerInv,
           \/ MemoryShow \/ MemoryAdd \/ MemoryClear \/ MemoryAutoClear \/ MemoryAuto \/ ResumeList
           \/ \E n \in 1 .. 2 : MemoryAccept(n)
    PROVE  LedgerInv' /\ RecordKept
<1>1. CASE MemoryShow \/ MemoryAuto \/ \E n \in 1 .. 2 : MemoryAccept(n)
  <2>1. UNCHANGED <<doc, active, clearing, choosing, asking, saved, records, talk, queue, holder, made, asked,
                    late, crossed, given, used, sent>>
    BY <1>1 DEF MemoryShow, MemoryAuto, MemoryAccept, screenVars, ghosts, grants
  <2>. QED  BY <2>1, NoteCommandKeeps
<1>2. CASE MemoryClear \/ ResumeList
  <2>1. UNCHANGED <<doc, active, asking, saved, records, talk, queue, holder, made, asked,
                    late, crossed, given, used, sent>>
    BY <1>2 DEF MemoryClear, ResumeList, ghosts, grants
  <2>2. asking = 0 /\ active.turn = 0 /\ ~(clearing' /\ choosing')
    BY <1>2 DEF MemoryClear, ResumeList, Typed, Ready, Prompting
  <2>. QED  BY <2>1, <2>2, NoteCommandKeeps
<1>3. CASE MemoryAdd \/ MemoryAutoClear
  <2>1. /\ saved' = Persist(doc') /\ \E notes : doc' = [doc EXCEPT !.notes = notes]
        /\ UNCHANGED <<active, clearing, choosing, asking, records, talk, queue, holder, made, asked, late, crossed,
                       given, used, sent>>
    <3>1. CASE MemoryAdd
      <4>1. doc' = [doc EXCEPT !.notes = Append(@, [kind |-> "user", of |-> typed])]
        BY <3>1 DEF MemoryAdd
      <4>2. \E notes : doc' = [doc EXCEPT !.notes = notes]
        BY <4>1, Zenon
      <4>. QED  BY <3>1, <4>2 DEF MemoryAdd, screenVars, ghosts, grants
    <3>2. CASE MemoryAutoClear
      <4>1. doc' = [doc EXCEPT !.notes = SelectSeq(@, LAMBDA n : n.kind # "auto")]
        BY <3>2, Zenon DEF MemoryAutoClear
      <4>2. \E notes : doc' = [doc EXCEPT !.notes = notes]
        BY <4>1, Zenon
      <4>3. /\ saved' = Persist(doc')
            /\ UNCHANGED <<screenVars, autoOn, records, talk, queue, holder, made, asked, ghosts>>
        BY <3>2, Zenon DEF MemoryAutoClear
      <4>. QED  BY <4>2, <4>3 DEF screenVars, ghosts, grants
    <3>. QED  BY <1>3, <3>1, <3>2
  <2>2. PICK notes : doc' = [doc EXCEPT !.notes = notes]
    BY <2>1
  <2>. QED  BY <2>1, <2>2, NotesChange, PlainCommand
<1>. QED  BY <1>1, <1>2, <1>3

\* A yes or a no.
LEMMA AnswerKeeps == ASSUME LedgerInv, NEW yes, AnswerPrompt(yes) PROVE LedgerInv' /\ RecordKept
<1>1. UNCHANGED <<active, records, talk, queue, holder, made, asked, late, crossed, given, used, sent>>
  BY DEF AnswerPrompt, ghosts, grants
<1>2. PapersInv' /\ doc'.id = doc.id /\ \A i \in TaskIds \ {doc.id} : saved'[i] = saved[i]
  <2>1. CASE doc' = [doc EXCEPT !.notes = <<>>] /\ saved' = Persist(doc')
    BY <1>1, <2>1, NotesChange
  <2>2. CASE doc' = doc /\ saved' = Persist(doc')
    BY <1>1, <2>2, OwnPaperSaved DEF LedgerInv, GrantInv, CountsInv, DocInv
  <2>3. CASE doc' = doc /\ saved' = saved
    BY <1>1, <2>3, PapersStay
  <2>. QED  BY <2>1, <2>2, <2>3 DEF AnswerPrompt
<1>3. PromptInv'
  BY <1>1 DEF AnswerPrompt, LedgerInv, PromptInv
<1>4. CountsInv' /\ RecordsInv'
  BY <1>1 DEF LedgerInv, CountsInv, RecordsInv
<1>5. StragglerInv' /\ TalkInv'
  BY <1>1, <1>2, TalkStays
<1>. QED  BY <1>1, <1>2, <1>3, <1>4, <1>5, RecordsStay DEF LedgerInv, PapersInv

\* Every step keeps the invariant and what the records must keep.
LEMMA LedgerStep == ASSUME LedgerInv, LedgerNext PROVE LedgerInv' /\ RecordKept
<1>1. CASE Deferred \/ TakeConversation \/ StreamErrorCloses \/ ToolAsks \/ \E k \in {"text", "plan", "edit"} : StartLedgerTurn(k)
  <2>1. UNCHANGED records
    BY <1>1 DEF Deferred, TakeConversation, StreamErrorCloses, ToolAsks, StartLedgerTurn
  <2>. QED  BY <1>1, <2>1, DeferredKeeps, TakeKeeps, ErrorClosesKeeps, ToolAsksKeeps, StartKeeps, RecordsStay
<1>2. CASE \E b \in BOOLEAN : TurnReports(b) \/ CompactCommand(b) \/ AnswerPrompt(b)
  BY <1>2, ReportsKeeps, CompactKeeps, AnswerKeeps
<1>3. CASE NewCommand \/ ForkCommand
  BY <1>3, NewKeeps, ForkKeeps
<1>4. CASE \E i \in TaskIds : ResumeCommand(i) \/ ChooseTask(i) \/ JoinEvidence(i)
  BY <1>4, ResumeKeeps, JoinKeeps DEF ResumeCommand, ChooseTask
<1>5. CASE (\E k \in {1} : DelegateCommand(k)) \/ (\E s \in {"once", "session"} : AllowCommand(s))
  BY <1>5, DelegateKeeps, AllowKeeps
<1>6. CASE DenyCommand \/ BangCommand
  BY <1>6, DenyKeeps, BangKeeps
<1>7. CASE \/ MemoryShow \/ MemoryAdd \/ MemoryClear \/ MemoryAutoClear \/ MemoryAuto \/ ResumeList
           \/ \E n \in 1 .. 2 : MemoryAccept(n)
  BY <1>7, NotesKeep
<1>. QED  BY <1>1, <1>2, <1>3, <1>4, <1>5, <1>6, <1>7 DEF LedgerNext

\* Nothing changes.
LEMMA LedgerStutter == ASSUME LedgerInv, UNCHANGED ledgerVars PROVE LedgerInv' /\ RecordKept
<1>1. UNCHANGED <<doc, active, clearing, choosing, asking, saved, records, talk, queue, holder, made, asked,
                  late, crossed, given, used, sent>>
  BY DEF ledgerVars
<1>. QED  BY <1>1, NoteCommandKeeps

-----------------------------------------------------------------------------
\* Over saving, forking, resuming and compacting, with turns that outlive their task
\* (src/app/commands, task_doc): the conversation is the task's own, a once grant is
\* used once, delegated tasks stay in the file and a yes or no has one reader.
THEOREM LedgerIsSound ==
    LedgerSpec => [](ConversationFollowsTask /\ OnceGrantUsedOnce /\ DelegatedTasksKept /\ OnePrompt)
<1> DEFINE Sound == ConversationFollowsTask /\ OnceGrantUsedOnce /\ DelegatedTasksKept /\ OnePrompt
<1>1. LedgerInit => LedgerInv
  BY LedgerInitHolds
<1>2. LedgerInv /\ [LedgerNext]_ledgerVars => LedgerInv'
  BY LedgerStep, LedgerStutter
<1>3. LedgerInv => Sound
  <2> SUFFICES ASSUME LedgerInv PROVE Sound
    OBVIOUS
  <2>1. OnceGrantUsedOnce /\ DelegatedTasksKept /\ OnePrompt
    BY DEF LedgerInv, GrantInv, SentInv, PromptInv, OnceGrantUsedOnce, DelegatedTasksKept, OnePrompt
  <2>2. ConversationFollowsTask
    BY DEF LedgerInv, TalkInv, Replacing, ConversationFollowsTask, TurnsOf
  <2>. QED  BY <2>1, <2>2
<1>. QED  BY <1>1, <1>2, <1>3, PTL DEF LedgerSpec

\* The working-set record of a task keeps its objective and the evidence of its joins
\* at every step (write_working_set, retain_durable_objective, record_join_evidence).
THEOREM RecordsAreKept == LedgerSpec => [][RecordKept]_ledgerVars
<1>1. LedgerInit => LedgerInv
  BY LedgerInitHolds
<1>2. LedgerInv /\ [LedgerNext]_ledgerVars => LedgerInv'
  BY LedgerStep, LedgerStutter
<1>3. LedgerInv /\ [LedgerNext]_ledgerVars => [RecordKept]_ledgerVars
  BY LedgerStep
<1>. QED  BY <1>1, <1>2, <1>3, PTL DEF LedgerSpec
=============================================================================
