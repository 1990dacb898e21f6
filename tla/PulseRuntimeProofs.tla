------------------------- MODULE PulseRuntimeProofs -------------------------
(* Theorems about PulseRuntime, for any number of turns, inline commands,    *)
(* interrupts and approval requests.                                         *)
EXTENDS PulseRuntime, SequenceTheorems, TLAPS

-----------------------------------------------------------------------------
(* Lemmas about updates and answers *)

\* The kind of an update tells what its id names.
LEMMA UpdateIds ==
    ASSUME NEW u \in Updates
    PROVE  /\ u.kind \in {"ask", "complete", "error"} => u.id \in Turns
           /\ u.kind \in {"started", "finished"} => u.id \in SessionIds
           /\ u.kind = "cmdComplete" => u.id \in Commands
BY DEF Updates

\* What the tasks send are updates.
LEMMA UpdateTypes ==
    /\ \A t \in Turns, k \in {"ask", "complete", "error"} : Update(k, t) \in Updates
    /\ \A x \in SessionIds, k \in {"started", "finished"} : Update(k, x) \in Updates
    /\ \A c \in Commands : Update("cmdComplete", c) \in Updates
BY DEF Update, Updates

\* Receiving takes the first update from the channel.
LEMMA ReceiveTypes ==
    ASSUME updates \in Seq(Updates), NEW k, Receive(k)
    PROVE  /\ Head(updates) \in Updates /\ Head(updates).kind = k
           /\ updates' \in Seq(Updates) /\ updates' = Tail(updates)
           /\ phase' = "drain" /\ quit # "yes" /\ updates # <<>>
BY DEF Receive

\* The two sorts of overlay.
OverlayType ==
    overlay \in {NoOverlay} \cup [kind: {"tool"}, id: Turns] \cup [kind: {"inline"}, id: Commands]

\* What the overlay's id names.
LEMMA OverlayIds ==
    ASSUME OverlayType
    PROVE  /\ overlay.kind = "tool" => overlay.id \in Turns
           /\ overlay.kind = "inline" => overlay.id \in Commands
           /\ overlay # NoOverlay => overlay.kind \in {"tool", "inline"}
BY DEF OverlayType, NoOverlay

ReplyType == reply \in [Turns -> {"none", "yes", "no"}]

\* Denying a pending request writes one answer.
LEMMA DeniedRepliesType ==
    ASSUME OverlayType, ReplyType
    PROVE  DeniedReplies \in [Turns -> {"none", "yes", "no"}]
BY OverlayIds DEF DeniedReplies, ReplyType

PulseType ==
    /\ pulse \in [open: BOOLEAN, owner: 0 .. MaxTurns, cancelling: BOOLEAN,
                  sessions: SUBSET SessionIds]
    /\ ~pulse.open => pulse = NoPulse

\* The pulses the handlers build.
LEMMA PulseTypes ==
    /\ NoPulse \in [open: BOOLEAN, owner: 0 .. MaxTurns, cancelling: BOOLEAN,
                    sessions: SUBSET SessionIds]
    /\ \A t \in 0 .. MaxTurns, ids \in SUBSET SessionIds :
          OpenPulse(t, ids) \in [open: BOOLEAN, owner: 0 .. MaxTurns, cancelling: BOOLEAN,
                                 sessions: SUBSET SessionIds]
    /\ \A c \in Commands : InlineId(c) \in SessionIds
<1>1. MaxTurns \in Nat /\ MaxCommands \in Nat
  BY RuntimeAssumption
<1>2. 0 \in 0 .. MaxTurns
  BY <1>1
<1>3. \A c \in Commands : InlineId(c) \in SessionIds
  BY <1>1, <1>2 DEF Commands, InlineId, SessionIds
<1>. QED  BY <1>2, <1>3 DEF NoPulse, OpenPulse

-----------------------------------------------------------------------------
(* Types *)

\* TypeOK in four parts.
UiType ==
    /\ pendingDone \in BOOLEAN /\ readOnly \in BOOLEAN /\ autoApprove \in BOOLEAN
    /\ grant \in GrantScopes
    /\ status \in {"Ready", "Running", "AwaitingApproval", "Cancelling", "Completed", "Failed"}
    /\ quit \in {"no", "armed", "yes"}
    /\ phase \in {"poll", "drain"}
TaskType ==
    /\ epoch \in 0 .. MaxCancels
    /\ lock \in 0 .. MaxTurns /\ prompt \in 0 .. MaxTurns
    /\ kind \in [Turns -> TurnKinds]
    /\ token \in [Turns -> 0 .. MaxCancels]
    /\ drv \in [Turns -> {"new", "prompt", "forward", "unwind", "restore", "done"}]
    /\ send \in [Turns -> {"new", "lock"} \cup Holding \cup Ended]
    /\ asks \in [Turns -> 0 .. MaxAsks] /\ errs \in [Turns -> 0 .. MaxErrors]
ChannelType == updates \in Seq(Updates) /\ deltas \in [Turns -> Seq(Updates)]
CommandType ==
    /\ cmd \in [Commands -> {"new", "run", "held", "tail", "done"}]
    /\ cmdToken \in [Commands -> 0 .. MaxCancels]

\* TypeOK is the conjunction of its parts ...
LEMMA TypeParts ==
    TypeOK <=> /\ PulseType /\ UiType /\ OverlayType /\ TaskType /\ ChannelType
               /\ ReplyType /\ CommandType
BY DEF TypeOK, PulseType, UiType, OverlayType, TaskType, ChannelType, ReplyType, CommandType

\* ... in the next state as well.
LEMMA TypePartsPrimed ==
    TypeOK' <=> /\ PulseType' /\ UiType' /\ OverlayType' /\ TaskType' /\ ChannelType'
                /\ ReplyType' /\ CommandType'
BY DEF TypeOK, PulseType, UiType, OverlayType, TaskType, ChannelType, ReplyType, CommandType

\* A new session is well typed.
LEMMA InitType == Init => TypeOK
<1>. SUFFICES ASSUME Init PROVE TypeOK
  OBVIOUS
<1>1. PulseType
  BY PulseTypes DEF Init, PulseType
<1>2. UiType /\ OverlayType
  BY RuntimeAssumption DEF Init, UiType, OverlayType
<1>3. TaskType
  BY RuntimeAssumption DEF Init, TaskType, TurnKinds
<1>4. ChannelType /\ ReplyType /\ CommandType
  BY RuntimeAssumption DEF Init, ChannelType, ReplyType, CommandType
<1>. QED  BY <1>1, <1>2, <1>3, <1>4, TypeParts

\* Starting a turn.
LEMMA StartTurnType ==
    ASSUME TypeOK, NEW t \in Turns, NEW k \in Kinds, StartTurn(t, k)
    PROVE  TypeOK'
<1>. USE TypeParts
<1>1. PulseType'
  <2>1. pulse' = OpenPulse(t, {}) /\ t \in 0 .. MaxTurns
    BY RuntimeAssumption DEF StartTurn, Turns
  <2>. QED  BY <2>1, PulseTypes DEF PulseType, OpenPulse
<1>2. UiType'
  <2>1. readOnly' \in BOOLEAN
    BY DEF StartTurn, UiType
  <2>. QED  BY <2>1 DEF StartTurn, Input, UiType
<1>3. OverlayType' /\ ReplyType'
  BY DEF StartTurn, OverlayType, ReplyType
<1>4. TaskType'
  BY RuntimeAssumption DEF StartTurn, TaskType
<1>5. ChannelType' /\ CommandType'
  BY DEF StartTurn, ChannelType, CommandType, commands
<1>. QED  BY <1>1, <1>2, <1>3, <1>4, <1>5, TypePartsPrimed

\* Starting a command session.
LEMMA StartCommandType ==
    ASSUME TypeOK, NEW c \in Commands, StartCommand(c)
    PROVE  /\ PulseType' /\ CommandType'
           /\ pendingDone' \in BOOLEAN /\ status' = "Running"
<1>. USE TypeParts
<1>1. PulseType'
  <2>1. InlineId(c) \in SessionIds /\ 0 \in 0 .. MaxTurns
    BY PulseTypes, RuntimeAssumption
  <2>2. CASE pulse.open /\ pulse.sessions # {}
    <3>1. pulse' = [pulse EXCEPT !.sessions = @ \cup {InlineId(c)}]
      BY <2>2 DEF StartCommand
    <3>. QED  BY <2>1, <2>2, <3>1 DEF PulseType
  <2>3. CASE ~(pulse.open /\ pulse.sessions # {})
    <3>1. pulse' = OpenPulse(0, {InlineId(c)})
      BY <2>3 DEF StartCommand
    <3>. QED  BY <2>1, <3>1, PulseTypes DEF PulseType, OpenPulse
  <2>. QED  BY <2>2, <2>3
<1>2. CommandType'
  BY DEF StartCommand, CommandType, TaskType
<1>3. pendingDone' \in BOOLEAN
  BY DEF StartCommand, UiType
<1>. QED  BY <1>1, <1>2, <1>3 DEF StartCommand

\* An inline command starts or asks for approval.
LEMMA BangType == ASSUME TypeOK, NEW c \in Commands, Bang(c) PROVE TypeOK'
<1>. USE TypeParts
<1>1. UNCHANGED <<lock, prompt, kind, token, drv, send, deltas, asks, errs, readOnly,
                  autoApprove, updates, epoch, reply>>
  BY DEF Bang, background, tasks, started
<1>2. phase' = "drain" /\ quit' \in {"no", "armed", "yes"}
  BY DEF Bang, Input, UiType
<1>3. /\ PulseType' /\ CommandType' /\ OverlayType'
      /\ pendingDone' \in BOOLEAN
      /\ status' \in {"Running", "AwaitingApproval"} /\ grant' \in GrantScopes
  <2>1. CASE autoApprove \/ grant # "none"
    <3>1. StartCommand(c) /\ overlay' = overlay /\ grant' \in {"none", grant}
      BY <2>1 DEF Bang
    <3>. QED  BY <3>1, StartCommandType DEF OverlayType, UiType, GrantScopes
  <2>2. CASE ~(autoApprove \/ grant # "none")
    <3>1. /\ overlay' = [kind |-> "inline", id |-> c] /\ status' = "AwaitingApproval"
          /\ UNCHANGED <<pulse, pendingDone, grant, cmd, cmdToken>>
      BY <2>2 DEF Bang, commands
    <3>. QED  BY <3>1 DEF OverlayType, UiType, PulseType, CommandType
  <2>. QED  BY <2>1, <2>2
<1>4. UiType'
  BY <1>1, <1>2, <1>3 DEF UiType
<1>5. TaskType' /\ ChannelType' /\ ReplyType'
  BY <1>1 DEF TaskType, ChannelType, ReplyType
<1>. QED  BY <1>3, <1>4, <1>5, TypePartsPrimed

\* The answer to the overlay.
LEMMA AnswerType ==
    ASSUME TypeOK, NEW choice, Answer(choice)
    PROVE  TypeOK'
<1>. USE TypeParts
<1>1. UNCHANGED <<lock, prompt, kind, token, drv, send, deltas, asks, errs, readOnly,
                  grant, quit, updates, epoch>>
  BY DEF Answer, background, tasks, started
<1>2. phase' = "drain" /\ overlay' = NoOverlay /\ autoApprove' \in BOOLEAN
  BY DEF Answer, Input, UiType
<1>3. /\ PulseType' /\ CommandType' /\ ReplyType'
      /\ pendingDone' \in BOOLEAN /\ status' \in {"Running", status}
  <2>1. CASE /\ reply' = DeniedReplies
             /\ UNCHANGED <<pulse, pendingDone, status, cmd, cmdToken>>
    BY <2>1, DeniedRepliesType DEF ReplyType, PulseType, CommandType, UiType
  <2>2. CASE /\ overlay.kind = "tool" /\ reply' = [reply EXCEPT ![overlay.id] = "yes"]
             /\ status' = "Running" /\ UNCHANGED <<pulse, pendingDone, cmd, cmdToken>>
    BY <2>2, OverlayIds DEF ReplyType, PulseType, CommandType, UiType
  <2>3. CASE overlay.kind = "inline" /\ StartCommand(overlay.id) /\ UNCHANGED reply
    <3>1. overlay.id \in Commands
      BY <2>3, OverlayIds
    <3>. QED  BY <2>3, <3>1, StartCommandType DEF ReplyType
  <2>. QED  BY <2>1, <2>2, <2>3 DEF Answer, commands
<1>4. UiType' /\ OverlayType'
  BY <1>1, <1>2, <1>3 DEF UiType, OverlayType
<1>5. TaskType' /\ ChannelType'
  BY <1>1 DEF TaskType, ChannelType
<1>. QED  BY <1>3, <1>4, <1>5, TypePartsPrimed

\* The interrupts.
LEMMA InterruptType == ASSUME TypeOK, Interrupt \/ InterruptIdle PROVE TypeOK'
<1>. USE TypeParts
<1>1. UNCHANGED <<lock, prompt, kind, token, drv, send, deltas, asks, errs, readOnly,
                  pendingDone, autoApprove, grant, updates, cmd, cmdToken>>
  BY DEF Interrupt, InterruptIdle, background, tasks, started, commands
<1>2. phase' = "drain" /\ quit' \in {"no", "armed", "yes"}
  BY DEF Interrupt, InterruptIdle, Input
<1>3. /\ PulseType' /\ OverlayType' /\ ReplyType' /\ epoch' \in 0 .. MaxCancels
      /\ status' \in {"Cancelling", status}
  <2>1. CASE Interrupt
    <3>1. /\ overlay' = NoOverlay /\ reply' = DeniedReplies
          /\ pulse' = [pulse EXCEPT !.cancelling = TRUE] /\ pulse.open
          /\ epoch < MaxCancels /\ epoch' = epoch + 1 /\ status' \in {"Cancelling", status}
      BY <2>1 DEF Interrupt
    <3>2. epoch' \in 0 .. MaxCancels
      BY <3>1, RuntimeAssumption DEF TaskType
    <3>3. PulseType'
      BY <3>1 DEF PulseType
    <3>. QED  BY <3>1, <3>2, <3>3, DeniedRepliesType DEF OverlayType, ReplyType
  <2>2. CASE InterruptIdle
    BY <2>2 DEF InterruptIdle, PulseType, OverlayType, ReplyType, TaskType
  <2>. QED  BY <2>1, <2>2
<1>4. UiType' /\ TaskType' /\ ChannelType' /\ CommandType'
  BY <1>1, <1>2, <1>3 DEF UiType, TaskType, ChannelType, CommandType
<1>. QED  BY <1>3, <1>4, TypePartsPrimed

\* What no handler of the UI changes stays well typed.
LEMMA BackgroundType ==
    ASSUME TypeOK, UNCHANGED <<background, epoch, commands>>, updates' \in Seq(Updates)
    PROVE  TaskType' /\ ChannelType' /\ CommandType'
<1>1. UNCHANGED <<lock, prompt, kind, token, drv, send, deltas, asks, errs, epoch, cmd, cmdToken>>
  BY DEF background, tasks, started, commands
<1>. QED  BY <1>1, TypeParts DEF TaskType, ChannelType, CommandType

\* An approval request is denied, granted or put to the user.
LEMMA HandleAskType == ASSUME TypeOK, HandleAsk PROVE TypeOK'
<1>. USE TypeParts
<1>1. Receive("ask") /\ updates \in Seq(Updates)
  BY DEF HandleAsk, ChannelType
<1>. DEFINE t == Head(updates).id
<1>2. t \in Turns /\ updates' \in Seq(Updates) /\ phase' = "drain"
  BY <1>1, ReceiveTypes, UpdateIds
<1>3. UNCHANGED <<background, pulse, pendingDone, readOnly, autoApprove, quit, epoch, commands>>
  BY DEF HandleAsk
<1>4. PICK covered \in {FALSE, grant # "none"} :
        LET verdict == AskVerdict(covered)
            before == IF pulse.cancelling THEN reply ELSE DeniedReplies
        IN  /\ reply' = CASE verdict = "deny"  -> [before EXCEPT ![t] = "no"]
                          [] verdict = "allow" -> [before EXCEPT ![t] = "yes"]
                          [] OTHER             -> before
            /\ overlay' = CASE verdict = "prompt" -> [kind |-> "tool", id |-> t]
                            [] pulse.cancelling   -> overlay
                            [] OTHER              -> NoOverlay
            /\ status' = CASE verdict = "prompt" -> "AwaitingApproval"
                           [] verdict = "allow"  -> "Running"
                           [] OTHER              -> status
            /\ grant' = IF verdict = "allow" /\ ~autoApprove /\ grant = "once"
                        THEN "none" ELSE grant
  BY DEF HandleAsk
<1>. HIDE DEF t
<1>. DEFINE verdict == AskVerdict(covered)
            before == IF pulse.cancelling THEN reply ELSE DeniedReplies
<1>5. verdict \in {"deny", "allow", "prompt"}
  BY DEF AskVerdict
<1>6. before \in [Turns -> {"none", "yes", "no"}]
  BY DeniedRepliesType DEF ReplyType
<1>. HIDE DEF verdict, before
<1>7. ReplyType'
  <2>1. \/ reply' = [before EXCEPT ![t] = "no"]
        \/ reply' = [before EXCEPT ![t] = "yes"]
        \/ reply' = before
    BY <1>4, <1>5 DEF verdict, before
  <2>. QED  BY <1>2, <1>6, <2>1 DEF ReplyType
<1>8. OverlayType'
  <2>1. overlay' \in {[kind |-> "tool", id |-> t], overlay, NoOverlay}
    BY <1>4, <1>5 DEF verdict
  <2>. QED  BY <1>2, <2>1 DEF OverlayType
<1>9. UiType'
  <2>1. status' \in {"AwaitingApproval", "Running", status}
    BY <1>4, <1>5 DEF verdict
  <2>2. grant' \in {"none", grant}
    BY <1>4
  <2>. QED  BY <1>2, <1>3, <2>1, <2>2 DEF UiType, GrantScopes
<1>10. PulseType'
  BY <1>3 DEF PulseType
<1>. QED  BY <1>2, <1>3, <1>7, <1>8, <1>9, <1>10, BackgroundType, TypePartsPrimed

\* complete_turn_if_idle closes the pulse or leaves p in place.
LEMMA CompleteCases ==
    ASSUME NEW p, NEW done, CompleteIfIdle(p, done)
    PROVE  \/ /\ done /\ p.sessions = {}
              /\ pulse' = NoPulse /\ pendingDone' = FALSE /\ readOnly' = FALSE
              /\ overlay' = NoOverlay /\ reply' = DeniedReplies
              /\ status' \in {"Ready", "Completed"}
           \/ /\ ~(done /\ p.sessions = {})
              /\ pulse' = p /\ pendingDone' = done
              /\ UNCHANGED <<readOnly, overlay, reply, status>>
BY DEF CompleteIfIdle

\* Both ways are well typed.
LEMMA CompleteType ==
    ASSUME TypeOK, NEW done \in BOOLEAN, NEW p, CompleteIfIdle(p, done),
           p \in [open: BOOLEAN, owner: 0 .. MaxTurns, cancelling: BOOLEAN,
                  sessions: SUBSET SessionIds],
           ~p.open => p = NoPulse,
           UNCHANGED <<autoApprove, grant, quit>>, phase' = "drain"
    PROVE  PulseType' /\ UiType' /\ OverlayType' /\ ReplyType'
<1>. USE TypeParts
<1>1. CASE /\ pulse' = NoPulse /\ pendingDone' = FALSE /\ readOnly' = FALSE
           /\ overlay' = NoOverlay /\ reply' = DeniedReplies
           /\ status' \in {"Ready", "Completed"}
  <2>1. PulseType'
    BY <1>1, PulseTypes DEF PulseType
  <2>2. UiType'
    BY <1>1 DEF UiType
  <2>. QED  BY <1>1, <2>1, <2>2, DeniedRepliesType DEF OverlayType, ReplyType
<1>2. CASE /\ pulse' = p /\ pendingDone' = done
           /\ UNCHANGED <<readOnly, overlay, reply, status>>
  BY <1>2 DEF PulseType, UiType, OverlayType, ReplyType
<1>. QED  BY <1>1, <1>2, CompleteCases

\* The end of a turn, of a command or of a session.
LEMMA HandleEndType == ASSUME TypeOK, HandleComplete \/ HandleFinished PROVE TypeOK'
<1>. USE TypeParts
<1>1. updates \in Seq(Updates)
  BY DEF ChannelType
<1>2. UNCHANGED <<background, autoApprove, grant, quit, epoch, commands>>
  BY DEF HandleComplete, HandleFinished
<1>3. updates' \in Seq(Updates) /\ phase' = "drain"
  BY <1>1, ReceiveTypes DEF HandleComplete, HandleFinished
<1>4. PulseType' /\ UiType' /\ OverlayType' /\ ReplyType'
  <2>1. CASE HandleComplete
    <3>1. CompleteIfIdle(pulse, TRUE)
      BY <2>1 DEF HandleComplete
    <3>2. /\ pulse \in [open: BOOLEAN, owner: 0 .. MaxTurns, cancelling: BOOLEAN,
                        sessions: SUBSET SessionIds]
          /\ ~pulse.open => pulse = NoPulse
      BY DEF PulseType
    <3>3. UNCHANGED <<autoApprove, grant, quit>>
      BY <1>2
    <3>. QED  BY <1>3, <3>1, <3>2, <3>3, CompleteType
  <2>2. CASE HandleFinished
    <3>. DEFINE p == [pulse EXCEPT !.sessions = @ \ {Head(updates).id}]
    <3>1. CompleteIfIdle(p, pendingDone) /\ pendingDone \in BOOLEAN
      BY <2>2 DEF HandleFinished, UiType
    <3>2. /\ p \in [open: BOOLEAN, owner: 0 .. MaxTurns, cancelling: BOOLEAN,
                    sessions: SUBSET SessionIds]
          /\ ~p.open => p = NoPulse
      <4>1. p \in [open: BOOLEAN, owner: 0 .. MaxTurns, cancelling: BOOLEAN,
                   sessions: SUBSET SessionIds]
        BY DEF PulseType
      <4>2. ASSUME ~p.open PROVE p = NoPulse
        <5>1. pulse = NoPulse
          BY <4>2 DEF PulseType
        <5>. QED  BY <5>1 DEF NoPulse
      <4>. QED  BY <4>1, <4>2
    <3>3. UNCHANGED <<autoApprove, grant, quit>>
      BY <1>2
    <3>. HIDE DEF p
    <3>. QED  BY <1>3, <3>1, <3>2, <3>3, CompleteType
  <2>. QED  BY <2>1, <2>2
<1>5. UNCHANGED <<background, epoch, commands>>
  BY <1>2
<1>. QED  BY <1>3, <1>4, <1>5, BackgroundType, TypePartsPrimed

\* A started session is listed; an error closes the pulse.
LEMMA HandleOtherType ==
    ASSUME TypeOK, HandleStarted \/ HandleError \/ Drained
    PROVE  TypeOK'
<1>. USE TypeParts
<1>1. updates \in Seq(Updates)
  BY DEF ChannelType
<1>2. CASE HandleStarted
  <2>1. Receive("started") /\ UNCHANGED <<background, epoch, commands>>
    BY <1>2 DEF HandleStarted
  <2>2. updates' \in Seq(Updates) /\ phase' = "drain" /\ Head(updates).id \in SessionIds
    BY <1>1, <2>1, ReceiveTypes, UpdateIds
  <2>3. PulseType'
    <3>1. pulse' = IF pulse.open
                   THEN [pulse EXCEPT !.sessions = @ \cup {Head(updates).id}] ELSE pulse
      BY <1>2 DEF HandleStarted
    <3>. QED  BY <2>2, <3>1 DEF PulseType
  <2>4. UiType' /\ OverlayType' /\ ReplyType'
    BY <1>2, <2>2 DEF HandleStarted, UiType, OverlayType, ReplyType
  <2>. QED  BY <2>1, <2>2, <2>3, <2>4, BackgroundType, TypePartsPrimed
<1>3. CASE HandleError
  <2>1. Receive("error") /\ UNCHANGED <<background, epoch, commands>>
    BY <1>3 DEF HandleError
  <2>2. updates' \in Seq(Updates) /\ phase' = "drain"
    BY <1>1, <2>1, ReceiveTypes
  <2>3. PulseType' /\ OverlayType' /\ ReplyType'
    BY <1>3, PulseTypes, DeniedRepliesType DEF HandleError, PulseType, OverlayType, ReplyType
  <2>4. UiType'
    BY <1>3, <2>2 DEF HandleError, UiType
  <2>. QED  BY <2>1, <2>2, <2>3, <2>4, BackgroundType, TypePartsPrimed
<1>4. CASE Drained
  <2>1. UNCHANGED <<background, epoch, commands>> /\ updates' \in Seq(Updates)
    BY <1>1, <1>4 DEF Drained
  <2>2. PulseType' /\ OverlayType' /\ ReplyType' /\ UiType'
    BY <1>4 DEF Drained, tui, PulseType, OverlayType, ReplyType, UiType
  <2>. QED  BY <2>1, <2>2, BackgroundType, TypePartsPrimed
<1>. QED  BY <1>2, <1>3, <1>4

\* What no task of a turn changes stays well typed.
LEMMA ScreenType ==
    ASSUME TypeOK, UNCHANGED screen
    PROVE  /\ PulseType' /\ UiType' /\ OverlayType' /\ CommandType'
           /\ UNCHANGED <<epoch, kind, token>>
<1>1. UNCHANGED <<pulse, pendingDone, readOnly, overlay, autoApprove, grant, status, quit, phase,
                  epoch, cmd, cmdToken, kind, token>>
  BY DEF screen, tui, commands, started
<1>. QED  BY <1>1, TypeParts DEF PulseType, UiType, OverlayType, CommandType

\* The driver of a turn.
LEMMA DriveType == ASSUME TypeOK, NEW t \in Turns, Drive(t) PROVE TypeOK'
<1>. USE TypeParts
<1>1. UNCHANGED screen /\ UNCHANGED <<lock, asks, errs, reply>>
  BY DEF Drive, DriverPrompt, DriverForward, DriverCancelled, DriverEnd, DriverRestore
<1>2. PulseType' /\ UiType' /\ OverlayType' /\ CommandType' /\ UNCHANGED <<epoch, kind, token>>
  BY <1>1, ScreenType
<1>3. ReplyType'
  BY <1>1 DEF ReplyType
<1>4. t \in 0 .. MaxTurns /\ 0 \in 0 .. MaxTurns
  BY RuntimeAssumption DEF Turns
<1>5. TaskType'
  <2>1. prompt' \in {0, t, prompt} /\ (send' = send \/ send' = [send EXCEPT ![t] = "lock"])
    BY DEF Drive, DriverPrompt, DriverForward, DriverCancelled, DriverEnd, DriverRestore
  <2>2. \/ drv' = drv
        \/ \E s \in {"forward", "unwind", "restore", "done"} : drv' = [drv EXCEPT ![t] = s]
    BY DEF Drive, DriverPrompt, DriverForward, DriverCancelled, DriverEnd, DriverRestore
  <2>. QED  BY <1>1, <1>2, <1>4, <2>1, <2>2 DEF TaskType
<1>6. ChannelType'
  <2>1. CASE DriverForward(t)
    <3>1. deltas[t] \in Seq(Updates) /\ deltas[t] # <<>>
      BY <2>1 DEF DriverForward, ChannelType
    <3>2. Head(deltas[t]) \in Updates /\ Tail(deltas[t]) \in Seq(Updates)
      BY <3>1
    <3>. QED  BY <2>1, <3>2 DEF DriverForward, ChannelType
  <2>2. CASE DriverRestore(t)
    <3>1. PICK k \in {"error", "complete"} : updates' = Append(updates, Update(k, t))
      BY <2>2 DEF DriverRestore
    <3>2. Update(k, t) \in Updates
      BY UpdateTypes
    <3>. QED  BY <2>2, <3>1, <3>2 DEF DriverRestore, ChannelType
  <2>3. CASE DriverPrompt(t) \/ DriverCancelled(t) \/ DriverEnd(t)
    BY <2>3 DEF DriverPrompt, DriverCancelled, DriverEnd, ChannelType
  <2>. QED  BY <2>1, <2>2, <2>3 DEF Drive
<1>. QED  BY <1>2, <1>3, <1>5, <1>6, TypePartsPrimed

\* The send task of a turn.
LEMMA SendType == ASSUME TypeOK, NEW t \in Turns, SendStep(t) PROVE TypeOK'
<1>. USE TypeParts
<1>1. UNCHANGED screen /\ UNCHANGED <<updates, prompt, drv>>
  BY DEF SendStep, SendLock, SendAsk, SendReply, SendCommandStarted, SendCommandFinished,
         SendToolDone, SendStreamError, SendEnd, SendDropped
<1>2. PulseType' /\ UiType' /\ OverlayType' /\ CommandType' /\ UNCHANGED <<epoch, kind, token>>
  BY <1>1, ScreenType
<1>3. ReplyType'
  <2>1. reply' = reply \/ reply' = [reply EXCEPT ![t] = "none"]
    BY DEF SendStep, SendLock, SendAsk, SendReply, SendCommandStarted, SendCommandFinished,
           SendToolDone, SendStreamError, SendEnd, SendDropped
  <2>. QED  BY <2>1 DEF ReplyType
<1>4. TaskType'
  <2>1. lock' \in {0, t, lock}
    BY DEF SendStep, SendLock, SendAsk, SendReply, SendCommandStarted, SendCommandFinished,
           SendToolDone, SendStreamError, SendEnd, SendDropped
  <2>2. \/ send' = send
        \/ \E s \in {"run", "ask", "tool", "cmd", "ok", "err", "dropped"} :
              send' = [send EXCEPT ![t] = s]
    BY DEF SendStep, SendLock, SendAsk, SendReply, SendCommandStarted, SendCommandFinished,
           SendToolDone, SendStreamError, SendEnd, SendDropped
  <2>3. asks' = asks \/ (asks[t] < MaxAsks /\ asks' = [asks EXCEPT ![t] = @ + 1])
    BY DEF SendStep, SendLock, SendAsk, SendReply, SendCommandStarted, SendCommandFinished,
           SendToolDone, SendStreamError, SendEnd, SendDropped
  <2>4. errs' = errs \/ (errs[t] < MaxErrors /\ errs' = [errs EXCEPT ![t] = @ + 1])
    BY DEF SendStep, SendLock, SendAsk, SendReply, SendCommandStarted, SendCommandFinished,
           SendToolDone, SendStreamError, SendEnd, SendDropped
  <2>5. asks' \in [Turns -> 0 .. MaxAsks] /\ errs' \in [Turns -> 0 .. MaxErrors]
    BY <2>3, <2>4, RuntimeAssumption DEF TaskType
  <2>6. send' \in [Turns -> {"new", "lock"} \cup Holding \cup Ended]
    BY <2>2 DEF TaskType, Holding, Ended
  <2>7. lock' \in 0 .. MaxTurns
    BY <2>1, RuntimeAssumption DEF TaskType, Turns
  <2>. QED  BY <1>1, <1>2, <2>5, <2>6, <2>7 DEF TaskType
<1>5. ChannelType'
  <2>1. deltas' = deltas \/ \E u \in Updates : deltas' = [deltas EXCEPT ![t] = Append(@, u)]
    <3>1. <<t, asks[t]>> \in SessionIds
      BY RuntimeAssumption DEF TaskType, SessionIds, Turns
    <3>2. /\ Update("ask", t) \in Updates /\ Update("error", t) \in Updates
          /\ Update("started", <<t, asks[t]>>) \in Updates
          /\ Update("finished", <<t, asks[t]>>) \in Updates
      BY <3>1, UpdateTypes
    <3>. QED  BY <3>2 DEF SendStep, SendLock, SendAsk, SendReply, SendCommandStarted,
                          SendCommandFinished, SendToolDone, SendStreamError, SendEnd, SendDropped
  <2>2. deltas[t] \in Seq(Updates)
    BY DEF ChannelType
  <2>3. ASSUME NEW u \in Updates, deltas' = [deltas EXCEPT ![t] = Append(@, u)]
        PROVE  deltas' \in [Turns -> Seq(Updates)]
    <3>1. Append(deltas[t], u) \in Seq(Updates)
      BY <2>2
    <3>. QED  BY <2>3, <3>1 DEF ChannelType
  <2>. QED  BY <1>1, <2>1, <2>3 DEF ChannelType
<1>. QED  BY <1>2, <1>3, <1>4, <1>5, TypePartsPrimed

\* The command tasks.
LEMMA CommandTaskType ==
    ASSUME TypeOK, NEW c \in Commands, CommandStep(c)
    PROVE  TypeOK'
<1>. USE TypeParts
<1>1. UNCHANGED <<pulse, pendingDone, readOnly, overlay, autoApprove, grant, status, quit, phase,
                  epoch, lock, prompt, kind, token, drv, send, deltas, asks, errs, reply, cmdToken>>
  BY DEF CommandStep, CommandHeld, CommandExits, CommandReports,
         background, tui, tasks, started
<1>2. PulseType' /\ UiType' /\ OverlayType' /\ TaskType' /\ ReplyType'
  BY <1>1 DEF PulseType, UiType, OverlayType, TaskType, ReplyType
<1>3. CommandType'
  BY <1>1 DEF CommandStep, CommandHeld, CommandExits, CommandReports, CommandType
<1>4. updates' = updates \/ \E u \in Updates : updates' = Append(updates, u)
  BY UpdateTypes, PulseTypes DEF CommandStep, CommandHeld, CommandExits, CommandReports
<1>5. ChannelType'
  <2>1. updates' \in Seq(Updates)
    BY <1>4 DEF ChannelType
  <2>. QED  BY <1>1, <2>1 DEF ChannelType
<1>. QED  BY <1>2, <1>3, <1>5, TypePartsPrimed

\* Every step keeps the types.
LEMMA NextType == TypeOK /\ [Next]_vars => TypeOK'
<1>. SUFFICES ASSUME TypeOK, [Next]_vars PROVE TypeOK'
  OBVIOUS
<1>1. CASE User
  BY <1>1, StartTurnType, BangType, AnswerType, InterruptType DEF User
<1>2. CASE Handle \/ Drained
  BY <1>2, HandleAskType, HandleEndType, HandleOtherType DEF Handle
<1>3. CASE \E t \in Turns : Drive(t) \/ SendStep(t)
  BY <1>3, DriveType, SendType
<1>4. CASE \E c \in Commands : CommandStep(c)
  BY <1>4, CommandTaskType
<1>5. CASE UNCHANGED vars
  BY <1>5 DEF vars, tui, tasks, started, commands, TypeOK
<1>. QED  BY <1>1, <1>2, <1>3, <1>4, <1>5 DEF Next

-----------------------------------------------------------------------------
(***************************************************************************)
(* The conversation's mutex.  A send task is inside send_message exactly   *)
(* while it holds the mutex, so a driver that got the mutex to restore the *)
(* prompt knows that its own send task is out; an aborted one never gets   *)
(* in again.                                                               *)
(***************************************************************************)
LockInv ==
    /\ \A t \in Turns : send[t] \in Holding <=> lock = t
    /\ \A t \in Turns : drv[t] = "done" => send[t] \notin Holding

\* 0 stands for no turn.
LEMMA ZeroIsNoTurn == 0 \notin Turns
BY RuntimeAssumption DEF Turns

\* A step that touches neither the mutex nor the tasks.
LEMMA QuietLockInv ==
    ASSUME LockInv, UNCHANGED <<lock, send, drv>> PROVE LockInv'
BY DEF LockInv

\* The steps of the driver.
LEMMA DriveLockInv ==
    ASSUME TypeOK, LockInv, NEW t \in Turns, Drive(t) PROVE LockInv'
<1>1. /\ send \in [Turns -> {"new", "lock"} \cup Holding \cup Ended]
      /\ drv \in [Turns -> {"new", "prompt", "forward", "unwind", "restore", "done"}]
      /\ 0 \notin Turns
  BY TypeParts, ZeroIsNoTurn DEF TaskType
<1>2. CASE DriverPrompt(t)
  <2>1. /\ lock = 0 /\ lock' = lock
        /\ send' = [send EXCEPT ![t] = "lock"] /\ drv' = [drv EXCEPT ![t] = "forward"]
    BY <1>2 DEF DriverPrompt
  <2>2. \A u \in Turns : send[u] \notin Holding
    BY <1>1, <2>1 DEF LockInv
  <2>3. \A u \in Turns : send'[u] \notin Holding
    BY <1>1, <2>1, <2>2 DEF Holding
  <2>. QED  BY <1>1, <2>1, <2>3 DEF LockInv
<1>3. CASE DriverRestore(t)
  BY <1>1, <1>3 DEF DriverRestore, LockInv
<1>4. CASE DriverForward(t) \/ DriverCancelled(t) \/ DriverEnd(t)
  BY <1>1, <1>4 DEF DriverForward, DriverCancelled, DriverEnd, LockInv
<1>. QED  BY <1>2, <1>3, <1>4 DEF Drive

\* The steps of the send task.
LEMMA SendLockInv ==
    ASSUME TypeOK, LockInv, NEW t \in Turns, SendStep(t) PROVE LockInv'
<1>1. /\ send \in [Turns -> {"new", "lock"} \cup Holding \cup Ended]
      /\ 0 \notin Turns /\ drv' = drv
  BY TypeParts, ZeroIsNoTurn
     DEF TaskType, SendStep, SendLock, SendAsk, SendReply, SendCommandStarted,
         SendCommandFinished, SendToolDone, SendStreamError, SendEnd, SendDropped
<1>2. CASE SendLock(t)
  BY <1>1, <1>2 DEF SendLock, Sending, Aborted, LockInv, Holding
<1>3. CASE SendAsk(t) \/ SendReply(t) \/ SendCommandStarted(t) \/ SendCommandFinished(t)
           \/ SendToolDone(t) \/ SendStreamError(t)
  <2>1. /\ send[t] \in Holding /\ lock' = lock
        /\ send' = send \/ \E s \in Holding : send' = [send EXCEPT ![t] = s]
    BY <1>3 DEF SendAsk, SendReply, SendCommandStarted, SendCommandFinished, SendToolDone,
                SendStreamError, Sending, Holding
  <2>2. \A u \in Turns : send'[u] \in Holding <=> send[u] \in Holding
    BY <1>1, <2>1
  <2>. QED  BY <1>1, <2>1, <2>2 DEF LockInv
<1>4. CASE \E result \in {"ok", "err"} : SendEnd(t, result)
  <2>1. /\ send[t] = "run" /\ lock' = 0
        /\ \E s \in {"ok", "err"} : send' = [send EXCEPT ![t] = s]
    BY <1>4 DEF SendEnd, Sending
  <2>2. \A u \in Turns : u # t => send[u] \notin Holding
    BY <2>1 DEF LockInv, Holding
  <2>3. \A u \in Turns : send'[u] \notin Holding
    BY <1>1, <2>1, <2>2 DEF Holding
  <2>. QED  BY <1>1, <2>1, <2>3 DEF LockInv
<1>5. CASE SendDropped(t)
  <2>1. /\ send' = [send EXCEPT ![t] = "dropped"]
        /\ lock' = IF lock = t THEN 0 ELSE lock
    BY <1>5 DEF SendDropped
  <2>2. send'[t] \notin Holding /\ \A u \in Turns : u # t => send'[u] = send[u]
    BY <1>1, <2>1 DEF Holding
  <2>. QED  BY <1>1, <2>1, <2>2 DEF LockInv
<1>. QED  BY <1>2, <1>3, <1>4, <1>5 DEF SendStep

\* Every step respects the mutex.
LEMMA NextLockInv == TypeOK /\ LockInv /\ [Next]_vars => LockInv'
<1>. SUFFICES ASSUME TypeOK, LockInv, [Next]_vars PROVE LockInv'
  OBVIOUS
<1>1. ASSUME NEW t \in Turns, NEW k \in Kinds, StartTurn(t, k) PROVE LockInv'
  <2>1. /\ drv' = [drv EXCEPT ![t] = "prompt"] /\ UNCHANGED <<lock, send>>
        /\ drv \in [Turns -> {"new", "prompt", "forward", "unwind", "restore", "done"}]
    BY <1>1, TypeParts DEF StartTurn, TaskType
  <2>. QED  BY <2>1 DEF LockInv
<1>2. CASE (\E c \in Commands : Bang(c)) \/ (\E choice \in {"once", "session", "deny"} : Answer(choice))
           \/ Interrupt \/ InterruptIdle
  <2>1. UNCHANGED <<lock, send, drv>>
    BY <1>2 DEF Bang, Answer, Interrupt, InterruptIdle, background, tasks
  <2>. QED  BY <2>1, QuietLockInv
<1>3. CASE Handle \/ Drained
  <2>1. UNCHANGED <<lock, send, drv>>
    BY <1>3 DEF Handle, Drained, HandleAsk, HandleComplete, HandleFinished, HandleStarted,
                HandleError, background, tasks
  <2>. QED  BY <2>1, QuietLockInv
<1>4. CASE \E t \in Turns : Drive(t) \/ SendStep(t)
  BY <1>4, DriveLockInv, SendLockInv
<1>5. CASE (\E c \in Commands : CommandStep(c)) \/ UNCHANGED vars
  <2>1. UNCHANGED <<lock, send, drv>>
    BY <1>5 DEF CommandStep, CommandHeld, CommandExits, CommandReports, background, tasks, vars
  <2>. QED  BY <2>1, QuietLockInv
<1>. QED  BY <1>1, <1>2, <1>3, <1>4, <1>5 DEF Next, User

-----------------------------------------------------------------------------
(***************************************************************************)
(* Cancelling.  Tokens are never from the future, so the interrupt leaves  *)
(* every task behind the new root token; nothing starts a task, and no     *)
(* overlay comes up, until the cancelled pulse is closed.                  *)
(***************************************************************************)
TokensOld ==
    /\ \A t \in Turns : token[t] <= epoch
    /\ \A c \in Commands : cmdToken[c] <= epoch

CancelInv == TokensOld /\ CancelReachesAll

\* A step that starts no task, shows no overlay and does not interrupt.
LEMMA QuietCancelInv ==
    ASSUME CancelInv, UNCHANGED <<epoch, token, cmdToken>>,
           pulse'.cancelling => pulse.cancelling /\ overlay' = overlay,
           \A t \in Turns : drv'[t] \notin {"new", "done"} => drv[t] \notin {"new", "done"},
           \A c \in Commands : cmd'[c] \in {"run", "held"} => cmd[c] \in {"run", "held"}
    PROVE  CancelInv'
BY DEF CancelInv, TokensOld, CancelReachesAll, Cancelled

\* A command starts only while no cancellation is pending.
LEMMA StartCommandCancelInv ==
    ASSUME TypeOK, CancelInv, ~pulse.cancelling, NEW c \in Commands, StartCommand(c),
           UNCHANGED <<epoch, token>>
    PROVE  CancelInv'
<1>1. ~pulse'.cancelling
  <2>1. pulse \in [open: BOOLEAN, owner: 0 .. MaxTurns, cancelling: BOOLEAN,
                   sessions: SUBSET SessionIds]
    BY TypeParts DEF PulseType
  <2>. QED  BY <2>1 DEF StartCommand, OpenPulse
<1>2. TokensOld'
  <2>1. cmdToken' = [cmdToken EXCEPT ![c] = epoch] /\ epoch' = epoch /\ token' = token
    BY DEF StartCommand
  <2>2. /\ cmdToken \in [Commands -> 0 .. MaxCancels] /\ epoch \in Nat
        /\ token \in [Turns -> 0 .. MaxCancels]
    BY TypeParts, RuntimeAssumption DEF CommandType, TaskType
  <2>. QED  BY <2>1, <2>2 DEF CancelInv, TokensOld
<1>. QED  BY <1>1, <1>2 DEF CancelInv, CancelReachesAll

\* What the user does.
LEMMA UserCancelInv == ASSUME TypeOK, CancelInv, User PROVE CancelInv'
<1>0. /\ token \in [Turns -> 0 .. MaxCancels] /\ epoch \in Nat
      /\ cmdToken \in [Commands -> 0 .. MaxCancels]
      /\ pulse \in [open: BOOLEAN, owner: 0 .. MaxTurns, cancelling: BOOLEAN,
                    sessions: SUBSET SessionIds]
      /\ ~pulse.open => pulse = NoPulse
  BY TypeParts, RuntimeAssumption DEF TaskType, CommandType, PulseType
<1>1. ASSUME NEW t \in Turns, NEW k \in Kinds, StartTurn(t, k) PROVE CancelInv'
  <2>1. /\ ~pulse'.cancelling /\ token' = [token EXCEPT ![t] = epoch]
        /\ UNCHANGED <<epoch, cmdToken>>
    BY <1>1 DEF StartTurn, OpenPulse, commands
  <2>. QED  BY <1>0, <2>1 DEF CancelInv, TokensOld, CancelReachesAll
<1>2. ASSUME NEW c \in Commands, Bang(c) PROVE CancelInv'
  <2>1. ~pulse.cancelling
    BY <1>0, <1>2 DEF Bang, NoPulse
  <2>2. UNCHANGED <<epoch, token, drv>>
    BY <1>2 DEF Bang, background, tasks, started
  <2>3. CASE StartCommand(c)
    BY <2>1, <2>2, <2>3, StartCommandCancelInv
  <2>4. CASE UNCHANGED <<pulse, pendingDone, grant, commands>>
    BY <2>1, <2>2, <2>4 DEF commands, CancelInv, TokensOld, CancelReachesAll
  <2>. QED  BY <1>2, <2>3, <2>4 DEF Bang
<1>3. ASSUME NEW choice, Answer(choice) PROVE CancelInv'
  <2>1. ~pulse.cancelling
    BY <1>3 DEF Answer, CancelInv, CancelReachesAll
  <2>2. UNCHANGED <<epoch, token, drv>>
    BY <1>3 DEF Answer, background, tasks, started
  <2>3. CASE overlay.kind = "inline" /\ StartCommand(overlay.id)
    <3>1. overlay.id \in Commands
      BY <2>3, TypeParts, OverlayIds
    <3>. QED  BY <2>1, <2>2, <2>3, <3>1, StartCommandCancelInv
  <2>4. CASE UNCHANGED <<pulse, commands>>
    BY <2>1, <2>2, <2>4 DEF commands, CancelInv, TokensOld, CancelReachesAll
  <2>. QED  BY <1>3, <2>3, <2>4 DEF Answer
<1>4. CASE Interrupt
  <2>1. /\ epoch' = epoch + 1 /\ overlay' = NoOverlay
        /\ UNCHANGED <<token, cmdToken>>
    BY <1>4 DEF Interrupt, background, tasks, started, commands
  <2>2. /\ \A t \in Turns : token'[t] < epoch'
        /\ \A c \in Commands : cmdToken'[c] < epoch'
    BY <1>0, <2>1 DEF CancelInv, TokensOld
  <2>3. TokensOld'
    BY <1>0, <2>1, <2>2 DEF TokensOld
  <2>. QED  BY <2>1, <2>2, <2>3 DEF CancelInv, CancelReachesAll, Cancelled
<1>5. CASE InterruptIdle
  <2>1. UNCHANGED <<epoch, token, cmdToken, pulse, overlay, drv, cmd>>
    BY <1>5 DEF InterruptIdle, background, tasks, started, commands
  <2>. QED  BY <2>1, QuietCancelInv
<1>. QED  BY <1>1, <1>2, <1>3, <1>4, <1>5 DEF User

\* What the handlers do.
LEMMA HandleCancelInv == ASSUME TypeOK, CancelInv, Handle \/ Drained PROVE CancelInv'
<1>0. pulse \in [open: BOOLEAN, owner: 0 .. MaxTurns, cancelling: BOOLEAN,
                 sessions: SUBSET SessionIds]
  BY TypeParts DEF PulseType
<1>1. UNCHANGED <<epoch, token, cmdToken, drv, cmd>>
  BY DEF Handle, Drained, HandleAsk, HandleComplete, HandleFinished, HandleStarted, HandleError,
         background, tasks, started, commands
<1>2. pulse'.cancelling => pulse.cancelling /\ overlay' = overlay
  <2>1. CASE HandleAsk
    <3>1. pulse' = pulse
      BY <2>1 DEF HandleAsk
    <3>2. pulse.cancelling => overlay' = overlay
      BY <2>1 DEF HandleAsk, AskVerdict
    <3>. QED  BY <3>1, <3>2
  <2>2. CASE HandleComplete
    <3>1. CompleteIfIdle(pulse, TRUE)
      BY <2>2 DEF HandleComplete
    <3>2. pulse' = NoPulse \/ (pulse' = pulse /\ overlay' = overlay)
      BY <3>1 DEF CompleteIfIdle
    <3>. QED  BY <3>2 DEF NoPulse
  <2>3. CASE HandleFinished
    <3>. DEFINE p == [pulse EXCEPT !.sessions = @ \ {Head(updates).id}]
    <3>1. CompleteIfIdle(p, pendingDone)
      BY <2>3 DEF HandleFinished
    <3>2. p.cancelling = pulse.cancelling
      BY <1>0
    <3>. HIDE DEF p
    <3>3. pulse' = NoPulse \/ (pulse' = p /\ overlay' = overlay)
      BY <3>1 DEF CompleteIfIdle
    <3>. QED  BY <3>2, <3>3 DEF NoPulse
  <2>4. CASE HandleStarted \/ HandleError \/ Drained
    BY <1>0, <2>4 DEF HandleStarted, HandleError, Drained, tui, NoPulse
  <2>. QED  BY <2>1, <2>2, <2>3, <2>4 DEF Handle
<1>. QED  BY <1>1, <1>2, QuietCancelInv

\* Every step keeps what the interrupt established.
LEMMA NextCancelInv == TypeOK /\ CancelInv /\ [Next]_vars => CancelInv'
<1>. SUFFICES ASSUME TypeOK, CancelInv, [Next]_vars PROVE CancelInv'
  OBVIOUS
<1>1. CASE \E t \in Turns : Drive(t) \/ SendStep(t)
  <2>1. PICK t \in Turns : Drive(t) \/ SendStep(t)
    BY <1>1
  <2>2. UNCHANGED screen
    BY <2>1 DEF Drive, DriverPrompt, DriverForward, DriverCancelled, DriverEnd, DriverRestore,
                SendStep, SendLock, SendAsk, SendReply, SendCommandStarted, SendCommandFinished,
                SendToolDone, SendStreamError, SendEnd, SendDropped
  <2>3. UNCHANGED <<epoch, token, cmdToken, pulse, overlay, cmd>>
    BY <2>2 DEF screen, tui, commands, started
  <2>4. \A u \in Turns : drv'[u] \notin {"new", "done"} => drv[u] \notin {"new", "done"}
    <3>1. drv' = drv \/ (drv[t] \notin {"new", "done"} /\ \E s : drv' = [drv EXCEPT ![t] = s])
      BY <2>1 DEF Drive, DriverPrompt, DriverForward, DriverCancelled, DriverEnd, DriverRestore,
                  SendStep, SendLock, SendAsk, SendReply, SendCommandStarted,
                  SendCommandFinished, SendToolDone, SendStreamError, SendEnd, SendDropped
    <3>2. DOMAIN drv = Turns
      BY TypeParts DEF TaskType
    <3>. QED  BY <3>1, <3>2
  <2>. QED  BY <2>3, <2>4, QuietCancelInv
<1>2. CASE \E c \in Commands : CommandStep(c)
  <2>1. UNCHANGED <<epoch, token, cmdToken, pulse, overlay, drv>>
    BY <1>2 DEF CommandStep, CommandHeld, CommandExits, CommandReports,
              background, tasks, started, tui
  <2>2. \A c \in Commands : cmd'[c] \in {"run", "held"} => cmd[c] \in {"run", "held"}
    BY <1>2, TypeParts DEF CommandStep, CommandHeld, CommandExits, CommandReports, CommandType
  <2>. QED  BY <2>1, <2>2, QuietCancelInv
<1>3. CASE UNCHANGED vars
  <2>1. UNCHANGED <<epoch, token, cmdToken, pulse, overlay, drv, cmd>>
    BY <1>3 DEF vars, tui, tasks, started, commands
  <2>. QED  BY <2>1, QuietCancelInv
<1>. QED  BY <1>1, <1>2, <1>3, UserCancelInv, HandleCancelInv DEF Next
-----------------------------------------------------------------------------
(* Theorems for every regime *)

\* Every reachable state is well typed, and a closed pulse keeps nothing of its turn.
THEOREM RuntimeTypeCorrect == Spec => []TypeOK
BY InitType, NextType, PTL DEF Spec

\* The mutex is held exactly by the send task that is inside send_message.
LEMMA MutexHolds == Spec => []LockInv
<1>1. Init => LockInv
  BY RuntimeAssumption DEF Init, LockInv, Turns, Holding
<1>. QED  BY <1>1, NextLockInv, RuntimeTypeCorrect, PTL DEF Spec

\* A turn that reported its end no longer uses the conversation, in whatever order
\* the mutex serves its waiters and however many turns overlap.
THEOREM ReportedStopped == Spec => []ReportedTurnsStopped
<1>1. LockInv => ReportedTurnsStopped
  BY DEF LockInv, ReportedTurnsStopped
<1>. QED  BY <1>1, MutexHolds, PTL

\* After an interrupt nothing runs that it did not reach, and no approval can start
\* anything more, until the pulse is closed.
THEOREM CancelReaches == Spec => []CancelReachesAll
<1>1. Init => CancelInv
  BY DEF Init, CancelInv, TokensOld, CancelReachesAll, NoPulse
<1>2. CancelInv => CancelReachesAll
  BY DEF CancelInv
<1>. QED  BY <1>1, <1>2, NextCancelInv, RuntimeTypeCorrect, PTL DEF Spec

-----------------------------------------------------------------------------
(***************************************************************************)
(* Isolation.  The identity of a turn is not in its updates, so everything *)
(* rests on the screen: at any time at most one turn or command is alive,  *)
(* and the pulse shown is its own.  That holds as long as the endpoint     *)
(* sends no error event inside a turn, turns run no command sessions       *)
(* (Isolated), and no inline command joins a running one (CommandsAlone).  *)
(* Without any one of the three TLC finds an update that acts on a pulse   *)
(* that is not its own.                                                    *)
(***************************************************************************)
Isolated == MaxErrors = 0 /\ ~ToolCommands
CommandsAlone == \A c \in Commands : Bang(c) => ~pulse.open

Idle(t) == drv[t] \in {"new", "done"}
Unused(c) == cmd[c] \in {"new", "done"}
Report(t) == {Update("complete", t), Update("error", t)}

\* The channel while turn t runs: requests only ...
Asking(t, q) == \A i \in 1 .. Len(q) : q[i] = Update("ask", t)
\* ... and once its driver is done: the report of its end comes last.
Ending(t, q) ==
    /\ Len(q) >= 1 /\ q[Len(q)] \in Report(t)
    /\ \A i \in 1 .. Len(q) - 1 : q[i] = Update("ask", t)

\* Nothing runs; an inline command may wait for approval.
Resting ==
    /\ ~pulse.open /\ updates = <<>>
    /\ overlay.kind # "tool"
    /\ overlay.kind = "inline" => cmd[overlay.id] = "new"
    /\ status \notin {"Running", "Cancelling"}
    /\ \A t \in Turns : Idle(t)
    /\ \A c \in Commands : Unused(c)

\* The pulse is turn t's.
TurnShown(t) ==
    /\ pulse.open /\ pulse.owner = t /\ pulse.sessions = {}
    /\ \A u \in Turns : u # t => Idle(u)
    /\ \A c \in Commands : Unused(c)
    /\ IF drv[t] = "done" THEN Ending(t, updates) ELSE drv[t] # "new" /\ Asking(t, updates)
    /\ overlay # NoOverlay => /\ overlay = [kind |-> "tool", id |-> t]
                              /\ ~pulse.cancelling /\ ~readOnly
    /\ kind[t] = "readOnly" => readOnly
    /\ ~pulse.cancelling => token[t] = epoch

\* The pulse is command c's: the session is on the screen exactly until its
\* end was handled, and its completion comes after that.
CommandShown(c) ==
    /\ pulse.open /\ pulse.owner = 0 /\ overlay = NoOverlay
    /\ \A t \in Turns : Idle(t)
    /\ \A d \in Commands : d # c => Unused(d)
    /\ LET finished == Update("finished", InlineId(c))
           complete == Update("cmdComplete", c)
       IN  \/ /\ pulse.sessions = {InlineId(c)}
              /\ \/ cmd[c] \in {"run", "held"} /\ updates = <<>>
                 \/ cmd[c] = "tail" /\ updates = <<finished>>
                 \/ cmd[c] = "done" /\ updates = <<finished, complete>>
           \/ /\ pulse.sessions = {}
              /\ \/ cmd[c] = "tail" /\ updates = <<>>
                 \/ cmd[c] = "done" /\ updates = <<complete>>

\* What a turn keeps to itself.
Private(t) ==
    /\ Asking(t, deltas[t])
    /\ drv[t] \in {"new", "prompt"} => send[t] = "new"
    /\ drv[t] = "new" => reply[t] = "none"
    /\ send[t] # "cmd"
    /\ kind[t] = "readOnly" => reply[t] # "yes"
    /\ drv[t] \in {"forward", "unwind", "restore"}
          => prompt = IF kind[t] = "plain" THEN 0 ELSE t
    /\ drv[t] = "restore" => send[t] \in {"ok", "err"}

OneActor ==
    /\ ~pendingDone
    /\ Resting \/ (\E t \in Turns : TurnShown(t)) \/ (\E c \in Commands : CommandShown(c))
PrivateTurns == \A t \in Turns : Private(t)
IsolationInv == OneActor /\ PrivateTurns

\* The channel's shape under the operations on it.
LEMMA AskingChannel ==
    ASSUME NEW t \in Turns, NEW q \in Seq(Updates), Asking(t, q)
    PROVE  /\ Asking(t, Append(q, Update("ask", t)))
           /\ \A u \in Report(t) : Ending(t, Append(q, u))
           /\ q # <<>> => Head(q) = Update("ask", t) /\ Asking(t, Tail(q))
<1>0. Len(q) \in Nat /\ \A i \in 1 .. Len(q) : q[i] = Update("ask", t)
  BY DEF Asking
<1>1. ASSUME NEW u
      PROVE  /\ Len(Append(q, u)) = Len(q) + 1 /\ Append(q, u)[Len(q) + 1] = u
             /\ \A i \in 1 .. Len(q) : Append(q, u)[i] = q[i]
  OBVIOUS
<1>2. Asking(t, Append(q, Update("ask", t)))
  BY <1>0, <1>1 DEF Asking
<1>3. ASSUME NEW u \in Report(t) PROVE Ending(t, Append(q, u))
  BY <1>0, <1>1 DEF Ending
<1>4. ASSUME q # <<>> PROVE Head(q) = Update("ask", t) /\ Asking(t, Tail(q))
  <2>1. /\ Len(q) >= 1 /\ Head(q) = q[1] /\ Len(Tail(q)) = Len(q) - 1
        /\ \A i \in 1 .. Len(q) - 1 : Tail(q)[i] = q[i + 1]
    BY <1>4
  <2>. QED  BY <1>0, <2>1 DEF Asking
<1>. QED  BY <1>2, <1>3, <1>4

\* The report of a turn's end is the last update of the turn.
LEMMA EndingChannel ==
    ASSUME NEW t \in Turns, NEW q \in Seq(Updates), Ending(t, q)
    PROVE  /\ q # <<>>
           /\ \/ Head(q) = Update("ask", t) /\ Ending(t, Tail(q))
              \/ Head(q) \in Report(t) /\ Tail(q) = <<>>
<1>1. /\ Len(q) \in Nat /\ Len(q) >= 1 /\ q[Len(q)] \in Report(t) /\ q # <<>>
      /\ \A i \in 1 .. Len(q) - 1 : q[i] = Update("ask", t)
  BY DEF Ending
<1>2. /\ Head(q) = q[1] /\ Len(Tail(q)) = Len(q) - 1 /\ Tail(q) \in Seq(Updates)
      /\ \A i \in 1 .. Len(q) - 1 : Tail(q)[i] = q[i + 1]
  BY <1>1
<1>3. CASE Len(q) = 1
  <2>1. Len(Tail(q)) = 0
    BY <1>2, <1>3
  <2>2. \A r \in Seq(Updates) : r # <<>> => Len(r) # 0
    BY EmptySeq
  <2>3. Tail(q) = <<>>
    BY <1>2, <2>1, <2>2
  <2>. QED  BY <1>1, <1>2, <1>3, <2>3
<1>4. CASE Len(q) > 1
  <2>1. Head(q) = Update("ask", t)
    BY <1>1, <1>2, <1>4
  <2>2. Tail(q)[Len(Tail(q))] \in Report(t)
    BY <1>1, <1>2, <1>4
  <2>3. \A i \in 1 .. Len(Tail(q)) - 1 : Tail(q)[i] = Update("ask", t)
    BY <1>1, <1>2, <1>4
  <2>. QED  BY <1>1, <1>2, <1>4, <2>1, <2>2, <2>3 DEF Ending
<1>. QED  BY <1>1, <1>3, <1>4

\* The kinds of the updates above.
LEMMA ReportKinds ==
    /\ \A t : /\ Update("ask", t).kind = "ask" /\ Update("ask", t).id = t
              /\ \A u \in Report(t) : u.kind \in {"complete", "error"} /\ u.id = t
    /\ \A x : /\ Update("finished", x).kind = "finished" /\ Update("finished", x).id = x
              /\ Update("cmdComplete", x).kind = "cmdComplete"
BY DEF Update, Report

\* A step that leaves the screen, the channel and the drivers alone.
LEMMA QuietActor ==
    ASSUME OneActor,
           UNCHANGED <<pulse, pendingDone, overlay, readOnly, status, updates, drv, cmd,
                       token, epoch, kind>>
    PROVE  OneActor'
BY DEF OneActor, Resting, TurnShown, CommandShown, Idle, Unused

\* A step that leaves what the turns keep to themselves alone.
LEMMA QuietPrivate ==
    ASSUME PrivateTurns, UNCHANGED <<deltas, drv, send, reply, kind, prompt>>
    PROVE  PrivateTurns'
BY DEF PrivateTurns, Private

\* Answers: a turn that was started, and is not read-only, may get a yes.
LEMMA AnsweredPrivate ==
    ASSUME TypeOK, PrivateTurns, UNCHANGED <<deltas, drv, send, kind, prompt>>,
           \A t \in Turns : \/ reply'[t] = reply[t]
                            \/ /\ drv[t] # "new"
                               /\ reply'[t] = "yes" => kind[t] # "readOnly"
    PROVE  PrivateTurns'
<1>. SUFFICES ASSUME NEW t \in Turns PROVE Private(t)'
  BY DEF PrivateTurns
<1>1. Private(t)
  BY DEF PrivateTurns
<1>. QED  BY <1>1 DEF Private

\* A turn starts where nothing runs.
LEMMA StartTurnActor ==
    ASSUME TypeOK, IsolationInv, NEW t \in Turns, NEW k \in Kinds, StartTurn(t, k)
    PROVE  IsolationInv'
<1>. USE TypeParts
<1>1. /\ ~pulse.open /\ overlay = NoOverlay /\ drv[t] = "new"
      /\ pulse' = OpenPulse(t, {}) /\ pendingDone' = FALSE
      /\ readOnly' = IF k = "plain" THEN readOnly ELSE k = "readOnly"
      /\ kind' = [kind EXCEPT ![t] = k] /\ token' = [token EXCEPT ![t] = epoch]
      /\ drv' = [drv EXCEPT ![t] = "prompt"]
      /\ UNCHANGED <<overlay, updates, epoch, prompt, send, deltas, reply, cmd>>
  BY DEF StartTurn, commands
<1>2. Resting
  BY <1>1 DEF IsolationInv, OneActor, TurnShown, CommandShown
<1>3. /\ kind'[t] = k /\ token'[t] = epoch /\ drv'[t] = "prompt"
      /\ \A u \in Turns : u # t => drv'[u] = drv[u] /\ kind'[u] = kind[u]
  BY <1>1 DEF TaskType
<1>4. TurnShown(t)'
  <2>1. (\A u \in Turns : u # t => Idle(u)) /\ (\A c \in Commands : Unused(c))
        /\ updates = <<>>
    BY <1>2 DEF Resting
  <2>2. Asking(t, updates)'
    BY <1>1, <2>1 DEF Asking
  <2>3. /\ (\A u \in Turns : u # t => Idle(u))' /\ (\A c \in Commands : Unused(c))'
    BY <1>1, <1>3, <2>1 DEF Idle, Unused
  <2>4. kind'[t] = "readOnly" => readOnly'
    BY <1>1, <1>3
  <2>5. pulse'.open /\ pulse'.owner = t /\ pulse'.sessions = {}
    BY <1>1 DEF OpenPulse
  <2>. QED  BY <1>1, <1>3, <2>2, <2>3, <2>4, <2>5 DEF TurnShown
<1>5. PrivateTurns'
  <2>. SUFFICES ASSUME NEW u \in Turns PROVE Private(u)'
    BY DEF PrivateTurns
  <2>1. Private(u)
    BY DEF IsolationInv, PrivateTurns
  <2>2. CASE u = t
    BY <1>1, <1>3, <2>1, <2>2 DEF Private
  <2>3. CASE u # t
    BY <1>1, <1>3, <2>1, <2>3 DEF Private
  <2>. QED  BY <2>2, <2>3
<1>. QED  BY <1>1, <1>4, <1>5 DEF IsolationInv, OneActor

\* A command starts where nothing runs.
LEMMA StartCommandActor ==
    ASSUME TypeOK, Resting, ~pendingDone, NEW c \in Commands, StartCommand(c),
           overlay' = NoOverlay, UNCHANGED <<updates, drv>>
    PROVE  OneActor'
<1>1. /\ ~pulse.open /\ updates = <<>>
      /\ (\A t \in Turns : Idle(t)) /\ (\A d \in Commands : Unused(d))
  BY DEF Resting
<1>2. /\ pulse' = OpenPulse(0, {InlineId(c)}) /\ ~pendingDone'
      /\ cmd' = [cmd EXCEPT ![c] = "run"]
  BY <1>1 DEF StartCommand
<1>3. cmd'[c] = "run" /\ \A d \in Commands : d # c => cmd'[d] = cmd[d]
  BY <1>2, TypeParts DEF CommandType
<1>4. pulse'.open /\ pulse'.owner = 0 /\ pulse'.sessions = {InlineId(c)}
  BY <1>2 DEF OpenPulse
<1>5. (\A t \in Turns : Idle(t))' /\ (\A d \in Commands : d # c => Unused(d))'
  BY <1>1, <1>3 DEF Idle, Unused
<1>6. CommandShown(c)'
  BY <1>1, <1>3, <1>4, <1>5 DEF CommandShown
<1>. QED  BY <1>2, <1>6 DEF OneActor

\* An inline command that does not join a running one.
LEMMA BangActor ==
    ASSUME TypeOK, IsolationInv, NEW c \in Commands, Bang(c), ~pulse.open
    PROVE  IsolationInv'
<1>1. /\ overlay = NoOverlay /\ cmd[c] = "new"
      /\ UNCHANGED <<prompt, kind, drv, send, deltas, updates, reply>>
  BY DEF Bang, background, tasks, started
<1>2. Resting /\ ~pendingDone
  BY DEF IsolationInv, OneActor, TurnShown, CommandShown
<1>3. CASE StartCommand(c) /\ UNCHANGED overlay
  BY <1>1, <1>2, <1>3, StartCommandActor, QuietPrivate DEF IsolationInv
<1>4. CASE /\ overlay' = [kind |-> "inline", id |-> c] /\ status' = "AwaitingApproval"
           /\ UNCHANGED <<pulse, pendingDone, grant, commands>>
  <2>1. UNCHANGED <<pulse, pendingDone, cmd>>
    BY <1>4 DEF commands
  <2>2. Resting'
    BY <1>1, <1>2, <1>4, <2>1 DEF Resting, Idle, Unused
  <2>. QED  BY <1>1, <1>2, <2>1, <2>2, QuietPrivate DEF IsolationInv, OneActor
<1>. QED  BY <1>3, <1>4 DEF Bang

\* The answer to the overlay: only the turn on the screen can be asking.
LEMMA AnswerActor ==
    ASSUME TypeOK, IsolationInv, NEW choice, Answer(choice) PROVE IsolationInv'
<1>. USE TypeParts
<1>1. /\ overlay # NoOverlay /\ overlay' = NoOverlay
      /\ UNCHANGED <<prompt, kind, token, drv, send, deltas, readOnly, updates, epoch>>
  BY DEF Answer, background, tasks, started
<1>2. CASE Resting
  <2>1. overlay.kind = "inline" /\ ~pendingDone
    BY <1>1, <1>2, OverlayIds DEF Resting, IsolationInv, OneActor
  <2>2. CASE reply' = DeniedReplies /\ UNCHANGED <<pulse, pendingDone, status, commands>>
    <3>1. UNCHANGED <<reply, cmd, pulse, pendingDone, status>>
      BY <2>1, <2>2 DEF DeniedReplies, commands
    <3>2. Resting'
      BY <1>1, <1>2, <3>1 DEF Resting, Idle, Unused, NoOverlay
    <3>. QED  BY <1>1, <2>1, <3>1, <3>2, QuietPrivate DEF IsolationInv, OneActor
  <2>3. CASE StartCommand(overlay.id) /\ UNCHANGED reply
    <3>1. overlay.id \in Commands
      BY <2>1, OverlayIds
    <3>. QED  BY <1>1, <1>2, <2>1, <2>3, <3>1, StartCommandActor, QuietPrivate
              DEF IsolationInv
  <2>. QED  BY <2>1, <2>2, <2>3 DEF Answer
<1>3. ASSUME NEW t \in Turns, TurnShown(t) PROVE IsolationInv'
  <2>1. /\ overlay = [kind |-> "tool", id |-> t] /\ ~pulse.cancelling /\ ~readOnly
        /\ kind[t] # "readOnly" /\ drv[t] # "new"
    BY <1>1, <1>3 DEF TurnShown
  <2>2. overlay.kind = "tool" /\ overlay.id = t
    BY <2>1
  <2>3. /\ UNCHANGED <<pulse, pendingDone, cmd>>
        /\ \E r \in {"yes", "no"} : reply' = [reply EXCEPT ![t] = r]
    BY <2>2 DEF Answer, DeniedReplies, commands
  <2>4. \A u \in Turns : u # t => reply'[u] = reply[u]
    BY <2>3 DEF ReplyType
  <2>5. PrivateTurns'
    BY <1>1, <2>1, <2>4, AnsweredPrivate DEF IsolationInv
  <2>6. TurnShown(t)'
    BY <1>1, <1>3, <2>3 DEF TurnShown, Idle, Unused
  <2>. QED  BY <2>3, <2>5, <2>6 DEF IsolationInv, OneActor
<1>4. ASSUME NEW c \in Commands, CommandShown(c) PROVE FALSE
  BY <1>1, <1>4 DEF CommandShown
<1>. QED  BY <1>2, <1>3, <1>4 DEF IsolationInv, OneActor

\* The interrupt leaves the pulse to its owner.
LEMMA InterruptActor ==
    ASSUME TypeOK, IsolationInv, Interrupt PROVE IsolationInv'
<1>. USE TypeParts
<1>1. /\ pulse.open /\ overlay' = NoOverlay /\ reply' = DeniedReplies
      /\ pulse' = [pulse EXCEPT !.cancelling = TRUE]
      /\ UNCHANGED <<prompt, kind, token, drv, send, deltas, readOnly, updates, pendingDone, cmd>>
  BY DEF Interrupt, background, tasks, started, commands
<1>2. /\ pulse'.open = pulse.open /\ pulse'.owner = pulse.owner
      /\ pulse'.sessions = pulse.sessions /\ pulse'.cancelling
  BY <1>1 DEF PulseType
<1>3. ASSUME NEW t \in Turns, TurnShown(t) PROVE TurnShown(t)'
  BY <1>1, <1>2, <1>3 DEF TurnShown, Idle, Unused
<1>4. ASSUME NEW c \in Commands, CommandShown(c) PROVE CommandShown(c)'
  BY <1>1, <1>2, <1>4 DEF CommandShown, Idle, Unused
<1>5. OneActor'
  BY <1>1, <1>3, <1>4 DEF IsolationInv, OneActor, Resting
<1>6. \A t \in Turns : reply'[t] = reply[t] \/ (drv[t] # "new" /\ reply'[t] # "yes")
  <2>1. CASE overlay.kind = "tool"
    <3>1. PICK t \in Turns : TurnShown(t) /\ overlay.id = t
      BY <1>1, <2>1 DEF IsolationInv, OneActor, Resting, TurnShown, CommandShown, NoOverlay
    <3>2. reply' = [reply EXCEPT ![t] = "no"] /\ drv[t] # "new"
      BY <1>1, <2>1, <3>1 DEF DeniedReplies, TurnShown
    <3>. QED  BY <3>2 DEF ReplyType
  <2>2. CASE overlay.kind # "tool"
    BY <1>1, <2>2 DEF DeniedReplies
  <2>. QED  BY <2>1, <2>2
<1>. QED  BY <1>1, <1>5, <1>6, AnsweredPrivate DEF IsolationInv

\* Whatever the head of the channel is, it belongs to the pulse on the screen.
LEMMA HeadCases ==
    ASSUME TypeOK, OneActor, updates # <<>>
    PROVE  \/ \E t \in Turns :
                 /\ TurnShown(t) /\ drv[t] # "new"
                 /\ \/ /\ Head(updates) = Update("ask", t)
                       /\ IF drv[t] = "done" THEN Ending(t, Tail(updates))
                          ELSE Asking(t, Tail(updates))
                    \/ Head(updates) \in Report(t) /\ drv[t] = "done" /\ Tail(updates) = <<>>
           \/ \E c \in Commands :
                 /\ CommandShown(c)
                 /\ \/ /\ Head(updates) = Update("finished", InlineId(c))
                       /\ pulse.sessions = {InlineId(c)}
                       /\ \/ cmd[c] = "tail" /\ Tail(updates) = <<>>
                          \/ cmd[c] = "done" /\ Tail(updates) = <<Update("cmdComplete", c)>>
                    \/ /\ Head(updates) = Update("cmdComplete", c)
                       /\ pulse.sessions = {} /\ cmd[c] = "done" /\ Tail(updates) = <<>>
<1>0. updates \in Seq(Updates)
  BY TypeParts DEF ChannelType
<1>1. CASE Resting
  BY <1>1 DEF Resting
<1>2. ASSUME NEW t \in Turns, TurnShown(t)
      PROVE  /\ drv[t] # "new"
             /\ \/ /\ Head(updates) = Update("ask", t)
                   /\ IF drv[t] = "done" THEN Ending(t, Tail(updates))
                      ELSE Asking(t, Tail(updates))
                \/ Head(updates) \in Report(t) /\ drv[t] = "done" /\ Tail(updates) = <<>>
  <2>1. CASE drv[t] = "done"
    <3>1. Ending(t, updates)
      BY <1>2, <2>1 DEF TurnShown
    <3>. QED  BY <1>0, <2>1, <3>1, EndingChannel
  <2>2. CASE drv[t] # "done"
    <3>1. Asking(t, updates) /\ drv[t] # "new"
      BY <1>2, <2>2 DEF TurnShown
    <3>. QED  BY <1>0, <2>2, <3>1, AskingChannel
  <2>. QED  BY <2>1, <2>2
<1>3. ASSUME NEW c \in Commands, CommandShown(c)
      PROVE  \/ /\ Head(updates) = Update("finished", InlineId(c))
                /\ pulse.sessions = {InlineId(c)}
                /\ \/ cmd[c] = "tail" /\ Tail(updates) = <<>>
                   \/ cmd[c] = "done" /\ Tail(updates) = <<Update("cmdComplete", c)>>
             \/ /\ Head(updates) = Update("cmdComplete", c)
                /\ pulse.sessions = {} /\ cmd[c] = "done" /\ Tail(updates) = <<>>
  <2>1. \A a : Head(<<a>>) = a /\ Tail(<<a>>) = <<>>
    OBVIOUS
  <2>2. \A a, b : Head(<<a, b>>) = a /\ Tail(<<a, b>>) = <<b>>
    OBVIOUS
  <2>. QED  BY <1>3, <2>1, <2>2 DEF CommandShown
<1>4. CASE \E t \in Turns : TurnShown(t)
  BY <1>2, <1>4
<1>5. CASE \E c \in Commands : CommandShown(c)
  BY <1>3, <1>5
<1>. QED  BY <1>1, <1>4, <1>5 DEF OneActor

\* An approval request is the shown turn's, and so is its answer.
LEMMA HandleAskActor ==
    ASSUME TypeOK, IsolationInv, HandleAsk PROVE IsolationInv'
<1>. USE TypeParts
<1>1. /\ updates # <<>> /\ Head(updates).kind = "ask" /\ updates' = Tail(updates)
      /\ UNCHANGED <<prompt, kind, token, drv, send, deltas, pulse, pendingDone, readOnly,
                     epoch, cmd>>
  BY DEF HandleAsk, Receive, background, tasks, started, commands
<1>2. PICK t \in Turns :
        /\ TurnShown(t) /\ Head(updates) = Update("ask", t) /\ drv[t] # "new"
        /\ IF drv[t] = "done" THEN Ending(t, Tail(updates)) ELSE Asking(t, Tail(updates))
  BY <1>1, HeadCases, ReportKinds DEF IsolationInv
<1>3. Head(updates).id = t
  BY <1>2, ReportKinds
<1>4. PICK covered \in {FALSE, grant # "none"} :
        LET verdict == AskVerdict(covered)
            before == IF pulse.cancelling THEN reply ELSE DeniedReplies
        IN  /\ reply' = CASE verdict = "deny"  -> [before EXCEPT ![t] = "no"]
                          [] verdict = "allow" -> [before EXCEPT ![t] = "yes"]
                          [] OTHER             -> before
            /\ overlay' = CASE verdict = "prompt" -> [kind |-> "tool", id |-> t]
                            [] pulse.cancelling   -> overlay
                            [] OTHER              -> NoOverlay
  BY <1>3 DEF HandleAsk
<1>. DEFINE verdict == AskVerdict(covered)
            before == IF pulse.cancelling THEN reply ELSE DeniedReplies
<1>5. /\ verdict \in {"deny", "allow", "prompt"}
      /\ verdict # "deny" => ~pulse.cancelling /\ ~readOnly
  BY DEF AskVerdict
<1>6. before = reply \/ before = [reply EXCEPT ![t] = "no"]
  <2>1. overlay = NoOverlay \/ overlay = [kind |-> "tool", id |-> t]
    BY <1>2 DEF TurnShown
  <2>2. overlay.kind = "tool" => overlay.id = t
    BY <2>1 DEF NoOverlay
  <2>. QED  BY <2>2 DEF DeniedReplies
<1>. HIDE DEF verdict, before
<1>7. TurnShown(t)'
  <2>1. \/ overlay' = NoOverlay
        \/ overlay' = overlay /\ pulse.cancelling
        \/ overlay' = [kind |-> "tool", id |-> t] /\ ~pulse.cancelling /\ ~readOnly
    BY <1>4, <1>5 DEF verdict
  <2>. QED  BY <1>1, <1>2, <2>1 DEF TurnShown, Idle, Unused
<1>8. PrivateTurns'
  <2>1. \/ reply' = [before EXCEPT ![t] = "no"]
        \/ reply' = [before EXCEPT ![t] = "yes"] /\ ~readOnly
        \/ reply' = before
    BY <1>4, <1>5 DEF verdict, before
  <2>2. \A u \in Turns : u # t => reply'[u] = reply[u]
    BY <1>6, <2>1 DEF ReplyType
  <2>3. reply'[t] = "yes" => reply'[t] = reply[t] \/ ~readOnly
    BY <1>6, <2>1 DEF ReplyType
  <2>4. kind[t] = "readOnly" => readOnly
    BY <1>2 DEF TurnShown
  <2>. QED  BY <1>1, <1>2, <2>2, <2>3, <2>4, AnsweredPrivate DEF IsolationInv
<1>. QED  BY <1>1, <1>7, <1>8 DEF IsolationInv, OneActor

\* The pulse closes: the turn that was shown gets its answer, and nothing runs.
LEMMA ClosedActor ==
    ASSUME TypeOK, IsolationInv, pulse.open,
           \A t \in Turns : Idle(t), \A c \in Commands : Unused(c), updates' = <<>>,
           pulse' = NoPulse, pendingDone' = FALSE, overlay' = NoOverlay,
           reply' = DeniedReplies, status' \in {"Ready", "Failed"},
           UNCHANGED <<prompt, kind, drv, send, deltas, cmd>>
    PROVE  IsolationInv'
<1>1. Resting'
  BY DEF Resting, Idle, Unused, NoPulse, NoOverlay
<1>2. \A t \in Turns : reply'[t] = reply[t] \/ (drv[t] # "new" /\ reply'[t] # "yes")
  <2>1. CASE overlay.kind = "tool"
    <3>1. PICK t \in Turns : TurnShown(t) /\ overlay.id = t
      BY <2>1 DEF IsolationInv, OneActor, Resting, TurnShown, CommandShown, NoOverlay
    <3>2. reply' = [reply EXCEPT ![t] = "no"] /\ drv[t] # "new"
      BY <2>1, <3>1 DEF DeniedReplies, TurnShown
    <3>. QED  BY <3>2, TypeParts DEF ReplyType
  <2>2. CASE overlay.kind # "tool"
    BY <2>2 DEF DeniedReplies
  <2>. QED  BY <2>1, <2>2
<1>. QED  BY <1>1, <1>2, AnsweredPrivate DEF IsolationInv, OneActor

\* A PulseComplete closes the pulse it is meant for.
LEMMA HandleCompleteActor ==
    ASSUME TypeOK, IsolationInv, HandleComplete PROVE IsolationInv'
<1>1. /\ updates # <<>> /\ Head(updates).kind \in {"complete", "cmdComplete"}
      /\ updates' = Tail(updates) /\ CompleteIfIdle(pulse, TRUE)
      /\ UNCHANGED <<prompt, kind, drv, send, deltas, cmd>>
  BY DEF HandleComplete, Receive, background, tasks, started, commands
<1>2. /\ pulse.open /\ pulse.sessions = {} /\ Tail(updates) = <<>>
      /\ (\A t \in Turns : Idle(t)) /\ (\A c \in Commands : Unused(c))
  <2>1. ASSUME NEW t \in Turns, TurnShown(t), drv[t] = "done", Tail(updates) = <<>>
        PROVE  /\ pulse.open /\ pulse.sessions = {}
               /\ (\A u \in Turns : Idle(u)) /\ (\A c \in Commands : Unused(c))
    BY <2>1 DEF TurnShown, Idle
  <2>2. ASSUME NEW c \in Commands, CommandShown(c), cmd[c] = "done"
        PROVE  /\ pulse.open
               /\ (\A t \in Turns : Idle(t)) /\ (\A d \in Commands : Unused(d))
    BY <2>2 DEF CommandShown, Unused
  <2>3. \/ \E t \in Turns : TurnShown(t) /\ drv[t] = "done" /\ Tail(updates) = <<>>
        \/ \E c \in Commands : /\ CommandShown(c) /\ cmd[c] = "done"
                               /\ pulse.sessions = {} /\ Tail(updates) = <<>>
    BY <1>1, HeadCases, ReportKinds DEF IsolationInv
  <2>. QED  BY <2>1, <2>2, <2>3
<1>3. /\ pulse' = NoPulse /\ pendingDone' = FALSE /\ overlay' = NoOverlay
      /\ reply' = DeniedReplies /\ status' = "Ready"
  BY <1>1, <1>2 DEF CompleteIfIdle
<1>. QED  BY <1>1, <1>2, <1>3, ClosedActor

\* A command's session leaves the screen before its PulseComplete arrives.
LEMMA HandleFinishedActor ==
    ASSUME TypeOK, IsolationInv, HandleFinished PROVE IsolationInv'
<1>1. /\ updates # <<>> /\ Head(updates).kind = "finished" /\ updates' = Tail(updates)
      /\ CompleteIfIdle([pulse EXCEPT !.sessions = @ \ {Head(updates).id}], pendingDone)
      /\ UNCHANGED <<prompt, kind, drv, send, deltas, cmd>>
  BY DEF HandleFinished, Receive, background, tasks, started, commands
<1>2. ~pendingDone
  BY DEF IsolationInv, OneActor
<1>3. /\ pulse' = [pulse EXCEPT !.sessions = @ \ {Head(updates).id}]
      /\ ~pendingDone' /\ UNCHANGED <<overlay, reply>>
  BY <1>1, <1>2 DEF CompleteIfIdle
<1>4. PICK c \in Commands :
        /\ CommandShown(c) /\ Head(updates) = Update("finished", InlineId(c))
        /\ pulse.sessions = {InlineId(c)}
        /\ \/ cmd[c] = "tail" /\ Tail(updates) = <<>>
           \/ cmd[c] = "done" /\ Tail(updates) = <<Update("cmdComplete", c)>>
  BY <1>1, HeadCases, ReportKinds DEF IsolationInv
<1>5. /\ pulse'.open = pulse.open /\ pulse'.owner = pulse.owner
      /\ pulse'.sessions = pulse.sessions \ {Head(updates).id}
  BY <1>3, TypeParts DEF PulseType
<1>6. pulse'.sessions = {}
  BY <1>4, <1>5, ReportKinds
<1>7. CommandShown(c)'
  BY <1>1, <1>3, <1>4, <1>5, <1>6 DEF CommandShown, Idle, Unused
<1>. QED  BY <1>1, <1>3, <1>7, QuietPrivate DEF IsolationInv, OneActor

\* An Error closes the pulse of the turn that failed.
LEMMA HandleErrorActor ==
    ASSUME TypeOK, IsolationInv, HandleError PROVE IsolationInv'
<1>1. /\ updates # <<>> /\ Head(updates).kind = "error" /\ updates' = Tail(updates)
      /\ pulse' = NoPulse /\ pendingDone' = FALSE /\ overlay' = NoOverlay
      /\ reply' = DeniedReplies /\ status' = "Failed"
      /\ UNCHANGED <<prompt, kind, drv, send, deltas, cmd>>
  BY DEF HandleError, Receive, background, tasks, started, commands
<1>2. PICK t \in Turns : TurnShown(t) /\ drv[t] = "done" /\ Tail(updates) = <<>>
  BY <1>1, HeadCases, ReportKinds DEF IsolationInv
<1>3. /\ pulse.open
      /\ (\A u \in Turns : Idle(u)) /\ (\A c \in Commands : Unused(c))
  BY <1>2 DEF TurnShown, Idle
<1>. QED  BY <1>1, <1>2, <1>3, ClosedActor

\* No tool announces a command session here.
LEMMA NoStarted ==
    ASSUME TypeOK, IsolationInv, HandleStarted PROVE FALSE
<1>1. updates # <<>> /\ Head(updates).kind = "started"
  BY DEF HandleStarted, Receive
<1>. QED  BY <1>1, HeadCases, ReportKinds DEF IsolationInv

\* A driver that takes a step is the shown turn's.
LEMMA DriverShown ==
    ASSUME TypeOK, OneActor, NEW t \in Turns, ~Idle(t)
    PROVE  TurnShown(t) /\ (drv[t] # "done" => Asking(t, updates))
BY DEF OneActor, Resting, TurnShown, CommandShown, Idle

\* The steps of the driver.
LEMMA DriveActor ==
    ASSUME TypeOK, IsolationInv, NEW t \in Turns, Drive(t) PROVE IsolationInv'
<1>. USE TypeParts
<1>1. UNCHANGED <<pulse, pendingDone, overlay, readOnly, status, epoch, cmd, kind, token, reply>>
  BY DEF Drive, DriverPrompt, DriverForward, DriverCancelled, DriverEnd, DriverRestore, screen,
         tui, commands, started
<1>2. TurnShown(t) /\ Asking(t, updates) /\ drv[t] \notin {"new", "done"}
  <2>1. drv[t] \notin {"new", "done"}
    BY DEF Drive, DriverPrompt, DriverForward, DriverCancelled, DriverEnd, DriverRestore
  <2>. QED  BY <2>1, DriverShown DEF IsolationInv, Idle
<1>3. /\ \A u \in Turns : u # t => drv[u] \in {"new", "done"}
      /\ \A u \in Turns : Private(u)
      /\ updates \in Seq(Updates) /\ DOMAIN drv = Turns /\ DOMAIN send = Turns
      /\ DOMAIN deltas = Turns /\ deltas[t] \in Seq(Updates)
  BY <1>2 DEF TurnShown, Idle, IsolationInv, PrivateTurns, ChannelType, TaskType
<1>4. ASSUME \A u \in Turns : u # t => drv'[u] = drv[u],
             IF drv'[t] = "done" THEN Ending(t, updates') ELSE drv'[t] # "new" /\ Asking(t, updates')
      PROVE  OneActor'
  <2>1. TurnShown(t)'
    BY <1>1, <1>2, <1>4 DEF TurnShown, Idle, Unused
  <2>. QED  BY <1>1, <2>1 DEF IsolationInv, OneActor
<1>5. CASE DriverPrompt(t)
  <2>1. /\ prompt' = IF kind[t] = "plain" THEN 0 ELSE t
        /\ drv' = [drv EXCEPT ![t] = "forward"] /\ send' = [send EXCEPT ![t] = "lock"]
        /\ UNCHANGED <<updates, deltas>>
    BY <1>5 DEF DriverPrompt
  <2>2. /\ drv'[t] = "forward" /\ send'[t] = "lock"
        /\ \A u \in Turns : u # t => drv'[u] = drv[u] /\ send'[u] = send[u]
    BY <1>3, <2>1
  <2>3. OneActor'
    BY <1>2, <1>4, <2>1, <2>2
  <2>4. ASSUME NEW u \in Turns PROVE Private(u)'
    <3>1. CASE u = t
      BY <1>1, <1>3, <2>1, <2>2, <3>1 DEF Private
    <3>2. CASE u # t
      BY <1>1, <1>3, <2>1, <2>2, <3>2 DEF Private
    <3>. QED  BY <3>1, <3>2
  <2>. QED  BY <2>3, <2>4 DEF IsolationInv, PrivateTurns
<1>6. CASE DriverForward(t)
  <2>1. /\ deltas[t] # <<>> /\ updates' = Append(updates, Head(deltas[t]))
        /\ deltas' = [deltas EXCEPT ![t] = Tail(deltas[t])]
        /\ UNCHANGED <<prompt, drv, send>>
    BY <1>6 DEF DriverForward
  <2>2. Head(deltas[t]) = Update("ask", t) /\ Asking(t, Tail(deltas[t]))
    BY <1>3, <2>1, AskingChannel DEF Private
  <2>3. Asking(t, updates')
    BY <1>2, <1>3, <2>1, <2>2, AskingChannel
  <2>4. OneActor'
    BY <1>2, <1>4, <2>1, <2>3
  <2>5. deltas'[t] = Tail(deltas[t]) /\ \A u \in Turns : u # t => deltas'[u] = deltas[u]
    BY <1>3, <2>1
  <2>6. ASSUME NEW u \in Turns PROVE Private(u)'
    BY <1>1, <1>3, <2>1, <2>2, <2>5 DEF Private
  <2>. QED  BY <2>4, <2>6 DEF IsolationInv, PrivateTurns
<1>7. CASE DriverCancelled(t) \/ DriverEnd(t)
  <2>1. /\ drv[t] = "forward" /\ UNCHANGED <<prompt, send, deltas, updates>>
        /\ \/ drv' = [drv EXCEPT ![t] = "unwind"]
           \/ drv' = [drv EXCEPT ![t] = "restore"] /\ send[t] \in {"ok", "err"}
    BY <1>7 DEF DriverCancelled, DriverEnd
  <2>2. /\ drv'[t] = "unwind" \/ (drv'[t] = "restore" /\ send[t] \in {"ok", "err"})
        /\ \A u \in Turns : u # t => drv'[u] = drv[u]
    BY <1>3, <2>1
  <2>3. OneActor'
    BY <1>2, <1>4, <2>1, <2>2
  <2>4. ASSUME NEW u \in Turns PROVE Private(u)'
    BY <1>1, <1>3, <2>1, <2>2 DEF Private
  <2>. QED  BY <2>3, <2>4 DEF IsolationInv, PrivateTurns
<1>8. CASE DriverRestore(t)
  <2>1. /\ drv' = [drv EXCEPT ![t] = "done"] /\ UNCHANGED <<send, deltas>>
        /\ \E u \in Report(t) : updates' = Append(updates, u)
    BY <1>8 DEF DriverRestore, Report
  <2>2. drv'[t] = "done" /\ \A u \in Turns : u # t => drv'[u] = drv[u]
    BY <1>3, <2>1
  <2>3. Ending(t, updates')
    BY <1>2, <1>3, <2>1, AskingChannel
  <2>4. OneActor'
    BY <1>4, <2>2, <2>3
  <2>5. ASSUME NEW u \in Turns PROVE Private(u)'
    BY <1>1, <1>3, <2>1, <2>2 DEF Private
  <2>. QED  BY <2>4, <2>5 DEF IsolationInv, PrivateTurns
<1>. QED  BY <1>5, <1>6, <1>7, <1>8 DEF Drive

\* The steps of the send task change only what the turn keeps to itself.
LEMMA SendActor ==
    ASSUME TypeOK, IsolationInv, Isolated, NEW t \in Turns, SendStep(t) PROVE IsolationInv'
<1>. USE TypeParts
<1>1. UNCHANGED <<pulse, pendingDone, overlay, readOnly, status, updates, epoch, cmd, kind,
                  token, drv, prompt>>
  BY DEF SendStep, SendLock, SendAsk, SendReply, SendCommandStarted, SendCommandFinished,
         SendToolDone, SendStreamError, SendEnd, SendDropped, screen, tui, commands, started
<1>2. OneActor'
  BY <1>1, QuietActor DEF IsolationInv
<1>3. /\ \A u \in Turns : Private(u)
      /\ DOMAIN send = Turns /\ DOMAIN reply = Turns /\ DOMAIN deltas = Turns
      /\ deltas[t] \in Seq(Updates) /\ errs[t] \in 0 .. MaxErrors
  BY DEF IsolationInv, PrivateTurns, ChannelType, TaskType, ReplyType
<1>4. /\ ~SendCommandStarted(t) /\ ~SendCommandFinished(t) /\ ~SendStreamError(t)
  BY <1>3 DEF Isolated, SendCommandStarted, SendCommandFinished, SendStreamError, Private, Sending
<1>5. /\ \E s : send' = [send EXCEPT ![t] = s] /\ s \notin {"new", "cmd"}
      /\ send[t] \notin {"new", "ok", "err"}
      /\ reply' = reply \/ reply' = [reply EXCEPT ![t] = "none"]
      /\ \/ deltas' = deltas
         \/ deltas' = [deltas EXCEPT ![t] = Append(deltas[t], Update("ask", t))]
  BY <1>4 DEF SendStep, SendLock, SendAsk, SendReply, SendToolDone, SendEnd, SendDropped,
              Sending, Holding
<1>6. /\ \A u \in Turns : u # t => /\ send'[u] = send[u] /\ reply'[u] = reply[u]
                                   /\ deltas'[u] = deltas[u]
      /\ send'[t] \notin {"new", "cmd"} /\ reply'[t] \in {"none", reply[t]}
      /\ deltas'[t] \in {deltas[t], Append(deltas[t], Update("ask", t))}
  BY <1>3, <1>5
<1>7. Asking(t, deltas'[t])
  BY <1>3, <1>6, AskingChannel DEF Private
<1>8. ASSUME NEW u \in Turns PROVE Private(u)'
  <2>1. CASE u = t
    BY <1>1, <1>3, <1>5, <1>6, <1>7, <2>1 DEF Private
  <2>2. CASE u # t
    BY <1>1, <1>3, <1>6, <2>2 DEF Private
  <2>. QED  BY <2>1, <2>2
<1>. QED  BY <1>2, <1>8 DEF IsolationInv, PrivateTurns

\* The channel of a command: one update, then two.
LEMMA ShortChannels ==
    ASSUME NEW S, NEW a \in S, NEW b \in S
    PROVE  Append(<<>>, a) = <<a>> /\ Append(<<a>>, b) = <<a, b>>
<1>1. Append(<<>>, a) = <<a>>
  OBVIOUS
<1>2. <<a>> \in Seq(S) /\ Len(<<a>>) = 1
  OBVIOUS
<1>3. /\ Append(<<a>>, b) \in Seq(S) /\ Len(Append(<<a>>, b)) = 2
      /\ Append(<<a>>, b)[1] = a /\ Append(<<a>>, b)[2] = b
  BY <1>2
<1>4. <<a, b>> \in Seq(S) /\ Len(<<a, b>>) = 2 /\ <<a, b>>[1] = a /\ <<a, b>>[2] = b
  OBVIOUS
<1>5. \A i \in 1 .. Len(Append(<<a>>, b)) : Append(<<a>>, b)[i] = <<a, b>>[i]
  BY <1>3, <1>4
<1>. QED  BY <1>1, <1>3, <1>4, <1>5, SeqEqual

\* A command's task reports in the order the screen expects.
LEMMA CommandActor ==
    ASSUME TypeOK, IsolationInv, NEW c \in Commands, CommandStep(c)
    PROVE  IsolationInv'
<1>1. /\ \/ /\ cmd[c] = "run" /\ cmd' = [cmd EXCEPT ![c] = "held"]
            /\ updates' = updates
         \/ /\ cmd[c] \in {"run", "held"} /\ cmd' = [cmd EXCEPT ![c] = "tail"]
            /\ updates' = Append(updates, Update("finished", InlineId(c)))
         \/ /\ cmd[c] = "tail" /\ cmd' = [cmd EXCEPT ![c] = "done"]
            /\ updates' = Append(updates, Update("cmdComplete", c))
      /\ UNCHANGED <<pulse, pendingDone, overlay, prompt, kind, drv, send, deltas, reply>>
  BY DEF CommandStep, CommandHeld, CommandExits, CommandReports,
              background, tasks, started, tui
<1>2. CommandShown(c)
  BY <1>1 DEF IsolationInv, OneActor, Resting, TurnShown, CommandShown, Unused
<1>3. /\ \/ cmd[c] = "run" /\ cmd'[c] = "held" /\ updates' = updates
         \/ /\ cmd[c] \in {"run", "held"} /\ cmd'[c] = "tail"
            /\ updates' = Append(updates, Update("finished", InlineId(c)))
         \/ /\ cmd[c] = "tail" /\ cmd'[c] = "done"
            /\ updates' = Append(updates, Update("cmdComplete", c))
      /\ \A d \in Commands : d # c => cmd'[d] = cmd[d]
  BY <1>1, TypeParts DEF CommandType
<1>4. /\ \A a \in Updates : Append(<<>>, a) = <<a>>
      /\ \A a, b \in Updates : Append(<<a>>, b) = <<a, b>>
      /\ Update("finished", InlineId(c)) \in Updates /\ Update("cmdComplete", c) \in Updates
  BY ShortChannels, UpdateTypes, PulseTypes
<1>5. (\A t \in Turns : Idle(t))' /\ (\A d \in Commands : d # c => Unused(d))'
  BY <1>1, <1>2, <1>3 DEF CommandShown, Idle, Unused
<1>6. CommandShown(c)'
  BY <1>1, <1>2, <1>3, <1>4, <1>5 DEF CommandShown
<1>. QED  BY <1>1, <1>6, QuietPrivate DEF IsolationInv, OneActor

\* Every step keeps the screen with the one actor that is alive.
LEMMA NextIsolation ==
    ASSUME Isolated
    PROVE  TypeOK /\ IsolationInv /\ [Next]_vars /\ [CommandsAlone]_vars => IsolationInv'
<1>. SUFFICES ASSUME TypeOK, IsolationInv, [Next]_vars, [CommandsAlone]_vars PROVE IsolationInv'
  OBVIOUS
<1>1. CASE UNCHANGED vars
  <2>1. UNCHANGED <<pulse, pendingDone, overlay, readOnly, status, updates, drv, cmd, token,
                    epoch, kind, deltas, send, reply, prompt>>
    BY <1>1 DEF vars, tui, tasks, started, commands
  <2>. QED  BY <2>1, QuietActor, QuietPrivate DEF IsolationInv
<1>2. CASE Next /\ CommandsAlone
  <2>1. CASE \E t \in Turns, k \in Kinds : StartTurn(t, k)
    BY <2>1, StartTurnActor
  <2>2. CASE \E c \in Commands : Bang(c)
    BY <1>2, <2>2, BangActor DEF CommandsAlone
  <2>3. CASE \E choice \in {"once", "session", "deny"} : Answer(choice)
    BY <2>3, AnswerActor
  <2>4. CASE InterruptIdle \/ Drained
    <3>1. UNCHANGED <<pulse, pendingDone, overlay, readOnly, status, updates, drv, cmd, token,
                      epoch, kind, deltas, send, reply, prompt>>
      BY <2>4 DEF InterruptIdle, Drained, background, tui, tasks, started, commands
    <3>. QED  BY <3>1, QuietActor, QuietPrivate DEF IsolationInv
  <2>5. CASE Handle
    BY <2>5, HandleAskActor, HandleCompleteActor, HandleFinishedActor, HandleErrorActor, NoStarted
       DEF Handle
  <2>6. CASE \E t \in Turns : Drive(t) \/ SendStep(t)
    BY <2>6, DriveActor, SendActor
  <2>7. CASE \E c \in Commands : CommandStep(c)
    BY <2>7, CommandActor
  <2>. QED  BY <1>2, <2>1, <2>2, <2>3, <2>4, <2>5, <2>6, <2>7, InterruptActor DEF Next, User
<1>. QED  BY <1>1, <1>2

\* The isolation invariant holds at the start.
LEMMA InitIsolation == Init => IsolationInv
<1>. SUFFICES ASSUME Init PROVE IsolationInv
  OBVIOUS
<1>1. Resting
  BY DEF Init, Resting, NoPulse, NoOverlay, Idle, Unused
<1>2. \A t \in Turns : Private(t)
  BY DEF Init, Private, Asking
<1>. QED  BY <1>1, <1>2 DEF Init, IsolationInv, OneActor, PrivateTurns

\* One actor at a time means that every update meets its own pulse.
LEMMA IsolationOnePulse == ASSUME TypeOK, IsolationInv PROVE OnePulseAtATime
<1>0. Len(updates) \in Nat /\ DOMAIN updates = 1 .. Len(updates)
  BY TypeParts DEF ChannelType
<1>1. CASE Resting
  <2>1. DOMAIN updates = {}
    BY <1>1 DEF Resting
  <2>. QED  BY <1>1, <2>1 DEF Resting, OnePulseAtATime, LiveTurn, LiveCommand, Idle, Unused
<1>2. ASSUME NEW t \in Turns, TurnShown(t) PROVE OnePulseAtATime
  <2>1. \A i \in DOMAIN updates : updates[i] = Update("ask", t) \/ updates[i] \in Report(t)
    BY <1>0, <1>2 DEF TurnShown, Asking, Ending
  <2>2. \A i \in DOMAIN updates : /\ updates[i].kind \in {"ask", "complete", "error"}
                                  /\ updates[i].id = t
    BY <2>1, ReportKinds
  <2>3. ASSUME NEW u \in Turns, LiveTurn(u) PROVE u = t
    BY <1>2, <2>2, <2>3 DEF LiveTurn, TurnShown, Idle
  <2>4. ASSUME NEW c \in Commands PROVE ~LiveCommand(c)
    BY <1>2, <2>2, ReportKinds DEF LiveCommand, TurnShown, Unused
  <2>. QED  BY <1>2, <2>3, <2>4 DEF OnePulseAtATime, TurnShown
<1>3. ASSUME NEW c \in Commands, CommandShown(c) PROVE OnePulseAtATime
  <2>1. \A i \in DOMAIN updates : \/ updates[i] = Update("finished", InlineId(c))
                                  \/ updates[i] = Update("cmdComplete", c)
    BY <1>0, <1>3 DEF CommandShown
  <2>2. \A i \in DOMAIN updates : updates[i].kind \in {"finished", "cmdComplete"}
    BY <2>1, ReportKinds
  <2>3. \A t \in Turns : ~LiveTurn(t)
    BY <1>3, <2>2 DEF LiveTurn, CommandShown, Idle
  <2>. QED  BY <1>3, <2>3 DEF OnePulseAtATime, CommandShown
<1>. QED  BY <1>1, <1>2, <1>3 DEF IsolationInv, OneActor

\* ... and what the user sees between turns is the rest of it.
LEMMA IsolationTurns == ASSUME TypeOK, IsolationInv, LockInv PROVE TurnsIsolated
<1>1. OwnPrompt
  <2>. SUFFICES ASSUME NEW t \in Turns, lock = t
                PROVE  prompt = IF kind[t] = "plain" THEN 0 ELSE t
    BY DEF OwnPrompt
  <2>1. send[t] \in Holding /\ drv[t] # "done"
    BY DEF LockInv
  <2>2. drv[t] \in {"forward", "unwind", "restore"}
    BY <2>1, TypeParts DEF TaskType, IsolationInv, PrivateTurns, Private, Holding
  <2>. QED  BY <2>2 DEF IsolationInv, PrivateTurns, Private
<1>2. ReadOnlyTurnsDenied
  BY DEF ReadOnlyTurnsDenied, IsolationInv, PrivateTurns, Private
<1>3. IdleStatus
  BY DEF IdleStatus, IsolationInv, OneActor, Resting, TurnShown, CommandShown
<1>. QED  BY <1>1, <1>2, <1>3 DEF TurnsIsolated

\* The step in which an answer becomes yes belongs to the turn on the screen, whose
\* token is still the root's.
GrantStep == \A t \in Turns : reply[t] # "yes" /\ reply'[t] = "yes" => ~Cancelled(t)

\* No step grants a request of a cancelled turn.
LEMMA NextGrant == ASSUME TypeOK, IsolationInv, [Next]_vars PROVE [GrantStep]_vars
<1>. USE TypeParts
<1>. SUFFICES ASSUME NEW t \in Turns, reply[t] # "yes", reply'[t] = "yes", Next
              PROVE  ~Cancelled(t)
  BY DEF GrantStep
<1>0. token[t] = epoch /\ epoch \in Nat => ~Cancelled(t)
  BY DEF Cancelled
<1>1. epoch \in Nat /\ DOMAIN reply = Turns
  BY RuntimeAssumption DEF TaskType, ReplyType
<1>2. ASSUME TurnShown(t), ~pulse.cancelling PROVE ~Cancelled(t)
  BY <1>0, <1>1, <1>2 DEF TurnShown
<1>3. reply' # reply /\ reply' # DeniedReplies
  BY <1>1 DEF DeniedReplies
<1>4. ASSUME NEW choice, Answer(choice) PROVE TurnShown(t) /\ ~pulse.cancelling
  <2>1. overlay.kind = "tool" /\ reply' = [reply EXCEPT ![overlay.id] = "yes"]
    BY <1>3, <1>4 DEF Answer
  <2>2. overlay.id = t
    BY <1>1, <2>1
  <2>3. PICK u \in Turns : TurnShown(u) /\ overlay # NoOverlay
    BY <2>1 DEF IsolationInv, OneActor, Resting, CommandShown, NoOverlay
  <2>. QED  BY <2>2, <2>3 DEF TurnShown
<1>5. ASSUME HandleAsk PROVE TurnShown(t) /\ ~pulse.cancelling
  <2>1. updates # <<>> /\ Head(updates).kind = "ask"
    BY <1>5 DEF HandleAsk, Receive
  <2>2. PICK u \in Turns : TurnShown(u) /\ Head(updates) = Update("ask", u)
    BY <2>1, HeadCases, ReportKinds DEF IsolationInv
  <2>3. Head(updates).id = u
    BY <2>2, ReportKinds
  <2>4. PICK covered \in {FALSE, grant # "none"} :
          LET verdict == AskVerdict(covered)
              before == IF pulse.cancelling THEN reply ELSE DeniedReplies
          IN  reply' = CASE verdict = "deny"  -> [before EXCEPT ![u] = "no"]
                         [] verdict = "allow" -> [before EXCEPT ![u] = "yes"]
                         [] OTHER             -> before
    BY <1>5, <2>3 DEF HandleAsk
  <2>. DEFINE verdict == AskVerdict(covered)
              before == IF pulse.cancelling THEN reply ELSE DeniedReplies
  <2>5. /\ verdict \in {"deny", "allow", "prompt"}
        /\ verdict = "allow" => ~pulse.cancelling
    BY DEF AskVerdict
  <2>6. before[t] # "yes" /\ DOMAIN before = Turns
    BY <1>1 DEF DeniedReplies
  <2>. HIDE DEF verdict, before
  <2>7. reply' = [before EXCEPT ![u] = "yes"] /\ verdict = "allow"
    <3>1. CASE verdict = "deny"
      <4>1. reply' = [before EXCEPT ![u] = "no"]
        BY <2>4, <3>1 DEF verdict, before
      <4>. QED  BY <2>6, <4>1
    <3>2. CASE verdict = "prompt"
      <4>1. reply' = before
        BY <2>4, <3>2 DEF verdict, before
      <4>. QED  BY <2>6, <4>1
    <3>3. CASE verdict = "allow"
      BY <2>4, <3>3 DEF verdict, before
    <3>. QED  BY <2>5, <3>1, <3>2, <3>3
  <2>8. u = t
    BY <2>6, <2>7
  <2>. QED  BY <2>2, <2>5, <2>7, <2>8
<1>6. CASE HandleComplete \/ HandleFinished
  BY <1>3, <1>6 DEF HandleComplete, HandleFinished, CompleteIfIdle
<1>7. ASSUME NEW u \in Turns, SendStep(u) PROVE FALSE
  <2>1. reply' = reply \/ reply' = [reply EXCEPT ![u] = "none"]
    BY <1>7 DEF SendStep, SendLock, SendAsk, SendReply, SendCommandStarted, SendCommandFinished,
                SendToolDone, SendStreamError, SendEnd, SendDropped
  <2>. QED  BY <1>1, <1>3, <2>1
<1>8. CASE \/ \E u \in Turns, k \in Kinds : StartTurn(u, k)
           \/ \E c \in Commands : Bang(c)
           \/ Interrupt \/ InterruptIdle \/ Drained \/ HandleStarted \/ HandleError
  BY <1>3, <1>8 DEF StartTurn, Bang, Interrupt, InterruptIdle, Drained, HandleStarted, HandleError
<1>9. CASE \/ \E u \in Turns : Drive(u)
           \/ \E c \in Commands : CommandStep(c)
  BY <1>3, <1>9 DEF Drive, DriverPrompt, DriverForward, DriverCancelled, DriverEnd, DriverRestore,
                    CommandStep, CommandHeld, CommandExits, CommandReports
<1>. QED  BY <1>2, <1>4, <1>5, <1>6, <1>7, <1>8, <1>9 DEF Next, User, Handle

\* With one inline command there is none to join.
LEMMA OneCommandAlone ==
    ASSUME MaxCommands <= 1, TypeOK, IsolationInv, [Next]_vars
    PROVE  [CommandsAlone]_vars
<1>. SUFFICES ASSUME NEW c \in Commands, Bang(c), pulse.open PROVE FALSE
  BY DEF CommandsAlone
<1>1. cmd[c] = "new" /\ pulse.sessions # {}
  BY DEF Bang
<1>2. PICK d \in Commands : CommandShown(d)
  BY <1>1 DEF IsolationInv, OneActor, Resting, TurnShown
<1>3. d = c
  BY RuntimeAssumption DEF Commands
<1>. QED  BY <1>1, <1>2, <1>3 DEF CommandShown

\* What the isolated regime keeps: at most one actor, and its pulse on the screen.
LEMMA IsolationHolds ==
    ASSUME Isolated PROVE Spec /\ [][CommandsAlone]_vars => []IsolationInv
<1>1. TypeOK /\ IsolationInv /\ [Next]_vars /\ [CommandsAlone]_vars => IsolationInv'
  BY NextIsolation
<1>. QED  BY <1>1, InitIsolation, RuntimeTypeCorrect, PTL DEF Spec

\* The same with a single inline command, which cannot join another.
LEMMA OneCommandIsolation ==
    ASSUME Isolated, MaxCommands <= 1 PROVE Spec => []IsolationInv
<1>1. TypeOK /\ IsolationInv /\ [Next]_vars => IsolationInv'
  BY NextIsolation, OneCommandAlone
<1>. QED  BY <1>1, InitIsolation, RuntimeTypeCorrect, PTL DEF Spec

-----------------------------------------------------------------------------
(* Theorems about the isolated regime *)

\* No update acts on another turn's pulse, and no second turn starts, for any
\* number of turns, commands and interrupts, provided the endpoint sends no error
\* events, turns run no command sessions and no command joins another's session.
THEOREM UpdatesMeetTheirPulse ==
    Isolated => (Spec /\ [][CommandsAlone]_vars => []OnePulseAtATime)
<1>. SUFFICES ASSUME Isolated PROVE Spec /\ [][CommandsAlone]_vars => []OnePulseAtATime
  OBVIOUS
<1>1. TypeOK /\ IsolationInv => OnePulseAtATime
  BY IsolationOnePulse
<1>. QED  BY <1>1, IsolationHolds, RuntimeTypeCorrect, PTL

\* Under the same provisos every request is sent under its own turn's prompt, a
\* read-only turn is never granted a patch and an idle session is not saved as
\* a running one.
THEOREM TurnsDoNotLeak ==
    Isolated => (Spec /\ [][CommandsAlone]_vars => []TurnsIsolated)
<1>. SUFFICES ASSUME Isolated PROVE Spec /\ [][CommandsAlone]_vars => []TurnsIsolated
  OBVIOUS
<1>1. TypeOK /\ IsolationInv /\ LockInv => TurnsIsolated
  BY IsolationTurns
<1>. QED  BY <1>1, IsolationHolds, MutexHolds, RuntimeTypeCorrect, PTL

\* Under the same provisos no step approves a request of a cancelled turn, however
\* late the request or the answer arrives.
THEOREM CancelledNeverGranted ==
    Isolated => (Spec /\ [][CommandsAlone]_vars => NoGrantAfterCancel)
<1>. SUFFICES ASSUME Isolated PROVE Spec /\ [][CommandsAlone]_vars => NoGrantAfterCancel
  OBVIOUS
<1>1. TypeOK /\ IsolationInv /\ [Next]_vars => [GrantStep]_vars
  BY NextGrant
<1>. QED  BY <1>1, IsolationHolds, RuntimeTypeCorrect, PTL
          DEF Spec, NoGrantAfterCancel, GrantStep

\* All three hold of the runtime as it is when a session has one inline command.
THEOREM OneCommandSessions ==
    Isolated /\ MaxCommands <= 1
        => (Spec => []OnePulseAtATime /\ []TurnsIsolated /\ NoGrantAfterCancel)
<1>. SUFFICES ASSUME Isolated, MaxCommands <= 1
              PROVE  Spec => []OnePulseAtATime /\ []TurnsIsolated /\ NoGrantAfterCancel
  OBVIOUS
<1>1. TypeOK /\ IsolationInv => OnePulseAtATime
  BY IsolationOnePulse
<1>2. TypeOK /\ IsolationInv /\ LockInv => TurnsIsolated
  BY IsolationTurns
<1>3. TypeOK /\ IsolationInv /\ [Next]_vars => [GrantStep]_vars
  BY NextGrant
<1>. QED  BY <1>1, <1>2, <1>3, OneCommandIsolation, MutexHolds, RuntimeTypeCorrect, PTL
          DEF Spec, NoGrantAfterCancel, GrantStep
=============================================================================
