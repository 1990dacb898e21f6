------------------------------- MODULE MCServer -------------------------------
(* The surfaces of the server and batch mode, one part per behaviour: the    *)
(* parts share no state, so a behaviour picks one and leaves the others as   *)
(* they are initially.                                                       *)
EXTENDS LocalApi, TaskWatch, ServeSurfaces, DeltaAccumulator, BatchMode

VARIABLE scene

Api == scene = "task" /\ ApiNext
           /\ UNCHANGED <<watchVars, surfaceVars, accVars, batchVars, scene>>
Watch == scene = "watch" /\ WatchNext
           /\ UNCHANGED <<apiVars, surfaceVars, accVars, batchVars, scene>>
Surfaces == scene = "surfaces" /\ SurfaceNext
           /\ UNCHANGED <<apiVars, watchVars, accVars, batchVars, scene>>
Accumulator == scene = "accumulator" /\ AccNext
           /\ UNCHANGED <<apiVars, watchVars, surfaceVars, batchVars, scene>>
Batch == scene = "batch" /\ BatchNext
           /\ UNCHANGED <<apiVars, watchVars, surfaceVars, accVars, scene>>

Plain == [transport |-> "both", token |-> "set", host |-> "loopback", resolves |-> "loopback",
          ca |-> "absent", cert |-> "absent", key |-> "absent", skipVerify |-> FALSE,
          vpnTrust |-> FALSE]

MCConfigs ==
    {Plain, [Plain EXCEPT !.token = "blank"], [Plain EXCEPT !.skipVerify = TRUE],
     [Plain EXCEPT !.vpnTrust = TRUE], [Plain EXCEPT !.transport = "unix", !.token = "blank"]}
    \cup {[Plain EXCEPT !.transport = "http", !.host = h, !.resolves = r, !.ca = a,
                        !.cert = c, !.key = k] :
             h \in {"loopback", "localhost", "other"}, r \in {"loopback", "mixed", "nothing"},
             a \in {"absent", "bad"}, c \in {"absent", "good", "bad"}, k \in {"absent", "good"}}

MCPieces == {<<"{", "q">>, <<"b", "q", "}", "a", "a">>, <<"}">>}
MCSeeds == {<<>>, <<"{", "a", "}">>}

Init ==
    /\ scene \in {"task", "watch", "surfaces", "accumulator", "batch"}
    /\ ApiInit /\ WatchInit /\ SurfaceInit /\ AccInit /\ BatchInit
    /\ scene # "surfaces" => config = Plain /\ socket = "absent"
    /\ scene # "batch" => exec = [task |-> "none", approve |-> "none", force |-> FALSE,
                                  format |-> "text", maxTurns |-> -1]

Next == Api \/ Watch \/ Surfaces \/ Accumulator \/ Batch

(* In the scenes of the other parts a part's actions are disabled for good.  *)
Fairness ==
    /\ ApiFairness /\ WatchFairness /\ SurfaceFairness
    /\ WF_batchVars(scene = "batch" /\ BatchMoves) /\ WF_batchVars(scene = "batch" /\ TurnMoves)

vars == <<scene, apiVars, watchVars, surfaceVars, accVars, batchVars>>

Spec == Init /\ [][Next]_vars /\ Fairness

\* What a client of the server is told. A steered task: one pulse_end closes what was begun,
\* open text is completed before it, each approval request has one answer, a command runs
\* only when its own capability was approved, and a result names a call that was announced.
\* A watched task: rollups come in the order of their times and none is missed for good.
ServedTasksSound ==
    /\ ApiTypeOK /\ OneEnd /\ TextClosedAtEnd /\ AnsweredOnce /\ CommandApproved
    /\ ResultsNameTheirCall
    /\ WatchTypeOK /\ ToldInOrder /\ NoRollupMissed

\* What the surfaces expose: a bound HTTP surface has its token and is encrypted or local,
\* and a server that returns by itself leaves no socket file behind.
SurfacesSound == SurfaceTypeOK /\ BoundIsProtected /\ SocketTidy


\* A batch run reports what happened: its summary and exit code agree with the task, nothing
\* guarded ran without the consent of its command line, and the records agree with the turns.
BatchSound == BatchTypeOK /\ SummaryTells /\ ConsentedOnly /\ RecordsAgree

\* The unattended surfaces go on: an interrupt frees the task's id, a terminal rollup ends
\* its watch, a stranger's requests cost the others nothing, a foreign file is kept, a server
\* starts after a kill, a shutdown returns, and a batch run ends.  And what the accumulator
\* gives up at its watermark is never a finished call nor a more recent one.
ServerProgress ==
    /\ InterruptFreesId /\ TerminalEndsWatch /\ StrangersCostNothing /\ ForeignFileKept
    /\ RestartsAfterKill /\ ShutdownReturns /\ BatchEnds /\ OldestPay
=============================================================================
