---------------------------- MODULE StreamContract ----------------------------
(***************************************************************************)
(* What the model stream promises its consumer, without bytes, chunks,     *)
(* buffers or parsers: the envelopes are delivered one by one, in the      *)
(* order of one of the complete readings of the response; the stream is    *)
(* complete only when such a reading was delivered to its end; it may      *)
(* instead fail at any point.  After a failure of the parser itself, error *)
(* reports may still be appended.                                          *)
(***************************************************************************)
EXTENDS Sequences, SequencesExt

VARIABLES promise,      \* the complete readings of the response
          received,     \* what the consumer got so far
          status        \* "open", "complete", "failed" or "broken"

contractVars == <<promise, received, status>>

ContractInit == received = <<>> /\ status = "open"

Hand ==
    /\ status = "open"
    /\ \E reading \in promise : IsStrictPrefix(received, reading)
                                /\ received' = Append(received, reading[Len(received) + 1])
    /\ UNCHANGED <<promise, status>>

Complete ==
    /\ status = "open" /\ received \in promise
    /\ status' = "complete"
    /\ UNCHANGED <<promise, received>>

Fail == status = "open" /\ status' \in {"failed", "broken"} /\ UNCHANGED <<promise, received>>

Report == status = "broken" /\ UNCHANGED <<promise, status>>
          /\ IsStrictPrefix(received, received')

Contract == ContractInit /\ [][Hand \/ Complete \/ Fail \/ Report]_contractVars
=============================================================================
