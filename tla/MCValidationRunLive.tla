------------------------- MODULE MCValidationRunLive -------------------------
(***************************************************************************)
(* Progress of ValidationRun.  Faults are counted; the rest is the         *)
(* specification.                                                          *)
(*                                                                         *)
(* Fairness.  A handler that is alive runs to its answer (synchronous code *)
(* with timeouts on both queries), the clock passes the timeout of a       *)
(* running run, and a client that has no answer repeats its command under  *)
(* the same key.  Nobody is obliged to issue a new command.                *)
(***************************************************************************)
EXTENDS ValidationRun

CONSTANT MaxFaults

VARIABLE faults

liveVars == <<vars, faults>>

\* The client repeats the command recorded under key k.
Repeat(p) ==
  /\ At(p, "idle")
  /\ \E k \in Keys :
       /\ Recorded(k)
       /\ call' = [call EXCEPT ![p] =
                     [IdleCall EXCEPT !.step = "lookup", !.key = k,
                        !.expected = idem[k].expected, !.approval = idem[k].approval]]
  /\ UNCHANGED durableVars

LiveInit == Init /\ faults = 0

LiveNext ==
  \/ Faultless /\ UNCHANGED faults
  \/ Faults /\ faults < MaxFaults /\ faults' = faults + 1

LiveSpec ==
  /\ LiveInit
  /\ [][LiveNext]_liveVars
  /\ \A p \in Callers :
       /\ WF_liveVars(Validate(p) /\ UNCHANGED faults)
       /\ SF_liveVars(Repeat(p) /\ UNCHANGED faults)
  /\ \A r \in Runs : WF_liveVars(Expire(r) /\ UNCHANGED faults)

\* A workflow does not stay VALIDATING, although the recording of a cleanup may
\* take the version away from the answer: a repetition of the command closes the
\* run once it expired.
ValidatingResolves == status = "VALIDATING" ~> status # "VALIDATING"
=============================================================================
