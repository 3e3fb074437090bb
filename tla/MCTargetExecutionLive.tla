----------------------- MODULE MCTargetExecutionLive -----------------------
(***************************************************************************)
(* Progress of TargetExecution.  Faults are counted, because nothing is    *)
(* promised to a deployment that never stops crashing; everything else is  *)
(* the specification.                                                      *)
(*                                                                         *)
(* Fairness.  A handler that is alive runs to its answer (synchronous code *)
(* with timeouts on every remote call), the target decides every statement,*)
(* the clock passes the timeout of a running attempt, and a client that has*)
(* no answer repeats its command under the same key, which is what the     *)
(* repository's documents ask idempotency for.  Nobody is obliged to issue *)
(* a new command.                                                          *)
(***************************************************************************)
EXTENDS TargetExecution

CONSTANT MaxFaults

VARIABLE faults

liveVars == <<vars, faults>>

\* The client repeats the command recorded under key k.
Repeat(p) ==
  /\ At(p, "idle")
  /\ \E k \in Keys :
       /\ Recorded(k)
       /\ call' = [call EXCEPT ![p] =
                     [IdleCall EXCEPT !.step = "lookup", !.key = k,
                        !.expected = idem[k].expected, !.preview = idem[k].preview]]
  /\ UNCHANGED <<controlVars, targetVars>>

LiveInit == Init /\ faults = 0

LiveNext ==
  \/ Faultless /\ UNCHANGED faults
  \/ Faults /\ faults < MaxFaults /\ faults' = faults + 1

LiveSpec ==
  /\ LiveInit
  /\ [][LiveNext]_liveVars
  /\ \A p \in Callers :
       /\ WF_liveVars(Execute(p) /\ UNCHANGED faults)
       /\ SF_liveVars(Repeat(p) /\ UNCHANGED faults)
  /\ \A a \in Attempts :
       /\ WF_liveVars(Target(a) /\ UNCHANGED faults)
       /\ WF_liveVars(Expire(a) /\ UNCHANGED faults)

\* A workflow does not stay EXECUTING: a caller that died or hangs is overtaken
\* by a repetition of its command, which closes the attempt once it expired.
ExecutingResolves == status = "EXECUTING" ~> status # "EXECUTING"

\* After a commit of the staged plan the staging table is dropped and the
\* cleanup recorded, whichever caller dies on the way.
CleanupCompletes ==
  \A a \in Attempts :
    attempts[a].status = "SUCCEEDED" /\ StagedPlan(a)
      ~> staging = "dropped" /\ cleanup[a] # 0

\* However the call ended, the workflow is brought to rest: resolved, and with no
\* staging table left behind a success.
ExecutionSettles == ExecutingResolves /\ CleanupCompletes
=============================================================================
