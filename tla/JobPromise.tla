----------------------------- MODULE JobPromise -----------------------------
(***************************************************************************)
(* What an uploader is promised about a job, without queue, workers or     *)
(* transactions.  A submitted job is tried at most MaxAttempts times and   *)
(* ends indexed or failed.  It is indexed only with its document stored,   *)
(* and that document stays; it fails only when the attempts are used up    *)
(* and nothing of it is stored.  Only a failed job can be submitted again, *)
(* with a fresh budget.  JobQueue implements this.                         *)
(***************************************************************************)
EXTENDS Naturals

CONSTANTS Jobs, MaxAttempts

VARIABLES phase,  \* "none", "pending", "indexed" or "failed"
          tries,  \* attempts started since the last submission
          stored  \* the jobs whose document is in the metadata store

vars == <<phase, tries, stored>>

Init ==
    /\ phase = [j \in Jobs |-> "none"]
    /\ tries = [j \in Jobs |-> 0]
    /\ stored = {}

Submit(j) ==
    /\ phase[j] \in {"none", "failed"}
    /\ phase' = [phase EXCEPT ![j] = "pending"]
    /\ tries' = [tries EXCEPT ![j] = 0]
    /\ UNCHANGED stored

Try(j) ==
    /\ phase[j] = "pending"
    /\ tries[j] < MaxAttempts
    /\ tries' = [tries EXCEPT ![j] = @ + 1]
    /\ UNCHANGED <<phase, stored>>

\* An attempt under way stores the document, or a failing one removes it.
Store(j) ==
    /\ phase[j] = "pending"
    /\ tries[j] > 0
    /\ stored' \in {stored \cup {j}, stored \ {j}}
    /\ UNCHANGED <<phase, tries>>

Index(j) ==
    /\ phase[j] = "pending"
    /\ j \in stored
    /\ phase' = [phase EXCEPT ![j] = "indexed"]
    /\ UNCHANGED <<tries, stored>>

GiveUp(j) ==
    /\ phase[j] = "pending"
    /\ tries[j] = MaxAttempts
    /\ j \notin stored
    /\ phase' = [phase EXCEPT ![j] = "failed"]
    /\ UNCHANGED <<tries, stored>>

Next == \E j \in Jobs :
    Submit(j) \/ Try(j) \/ Store(j) \/ Index(j) \/ GiveUp(j)

Spec == Init /\ [][Next]_vars
=============================================================================
