----------------------------- MODULE JobLifecycle -----------------------------
(***************************************************************************)
(* What a durable job table of Tirzah promises, whatever the job does: a   *)
(* job is inserted once, an attempt is begun by an atomic claim and counted *)
(* by it, an attempt ends by going back to pending or by a verdict, and a  *)
(* verdict is final.  At most MaxAttempts attempts are ever begun.         *)
(***************************************************************************)
EXTENDS Naturals

CONSTANTS Job, MaxAttempts

VARIABLES status, attempts

jobVars == <<status, attempts>>

Verdict == {"completed", "rejected", "failed"}
JobStatus == {"absent", "pending", "processing"} \cup Verdict

Init ==
    /\ status = [j \in Job |-> "absent"]
    /\ attempts = [j \in Job |-> 0]

\* A new row is pending, or refused on the spot.
Insert(j) ==
    /\ status[j] = "absent"
    /\ \E s \in {"pending", "rejected"} : status' = [status EXCEPT ![j] = s]
    /\ UNCHANGED attempts

Begin(j) ==
    /\ status[j] = "pending"
    /\ attempts[j] < MaxAttempts
    /\ status' = [status EXCEPT ![j] = "processing"]
    /\ attempts' = [attempts EXCEPT ![j] = @ + 1]

Again(j) ==
    /\ status[j] = "processing"
    /\ attempts[j] < MaxAttempts
    /\ status' = [status EXCEPT ![j] = "pending"]
    /\ UNCHANGED attempts

End(j) ==
    /\ status[j] = "processing"
    /\ \E v \in Verdict : status' = [status EXCEPT ![j] = v]
    /\ UNCHANGED attempts

Next == \E j \in Job : Insert(j) \/ Begin(j) \/ Again(j) \/ End(j)

Spec == Init /\ [][Next]_jobVars
================================================================================
