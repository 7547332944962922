--------------------------- MODULE FencedDocument ---------------------------
(***************************************************************************)
(* What the ingestion service promises about one document's row in         *)
(* PostgreSQL, without workflows, activities, retries or queues: a small   *)
(* fenced register.                                                        *)
(*                                                                         *)
(* Runs are numbered in the order in which Temporal starts them.  A run    *)
(* claims the document; the claim on the row only ever moves to a run that *)
(* started later.  Once a claim is on the row, the stored chunks and the   *)
(* status that runs write come from the claim holder alone; a late write   *)
(* of any other run has no effect.  The public API, which is no run, may   *)
(* reset or fail the status at any time, and deleting the document forgets *)
(* everything, the claim included.                                         *)
(***************************************************************************)
EXTENDS Naturals

CONSTANT MaxRuns

VARIABLES
    content,  \* the run whose chunks the document holds, 0 when it has none
    claim,    \* the run holding the claim, 0 when no claim is recorded
    status,   \* the status the API shows, "absent" when there is no row
    reporter  \* the run that wrote the status, 0 for the public API

vars == <<content, claim, status, reporter>>

Runs == 1..MaxRuns
NoRun == 0
Statuses == {"absent", "pending", "processing", "processed", "failed"}

Init ==
    /\ content = NoRun
    /\ claim = NoRun
    /\ status = "absent"
    /\ reporter = NoRun

(* The row is empty of claims, or r is the run that holds the claim. *)
MayWrite(r) == claim \in {NoRun, r}

(* The row appears: an upload is accepted, or the first claim creates it. *)
Create(c, s) ==
    /\ status = "absent"
    /\ status' = s
    /\ claim' = c /\ reporter' = c
    /\ UNCHANGED content

(* A later run takes the claim from an earlier one, or from nobody. *)
Claim(r) ==
    /\ status # "absent"
    /\ claim <= r
    /\ claim' = r
    /\ UNCHANGED <<content, status, reporter>>

(* Run r replaces the document's chunks and marks it processed. *)
Commit(r) ==
    /\ MayWrite(r)
    /\ content' = r
    /\ status' = "processed" /\ reporter' = r
    /\ UNCHANGED claim

(* Run r reports progress or failure. *)
Report(r) ==
    /\ status # "absent"
    /\ MayWrite(r)
    /\ status' \in {"processing", "failed"} /\ reporter' = r
    /\ UNCHANGED <<content, claim>>

(* The public API resets the row to pending, or marks it failed. *)
ApiReport ==
    /\ status # "absent"
    /\ status' \in {"pending", "failed"} /\ reporter' = NoRun
    /\ UNCHANGED <<content, claim>>

Delete ==
    /\ content' = NoRun
    /\ claim' = NoRun
    /\ status' = "absent"
    /\ reporter' = NoRun

Next ==
    \/ \E c \in Runs \cup {NoRun}, s \in {"pending", "processing"} : Create(c, s)
    \/ \E r \in Runs : Claim(r) \/ Commit(r) \/ Report(r)
    \/ ApiReport
    \/ Delete

Spec == Init /\ [][Next]_vars
=============================================================================
