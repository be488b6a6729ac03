------------------------------ MODULE Receipts ------------------------------
(***************************************************************************)
(* MutationReceiptGuard: the durable idempotency receipts every mutating   *)
(* RPC shares.  A receipt is one row per scope and request id.  The claim  *)
(* is a statement of its own, committed before the mutation it guards; the *)
(* mutation completes the receipt in the statement that performs it; a     *)
(* refused attempt reads the row back.  Rows are never deleted.            *)
(*                                                                         *)
(* What a receipt records of its mutation (a sequence, a revision) is      *)
(* `outcome'; fingerprints are compared and never looked into.             *)
(***************************************************************************)

\* No row for this scope and request id.
Absent(none) == [status |-> "absent", fingerprint |-> none, outcome |-> 0,
                 expired |-> FALSE]

ReceiptOf(Prints, Outcomes) ==
  [status : {"absent", "claimed", "completed"}, fingerprint : Prints,
   outcome : Outcomes, expired : BOOLEAN]

\* The claim statement touches no completed row, and so returns none.
ClaimRefused(r) == r.status = "completed"

\* The claim statement's effect: a new row, or the unfinished one taken over,
\* fingerprint and lifetime included.
Claim(r, print) ==
  [r EXCEPT !.status = "claimed", !.fingerprint = print, !.expired = FALSE]

\* Mutant: the mutation statement trusts the claim it made earlier.
GateAlwaysOpen(r) == TRUE

\* mutation_gate: the row this attempt claimed is still uncompleted when the
\* mutation statement has locked it.
GateOpen(r) == r.status # "completed"

\* completed_receipt.  The fingerprint on the row is the last claim's.
Complete(r, outcome) == [r EXCEPT !.status = "completed", !.outcome = outcome]

\* expires_at passes.
Expire(r) == [r EXCEPT !.expired = TRUE]

\* resolveRefused: what an attempt that was refused makes of the row.
Resolve(r, print) ==
  IF r.status # "completed" \/ r.expired THEN "failed"
  ELSE IF r.fingerprint # print THEN "already_exists"
  ELSE "recorded"
=============================================================================
