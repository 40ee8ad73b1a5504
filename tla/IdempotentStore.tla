--------------------------- MODULE IdempotentStore ---------------------------
(***************************************************************************)
(* What the idempotent write path promises its callers: a request takes    *)
(* effect in one indivisible step or not at all, a claim takes effect at   *)
(* most once, and a claim that a legacy receipt holds never does.          *)
(***************************************************************************)
EXTENDS Integers

CONSTANTS Claims, LegacyClaims, Subjects, Requests, NoReceipt

VARIABLES receipts, version

vars == <<receipts, version>>

Init ==
  /\ receipts = [k \in Claims |-> NoReceipt]
  /\ version = [s \in Subjects |-> 0]

\* The mutation of a request and its receipt appear together.
Apply(r) ==
  /\ receipts[r.claim] = NoReceipt
  /\ r.claim \notin LegacyClaims
  /\ (r.op = "create") <=> (version[r.subject] = 0)
  /\ receipts' = [receipts EXCEPT ![r.claim] =
                    [op |-> r.op, subject |-> r.subject, digest |-> r.digest]]
  /\ version' = [version EXCEPT ![r.subject] = @ + 1]

Next == \E r \in Requests : Apply(r)

Spec == Init /\ [][Next]_vars
=============================================================================
