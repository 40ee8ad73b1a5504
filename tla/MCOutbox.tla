------------------------------ MODULE MCOutbox ------------------------------
(***************************************************************************)
(* Model values for Outbox: two subjects, two live claims and a legacy     *)
(* one, and the requests that retry, collide and conflict on them.         *)
(***************************************************************************)
EXTENDS Outbox, TLC

CONSTANTS c1, c2, k1, k2, kOld, s1, s2, d1, d2

Request(k, path, op, s, d) ==
  [claim |-> k, path |-> path, op |-> op, subject |-> s, digest |-> d]

\* Two creations of the same node, a retry of a claim under another path, and
\* under another subject and digest, an update, and a retry of a legacy key.
MCRequests ==
  { Request(k1, "named", "create", s1, d1),
    Request(k1, "api",   "create", s1, NoDigest),
    Request(k1, "issue", "create", s1, d2),
    Request(k2, "api",   "create", s1, NoDigest),
    Request(k2, "named", "update", s1, d1),
    Request(kOld, "api", "create", s2, NoDigest) }

MCClaims == {k1, k2, kOld}
MCLegacyClaims == {kOld}
MCSubjects == {s1, s2}
MCClients == {c1, c2}
=============================================================================
