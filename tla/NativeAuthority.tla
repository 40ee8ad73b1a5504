--------------------------- MODULE NativeAuthority ----------------------------
(***************************************************************************)
(* The native Work policy and the receiver bindings that must name it.     *)
(* Two kinds of process change them under two different locks: the         *)
(* operator's grant commands (ops/work_grants.py: apply, renew, revoke)    *)
(* and the owner's admission of a member (auth/owner_native_admission.py). *)
(* The policy itself is changed only by the native admin's provision, which *)
(* compares the digest it is given; the bindings are files, replaced after *)
(* it, by the operator without and by the admission with a comparison.     *)
(***************************************************************************)
EXTENDS Naturals, FiniteSets

CONSTANTS
    Members,      \* holders admitted by the owner
    Absent,
    MaxVersion,   \* bound: versions of the policy
    MaxOpStops    \* bound: processes that stop half-way

VARIABLES
    head,     \* the native policy: version, and the state of each holder's rules
    bind1,    \* the policy the v1 receiver binding names, or Absent
    bind2,    \* the policy the v2 receiver binding names
    plan,     \* the plan file the operator saved, or Absent
    op,       \* the process that holds the operator's lock
    adm,      \* the process that holds the admission lock
    admRun,   \* the state directory of each admission
    opTorn,   \* history: an operator's process stopped half-way
    opStops

grantVars == <<head, bind1, bind2, plan, op, adm, admRun, opTorn, opStops>>

Holders == Members \cup {"agent"}

NoOp == [pc |-> "idle", plan |-> Absent]

NoAdm == [pc |-> "idle", member |-> Absent, base |-> Absent]

GrantInit ==
    /\ head = [v |-> 1, rules |-> [h \in Holders |-> IF h = "agent" THEN "active" ELSE "none"]]
    /\ bind1 = 1 /\ bind2 = 1
    /\ plan = Absent /\ op = NoOp /\ adm = NoAdm
    /\ admRun = [h \in Members |-> "none"]
    /\ opTorn = FALSE /\ opStops = 0

\* _validate_producer, "ready": the agent's rules are active and its key serves.
Ready(policy) == \E h \in Holders : policy.rules[h] = "active"

\* admin provision: the policy is installed if the head is still the expected
\* one.  (secs-devgraph-work-v1)
ProvisionAgent(expected, policy) ==
    /\ head = expected
    /\ head.v < MaxVersion
    /\ head' = policy

OpGoto(pc) == op' = [op EXCEPT !.pc = pc]

\* A command ends early and releases its lock.
OpStop ==
    /\ op # NoOp /\ opStops < MaxOpStops
    /\ op' = NoOp /\ opTorn' = TRUE /\ opStops' = opStops + 1
    /\ UNCHANGED <<head, bind1, bind2, plan, adm, admRun>>

AdmStop ==
    /\ adm # NoAdm /\ opStops < MaxOpStops
    /\ adm' = NoAdm /\ opStops' = opStops + 1
    /\ UNCHANGED <<head, bind1, bind2, plan, op, admRun, opTorn>>

------------------------------------------------------------------------------
(* The operator: plan, apply, revoke                                        *)

\* _policy and _shared_policy: the agent's own rules are written anew, every
\* other holder's are preserved.
PolicyWith(status) == [v |-> head.v + 1, rules |-> [head.rules EXCEPT !["agent"] = status]]

\* write_plan: the next policy, for the head it was drawn up against.
WritePlan(status) ==
    /\ plan' = [base |-> head, policy |-> PolicyWith(status)]
    /\ UNCHANGED <<head, bind1, bind2, op, adm, admRun, opTorn, opStops>>

\* Mutant of Fresh: neither the base of the plan nor the rules of others are
\* compared with the head.
StaleMut(p) == TRUE

\* _apply: the plan is for this head and preserves the other holders' rules; a
\* plan whose policy is already installed is only finished.
Fresh(p) ==
    \/ head = p.policy
    \/ /\ head = p.base
       /\ \A h \in Members : head.rules[h] = p.policy.rules[h]

\* The existing v2 binding is the head's, before the head is changed.
Reconciled == bind2 = head.v

\* apply_grant takes the lock and checks the saved plan; one already applied in
\* full is refused.
ApplyBegin ==
    /\ op = NoOp /\ plan # Absent
    /\ Fresh(plan) /\ ~(head = plan.policy /\ bind1 = head.v)
    /\ Reconciled
    /\ op' = [pc |-> CASE plan.policy.rules["agent"] = "revoked" -> "unbind"
                       [] head = plan.policy -> "bind1"
                       [] OTHER -> "provision",
              plan |-> [base |-> head, policy |-> plan.policy]]
    /\ UNCHANGED <<head, bind1, bind2, plan, adm, admRun, opTorn, opStops>>

\* Receiver-first revocation: the v1 binding is renamed away.
OpUnbind ==
    /\ op.pc = "unbind"
    /\ bind1' = Absent
    /\ OpGoto(IF head = op.plan.policy THEN "bind2" ELSE "provision")
    /\ UNCHANGED <<head, bind2, plan, adm, admRun, opTorn, opStops>>

\* provision under the digest read at the start; a refusal ends the command.
OpProvision ==
    /\ op.pc = "provision"
    /\ \/ /\ ProvisionAgent(op.plan.base, op.plan.policy)
          /\ OpGoto(IF op.plan.policy.rules["agent"] = "revoked" THEN "bind2" ELSE "bind1")
       \/ head # op.plan.base /\ UNCHANGED head /\ op' = NoOp
    /\ UNCHANGED <<bind1, bind2, plan, adm, admRun, opTorn, opStops>>

\* _replace_at: the registry and the binding are written whatever they are.
OpBind ==
    /\ \/ op.pc = "bind1" /\ bind1' = op.plan.policy.v /\ OpGoto("bind2") /\ UNCHANGED bind2
       \/ op.pc = "bind2" /\ bind2' = op.plan.policy.v /\ op' = NoOp /\ UNCHANGED bind1
    /\ UNCHANGED <<head, plan, adm, admRun, opTorn, opStops>>

\* revoke_grant: removes the v1 binding without reading it, reads the head, and
\* provisions it with every rule revoked; if that fails it reports the partial
\* revocation.
RevokeBegin ==
    /\ op = NoOp
    /\ bind1' = Absent
    /\ op' = [pc |-> "status", plan |-> Absent]
    /\ UNCHANGED <<head, bind2, plan, adm, admRun, opTorn, opStops>>

RevokeAll(p) ==
    [v |-> p.v + 1, rules |-> [h \in Holders |-> IF p.rules[h] = "none" THEN "none" ELSE "revoked"]]

RevokeProducer ==
    /\ \/ /\ op.pc = "status"
          /\ op' = [pc |-> "revoke", plan |-> [base |-> head, policy |-> RevokeAll(head)]]
          /\ UNCHANGED head
       \/ op.pc = "revoke" /\ ProvisionAgent(op.plan.base, op.plan.policy) /\ op' = NoOp
       \/ op.pc = "revoke" /\ head # op.plan.base /\ UNCHANGED head /\ op' = NoOp
    /\ UNCHANGED <<bind1, bind2, plan, adm, admRun, opTorn, opStops>>

------------------------------------------------------------------------------
(* The owner admits a member                                                *)

Unresolved == \E h \in Members : admRun[h] = "started"

\* proposed_policy: the member's rules are added.
Proposed(p, h) == [v |-> p.v + 1, rules |-> [p.rules EXCEPT ![h] = "active"]]

\* commit: the lock; no admission is unresolved; the head is ready and both
\* bindings name it; the run is new.  started.json precedes the dispatch.
AdmBegin(h) ==
    /\ adm = NoAdm /\ ~Unresolved
    /\ Ready(head) /\ head.rules[h] # "active"
    /\ bind1 = head.v /\ bind2 = head.v
    /\ admRun[h] = "none"
    /\ admRun' = [admRun EXCEPT ![h] = "started"]
    /\ adm' = [pc |-> "provision", member |-> h, base |-> head]
    /\ UNCHANGED <<head, bind1, bind2, plan, op, opTorn, opStops>>

AdmProvision ==
    /\ adm.pc = "provision"
    /\ \/ ProvisionAgent(adm.base, Proposed(adm.base, adm.member)) /\ adm' = [adm EXCEPT !.pc = "compare1"]
       \/ head # adm.base /\ UNCHANGED head /\ adm' = NoAdm
    /\ UNCHANGED <<bind1, bind2, plan, op, admRun, opTorn, opStops>>

\* replace: the file is compared with the reviewed one before it is renamed.
Compares(b) == b = adm.base.v

\* The v1 files, then the v2 files: each compared, then renamed over.
AdmBind ==
    /\ \/ /\ adm.pc = "compare1"
          /\ adm' = IF Compares(bind1) THEN [adm EXCEPT !.pc = "write1"] ELSE NoAdm
          /\ UNCHANGED <<bind1, bind2>>
       \/ /\ adm.pc = "write1"
          /\ bind1' = adm.base.v + 1 /\ adm' = [adm EXCEPT !.pc = "compare2"]
          /\ UNCHANGED bind2
       \/ /\ adm.pc = "compare2"
          /\ adm' = IF Compares(bind2) THEN [adm EXCEPT !.pc = "write2"] ELSE NoAdm
          /\ UNCHANGED <<bind1, bind2>>
       \/ /\ adm.pc = "write2"
          /\ bind2' = adm.base.v + 1 /\ adm' = [adm EXCEPT !.pc = "complete"]
          /\ UNCHANGED bind1
    /\ UNCHANGED <<head, plan, op, admRun, opTorn, opStops>>

AdmComplete ==
    /\ adm.pc = "complete"
    /\ admRun' = [admRun EXCEPT ![adm.member] = "completed"]
    /\ adm' = NoAdm
    /\ UNCHANGED <<head, bind1, bind2, plan, op, opTorn, opStops>>

------------------------------------------------------------------------------

GrantNext ==
    \/ \E status \in {"active", "revoked"} : WritePlan(status)
    \/ ApplyBegin \/ OpUnbind \/ OpProvision \/ OpBind \/ RevokeBegin \/ RevokeProducer \/ OpStop
    \/ \E h \in Members : AdmBegin(h)
    \/ AdmProvision \/ AdmBind \/ AdmComplete \/ AdmStop

GrantSpec == GrantInit /\ [][GrantNext]_grantVars

------------------------------------------------------------------------------
(* Properties                                                               *)

\* Every change of the native policy is one version on, and takes no holder's
\* active rules away, unless it is the emergency revocation of them all or the
\* operator's revocation of the agent's own: a plan drawn up before a member
\* was admitted never removes that member (_apply, proposed_policy).
RulesKept ==
    [][head' # head =>
         /\ head'.v = head.v + 1
         /\ \/ head' = RevokeAll(head)
            \/ \A h \in Members : head.rules[h] = "active" => head'.rules[h] = "active"]_grantVars

\* With nobody at work, nothing interrupted and the policy not revoked, the
\* bindings of both receivers name the head, although their writers hold
\* different locks: a binding that does not is always explained by a record.
BindingsExplained ==
    /\ bind1 = Absent \/ bind1 <= head.v
    /\ bind2 <= head.v
    /\ op = NoOp /\ adm = NoAdm /\ ~opTorn /\ ~Unresolved /\ bind1 # Absent /\ Ready(head) =>
         bind1 = head.v /\ bind2 = head.v

\* The native policy and its two bindings move together: no plan takes a member away, and a
\* binding that is behind is explained by a record (ops/work_grants.py, auth/owner_native_admission.py).
AuthorityHolds == []BindingsExplained /\ RulesKept
====
