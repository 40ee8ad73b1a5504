----------------------------- MODULE AccessGrants -----------------------------
(***************************************************************************)
(* A member's access requests, the operators' decisions on them and the    *)
(* assignments those decisions put in force (auth/access_requests.py,      *)
(* auth/access_operator.py, auth/access_provisioning.py,                   *)
(* auth/write_provisioning.py, auth/path_activation.py), with the write    *)
(* receiver that admits calls under an assignment.                         *)
(*                                                                         *)
(* Everything is kept in one SQLite database; the three policies are files *)
(* that the owner replaces at any time.  A handler first observes the      *)
(* files in transactions of their own and then decides in one more, so     *)
(* files and rows may change between its steps.  A grant is modelled by    *)
(* its extent, a number; 0 is no grant, and a grant is within a ceiling    *)
(* that is at least as large.  The rows of different members are           *)
(* independent; the module has one member with several installations.      *)
(***************************************************************************)
EXTENDS Naturals, FiniteSets

CONSTANTS
    Asks,            \* request IDs
    Devices,         \* the member's installations
    Operators,
    Threads,         \* server threads
    Nobody,
    Offers,          \* the selections an operator considers: [read, write]
    Extents,         \* [PolicyFiles -> the extents an edited policy may have]
    Filed,           \* [Devices -> extent]: assignments of the member policy file
    MaxOpenAsks,     \* max_per_member
    MaxActions,      \* bound: operator actions
    MaxPolicyRev,    \* bound: revisions of the policy files
    MaxAccessUpsets  \* bound: new policies and expiries

ASSUME AccessAssumption ==
    /\ Nobody \notin Asks
    /\ Offers \subseteq [read : Nat, write : Nat]
    /\ \A s \in Offers : s.read > 0 \/ s.write > 0
    /\ Filed \in [Devices -> Nat]

VARIABLES
    files,      \* the policy files on disk: member ceiling, operator, native
    heads,      \* the revisions observed in the database
    ask,        \* [Asks -> the request row]
    decision,   \* [Asks -> the decision row]
    readRow,    \* access_assignments, by installation
    writeRow,   \* write_assignments, the member's row
    actions,    \* operator challenges and results, by action ID
    thread,     \* the handler each thread runs
    accessUpsets

accessVars == <<files, heads, ask, decision, readRow, writeRow, actions, thread, accessUpsets>>

PolicyFiles == {"base", "oper", "native"}

NoAsk == [at |-> "none", device |-> Nobody]
NoAccessRow == [ask |-> Nobody, extent |-> 0, active |-> FALSE]
NoSelection == [read |-> 0, write |-> 0]
Undecided == [state |-> "none", sel |-> NoSelection]
NoAction == [stage |-> "none"]
AccessAtRest == [at |-> "idle"]

AccessInit ==
    /\ files = [k \in PolicyFiles |-> [rev |-> 1, extent |-> 2]]
    /\ heads = [base |-> files["base"], oper |-> files["oper"],
                write |-> <<files["oper"], files["native"]>>]
    /\ ask = [a \in Asks |-> NoAsk]
    /\ decision = [a \in Asks |-> Undecided]
    /\ readRow = [d \in Devices |-> NoAccessRow]
    /\ writeRow = NoAccessRow
    /\ actions = [i \in 1..MaxActions |-> NoAction]
    /\ thread = [t \in Threads |-> AccessAtRest]
    /\ accessUpsets = 0

-----------------------------------------------------------------------------
(* SQLite.                                                                 *)

\* A reader keeps the database's shared lock from its first read to the end
\* of its transaction; a writer's COMMIT waits for it, and fails in the end.
Unlocked == \A t \in Threads : thread[t].at # "admitted"

\* Both rows and every table are written under BEGIN IMMEDIATE.
Commits == Unlocked

Upset == accessUpsets < MaxAccessUpsets /\ accessUpsets' = accessUpsets + 1

-----------------------------------------------------------------------------
(* The policy files.                                                       *)

\* The owner writes a new revision of a policy, or puts an older file back.
EditPolicy(k) ==
    /\ \/ /\ Upset
          /\ files[k].rev < MaxPolicyRev
          /\ \E e \in Extents[k] :
                files' = [files EXCEPT ![k] = [rev |-> MaxPolicyRev, extent |-> e]]
       \/ /\ files[k].rev > 1
          /\ files' = [files EXCEPT ![k] = [rev |-> 1, extent |-> 2]]
          /\ UNCHANGED accessUpsets
    /\ UNCHANGED <<heads, ask, decision, readRow, writeRow, actions, thread>>

\* refresh: an observed revision never goes back, and never changes its content.
Follows(new, old) == new.rev > old.rev \/ new = old

WriteFiles == <<files["oper"], files["native"]>>

\* _base and _write_configuration: the files are the ones last observed.
BaseCurrent == heads.base = files["base"]
WriteCurrent == BaseCurrent /\ heads.write = WriteFiles
OperCurrent == heads.oper = files["oper"]

\* _eligible: inside the member ceiling, the operator ceiling and the native policy.
Eligible(e, base) ==
    e <= base.extent /\ e <= files["oper"].extent /\ e <= files["native"].extent

-----------------------------------------------------------------------------
(* What is in force.                                                       *)

\* current: the row masks the assignment of the member file.
CurrentRead(d) ==
    IF readRow[d].ask # Nobody
    THEN IF readRow[d].active THEN readRow[d].extent ELSE 0
    ELSE IF Filed[d] <= files["base"].extent THEN Filed[d] ELSE 0

CurrentWrite == IF writeRow.active THEN writeRow.extent ELSE 0

\* The components a request's decision put in force and that still are.
LiveOf(a) ==
    [read |-> IF ask[a].device # Nobody /\ readRow[ask[a].device].ask = a
                 /\ readRow[ask[a].device].active
              THEN readRow[ask[a].device].extent ELSE 0,
     write |-> IF writeRow.ask = a /\ writeRow.active THEN writeRow.extent ELSE 0]

\* active_selection: the baseline of a configuration is the whole live decision.
Baseline(a) ==
    /\ decision[a].state = "active"
    /\ \A side \in {"read", "write"} :
          decision[a].sel[side] > 0 =>
              LiveOf(a)[side] > 0 /\ LiveOf(a)[side] <= files["oper"].extent

Sides(sel) == {side \in {"read", "write"} : sel[side] > 0}

\* preview: the grants fit and the assignments to be replaced are the named ones.
Previews(act) ==
    LET d == ask[act.ask].device IN
    /\ act.sel.read > 0 => /\ BaseCurrent
                           /\ act.sel.read <= files["base"].extent
                           /\ act.prev.read = CurrentRead(d)
    /\ act.sel.write > 0 => /\ WriteCurrent
                            /\ Eligible(act.sel.write, files["base"])
                            /\ act.prev.write = CurrentWrite

\* Where a handler starts.  Observing what was observed before writes the same
\* values again, so a handler that finds nothing new goes straight on.
Started ==
    IF OperCurrent /\ WriteCurrent /\ (writeRow.active => Eligible(writeRow.extent, files["base"]))
    THEN [at |-> "main"]
    ELSE [at |-> "base"]

-----------------------------------------------------------------------------
(* The member's inbox.                                                     *)

\* challenge of the inbox, for a submission.
AskChallenge(a, d) ==
    /\ Commits
    /\ ask[a] = NoAsk
    /\ ask' = [ask EXCEPT ![a] = [at |-> "challenged", device |-> d]]
    /\ UNCHANGED <<files, heads, decision, readRow, writeRow, actions, thread, accessUpsets>>

\* _record_authenticated: the challenge is used up and the request stored, if
\* there is room; then the refresh that execute_wallet ends with.
Submit(t, a) ==
    /\ Commits
    /\ thread[t] = AccessAtRest
    /\ ask[a].at = "challenged"
    /\ Cardinality({b \in Asks : ask[b].at = "open"}) < MaxOpenAsks
    /\ ask' = [ask EXCEPT ![a].at = "open"]
    /\ thread' = [thread EXCEPT ![t] = Started]
    /\ UNCHANGED <<files, heads, decision, readRow, writeRow, actions, accessUpsets>>

\* Time passes: an open request or an operator's challenge expires.
Expire ==
    /\ Upset
    /\ \/ \E a \in Asks :
            /\ ask[a].at = "open"
            /\ ask' = [ask EXCEPT ![a].at = "expired"]
            /\ UNCHANGED actions
       \/ \E i \in 1..MaxActions :
            /\ actions[i].stage = "challenged"
            /\ actions' = [actions EXCEPT ![i] = NoAction]
            /\ UNCHANGED ask
    /\ UNCHANGED <<files, heads, decision, readRow, writeRow, thread>>

-----------------------------------------------------------------------------
(* Observing the policies: the transactions every handler starts with.     *)

\* A call arrives: a member's submission again or a question for its status,
\* an operator's, or one for the write receiver.  Which one it is matters only
\* when the policies have been observed.
Begin(t) ==
    /\ thread[t] = AccessAtRest
    /\ thread' = [thread EXCEPT ![t] = Started]
    /\ UNCHANGED <<files, heads, ask, decision, readRow, writeRow, actions, accessUpsets>>

\* The handler ends, with an answer or a refusal; nothing more is stored.
Refused(t) ==
    /\ thread' = [thread EXCEPT ![t] = AccessAtRest]
    /\ UNCHANGED <<files, heads, ask, decision, readRow, writeRow, actions, accessUpsets>>

\* A narrowing that was observed deactivates for good.
Pruned(row, fits) == IF row.active /\ ~fits THEN [row EXCEPT !.active = FALSE] ELSE row

\* ReadGrantProvisioning.refresh
ObserveBase(t) ==
    LET base == files["base"] IN
    /\ thread[t].at = "base"
    /\ \/ /\ ~Follows(base, heads.base)
          /\ Refused(t)
       \/ /\ Follows(base, heads.base)
          /\ Commits
          /\ heads' = [heads EXCEPT !.base = base]
          /\ readRow' = IF base.rev > heads.base.rev
                        THEN [d \in Devices |->
                                 Pruned(readRow[d], readRow[d].extent <= base.extent)]
                        ELSE readRow
          /\ thread' = [thread EXCEPT ![t] = [at |-> "write", base |-> base]]
          /\ UNCHANGED <<files, ask, decision, writeRow, actions, accessUpsets>>

\* WriteGrantProvisioning.refresh; the ceiling is the one read the step before.
ObserveWrite(t) ==
    /\ thread[t].at = "write"
    /\ LET follows == \A n \in 1..2 : Follows(WriteFiles[n], heads.write[n]) IN
       \/ /\ ~follows
          /\ Refused(t)
       \/ /\ follows
          /\ Commits
          /\ heads' = [heads EXCEPT !.write = WriteFiles]
          /\ writeRow' = Pruned(writeRow, Eligible(writeRow.extent, thread[t].base))
          /\ thread' = [thread EXCEPT ![t] = [at |-> "oper"]]
          /\ UNCHANGED <<files, ask, decision, readRow, actions, accessUpsets>>

\* AccessOperator._refresh_policy
ObserveOperator(t) ==
    /\ thread[t].at = "oper"
    /\ \/ /\ ~Follows(files["oper"], heads.oper)
          /\ Refused(t)
       \/ /\ Follows(files["oper"], heads.oper)
          /\ Commits
          /\ heads' = [heads EXCEPT !.oper = files["oper"]]
          /\ thread' = [thread EXCEPT ![t] = [at |-> "main"]]
          /\ UNCHANGED <<files, ask, decision, readRow, writeRow, actions, accessUpsets>>

-----------------------------------------------------------------------------
(* The operator's actions.                                                 *)

\* The actions an operator may ask for.  What the action names of the state
\* (version, previous assignments) is what the inbox shows them now; approve
\* names a review and repeats it.
Version(a) == IF decision[a].state = "none" THEN 1 ELSE 2

Shown(a) ==
    [read |-> IF ask[a].device = Nobody THEN 0 ELSE CurrentRead(ask[a].device),
     write |-> CurrentWrite]

Proposals(o) ==
    LET act(kind, a, sel, prev, review) ==
            [stage |-> "asked", by |-> o, kind |-> kind, ask |-> a, version |-> Version(a),
             sel |-> sel, prev |-> prev, review |-> review, policy |-> files["oper"]]
    IN  {act("review", a, sel, Shown(a), 0) : a \in {b \in Asks : ask[b].at \in {"open", "expired"}}, sel \in Offers}
        \cup {[actions[i] EXCEPT !.stage = "asked", !.by = o, !.kind = "approve", !.review = i,
                                 !.policy = files["oper"]] :
                 i \in {j \in 1..MaxActions : actions[j].stage = "done" /\ actions[j].kind = "review"}}
        \cup {act("deny", a, NoSelection, NoSelection, 0) : a \in {b \in Asks : ask[b].at \in {"open", "expired"}}}
        \cup {act("revoke", a, sel, Shown(a), 0) :
                 a \in {b \in Asks : decision[b].state = "active"},
                 sel \in {[read |-> 1, write |-> 0], [read |-> 0, write |-> 1], [read |-> 1, write |-> 1]}}

\* _admit_action: a write selection must be eligible before it is even signed.
Admissible(act) ==
    act.kind \in {"review", "approve"} /\ act.sel.write > 0 =>
        WriteCurrent /\ Eligible(act.sel.write, files["base"])

\* _challenge: the action is bound to the policy it is challenged under, if
\* there is room for one more.
SaveAction(t) ==
    /\ thread[t].at = "main"
    /\ OperCurrent /\ Commits
    /\ \E i \in 1..MaxActions, o \in Operators : \E act \in Proposals(o) :
          /\ actions[i] = NoAction
          /\ \A j \in 1..(i - 1) : actions[j] # NoAction
          /\ Admissible(act)
          /\ actions' = [actions EXCEPT ![i] = [act EXCEPT !.stage = "challenged"]]
    /\ thread' = [thread EXCEPT ![t] = AccessAtRest]
    /\ UNCHANGED <<files, heads, ask, decision, readRow, writeRow, accessUpsets>>

\* The request is the one reviewed: pending and undecided, or live and whole.
Settles(act) ==
    /\ \/ /\ act.version = 1
          /\ ask[act.ask].at = "open" /\ decision[act.ask].state = "none"
       \/ /\ act.version = 2 /\ act.kind # "deny"
          /\ Baseline(act.ask)
          /\ Sides(act.sel) = Sides(decision[act.ask].sel)

\* _selection: within the operator's own ceiling.
Selectable(act) == \A side \in Sides(act.sel) : act.sel[side] <= files["oper"].extent

\* Mutant of Reviewed: a review of the same selection will do.
SameSelectionMut(act) ==
    actions[act.review].stage = "done" /\ act.sel = actions[act.review].sel

\* The exact review: same operator, selection, baseline and policy.
Reviewed(act) ==
    /\ actions[act.review].stage = "done"
    /\ [act EXCEPT !.kind = "review", !.review = 0, !.stage = "done"] = actions[act.review]

\* Mutant of Revocable: a mixed decision may be revoked by one component.
HalfRevokedMut(act) ==
    LET live == LiveOf(act.ask) IN
    /\ decision[act.ask].state = "active" /\ act.version = 2
    /\ act.sel.read > 0 => BaseCurrent /\ live.read > 0 /\ live.read = act.prev.read
    /\ act.sel.write > 0 => WriteCurrent /\ live.write > 0 /\ live.write = act.prev.write

\* revoke_selection: the named component or both; never one of two that are live.
Revocable(act) ==
    LET live == LiveOf(act.ask) IN
    /\ decision[act.ask].state = "active" /\ act.version = 2
    /\ act.sel.read > 0 => /\ BaseCurrent
                           /\ live.read > 0 /\ live.read = act.prev.read
                           /\ live.read <= files["oper"].extent
    /\ act.sel.write > 0 => /\ WriteCurrent
                            /\ live.write > 0 /\ live.write = act.prev.write
                            /\ live.write <= files["oper"].extent
    /\ Cardinality(Sides(act.sel)) = 1 => ~(live.read > 0 /\ live.write > 0)

\* _execute accepts the action: it is bound to the current policy.
Accepts(act) ==
    /\ OperCurrent /\ act.policy = files["oper"] /\ Admissible(act)
    /\ CASE act.kind = "review" -> Settles(act) /\ Selectable(act) /\ Previews(act)
         [] act.kind = "approve" -> Settles(act) /\ Selectable(act) /\ Previews(act) /\ Reviewed(act)
         [] act.kind = "deny" -> Settles(act)
         [] act.kind = "revoke" -> Revocable(act)

\* provisioning.activate and the decision it belongs to.
Activate(act) ==
    LET d == ask[act.ask].device IN
    /\ readRow' = IF act.sel.read > 0
                  THEN [readRow EXCEPT ![d] = [ask |-> act.ask, extent |-> act.sel.read, active |-> TRUE]]
                  ELSE readRow
    /\ writeRow' = IF act.sel.write > 0
                   THEN [ask |-> act.ask, extent |-> act.sel.write, active |-> TRUE]
                   ELSE writeRow
    /\ decision' = [decision EXCEPT ![act.ask] = [state |-> "active", sel |-> act.sel]]

\* provisioning.revoke and revoke_write.
Deactivate(act) ==
    LET d == ask[act.ask].device IN
    /\ readRow' = IF act.sel.read > 0 THEN [readRow EXCEPT ![d].active = FALSE] ELSE readRow
    /\ writeRow' = IF act.sel.write > 0 THEN [writeRow EXCEPT !.active = FALSE] ELSE writeRow
    /\ decision' = [decision EXCEPT ![act.ask].state = "revoked"]

\* _execute: the decision, the rows, the result and the use of the challenge
\* are one transaction.
Execute(t, i) ==
    LET act == actions[i] IN
    /\ thread[t].at = "main"
    /\ act.stage = "challenged" /\ Accepts(act)
    /\ Commits
    /\ \/ act.kind = "approve" /\ Activate(act)
       \/ act.kind = "revoke" /\ Deactivate(act)
       \/ /\ act.kind = "deny"
          /\ decision' = [decision EXCEPT ![act.ask].state = "denied"]
          /\ UNCHANGED <<readRow, writeRow>>
       \/ act.kind = "review" /\ UNCHANGED <<decision, readRow, writeRow>>
    /\ actions' = [actions EXCEPT ![i].stage = "done"]
    /\ thread' = [thread EXCEPT ![t] = AccessAtRest]
    /\ UNCHANGED <<files, heads, ask, accessUpsets>>

\* The call is refused, or it was one that only reads: a status, an inbox, a
\* result that is already stored.
AnswerAction(t) == thread[t].at \in {"oper", "main"} /\ Refused(t)

-----------------------------------------------------------------------------
(* The write receiver.                                                     *)

\* admission: the configuration is current, every active assignment is still
\* eligible, and the shared lock is kept from here to the end of the call.
AdmitAction(t) ==
    /\ thread[t].at \in {"oper", "main"}
    /\ WriteCurrent /\ writeRow.active /\ Eligible(writeRow.extent, files["base"])
    /\ thread' = [thread EXCEPT ![t] = [at |-> "admitted", under |-> writeRow, heads |-> heads]]
    /\ UNCHANGED <<files, heads, ask, decision, readRow, writeRow, actions, accessUpsets>>

\* The graph transaction has ended; the lock is given back.
FinishAdmission(t) == thread[t].at = "admitted" /\ Refused(t)

AccessNext ==
    \/ \E k \in PolicyFiles : EditPolicy(k)
    \/ Expire
    \/ \E a \in Asks, d \in Devices : AskChallenge(a, d)
    \/ \E t \in Threads :
          \/ \E a \in Asks : Submit(t, a)
          \/ Begin(t)
          \/ ObserveBase(t) \/ ObserveWrite(t) \/ ObserveOperator(t)
          \/ SaveAction(t) \/ AnswerAction(t)
          \/ \E i \in 1..MaxActions : Execute(t, i)
          \/ AdmitAction(t) \/ FinishAdmission(t)

AccessSpec == AccessInit /\ [][AccessNext]_accessVars

-----------------------------------------------------------------------------
(* Properties.                                                             *)

\* A decision and the assignments agree.  An assignment in force belongs to a
\* request whose decision is active and selected exactly it; so a revoked
\* decision leaves nothing usable behind, a mixed one included ("Never mark it
\* revoked while leaving its other current component usable").  Read assignments in
\* force are within the member ceiling last observed.  And while the receiver
\* runs a call it admitted, the assignment it runs under stays in force:
\* "Revocation cannot slip into admission".
GrantsDecided ==
    /\ \A d \in Devices : readRow[d].active =>
          /\ ask[readRow[d].ask].device = d
          /\ decision[readRow[d].ask].state = "active"
          /\ decision[readRow[d].ask].sel.read = readRow[d].extent
          /\ readRow[d].extent <= heads.base.extent
    /\ writeRow.active =>
          /\ decision[writeRow.ask].state = "active"
          /\ decision[writeRow.ask].sel.write = writeRow.extent
    /\ \A t \in Threads : thread[t].at = "admitted" =>
          thread[t].under = writeRow /\ thread[t].heads = heads

\* An assignment comes into force only as it was reviewed: by the same operator,
\* with this selection, under the policy that is still the current one, and in
\* place of the assignments the reviewer was shown, which are the ones replaced.
ActivatedAsReviewed ==
    [][\A a \in Asks :
          LET fresh(row, new) == new.active /\ new # row
              d == ask[a].device
          IN  (\/ d # Nobody /\ fresh(readRow[d], readRow'[d]) /\ readRow'[d].ask = a
               \/ fresh(writeRow, writeRow') /\ writeRow'.ask = a) =>
              \E i \in 1..MaxActions :
                 LET approve == actions'[i]  IN
                 /\ actions[i].stage = "challenged" /\ approve.stage = "done" /\ approve.kind = "approve"
                 /\ LET review == actions[approve.review] IN
                    /\ review.stage = "done" /\ review.kind = "review"
                    /\ review.by = approve.by /\ review.ask = a
                    /\ review.sel = decision'[a].sel
                    /\ review.policy = files["oper"]
                    /\ review.sel.read > 0 => review.prev.read = CurrentRead(d)
                    /\ review.sel.write > 0 => review.prev.write = CurrentWrite
      ]_accessVars
=============================================================================
