-------------------------------- MODULE MCWork --------------------------------
(***************************************************************************)
(* Writing and reading the work graph, for TLC: containment and placement, *)
(* signed changes, delegated reads, supporting material and the board.      *)
(* The components share no state: part names the one that runs, the others *)
(* stay where they began.                                                  *)
(***************************************************************************)
EXTENDS Containment, SignedWork, DelegatedReads, SupportingMaterial, BoardViews, TLC

CONSTANTS i1, p1, t1

VARIABLE part

\* Containment: an Initiative, a Project and a Task.
MCKindOfWork == [w \in Works |-> CASE w = i1 -> "Initiative" [] w = p1 -> "Project" [] OTHER -> "Task"]

-----------------------------------------------------------------------------
(* Delegated reads: a credential of two narrow grants, and its successor    *)
(* whose profile is wider than what was reviewed.                           *)

WholeGrant ==
  [operations |-> Operations, relationship_types |-> Relationships, work_kinds |-> WorkKinds,
   work_ids |-> {}, arena_ids |-> {}, include_archived |-> TRUE, resource_paths |-> {}]
ArenaGrant == [WholeGrant EXCEPT !.arena_ids = {"a1"}, !.include_archived = FALSE]
OneItem ==
  [WholeGrant EXCEPT !.work_ids = {"w1"}, !.relationship_types = {"children"},
                     !.operations = {"get", "relationships"}]

InArena(a) == [all_arenas |-> FALSE, arena_ids |-> {a}]
NarrowScopes == {"work", "arena", "material", "document"}
WideScopes == {"work", "arena", "graph", "observation", "query"}

MCProfile ==
  [c \in Credentials |->
     IF c = "c1"
     THEN [issuer |-> 1, scopes |-> NarrowScopes, work |-> {ArenaGrant, OneItem}, arenas |-> {InArena("a1")}]
     ELSE [issuer |-> 1, scopes |-> WideScopes, work |-> {WholeGrant},
           arenas |-> {[all_arenas |-> TRUE, arena_ids |-> {}]}]]

MCManifest ==
  [c \in Credentials |->
     IF c = "c1"
     THEN [issuer |-> 1, scopes |-> NarrowScopes, arenas |-> {InArena("a1")},
           work |-> {[ArenaGrant EXCEPT !.operations = {"list", "get"}],
                     [ArenaGrant EXCEPT !.operations = {"relationships"}, !.relationship_types = {"parent"}],
                     OneItem},
           not_before |-> 0, expires |-> 1, replaces |-> NoTarget, request |-> 1, version |-> 1]
     ELSE [issuer |-> 1, scopes |-> WideScopes, arenas |-> {InArena("a1")}, work |-> {WholeGrant},
           not_before |-> 0, expires |-> 2, replaces |-> "c1", request |-> 1, version |-> 2]]

MCKindOf == [w \in ReadWorks |-> IF w = "w1" THEN "Issue" ELSE "Task"]

-----------------------------------------------------------------------------
\* The board: an Issue before Tasks.
MCKinds == <<"Issue", "Task">>
MCKindOfKey == [k \in WorkKeys |-> IF k = 1 THEN "Issue" ELSE "Task"]

-----------------------------------------------------------------------------
\* The contents of a request file are alike, and so are the commands that send one.
FirstContent == CHOOSE c \in Contents : TRUE
Symmetry == Permutations(Agents)

graphWorkVars == <<part, vars, signedVars, delegatedVars, materialVars, boardVars>>

WorkInit ==
  /\ part \in {"containment", "signed", "delegated", "pages", "document", "board"}
  /\ Init /\ SignedInit /\ DelegatedInit /\ MaterialInit /\ BoardInit
  /\ caller.request = FirstContent
  /\ \A w \in ReadWorks : item[w].arena # "a2" /\ (part # "delegated" => ~item[w].made)

Others(p) ==
  /\ UNCHANGED part
  /\ p # "containment" => UNCHANGED vars
  /\ p # "signed" => UNCHANGED signedVars
  /\ p # "delegated" => UNCHANGED delegatedVars
  /\ p \notin {"pages", "document"} => UNCHANGED materialVars
  /\ p # "board" => UNCHANGED boardVars

WorkNext ==
  \/ part = "containment" /\ Next /\ Others("containment")
  \/ part = "signed" /\ SignedNext /\ Others("signed")
  \/ part = "delegated" /\ DelegatedNext /\ Others("delegated")
  \/ part = "pages" /\ PagesNext /\ Others("pages")
  \/ part = "document" /\ DocumentNext /\ Others("document")
  \/ part = "board" /\ BoardNext /\ Others("board")

WorkSpec == WorkInit /\ [][WorkNext]_graphWorkVars

\* Every item has one place at all times, and every lookup finds it (arenas.py,
\* placement and the Arena membership it resolves).
PlacesHold == part = "containment" => ContainmentInv

\* A walk over pages is whole or refused: every answer of a walk is taken from
\* one state of what it walks, for the material of a work item and its
\* documents (supporting_material.py) and for the board (kanban.py).
PagesAreWhole == MaterialIsWhole /\ BoardWalkIsWhole
=============================================================================
