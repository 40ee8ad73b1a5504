--------------------------- MODULE DelegatedReads ---------------------------
(***************************************************************************)
(* The delegated read surface: DelegatedReadService (auth/delegated_read), *)
(* its credential registry (auth/delegated_registry), the storage pages it *)
(* filters with (storage/delegated, storage/memory, storage/neo4j) and the *)
(* compiled query (storage/cypher_read, api/delegated_read).               *)
(*                                                                         *)
(* A read verifies its credential against the registry file once, a query  *)
(* three times, and then reads the graph in one statement or in several.   *)
(* Between any two steps the owner may publish another registry, the clock *)
(* may pass the end of a credential, and writers may change the graph.     *)
(*                                                                         *)
(* A manifest is a constant of its credential (the record carries its      *)
(* digest); the request profile it was reviewed against is too.  Pages     *)
(* have no limit here: a shorter page discloses less.                      *)
(***************************************************************************)
EXTENDS Naturals, FiniteSets

CONSTANTS
    Operations,    \* WORK_OPERATION_ORDER
    Relationships, \* RELATIONSHIP_TYPE_ORDER
    WorkKinds,     \* WORK_KIND_ORDER
    NoArena,       \* an item that is in no Arena
    Credentials,   \* the delegated credentials
    Profile,       \* the approved request of each credential
    Manifest,      \* its manifest
    ReadWorks,         \* the Work items
    KindOf,        \* their kinds
    ReadArenas,        \* the ReadArenas
    ReadCalls,     \* the calls of the service
    NoTarget,      \* a call without a target
    MaxQueries,    \* MAX_CONCURRENT_QUERIES
    MaxRows,       \* MAX_ROWS of a query
    MaxReadTime,   \* bound: the ticks of the clock
    MaxPublished,  \* bound: the registries published
    MaxWritten     \* bound: the changes of the graph

-----------------------------------------------------------------------------
(* The algebra of read grants (auth/delegated_contract.py,                 *)
(* resource_paths.py): when one grant is inside another, which item a      *)
(* grant admits, when a manifest is inside the request that was approved,  *)
(* and how two path ceilings are combined.                                 *)
(*                                                                         *)
(* A Work grant is a record of sets; an empty selector (work_ids,          *)
(* arena_ids, resource_paths) does not restrict.  A path is a set of       *)
(* anchors that must all be on the chain of containers of the item; a set  *)
(* of paths is a disjunction.  An item is what a statement read of it: its *)
(* kind, its identity, the Arena its containment resolves to, the set of   *)
(* anchors on its chain and whether it is archived.                        *)

\* resource_paths.ResourcePath.contained_by
ContainedBy(path, ceiling) == ceiling \subseteq path

\* resource_paths.paths_subset
PathsSubset(child, parent) ==
    \/ parent = {}
    \/ child # {} /\ \A p \in child : \E c \in parent : ContainedBy(p, c)

\* delegated_contract._selector_subset
SelectorSubset(granted, requested) ==
    requested = {} \/ (granted # {} /\ granted \subseteq requested)

\* delegated_contract._grant_is_subset, for two Work grants
WorkGrantIsSubset(granted, requested) ==
    /\ granted.operations \subseteq requested.operations
    /\ granted.relationship_types \subseteq requested.relationship_types
    /\ granted.work_kinds \subseteq requested.work_kinds
    /\ granted.include_archived => requested.include_archived
    /\ SelectorSubset(granted.work_ids, requested.work_ids)
    /\ SelectorSubset(granted.arena_ids, requested.arena_ids)
    /\ PathsSubset(granted.resource_paths, requested.resource_paths)

\* delegated_contract._grant_is_subset, for two Arena grants
ArenaGrantIsSubset(granted, requested) ==
    IF granted.all_arenas
    THEN requested.all_arenas
    ELSE requested.all_arenas \/ granted.arena_ids \subseteq requested.arena_ids

\* delegated_contract._is_unrestricted_query_prerequisite
Unrestricted(grant) ==
    /\ grant.include_archived
    /\ grant.operations = Operations
    /\ grant.relationship_types = Relationships
    /\ grant.work_kinds = WorkKinds
    /\ grant.work_ids = {} /\ grant.arena_ids = {} /\ grant.resource_paths = {}

\* _GrantSet._validate_grants and CredentialManifest.validate_manifest: the scopes are
\* those of the grants, the interval is one, and the query scope needs a whole Work grant.
ValidManifest(m) ==
    /\ ("work" \in m.scopes) = (m.work # {})
    /\ ("arena" \in m.scopes) = (m.arenas # {})
    /\ m.scopes # {}
    /\ m.not_before < m.expires
    /\ "query" \in m.scopes => \E g \in m.work : Unrestricted(g)

\* delegated_contract.validate_manifest_subset
ManifestSubset(profile, m) ==
    /\ m.issuer = profile.issuer
    /\ m.scopes \subseteq profile.scopes
    /\ \A g \in m.work : \E r \in profile.work : WorkGrantIsSubset(g, r)
    /\ \A g \in m.arenas : \E r \in profile.arenas : ArenaGrantIsSubset(g, r)

-----------------------------------------------------------------------------
(* What a grant admits.                                                     *)

\* resource_paths.within_paths: an item whose chain does not resolve has the empty chain,
\* and no path is empty.
Within(chain, paths) == paths = {} \/ \E p \in paths : p # {} /\ p \subseteq chain

\* The selector of storage/delegated.DelegatedWorkSelector, decided per item by
\* _delegated_selector_predicate and by the WHERE of the Neo4j pages.
Selects(grant, facts) ==
    /\ facts.kind \in grant.work_kinds
    /\ facts.archived => grant.include_archived
    /\ grant.work_ids = {} \/ facts.id \in grant.work_ids
    /\ grant.arena_ids = {} \/ (facts.arena # NoArena /\ facts.arena \in grant.arena_ids)
    /\ Within(facts.chain, grant.resource_paths)

\* A grant for the operation, and for the relationship when it follows one (rels is empty
\* or holds it), that selects the item.
Admits(grant, operation, rels, facts) ==
    /\ operation \in grant.operations
    /\ rels \subseteq grant.relationship_types
    /\ Selects(grant, facts)

-----------------------------------------------------------------------------
(* Two path ceilings at once.                                               *)

\* Anchors are pairs <<kind, id>>.
Compatible(a, b) == \A x \in a, y \in b : x[1] = y[1] => x = y

\* resource_paths.intersect_paths
IntersectPaths(left, right) ==
    IF left = {} THEN right
    ELSE IF right = {} THEN left
    ELSE {p[1] \cup p[2] : p \in {q \in left \X right : Compatible(q[1], q[2])}}

\* The callers refuse an empty intersection of two ceilings: it is no longer a filter.
Denied(left, right) == left # {} /\ right # {} /\ IntersectPaths(left, right) = {}

\* A chain of containers has one anchor of a kind (current_resource_path gives up on a
\* second parent or membership).
IsChain(chain) == \A x, y \in chain : x[1] = y[1] => x = y

-----------------------------------------------------------------------------
(* The registry, the graph and the calls.                                   *)

VARIABLES
    records,   \* the registry file: the status of each credential, or "absent"
    published, \* how many registries were published
    item,      \* the Work items
    related,   \* the targets of each item's one relationship
    written,   \* how many changes the graph has seen
    call,      \* the state of every call
    readTime   \* utc_now()

registryVars == <<records, published>>
workVars == <<item, related, written>>
delegatedVars == <<registryVars, workVars, call, readTime>>

\* delegated_contract.ReadGrant as used by the surface; manifests are reviewed against the
\* request before the owner publishes them (validate_manifest_subset).
ASSUME GrantAssumption ==
    \A c \in Credentials :
        /\ ManifestSubset(Profile[c], Manifest[c])
        /\ \A r \in Profile[c].work : \A p \in r.resource_paths : p # {}

ASSUME NameAssumption ==
    /\ KindOf \in [ReadWorks -> WorkKinds]
    /\ NoTarget \notin ReadWorks \cup Credentials
    /\ NoArena \notin ReadArenas
    /\ {"list", "get", "relationships"} \subseteq Operations

Statuses == {"absent", "active", "revoked", "superseded"}

Ops == {"list", "get", "relationships", "arenas", "arena", "members", "membership",
        "material", "document", "graph", "observations", "query"}

\* The scope authorize is called with, and the further scopes the operation asks for.
ScopesOf(op) ==
    CASE op \in {"list", "get", "relationships"} -> {"work"}
      [] op \in {"arenas", "arena"} -> {"arena"}
      [] op \in {"members", "membership"} -> {"arena", "work"}
      [] op = "material" -> {"material", "work"}
      [] op = "document" -> {"document", "material", "work"}
      [] op = "graph" -> {"graph"}
      [] op = "observations" -> {"observation"}
      [] op = "query" -> {"query"}

\* The grant operation an item is answered under.
GrantOp(op) == CASE op \in {"list", "members"} -> "list"
                 [] op = "relationships" -> "relationships"
                 [] OTHER -> "get"

NoFacts == [kind |-> "none", id |-> NoTarget, arena |-> NoArena, archived |-> FALSE, chain |-> {}]

Waiting ==
    [at |-> "idle", op |-> "list", cred |-> NoTarget, target |-> NoTarget, rels |-> {},
     arena |-> NoArena, archived |-> FALSE, loaded |-> NoFacts, asked |-> {}, items |-> {},
     arenas |-> {}, audited |-> FALSE]

DelegatedInit ==
    /\ records = [c \in Credentials |-> "active"]
    /\ published = 0
    /\ \E a \in ReadArenas \cup {NoArena} :
          item = [w \in ReadWorks |-> [made |-> a # NoArena, arena |-> a, archived |-> FALSE]]
    /\ related = [w \in ReadWorks |-> ReadWorks \ {w}]
    /\ written = 0
    /\ call = [x \in ReadCalls |-> Waiting]
    /\ readTime = 0

-----------------------------------------------------------------------------
(* The registry, the graph and the clock.                                   *)

\* DelegatedCredentialRegistry.validate_records, with the manifests parsed on the way
ValidRecords(file) ==
    LET present == {c \in Credentials : file[c] # "absent"}
        successors(c) == {d \in present : Manifest[d].replaces = c}
    IN  /\ present # {}
        /\ \A c \in present : ValidManifest(Manifest[c])
        /\ \A d \in present :
              Manifest[d].replaces # NoTarget =>
                  /\ Manifest[d].replaces \in present
                  /\ Manifest[Manifest[d].replaces].request = Manifest[d].request
                  /\ Manifest[Manifest[d].replaces].version < Manifest[d].version
        /\ \A c \in present : Cardinality(successors(c)) <= 1
        /\ \A c \in present : file[c] = "superseded" => successors(c) # {}

\* The owner replaces the file with one that differs in a record; it may be invalid.
Publish(c, status) ==
    /\ published < MaxPublished
    /\ records' = [records EXCEPT ![c] = status]
    /\ published' = published + 1
    /\ UNCHANGED <<workVars, call, readTime>>

ChangeWork(w, arena, archived, targets) ==
    /\ written < MaxWritten
    /\ item' = [item EXCEPT ![w] = [made |-> TRUE, arena |-> arena, archived |-> archived]]
    /\ related' = [related EXCEPT ![w] = targets]
    /\ written' = written + 1
    /\ UNCHANGED <<registryVars, call, readTime>>

ReadTick ==
    /\ readTime < MaxReadTime
    /\ readTime' = readTime + 1
    /\ UNCHANGED <<registryVars, workVars, call>>

\* DelegatedReadCredentialVerifier.verify: the file is read again on every call.
Verified(c) ==
    /\ ValidRecords(records)
    /\ records[c] = "active"
    /\ Manifest[c].not_before <= readTime
    /\ readTime < Manifest[c].expires

\* DelegatedReadService.authorize and the scope checks that follow it; a valid manifest has
\* a grant, and its audience and resource are the service's.
Authorized(c, op) ==
    /\ Verified(c)
    /\ ScopesOf(op) \subseteq Manifest[c].scopes

-----------------------------------------------------------------------------
(* What the service asks of grants.                                         *)

Facts(w) ==
    [kind |-> KindOf[w], id |-> w, arena |-> item[w].arena, archived |-> item[w].archived,
     chain |-> IF item[w].arena = NoArena THEN {} ELSE {<<"Arena", item[w].arena>>}]

\* Mutant of WorkGrants: the relationship is not looked at.
AnyRelationshipMut(c, op, kinds, rels, archived) ==
    {g \in Manifest[c].work :
        /\ op \in g.operations
        /\ kinds \subseteq g.work_kinds
        /\ archived => g.include_archived}

\* DelegatedReadService._work_grants (kinds and rels are empty or hold the argument)
WorkGrants(c, op, kinds, rels, archived) ==
    {g \in Manifest[c].work :
        /\ op \in g.operations
        /\ kinds \subseteq g.work_kinds
        /\ rels \subseteq g.relationship_types
        /\ archived => g.include_archived}

\* DelegatedReadService._work_admitted: the item as loaded, in the Arena it is in now
WorkAdmitted(grants, facts) ==
    \E g \in grants :
        /\ facts.archived => g.include_archived
        /\ g.work_ids = {} \/ facts.id \in g.work_ids
        /\ g.arena_ids = {} \/ (facts.arena # NoArena /\ facts.arena \in g.arena_ids)
        /\ Within(facts.chain, g.resource_paths)

\* The candidates some selector admits, filtered in the statement that reads them.
Page(candidates, grants) ==
    {Facts(w) : w \in {v \in candidates : item[v].made /\ \E g \in grants : Selects(g, Facts(v))}}

\* storage.delegated_work_page
WorkPage(kind, archived, grants) ==
    Page({w \in ReadWorks : KindOf[w] = kind /\ (item[w].archived => archived)}, grants)

\* storage.delegated_related_work_nodes
RelatedPage(w, grants) == Page(related[w], grants)

\* storage.delegated_arena_member_page
MemberPage(a, grants) == Page({w \in ReadWorks : item[w].arena = a}, grants)

\* DelegatedReadService._require_arena
ArenaGranted(c, a) ==
    \E g \in Manifest[c].arenas : g.all_arenas \/ a \in g.arena_ids

\* DelegatedReadService.list_arenas
GrantedArenas(c) == {a \in ReadArenas : ArenaGranted(c, a)}

-----------------------------------------------------------------------------
(* The calls.                                                               *)

Becomes(x, new) ==
    /\ call' = [call EXCEPT ![x] = new]
    /\ UNCHANGED <<registryVars, workVars, readTime>>

\* An error answer: nothing is disclosed and the call is over.
Denies(x) == Becomes(x, [Waiting EXCEPT !.at = "denied"])

FirstStep(op) ==
    CASE op \in {"get", "relationships", "membership", "material", "document"} -> "load"
      [] op \in {"arena", "members"} -> "arena"
      [] op = "query" -> "upload"
      [] OTHER -> "page"

\* What the routes take: a target, an Arena, a relationship, archived items or not.
ReadRequests ==
    {r \in [op : Ops, target : ReadWorks \cup {NoTarget}, arena : ReadArenas \cup {NoArena},
            rels : {{}} \cup {{rel} : rel \in Relationships}, archived : BOOLEAN] :
        /\ (r.target = NoTarget) = (FirstStep(r.op) # "load")
        /\ (r.arena = NoArena) = (FirstStep(r.op) # "arena")
        /\ (r.rels = {}) = (r.op # "relationships")
        /\ r.archived => r.op = "list"}

\* A route calls its operation, which verifies the credential first.
Authorize(x, c, r) ==
    IF Authorized(c, r.op)
    THEN Becomes(x, [Waiting EXCEPT !.at = FirstStep(r.op), !.op = r.op, !.cred = c,
                                    !.target = r.target, !.arena = r.arena, !.rels = r.rels,
                                    !.archived = r.archived])
    ELSE Denies(x)

\* WorkObjectRepository.get_by_id in _require_work
LoadWork(x) ==
    /\ call[x].at = "load"
    /\ IF item[call[x].target].made
       THEN Becomes(x, [call[x] EXCEPT !.at = "admit", !.loaded = Facts(call[x].target)])
       ELSE Denies(x)

\* The item as it was loaded, in the Arena its containment resolves to now.
Placed(x) ==
    [call[x].loaded EXCEPT !.arena = item[call[x].target].arena,
                           !.chain = Facts(call[x].target).chain]

\* The rest of _require_work.
AdmitWork(x) ==
    /\ call[x].at = "admit"
    /\ IF WorkAdmitted(WorkGrants(call[x].cred, GrantOp(call[x].op),
                                  {call[x].loaded.kind}, call[x].rels, FALSE), Placed(x))
       THEN Becomes(x, [call[x] EXCEPT
                !.at = IF call[x].op = "get" THEN "audit" ELSE "read",
                !.items = IF call[x].op = "relationships" THEN {} ELSE {Placed(x)}])
       ELSE Denies(x)

\* related_work after the source was admitted; without target grants it answers the empty
\* list at once and records nothing.
ReadRelated(x) ==
    /\ call[x].at = "read" /\ call[x].op = "relationships"
    /\ LET grants == WorkGrants(call[x].cred, "relationships", {}, call[x].rels, FALSE)
       IN  IF grants = {}
           THEN Becomes(x, [call[x] EXCEPT !.at = "answered"])
           ELSE Becomes(x, [call[x] EXCEPT !.at = "audit",
                                           !.items = RelatedPage(call[x].target, grants)])

\* arena_membership: the membership is read again and its Arena must be granted too.
ReadMembership(x) ==
    /\ call[x].at = "read" /\ call[x].op = "membership"
    /\ LET now == item[call[x].target].arena
       IN  IF now # NoArena /\ ~ArenaGranted(call[x].cred, now)
           THEN Denies(x)
           ELSE Becomes(x, [call[x] EXCEPT !.at = "audit", !.arenas = {now} \ {NoArena}])

\* supporting_material and work_document: what they read is in SupportingMaterial.
ReadMaterial(x) ==
    /\ call[x].at = "read" /\ call[x].op \in {"material", "document"}
    /\ Becomes(x, [call[x] EXCEPT !.at = "audit"])

\* _require_arena of get_arena and arena_members
RequireArena(x) ==
    /\ call[x].at = "arena"
    /\ IF ~ArenaGranted(call[x].cred, call[x].arena)
       THEN Denies(x)
       ELSE IF call[x].op = "arena"
       THEN Becomes(x, [call[x] EXCEPT !.at = "audit", !.arenas = {call[x].arena}])
       ELSE Becomes(x, [call[x] EXCEPT !.at = "page"])

\* list_work for one kind, archived items included or not
PageWork(x, kind) ==
    /\ call[x].at = "page" /\ call[x].op = "list"
    /\ LET grants == WorkGrants(call[x].cred, "list", {kind}, {}, call[x].archived)
       IN  IF grants = {}
           THEN Denies(x)
           ELSE Becomes(x, [call[x] EXCEPT
                    !.at = "audit", !.items = WorkPage(kind, call[x].archived, grants)])

\* arena_members after its Arena was admitted
PageMembers(x) ==
    /\ call[x].at = "page" /\ call[x].op = "members"
    /\ LET grants == WorkGrants(call[x].cred, "list", {}, {}, FALSE)
       IN  IF grants = {}
           THEN Denies(x)
           ELSE Becomes(x, [call[x] EXCEPT
                    !.at = "audit", !.arenas = {call[x].arena},
                    !.items = MemberPage(call[x].arena, grants)])

PageArenas(x) ==
    /\ call[x].at = "page" /\ call[x].op = "arenas"
    /\ IF GrantedArenas(call[x].cred) = {}
       THEN Denies(x)
       ELSE Becomes(x, [call[x] EXCEPT !.at = "audit", !.arenas = GrantedArenas(call[x].cred)])

\* graph, list_observations and get_observation: the scope is all that is asked.
ReadWhole(x) ==
    /\ call[x].at = "page" /\ call[x].op \in {"graph", "observations"}
    /\ Becomes(x, [call[x] EXCEPT !.at = "audit"])

\* _audit and the answer; an audit log that fails fails the call.
AuditRead(x) ==
    /\ call[x].at = "audit"
    /\ \/ Becomes(x, [call[x] EXCEPT !.at = "answered", !.audited = TRUE])
       \/ Denies(x)

\* The caller sends another request.
CallAgain(x) ==
    /\ call[x].at \in {"answered", "denied"}
    /\ Becomes(x, Waiting)

-----------------------------------------------------------------------------
(* The query route and the runner.                                          *)

Queries == {x \in ReadCalls : call[x].at \in {"run", "late"}}

\* The body has arrived within its five seconds; service.query authorizes again.
BodyArrives(x) ==
    /\ call[x].at = "upload"
    /\ IF Authorized(call[x].cred, "query")
       THEN Becomes(x, [call[x] EXCEPT !.at = "verify"])
       ELSE Denies(x)

\* A query as the compiler sees it: the kinds of its one or two nodes, the relationship
\* between two, whether every parameter is used with its property's type, and the limit.
QueryTexts ==
    [kinds : {K \in SUBSET (WorkKinds \cup {"Credential"}) : Cardinality(K) \in 1 .. 2},
     relation : {"none", "HAS_CHILD", "OWNS"}, parameters : {"typed", "untyped", "unused"},
     limit : {0, MaxRows, MaxRows + 1}, rest : {"exact", "malformed"}]

\* cypher_read._strict_json and parse_cypher_request
RequestParses(text) == text.rest = "exact"

\* _Parser.node: only the public kinds can be named, each node once.
NodesParse(text) == text.kinds \subseteq WorkKinds

\* _Parser.predicate and _Parser.property: named properties compared with bound parameters
\* of their type.
PredicatesParse(text) == text.parameters # "untyped"

\* _Parser.compile: fresh Cypher, or nothing at all.
Compiles(text) ==
    /\ RequestParses(text) /\ NodesParse(text) /\ PredicatesParse(text)
    /\ text.relation \in {"none", "HAS_CHILD"}
    /\ Cardinality(text.kinds) = 2 => text.relation # "none"
    /\ text.parameters # "unused"
    /\ text.limit \in 1 .. MaxRows

\* execute_delegated verifies once more, compiles, and asks for one of the slots.
StartQuery(x, text) ==
    IF /\ Verified(call[x].cred) /\ "query" \in Manifest[call[x].cred].scopes
       /\ Compiles(text) /\ Cardinality(Queries) < MaxQueries
    THEN Becomes(x, [call[x] EXCEPT !.at = "run", !.asked = text.kinds])
    ELSE Denies(x)

\* What the compiled statement can return: items of the kinds it names.
Rows(x) == {Facts(w) : w \in {v \in ReadWorks : item[v].made /\ KindOf[v] \in call[x].asked}}

\* cypher_read.validate_cypher_result
ResultValid(rows) == Cardinality(rows) <= MaxRows

\* Neo4jCypherReadRunner.execute ends; the slot is released on every path.
EndQuery(x) ==
    /\ call[x].at = "run"
    /\ \/ \E rows \in SUBSET Rows(x) :
             ResultValid(rows) /\ Becomes(x, [call[x] EXCEPT !.at = "audit", !.items = rows])
       \/ Denies(x)

\* wait_for gives up after five or eight seconds; a query that runs goes on in its thread.
QueryTimeout(x) ==
    /\ call[x].at \in {"upload", "verify", "run"}
    /\ IF call[x].at = "run"
       THEN Becomes(x, [Waiting EXCEPT !.at = "late"])
       ELSE Denies(x)

LateQueryEnds(x) == call[x].at = "late" /\ Denies(x)

CallSteps(x) ==
    \/ call[x].at = "idle" /\ \E c \in Credentials, r \in ReadRequests : Authorize(x, c, r)
    \/ LoadWork(x) \/ AdmitWork(x) \/ ReadRelated(x) \/ ReadMembership(x) \/ ReadMaterial(x)
    \/ RequireArena(x) \/ PageMembers(x) \/ PageArenas(x) \/ ReadWhole(x)
    \/ \E kind \in WorkKinds : PageWork(x, kind)
    \/ AuditRead(x) \/ CallAgain(x)
    \/ BodyArrives(x) \/ (call[x].at = "verify" /\ \E text \in QueryTexts : StartQuery(x, text)) \/ EndQuery(x)
    \/ QueryTimeout(x) \/ LateQueryEnds(x)

DelegatedNext ==
    \/ \E c \in Credentials, s \in Statuses : Publish(c, s)
    \/ \E w \in ReadWorks, a \in ReadArenas \cup {NoArena}, archived \in BOOLEAN, v \in ReadWorks :
          ChangeWork(w, a, archived, {v})
    \/ ReadTick
    \/ \E x \in ReadCalls : CallSteps(x)

DelegatedSpec == DelegatedInit /\ [][DelegatedNext]_delegatedVars

-----------------------------------------------------------------------------

\* The credential's approved request covers the answer.
Approved(x) ==
    LET profile == Profile[call[x].cred]
    IN  /\ ScopesOf(call[x].op) \subseteq profile.scopes
        /\ \A i \in call[x].items :
              \E r \in profile.work : Admits(r, GrantOp(call[x].op), call[x].rels, i)
        /\ \A a \in call[x].arenas : \E r \in profile.arenas : r.all_arenas \/ a \in r.arena_ids

\* Whatever the manifests narrow, whichever of its several statements an operation took a
\* fact from and however registry and graph change between them, an answer of
\* DelegatedReadService discloses only items and ReadArenas that the request approved for its
\* credential admits for that operation, and it was recorded in the audit log first.
AnswersApproved ==
    \A x \in ReadCalls : call[x].at = "answered" => Approved(x) /\ call[x].audited
=============================================================================
