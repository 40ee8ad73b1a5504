------------------------------ MODULE Topology ------------------------------
(***************************************************************************)
(* The topology view of the graph: how it is captured (monitor_records for *)
(* the owner, project_monitor_read for a member), filtered                 *)
(* (topology.filter_projection over monitoring.build_monitor_snapshot) and *)
(* revalidated against what the client already holds.                      *)
(*                                                                         *)
(* A Neo4j read is not a snapshot: the statement of monitor_records reads  *)
(* the nodes and then the edges, and writers commit in between.  Nodes     *)
(* carry a version and are never deleted; edges come and go.               *)
(***************************************************************************)
EXTENDS Integers, Sequences, FiniteSets

CONSTANTS
    Zones,           \* Arenas
    Items,           \* Work items
    GraphLinks,           \* the edges writers may make: <<source, relationship, target>>
    KeyOrder,        \* keys in the order the snapshot sorts them
    Views,           \* the filters a client may ask for
    Accesses,        \* the decoded grants a member may hold
    SourceLimit,     \* SOURCE_NODE_LIMIT and SOURCE_EDGE_LIMIT
    MaxGraphWrites,
    MaxPolls

VARIABLES
    graph,   \* the committed nodes and edges
    past,    \* history: the graphs there were since the read in progress began
    poll,    \* the read in progress
    held,    \* what the client shows
    graphWrites, polls

topologyVars == <<graph, past, poll, held, graphWrites, polls>>

NodeKeys == Zones \cup Items

NoRecords == [nodes |-> <<>>, edges |-> {}]
NoPoll == [at |-> "idle", view |-> CHOOSE v \in Views : TRUE, nodes |-> <<>>, previous |-> NoRecords,
           reads |-> 0]
Owner == [work |-> {}, arenas |-> {}]
NothingHeld == [result |-> <<>>, representation |-> <<>>, view |-> <<>>, access |-> Owner]

TopologyInit ==
    /\ graph = [nodes |-> [k \in NodeKeys |-> [version |-> 1, progress |-> "not_started",
                                           archived |-> FALSE]],
                edges |-> {}]
    /\ past = {} /\ poll = NoPoll /\ held = NothingHeld /\ graphWrites = 0 /\ polls = 0

-----------------------------------------------------------------------------
(* Writers.                                                                 *)

Commits(new) ==
    /\ graphWrites < MaxGraphWrites
    /\ graphWrites' = graphWrites + 1
    /\ graph' = new
    /\ past' = IF poll.at \in {"nodes", "edges"} THEN past \cup {new} ELSE past
    /\ UNCHANGED <<poll, held, polls>>

\* A mutation of one item: its version moves with it.
ChangeNode(k, change) ==
    Commits([graph EXCEPT !.nodes[k] = [version |-> @.version + 1, progress |-> change.progress,
                                        archived |-> change.archived]])

\* create_edge and delete_edge move no version.
ToggleLink(e) ==
    Commits([graph EXCEPT !.edges = IF e \in @ THEN @ \ {e} ELSE @ \cup {e}])

-----------------------------------------------------------------------------
(* Containment: the ancestors of an item and the Arena it is placed in.     *)

\* Everything reached from S along the pairs of R.
Closure(S, R) ==
    LET grow[n \in 0 .. Cardinality(NodeKeys)] ==
            IF n = 0 THEN S
            ELSE grow[n - 1] \cup {p[2] : p \in {q \in R : q[1] \in grow[n - 1]}}
    IN  grow[Cardinality(NodeKeys)]

Containment(edges) ==
    {<<e[3], e[1]>> : e \in {x \in edges : x[2] \in {"HAS_CHILD", "CONTAINS_WORK"}}}

\* current_resource_path: the item and everything above it
ResourcePath(edges, w) == Closure({w}, Containment(edges))

\* ArenaRepository.membership_ids; no two Arenas hold one chain.
PlacedIn(edges, w) ==
    LET zones == ResourcePath(edges, w) \cap Zones
    IN  IF zones = {} THEN "none" ELSE CHOOSE z \in zones : TRUE

-----------------------------------------------------------------------------
(* The owner's capture: monitor_records.                                    *)

StartRead(view) ==
    /\ poll.at = "idle" /\ polls < MaxPolls
    /\ polls' = polls + 1
    /\ poll' = [NoPoll EXCEPT !.at = "nodes", !.view = view]
    /\ past' = {graph}
    /\ UNCHANGED <<graph, held, graphWrites>>

ReadNodes ==
    /\ poll.at = "nodes"
    /\ poll' = [poll EXCEPT !.at = "edges", !.nodes = graph.nodes]
    /\ UNCHANGED <<graph, past, held, graphWrites, polls>>

\* Mutant of SameRecords: the second read replaces the first without a comparison.
OneReadMut(previous, rows) == TRUE

\* Two equal materializations are taken for a snapshot.
SameRecords(previous, rows) == previous = rows

\* _CapturedStorage: the owner sees every node, without a placement.
OwnerCapture(rows) ==
    [nodes |-> [k \in DOMAIN rows.nodes |->
                  [progress |-> rows.nodes[k].progress, archived |-> rows.nodes[k].archived,
                   version |-> rows.nodes[k].version, arena_key |-> "absent"]],
     edges |-> rows.edges]

-----------------------------------------------------------------------------
(* A member's capture: selector_grants and monitor_read.                    *)

\* selector_grants.snapshot and permitted: the native check of one selector
SelectorAdmits(edges, selector, w) ==
    CASE selector.mode = "all" -> TRUE
      [] selector.mode = "objects" -> w \in selector.refs
      [] selector.mode = "descendants" -> ResourcePath(edges, w) \cap selector.refs # {}

\* materialize: what the selector leaves of a grant, in the interval of the read
Materialized(g, grant) == {w \in Items : SelectorAdmits(g.edges, grant.selector, w)}

\* selected_nodes of one materialized grant
SelectedNodes(g, grant) ==
    {w \in Materialized(g, grant) : /\ grant.ids = {} \/ w \in grant.ids
                                    /\ g.nodes[w].archived => grant.include_archived}

Directions(rel) ==
    CASE rel = "HAS_CHILD" -> <<"children", "parent">>
      [] rel = "DEPENDS_ON" -> <<"dependencies", "dependents">>
      [] rel = "BLOCKS" -> <<"blocked", "blockers">>

\* permits: list and relationship permissions are decoded independently.
Permits(g, access, w, relationship) ==
    \E grant \in access.work : /\ "relationships" \in grant.operations
                               /\ relationship \in grant.relationship_types
                               /\ w \in SelectedNodes(g, grant)

Listed(g, access) ==
    UNION {SelectedNodes(g, grant) : grant \in {x \in access.work : "list" \in x.operations}}

\* The Arena context must cover the placement of every visible item.
Covered(g, access) ==
    \A w \in Listed(g, access) : PlacedIn(g.edges, w) \in access.arenas \cup {"none"}

Allowed(g, access) ==
    /\ \E grant \in access.work : "list" \in grant.operations
    /\ access.arenas # {}
    /\ Covered(g, access)

VisibleLinks(g, access) ==
    {e \in g.edges :
        \/ /\ e[2] # "CONTAINS_WORK"
           /\ {e[1], e[3]} \subseteq Listed(g, access)
           /\ \/ Permits(g, access, e[1], Directions(e[2])[1])
              \/ Permits(g, access, e[3], Directions(e[2])[2])
        \/ e[2] = "CONTAINS_WORK" /\ e[1] \in access.arenas /\ e[3] \in Listed(g, access)}

MemberCapture(g, access) ==
    [nodes |-> [k \in Listed(g, access) \cup access.arenas |->
                  [progress |-> g.nodes[k].progress, archived |-> g.nodes[k].archived,
                   version |-> g.nodes[k].version,
                   arena_key |-> IF k \in Items THEN PlacedIn(g.edges, k) ELSE "absent"]],
     edges |-> VisibleLinks(g, access)]

-----------------------------------------------------------------------------
(* monitoring.build_monitor_snapshot and topology.filter_projection.        *)

\* Only edges between visible nodes; a prerequisite that is not visible is reported on the
\* visible item alone.
MonitorSnapshot(captured) ==
    LET keys == DOMAIN captured.nodes
        edges == {e \in captured.edges : e[1] \in keys /\ e[3] \in keys}
        children(k) == {e[3] : e \in {x \in edges : x[1] = k /\ x[2] = "HAS_CHILD"}}
    IN  [nodes |-> captured.nodes, edges |-> edges,
         child_progress |-> [k \in keys \cap Items |->
             [total |-> Cardinality(children(k)),
              completed |-> Cardinality({c \in children(k) :
                                           captured.nodes[c].progress = "done"})]],
         unresolved |->
             {<<e[1], e[2]>> : e \in {x \in captured.edges :
                 x[2] = "DEPENDS_ON" /\ x[1] \in keys /\ x[3] \notin keys}}
             \cup {<<e[3], e[2]>> : e \in {x \in captured.edges :
                 x[2] = "BLOCKS" /\ x[3] \in keys /\ x[1] \notin keys}}]

\* The keys an arena filter keeps: what is placed there, and what is reached from it without
\* entering an item that is placed elsewhere.
ArenaScope(snap, arena) ==
    LET keys == DOMAIN snap.nodes
        roots == {z \in Zones \cap keys : arena \in {"*", z}}
        enters(k) == snap.nodes[k].arena_key = "absent" \/ snap.nodes[k].arena_key \in roots
    IN  Closure(roots \cup {k \in keys : snap.nodes[k].arena_key \in roots},
                {<<e[1], e[3]>> : e \in {x \in snap.edges : enters(x[3])}})

AnchorScope(snap, anchor) ==
    {anchor} \cup {e[3] : e \in {x \in snap.edges : x[1] = anchor}}
             \cup {e[1] : e \in {x \in snap.edges : x[3] = anchor}}

Scoped(snap, view) ==
    {k \in DOMAIN snap.nodes :
        /\ view.arena = "" \/ k \in ArenaScope(snap, view.arena)
        /\ view.anchor = "" \/ k \in AnchorScope(snap, view.anchor)}

Category(k) == IF k \in Zones THEN "arena" ELSE "work"

\* _matches; a facet counts what its own filter would exclude (skip).
Matches(snap, view, k, skip) ==
    /\ skip = "category" \/ Category(k) \in view.category
    /\ skip = "progress" \/ Category(k) = "arena" \/ snap.nodes[k].progress \in view.progress
    /\ view.archived # "include" => (snap.nodes[k].archived <=> view.archived = "only")

Facet(snap, view) ==
    [p \in {"not_started", "done"} |->
        Cardinality({k \in Scoped(snap, view) \cap Items :
                       Matches(snap, view, k, "progress") /\ snap.nodes[k].progress = p})]

Rank(k) == CHOOSE i \in 1 .. Len(KeyOrder) : KeyOrder[i] = k

\* The first nodes up to the limit, in the order of the snapshot.
Shown(keys, limit) == {k \in keys : Cardinality({j \in keys : Rank(j) < Rank(k)}) < limit}

FilterProjection(snap, view) ==
    LET matching == {k \in Scoped(snap, view) : Matches(snap, view, k, "none")}
        edges == {e \in snap.edges : /\ e[1] \in matching /\ e[3] \in matching
                                     /\ e[2] \in view.relationship}
        shown == Shown(matching, view.node_limit)
        shownEdges == {e \in edges : e[1] \in shown /\ e[3] \in shown}
        places == {snap.nodes[k].arena_key : k \in shown} \cap DOMAIN snap.nodes
        layout == Closure(shown \cup places, Containment(snap.edges))
    IN  [revision |-> <<snap.nodes, snap.edges, snap.child_progress>>,
         unresolved |-> snap.unresolved, nodes |-> [k \in shown |-> snap.nodes[k]], edges |-> shownEdges,
         layout |-> layout, facet |-> Facet(snap, view),
         scope_error |-> \/ view.arena \notin {"", "*"} \cup DOMAIN snap.nodes
                         \/ view.anchor \notin {""} \cup DOMAIN snap.nodes,
         complete |-> shown = matching /\ shownEdges = edges]

\* The fields of access_scope that the grants and the capture decide.
AccessScope(g, access) ==
    [work_relationships |->
        \E grant \in access.work : /\ "relationships" \in grant.operations
                                   /\ SelectedNodes(g, grant) \cap Listed(g, access) # {},
     arena_metadata |-> access.arenas # {}]

\* revalidate_topology: the revision, the filters and the disclosed access
Representation(result, view, scope) == <<result.revision, view, scope>>

-----------------------------------------------------------------------------
(* AnswersPoll.                                                                 *)

AnswersPoll(result, representation, view, access) ==
    /\ poll' = [NoPoll EXCEPT !.at = "answered"]
    /\ held' = [result |-> result, representation |-> representation, view |-> view,
                access |-> access]

RefusesPoll(at) == poll' = [NoPoll EXCEPT !.at = at] /\ UNCHANGED held

\* The end of one materialization; one retry when the graph changed between two.
ReadEdges ==
    /\ poll.at = "edges"
    /\ LET rows == [nodes |-> poll.nodes, edges |-> graph.edges]
       IN  IF poll.reads = 0 \/ (poll.reads = 1 /\ ~SameRecords(poll.previous, rows))
           THEN /\ poll' = [poll EXCEPT !.at = "nodes", !.previous = rows, !.reads = @ + 1,
                                        !.nodes = <<>>]
                /\ UNCHANGED held
           ELSE IF ~SameRecords(poll.previous, rows)
                   \/ Cardinality(DOMAIN rows.nodes) > SourceLimit
                   \/ Cardinality(rows.edges) > SourceLimit
           THEN RefusesPoll("refused")
           ELSE AnswersPoll(FilterProjection(MonitorSnapshot(OwnerCapture(rows)), poll.view), <<>>,
                        poll.view, Owner)
    /\ UNCHANGED <<graph, past, graphWrites, polls>>

\* project_monitor_read: one interval under the lock of the Work graph, then the answer or
\* "not modified" when the client holds this representation.
MemberPolls(view, access) ==
    /\ poll.at = "idle" /\ polls < MaxPolls
    /\ polls' = polls + 1
    /\ past' = {graph}
    /\ IF ~Allowed(graph, access)
       THEN RefusesPoll("refused")
       ELSE LET result == FilterProjection(MonitorSnapshot(MemberCapture(graph, access)), view)
                representation == Representation(result, view, AccessScope(graph, access))
            IN  IF held.representation = representation
                THEN /\ poll' = [NoPoll EXCEPT !.at = "answered"]
                     /\ held' = [held EXCEPT !.view = view, !.access = access]
                ELSE AnswersPoll(result, representation, view, access)
    /\ UNCHANGED <<graph, graphWrites>>

PollAgain ==
    /\ poll.at \in {"answered", "refused"}
    /\ poll' = NoPoll /\ past' = {}
    /\ UNCHANGED <<graph, held, graphWrites, polls>>

\* An item is finished, or archived unfinished.
NodeChanges ==
    {[progress |-> "done", archived |-> FALSE], [progress |-> "not_started", archived |-> TRUE]}

TopologyNext ==
    \/ \E k \in Items, c \in NodeChanges : ChangeNode(k, c)
    \/ \E e \in GraphLinks : ToggleLink(e)
    \/ \E v \in Views : StartRead(v)
    \/ ReadNodes
    \/ ReadEdges
    \/ \E v \in Views, a \in Accesses : MemberPolls(v, a)
    \/ PollAgain

TopologySpec == TopologyInit /\ [][TopologyNext]_topologyVars

-----------------------------------------------------------------------------
\* After an answer the client shows the view it asked for, of a graph that existed at one
\* instant of the read: neither nodes and edges of two moments (monitor_records), nor an old
\* view kept by "not modified" although the graph, the filter or the grants moved
\* (revalidate_topology).  What a member sees stays within their grants.
TopologyIsTrue ==
    poll.at = "answered" =>
        \E g \in past :
            IF held.access = Owner
            THEN held.result = FilterProjection(MonitorSnapshot(OwnerCapture(g)), held.view)
            ELSE /\ held.result =
                        FilterProjection(MonitorSnapshot(MemberCapture(g, held.access)), held.view)
                 /\ DOMAIN held.result.nodes
                        \subseteq Listed(g, held.access) \cup held.access.arenas
                 /\ \A k \in DOMAIN held.result.nodes \cap Items :
                        PlacedIn(g.edges, k) \in held.access.arenas \cup {"none"}
=============================================================================
