--------------------------- MODULE SessionEvidence ----------------------------
(***************************************************************************)
(* Evidence about agent sessions.  `devgraph sessions run` writes a        *)
(* dispatch to a private SQLite journal, claims the launch, starts the     *)
(* client and records the native identity the client reports               *)
(* (observability/session_capture.py, session_cli.py).  A receiver imports *)
(* an attempt, or a signed session.attach, into the canonical graph        *)
(* (session_import.py, session_registry.py).  The session reader keeps a   *)
(* cached page of native sessions and marks which are in the graph, from   *)
(* a paged read while imports go on (session_read_runtime.py).             *)
(*                                                                         *)
(* Native sessions are numbered in the order of their reference ids.       *)
(***************************************************************************)
EXTENDS Naturals, FiniteSets, FiniteSetsExt

CONSTANTS
    Launches,       \* attempt ids
    Captures,       \* `sessions run` processes
    MaxNative,      \* bound: native sessions 1 .. MaxNative
    PageSize,       \* entries of one page of the canonical read
    MaxPages,       \* pages a refresh reads (12 in the code)
    MaxWorkVersion, \* bound: versions of the one work subject
    MaxImports      \* bound: signed attachments

VARIABLES
    journal,     \* [Launches -> events of the attempt]
    capture,     \* [Captures -> what a `sessions run` is doing]
    children,    \* [Launches -> client processes started for the attempt]
    subject,     \* version of the work subject the sessions are attributed to
    sessionRefs, \* references in the graph
    attribution, \* attributions in the graph: [session, version, basis]
    sessionLinks,\* links in the graph: [attempt, from, to]
    attachments, \* signed attachments on their way to the receiver
    seen,        \* native sessions a scan of the sources finds
    refresh,     \* the refresh under way
    page         \* the cached page: [Native -> "yes" | "no" | "unknown"], and what it was read from

evidenceVars == <<journal, capture, children, subject, sessionRefs, attribution,
                  sessionLinks, attachments, seen, refresh, page>>

Native == 1 .. MaxNative
NoNative == 0
NewEntry == [dispatched |-> FALSE, launched |-> FALSE, native |-> NoNative, exited |-> FALSE]
AtRest == [at |-> "idle"]

\* The parent named in every dispatch.
Parent == 1

EvidenceInit ==
    /\ journal = [a \in Launches |-> NewEntry]
    /\ capture = [c \in Captures |-> AtRest]
    /\ children = [a \in Launches |-> 0]
    /\ subject = 1
    /\ sessionRefs = {} /\ attribution = {} /\ sessionLinks = {} /\ attachments = {}
    /\ seen = {Parent}
    /\ refresh = AtRest
    /\ page = [mark |-> <<>>, absent |-> {}]

graphOnly == <<journal, capture, children, seen, refresh, page>>

-----------------------------------------------------------------------------
(* Capture: dispatch, claim, launch, observe, exit.                        *)

\* capture_process, started again by hand with the same attempt id after an
\* uncertain outcome: the dispatch is written once.
Dispatch(c, a) ==
    /\ capture[c] = AtRest
    /\ journal' = [journal EXCEPT ![a].dispatched = TRUE]
    /\ capture' = [capture EXCEPT ![c] = [at |-> "claim", of |-> a]]
    /\ UNCHANGED <<children, subject, sessionRefs, attribution, sessionLinks, attachments,
                   seen, refresh, page>>

\* Mutant of ClaimLaunch: an attempt that has not exited may be launched again.
UntilExitMut(c) ==
    /\ capture[c].at = "claim"
    /\ LET a == capture[c].of IN
       IF journal[a].exited
       THEN capture' = [capture EXCEPT ![c] = AtRest] /\ UNCHANGED journal
       ELSE /\ journal' = [journal EXCEPT ![a].launched = TRUE]
            /\ capture' = [capture EXCEPT ![c].at = "launch"]
    /\ UNCHANGED <<children, subject, sessionRefs, attribution, sessionLinks, attachments,
                   seen, refresh, page>>

\* claim_launch: the launches row is inserted once, whatever became of the child.
ClaimLaunch(c) ==
    /\ capture[c].at = "claim"
    /\ LET a == capture[c].of IN
       IF journal[a].launched
       THEN capture' = [capture EXCEPT ![c] = AtRest] /\ UNCHANGED journal
       ELSE /\ journal' = [journal EXCEPT ![a].launched = TRUE]
            /\ capture' = [capture EXCEPT ![c].at = "launch"]
    /\ UNCHANGED <<children, subject, sessionRefs, attribution, sessionLinks, attachments,
                   seen, refresh, page>>

LaunchClient(c) ==
    /\ capture[c].at = "launch"
    /\ children' = [children EXCEPT ![capture[c].of] = @ + 1]
    /\ capture' = [capture EXCEPT ![c].at = "stream"]
    /\ UNCHANGED <<journal, subject, sessionRefs, attribution, sessionLinks, attachments,
                   seen, refresh, page>>

\* The client names its session (a resumed one has a known name).  A second,
\* different name conflicts with the first and ends the capture.
Observe(c) ==
    /\ capture[c].at = "stream"
    /\ \E n \in Native : LET a == capture[c].of IN
          /\ seen' = seen \cup {n}
          /\ IF journal[a].native \in {NoNative, n}
             THEN journal' = [journal EXCEPT ![a].native = n] /\ UNCHANGED capture
             ELSE capture' = [capture EXCEPT ![c] = AtRest] /\ UNCHANGED journal
    /\ UNCHANGED <<children, subject, sessionRefs, attribution, sessionLinks, attachments, refresh, page>>

Exited(c) ==
    /\ capture[c].at = "stream"
    /\ journal' = [journal EXCEPT ![capture[c].of].exited = TRUE]
    /\ capture' = [capture EXCEPT ![c] = AtRest]
    /\ UNCHANGED <<children, subject, sessionRefs, attribution, sessionLinks, attachments,
                   seen, refresh, page>>

\* The capturing process dies, or the launch or the journal fails.
CaptureDies(c) ==
    /\ capture[c] # AtRest
    /\ capture' = [capture EXCEPT ![c] = AtRest]
    /\ UNCHANGED <<journal, children, subject, sessionRefs, attribution, sessionLinks,
                   attachments, seen, refresh, page>>

-----------------------------------------------------------------------------
(* The graph.                                                              *)

ReviseSubject ==
    /\ subject < MaxWorkVersion
    /\ subject' = subject + 1
    /\ UNCHANGED <<sessionRefs, attribution, sessionLinks, attachments>>
    /\ UNCHANGED graphOnly

\* SessionRegistry.attach: the first admitted attribution is retained.
Attributed(n, version, basis) ==
    IF \E b \in attribution : b.session = n THEN attribution
    ELSE attribution \cup {[session |-> n, version |-> version, basis |-> basis]}

\* import_attempt, one transaction; the receiver supplies the versions it
\* read, and a stale one rolls everything back.  So does a session that would
\* be linked to itself (SessionLink.__post_init__).
ImportAttempt(a) ==
    /\ journal[a].native # NoNative
    /\ \E version \in 1 .. subject :
          IF version = subject /\ journal[a].native # Parent
          THEN /\ sessionRefs' = sessionRefs \cup {journal[a].native, Parent}
               /\ sessionLinks' = sessionLinks \cup
                     {[attempt |-> a, from |-> Parent, to |-> journal[a].native]}
               /\ attribution' = Attributed(journal[a].native, version, "declared")
          ELSE UNCHANGED <<sessionRefs, sessionLinks, attribution>>
    /\ UNCHANGED <<subject, attachments>>
    /\ UNCHANGED graphOnly

\* prepare and the signed session.attach: the binding's work version is the
\* one the reader saw, and the receiver compares it.
PrepareAttach(n) ==
    /\ n \in DOMAIN page.mark /\ n \in seen
    /\ Cardinality(attachments) < MaxImports
    /\ attachments' = attachments \cup {[session |-> n, version |-> subject]}
    /\ UNCHANGED <<subject, sessionRefs, attribution, sessionLinks>>
    /\ UNCHANGED graphOnly

ReceiveAttach(m) ==
    /\ m \in attachments
    /\ attachments' = attachments \ {m}
    /\ IF m.version = subject
       THEN /\ sessionRefs' = sessionRefs \cup {m.session}
            /\ attribution' = Attributed(m.session, m.version, "inspected")
       ELSE UNCHANGED <<sessionRefs, attribution>>
    /\ UNCHANGED <<subject, sessionLinks>>
    /\ UNCHANGED graphOnly

-----------------------------------------------------------------------------
(* SessionReader.refresh, one at a time under its lock.                    *)

\* scan of the native sources; `absent` is what the graph does not hold now.
BeginRefresh ==
    /\ refresh = AtRest
    /\ refresh' = [at |-> "pages", items |-> seen, canonical |-> {}, after |-> 0, read |-> 0,
                   bounded |-> TRUE, absent |-> Native \ sessionRefs]
    /\ UNCHANGED <<journal, capture, children, subject, sessionRefs, attribution,
                   sessionLinks, attachments, seen, page>>

\* read_references: the next entries by id, and a cursor when the page is full.
PageAfter(k) ==
    LET later == {n \in sessionRefs : n > k} IN
    {n \in later : Cardinality({m \in later : m <= n}) <= PageSize}

\* One page; an unavailable graph ends the loop with what was loaded.
ReadPage ==
    /\ refresh.at = "pages"
    /\ \/ LET got == PageAfter(refresh.after)
              full == Cardinality(got) = PageSize
          IN refresh' = [refresh EXCEPT
                 !.canonical = @ \cup got,
                 !.after = IF full THEN Max(got) ELSE @,
                 !.read = @ + 1,
                 !.bounded = full,
                 !.at = IF full /\ refresh.read + 1 < MaxPages THEN "pages" ELSE "publish"]
       \/ refresh' = [refresh EXCEPT !.bounded = TRUE, !.at = "publish"]
    /\ UNCHANGED <<journal, capture, children, subject, sessionRefs, attribution,
                   sessionLinks, attachments, seen, page>>

\* Mutant of Mark: a session that was not loaded is called absent.
NotLoadedMut(n) == IF n \in refresh.canonical THEN "yes" ELSE "no"

\* item["canonical"]: absence is claimed only after the whole graph was read.
Mark(n) ==
    IF n \in refresh.canonical THEN "yes"
    ELSE IF refresh.bounded THEN "unknown" ELSE "no"

\* Sessions only the capture journal knows join the page without a mark.
Captured == {journal[a].native : a \in Launches} \ {NoNative}

PublishPage ==
    /\ refresh.at = "publish"
    /\ page' = [mark |-> [n \in refresh.items \cup Captured |->
                            IF n \in refresh.items THEN Mark(n) ELSE "unmarked"],
                absent |-> refresh.absent]
    /\ refresh' = AtRest
    /\ UNCHANGED <<journal, capture, children, subject, sessionRefs, attribution,
                   sessionLinks, attachments, seen>>

\* Access denied: the exception leaves the cached page as it was.
AbandonRefresh ==
    /\ refresh.at = "pages"
    /\ refresh' = AtRest
    /\ UNCHANGED <<journal, capture, children, subject, sessionRefs, attribution,
                   sessionLinks, attachments, seen, page>>

-----------------------------------------------------------------------------
EvidenceNext ==
    \/ \E c \in Captures :
          \/ \E a \in Launches : Dispatch(c, a)
          \/ ClaimLaunch(c)
          \/ LaunchClient(c)
          \/ Observe(c)
          \/ Exited(c)
          \/ CaptureDies(c)
    \/ ReviseSubject
    \/ \E a \in Launches : ImportAttempt(a)
    \/ \E n \in Native : PrepareAttach(n)
    \/ \E m \in attachments : ReceiveAttach(m)
    \/ BeginRefresh
    \/ ReadPage
    \/ PublishPage
    \/ AbandonRefresh

EvidenceSpec == EvidenceInit /\ [][EvidenceNext]_evidenceVars

-----------------------------------------------------------------------------
(* Properties                                                              *)

\* The evidence about sessions is what happened: an attempt's client is
\* started at most once however often the command is repeated
\* (claim_launch), a link in the graph names the identity its attempt
\* recorded first and two sessions of the graph, a session has one attribution, and the cached page calls
\* a session canonical only if the graph holds it and absent only if the
\* graph did not hold it when the refresh began (refresh, read_references).
EvidenceIsTrue ==
    /\ \A a \in Launches : children[a] <= 1
    /\ \A l \in sessionLinks :
          /\ l.to = journal[l.attempt].native /\ l.from # l.to
          /\ {l.from, l.to} \subseteq sessionRefs
    /\ \A b \in attribution : b.session \in sessionRefs
    /\ \A b, c \in attribution : b.session = c.session => b = c
    /\ \A n \in DOMAIN page.mark :
          /\ page.mark[n] = "yes" => n \in sessionRefs
          /\ page.mark[n] = "no" => n \in page.absent
====
