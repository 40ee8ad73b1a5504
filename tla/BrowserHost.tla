---------------------------- MODULE BrowserHost ----------------------------
(***************************************************************************)
(* The native messaging host a browser extension talks to                  *)
(* (crates/devgraph-browser-host) and the client it drives                 *)
(* (crates/devgraph-client-native).  Each frame is a control handled by a  *)
(* task of its own: handle records its id under the state lock, the        *)
(* command takes the lock again, awaits the issuer, the receiver or a      *)
(* response chunk without it, and takes it once more to record the         *)
(* result.  Cancel, Dispose, the expiry timers and the end of the port run *)
(* in between.  One mutation at a time owns the work slot; whether its     *)
(* request may still leave is decided by one compare-and-exchange, shared  *)
(* by BeginDispatch and by everything that cancels.                        *)
(*                                                                         *)
(* Controls and handles are numbers (0 is none); a generation is the       *)
(* number start_mutation draws.  A read's cancellation token is named by   *)
(* its control, a mutation's by its generation.  What a request says, the  *)
(* bytes of a chunk and the acknowledged sequence are not told apart: the  *)
(* issuer, the receiver and a chunk simply succeed or fail.                *)
(***************************************************************************)
EXTENDS Naturals, FiniteSets, FiniteSetsExt, Functions, TLC

CONSTANTS
    MaxControls,     \* MAX_CONTROLS: the ids one connection may use
    MaxAliases,      \* MAX_ALIASES: the names mutations may hold or have held
    MaxReads,        \* the reads one connection may hold open
    MaxTasks,        \* the controls serve handles at once
    LeaseTicks,      \* the life of a read lease
    AuthorityTicks,  \* the life of an authorization
    MaxClock         \* bound: the ticks of the clock

VARIABLES
    host,          \* State: everything behind the lock
    control,       \* the task of every control
    portOpen,      \* serve still reads frames
    clock,         \* now()
    undispatched   \* ids the host answered with "dispatched": false (history)

browserVars == <<host, control, portOpen, clock, undispatched>>

Controls == 1 .. MaxControls

Handles == MaxControls + 1 .. 2 * MaxControls + 1

Commands == {"read_access", "read", "authorize", "execute", "pull", "cancel", "dispose"}

NoMap == <<>>

Unsent == [at |-> "unsent", cmd |-> "none", target |-> 0, gen |-> 0, until |-> 0]

EmptyHost ==
    [conn |-> 0, lease |-> 0, leaseEnd |-> 0, seen |-> {}, generated |-> {}, cancelled |-> {},
     history |-> NoMap, aliases |-> NoMap, reserved |-> NoMap, pending |-> NoMap,
     auths |-> NoMap, streams |-> NoMap, reads |-> 0, work |-> 0, disposed |-> FALSE,
     dispatch |-> NoMap, dead |-> {}, named |-> NoMap]

BrowserInit ==
    /\ host = EmptyHost
    /\ control = [c \in Controls |-> Unsent]
    /\ portOpen = TRUE
    /\ clock = 0
    /\ undispatched = {}

-----------------------------------------------------------------------------
(* The methods of State, from the state before to the state after.          *)

Keep(f, P(_)) == Restrict(f, {x \in DOMAIN f : P(x)})

Token(id, g) == IF g = 0 THEN <<"control", id>> ELSE <<"mutation", g>>

\* The compare-and-exchange of DispatchState::cancel, and the token with it.
CancelDispatch(s, gens) ==
    [s EXCEPT !.dispatch = [g \in DOMAIN @ |-> IF g \in gens /\ @[g] = "idle" THEN "cancelled" ELSE @[g]],
              !.dead = @ \union {<<"mutation", g>> : g \in gens}]

\* DispatchState::begin.
HostBegins(s, g) == s.dispatch[g] = "idle"

Dispatched(s, g) == s.dispatch[g] = "sent"

Clear(s) ==
    LET ended == CancelDispatch(s, ({s.work} \union Range(s.pending)) \ {0})
    IN  [EmptyHost EXCEPT
            !.disposed = TRUE, !.dispatch = ended.dispatch, !.named = s.named,
            !.dead = ended.dead \union {Token(c, s.pending[c]) : c \in DOMAIN s.pending}
                                \union {s.streams[h].token : h \in DOMAIN s.streams}]

Bound(s) == s.conn # 0

OwnsSlot(s, g) == s.work = g

Used(s) ==
    Cardinality(DOMAIN s.aliases) + Cardinality(DOMAIN s.history)
      + MapThenSumSet(LAMBDA g : s.reserved[g], DOMAIN s.reserved)

Reserve(s, g, count) ==
    IF Used(s) + count > MaxAliases
    THEN Clear(s)
    ELSE [s EXCEPT !.reserved = (g :> count + (IF g \in DOMAIN @ THEN @[g] ELSE 0)) @@ @]

\* alias: a reserved name is taken; a name cancelled earlier cancels the mutation.
Alias(s, id, g) ==
    LET taken == [s EXCEPT !.reserved[g] = @ - 1, !.aliases = (id :> g) @@ @, !.named = (id :> g) @@ @]
    IN  IF id \in s.cancelled THEN CancelDispatch(taken, {g}) ELSE taken

HandleAvailable(s, h) ==
    h \notin s.seen \union s.generated \union s.cancelled \union {s.conn, s.lease}
               \union DOMAIN s.aliases \union DOMAIN s.history
               \union DOMAIN s.streams \union DOMAIN s.auths

NextHandle(s) == Min({h \in Handles : HandleAvailable(s, h)})

UniqueHandle(s) ==
    IF Cardinality(s.generated) >= MaxControls
    THEN Clear(s)
    ELSE [s EXCEPT !.generated = @ \union {NextHandle(s)}]

\* insert_pending: the control waits; one cancelled before it began is cancelled now.
InsertPending(s, c, g) ==
    LET waits == [s EXCEPT !.pending = (c :> g) @@ @]
    IN  IF c \notin s.cancelled THEN waits
        ELSE IF g = 0 THEN [waits EXCEPT !.dead = @ \union {<<"control", c>>}]
        ELSE CancelDispatch(waits, {g})

MutationPending(s, c, g) == InsertPending(Alias(s, c, g), c, g)

StartMutation(s, c) ==
    LET g == 1 + Cardinality(DOMAIN s.dispatch)
        r == Reserve([s EXCEPT !.dispatch = (g :> "idle") @@ @], g, 2)
    IN  IF r.disposed THEN r ELSE MutationPending([r EXCEPT !.work = g], c, g)

\* Mutant of FinishMutation: only the token is cancelled, not the dispatch.
TokenOnlyMut(s, g) ==
    [s EXCEPT !.dead = @ \union {<<"mutation", g>>}, !.work = IF @ = g THEN 0 ELSE @,
        !.pending = Keep(@, LAMBDA c : s.pending[c] # g),
        !.auths = Keep(@, LAMBDA h : s.auths[h].gen # g),
        !.streams = Keep(@, LAMBDA h : s.streams[h].gen # g),
        !.history = [x \in {y \in DOMAIN s.aliases : s.aliases[y] = g} |-> Dispatched(s, g)] @@ @,
        !.aliases = Keep(@, LAMBDA x : s.aliases[x] # g),
        !.reserved = Keep(@, LAMBDA x : x # g)]

\* finish_mutation: the dispatch is decided first, then everything the generation
\* holds is let go and its names remember the outcome.
FinishMutation(s, g) ==
    LET e == CancelDispatch(s, {g})
    IN  [e EXCEPT !.work = IF @ = g THEN 0 ELSE @,
            !.pending = Keep(@, LAMBDA c : s.pending[c] # g),
            !.auths = Keep(@, LAMBDA h : s.auths[h].gen # g),
            !.streams = Keep(@, LAMBDA h : s.streams[h].gen # g),
            !.history = [x \in {y \in DOMAIN s.aliases : s.aliases[y] = g} |-> Dispatched(e, g)] @@ @,
            !.aliases = Keep(@, LAMBDA x : s.aliases[x] # g),
            !.reserved = Keep(@, LAMBDA x : x # g)]

ExpireAuthorizations(s) ==
    FoldSet(LAMBDA g, acc : FinishMutation(acc, g), s,
            {s.auths[h].gen : h \in {x \in DOMAIN s.auths : s.auths[x].until <= clock}})

\* A read gives its slot back, a mutation its generation.
ReleaseSlot(s, g) ==
    IF g # 0 THEN FinishMutation(s, g) ELSE [s EXCEPT !.reads = IF @ = 0 THEN 0 ELSE @ - 1]

DropPending(s, c) == [s EXCEPT !.pending = Keep(@, LAMBDA x : x # c)]

DropStream(s, h) ==
    [s EXCEPT !.streams = Keep(@, LAMBDA x : x # h), !.dead = @ \union {s.streams[h].token}]

-----------------------------------------------------------------------------
(* The port: frames, the ids they carry, the end of serve, the clock.       *)

At(c, at) == control[c].at = at

Running(c) == control[c].at \notin {"unsent", "done"}

Goes(c, at) == control' = [control EXCEPT ![c].at = at]

HostEnds(c) == control' = [control EXCEPT ![c] = [Unsent EXCEPT !.at = "done"]]

\* An answer that says the request did not leave.
SaysUndispatched(ids) == undispatched' = undispatched \union ids

Calm == UNCHANGED <<portOpen, clock, undispatched>>

Duplicate(s, c) ==
    c \in s.generated \union DOMAIN s.aliases \union DOMAIN s.history \union s.seen

\* read_frame and the first lock of handle.  Ids are used in order; a reused one is refused.
ArriveFrame(c, cmd, t) ==
    /\ portOpen
    /\ host.seen # {} \/ host.disposed
    /\ Cardinality({x \in Controls : Running(x)}) < MaxTasks
    /\ At(c, "unsent")
    /\ c > 1 => ~At(c - 1, "unsent")
    /\ IF host.disposed THEN Goes(c, "done") /\ UNCHANGED host
       ELSE IF Cardinality(host.seen) >= MaxControls THEN Goes(c, "done") /\ host' = Clear(host)
       ELSE IF Duplicate(host, c) THEN Goes(c, "done") /\ UNCHANGED host
       ELSE /\ host' = [host EXCEPT !.seen = @ \union {c}]
            /\ control' = [control EXCEPT ![c] = [@ EXCEPT !.at = "accepted", !.cmd = cmd, !.target = t]]
    /\ Calm

\* What the extension names: the handles it was given; it cancels any of them, any control
\* it sent or the next one it will send.
AliasNames(cmd) ==
    IF cmd = "cancel"
    THEN {c \in Controls : c = 1 \/ control[c - 1].at # "unsent"} \union (host.generated \ {host.conn})
    ELSE IF cmd \in {"execute", "pull"} THEN host.generated \ {host.conn, host.lease}
    ELSE {0}

\* End of input, a bad frame, a closed output, too many tasks, or the shutdown token.
ServeEnds ==
    /\ portOpen
    /\ portOpen' = FALSE
    /\ host' = Clear(host)
    /\ UNCHANGED <<control, clock, undispatched>>

\* abort_all: the tasks left over are dropped where they wait.
AbortControl(c) ==
    /\ ~portOpen
    /\ Running(c)
    /\ HostEnds(c)
    /\ UNCHANGED host
    /\ Calm

\* Beyond its bound the clock runs on only for an authorization that waits for it.
ClockTicks ==
    /\ clock < MaxClock \/ \E h \in DOMAIN host.auths : clock < host.auths[h].until
    /\ clock' = clock + 1
    /\ UNCHANGED <<host, control, portOpen, undispatched>>

-----------------------------------------------------------------------------
(* The commands.                                                            *)

Accepted(c, cmd) == At(c, "accepted") /\ control[c].cmd = cmd

\* The extension's first control (number 0), its arrival and its command: until it is
\* answered the extension has nothing else to send.
ConnectHost ==
    /\ portOpen
    /\ ~host.disposed
    /\ ~Bound(host)
    /\ host' = [UniqueHandle(host) EXCEPT !.conn = NextHandle(host), !.seen = {0}]
    /\ UNCHANGED control
    /\ Calm

ReadAccess(c) ==
    /\ Accepted(c, "read_access")
    /\ Bound(host)
    /\ host' = LET s == UniqueHandle(host)
               IN  IF s.disposed THEN s
                   ELSE [s EXCEPT !.lease = NextHandle(host), !.leaseEnd = clock + LeaseTicks]
    /\ HostEnds(c)
    /\ Calm

\* Mutant of Readable: the slots are not counted.
UncountedMut(s) == Bound(s) /\ s.lease # 0 /\ s.leaseEnd > clock

Readable(s) == Bound(s) /\ s.lease # 0 /\ s.leaseEnd > clock /\ s.reads < MaxReads

ReadStarts(c) ==
    /\ Accepted(c, "read")
    /\ Readable(host)
    /\ host' = InsertPending([host EXCEPT !.reads = @ + 1], c, 0)
    /\ control' = [control EXCEPT ![c] = [@ EXCEPT !.at = "opening", !.until = host.leaseEnd]]
    /\ Calm

AuthorizeStarts(c) ==
    /\ Accepted(c, "authorize")
    /\ Bound(host)
    /\ LET s == ExpireAuthorizations(host)
           t == StartMutation(s, c)
       IN  IF s.work # 0 \/ t.disposed
           THEN host' = (IF s.work # 0 THEN s ELSE t) /\ HostEnds(c)
           ELSE /\ host' = t
                /\ control' = [control EXCEPT ![c] = [@ EXCEPT !.at = "issuing", !.gen = t.work]]
    /\ Calm

\* The control is still waiting, uncancelled, on this connection, for this mutation.
Wanted(s, c, g) ==
    /\ c \in DOMAIN s.pending
    /\ Token(c, g) \notin s.dead
    /\ Bound(s)
    /\ g # 0 => OwnsSlot(s, g)

AuthorizeEnds(c, ok) ==
    /\ At(c, "issuing")
    /\ LET g == control[c].gen
           s == DropPending(host, c)
           u == UniqueHandle(s)
           h == NextHandle(s)
           granted == [Alias(u, h, g) EXCEPT
                          !.auths = (h :> [gen |-> g, until |-> clock + AuthorityTicks]) @@ @]
       IN  IF ~(Wanted(host, c, g) /\ ok)
           THEN host' = FinishMutation(s, g) /\ SaysUndispatched({c})
           ELSE IF u.disposed
           THEN host' = FinishMutation(u, g) /\ SaysUndispatched({c})
           ELSE host' = granted /\ UNCHANGED undispatched
    /\ HostEnds(c)
    /\ UNCHANGED <<portOpen, clock>>

ExecuteStarts(c) ==
    /\ Accepted(c, "execute")
    /\ Bound(host)
    /\ LET s == ExpireAuthorizations(host)
           h == control[c].target
           r == Reserve(s, s.auths[h].gen, 2)
           g == s.auths[h].gen
           taken == [r EXCEPT !.auths = Keep(@, LAMBDA x : x # h)]
       IN  IF h \notin DOMAIN s.auths THEN host' = s /\ HostEnds(c)
           ELSE IF r.disposed THEN host' = r /\ HostEnds(c)
           ELSE /\ host' = MutationPending(taken, c, g)
                /\ control' = [control EXCEPT ![c] = [@ EXCEPT !.at = "verifying", !.gen = g,
                                                        !.until = s.auths[h].until]]
    /\ Calm

\* NativeClient::execute up to the dispatch: the trust on disk is read again.
VerifyAuthorized(c) ==
    /\ At(c, "verifying")
    /\ <<"mutation", control[c].gen>> \notin host.dead
    /\ clock < control[c].until
    /\ Goes(c, "verified")
    /\ UNCHANGED host
    /\ Calm

\* The request leaves, if the dispatch state lets it.
BeginDispatch(c) ==
    /\ At(c, "verified")
    /\ IF HostBegins(host, control[c].gen)
       THEN host' = [host EXCEPT !.dispatch[control[c].gen] = "sent"] /\ Goes(c, "opening")
       ELSE UNCHANGED host /\ Goes(c, "failed")
    /\ Calm

\* finish_stream: the response head becomes a stream, or the slot is given back.
FinishStream(c, ok) ==
    /\ control[c].at \in {"opening", "verifying", "failed"}
    /\ ok => At(c, "opening")
    /\ LET g == control[c].gen
           s == DropPending(host, c)
           u == UniqueHandle(s)
           h == NextHandle(s)
           v == IF g = 0 THEN u ELSE Alias(u, h, g)
           stream == [gen |-> g, token |-> Token(c, g), until |-> control[c].until, pulling |-> FALSE]
       IN  IF ~(Wanted(host, c, g) /\ ok)
           THEN host' = IF g = 0 /\ c \notin DOMAIN host.pending THEN s ELSE ReleaseSlot(s, g)
           ELSE IF u.disposed
           THEN host' = ReleaseSlot(u, g)
           ELSE host' = [v EXCEPT !.streams = (h :> stream) @@ @]
    /\ IF control[c].gen # 0 /\ ~Dispatched(host, control[c].gen)
       THEN SaysUndispatched({c}) ELSE UNCHANGED undispatched
    /\ HostEnds(c)
    /\ UNCHANGED <<portOpen, clock>>

PullStarts(c) ==
    /\ Accepted(c, "pull")
    /\ Bound(host)
    /\ control[c].target \in DOMAIN host.streams
    /\ ~host.streams[control[c].target].pulling
    /\ LET h == control[c].target
           g == host.streams[h].gen
           s == [host EXCEPT !.streams[h].pulling = TRUE]
           r == Reserve(s, g, 1)
       IN  IF g # 0 /\ r.disposed THEN host' = r /\ HostEnds(c)
           ELSE /\ host' = IF g = 0 THEN InsertPending(s, c, 0) ELSE MutationPending(r, c, g)
                /\ control' = [control EXCEPT ![c] = [@ EXCEPT !.at = "pulling", !.gen = g]]
    /\ Calm

\* A chunk, the last chunk, or an error: a late lease, a wrong acknowledgement, the
\* transport.  The last two end the stream if it is still there.
PullEnds(c, chunk) ==
    /\ At(c, "pulling")
    /\ LET h == control[c].target
           g == control[c].gen
           s == DropPending(host, c)
           there == h \in DOMAIN host.streams
           stopped == ~Bound(host) \/ Token(c, g) \in host.dead
                        \/ ~(there /\ host.streams[h].token \notin host.dead)
           late == there /\ g = 0 /\ host.streams[h].until <= clock
           more == chunk = "more" /\ ~stopped /\ ~late
       IN  host' = IF ~there THEN s
                   ELSE IF more THEN [s EXCEPT !.streams[h].pulling = FALSE]
                   ELSE ReleaseSlot(DropStream(s, h), g)
    /\ HostEnds(c)
    /\ Calm

\* Cancel names a control or a handle, past, present or still to come.
CancelControl(c) ==
    /\ Accepted(c, "cancel")
    /\ Bound(host)
    /\ LET t == control[c].target
           s == [host EXCEPT !.cancelled = @ \union {t}]
           waiting == t \in DOMAIN s.pending
           p == IF waiting THEN [s EXCEPT !.dead = @ \union {Token(t, s.pending[t])}] ELSE s
           stream == t \in DOMAIN s.streams
           sent == IF t \in DOMAIN s.aliases THEN Dispatched(s, s.aliases[t])
                   ELSE t \in DOMAIN s.history /\ s.history[t]
       IN  /\ host' = IF t \in DOMAIN s.aliases THEN FinishMutation(s, s.aliases[t])
                      ELSE IF stream THEN ReleaseSlot(DropStream(p, t), 0)
                      ELSE p
           /\ IF sent THEN UNCHANGED undispatched ELSE SaysUndispatched({t})
    /\ HostEnds(c)
    /\ UNCHANGED <<portOpen, clock>>

DisposeHost(c) ==
    /\ Accepted(c, "dispose")
    /\ Bound(host)
    /\ host' = Clear(host)
    /\ HostEnds(c)
    /\ Calm

\* Mutant of ExpireAuthorization: the handle goes, the mutation keeps the slot.
DropsHandleMut(h) ==
    /\ h \in DOMAIN host.auths
    /\ host.auths[h].until <= clock
    /\ host' = [host EXCEPT !.auths = Keep(@, LAMBDA x : x # h)]
    /\ UNCHANGED control
    /\ Calm

\* The timer arm_authorization_expiry set.
ExpireAuthorization(h) ==
    /\ h \in DOMAIN host.auths
    /\ host.auths[h].until <= clock
    /\ host' = FinishMutation(host, host.auths[h].gen)
    /\ UNCHANGED control
    /\ Calm

\* The timer arm_expiry set: the response's deadline has passed.
ExpireStream(h) ==
    /\ h \in DOMAIN host.streams
    /\ host' = ReleaseSlot(DropStream(host, h), host.streams[h].gen)
    /\ UNCHANGED control
    /\ Calm

\* The connection is gone, the lease is over, the slots are taken,
\* the stream is gone or being pulled: refused, nothing changed.
RefuseControl(c) ==
    /\ At(c, "accepted")
    /\ CASE control[c].cmd = "read" -> ~Readable(host)
         [] control[c].cmd = "pull" -> ~(Bound(host) /\ control[c].target \in DOMAIN host.streams
                                                    /\ ~host.streams[control[c].target].pulling)
         [] OTHER -> ~Bound(host)
    /\ HostEnds(c)
    /\ UNCHANGED host
    /\ Calm

Awaited(c) ==
    \/ RefuseControl(c) \/ AbortControl(c)
    \/ \E ok \in BOOLEAN : AuthorizeEnds(c, ok) \/ FinishStream(c, ok)
    \/ \E chunk \in {"more", "done", "error"} : PullEnds(c, chunk)

Started(c) ==
    \/ ReadAccess(c) \/ ReadStarts(c) \/ AuthorizeStarts(c) \/ ExecuteStarts(c)
    \/ PullStarts(c) \/ CancelControl(c) \/ DisposeHost(c)
    \/ VerifyAuthorized(c) \/ BeginDispatch(c)

BrowserNext ==
    \/ \E c \in Controls, cmd \in Commands : \E t \in AliasNames(cmd) : ArriveFrame(c, cmd, t)
    \/ \E c \in Controls : Started(c) \/ Awaited(c)
    \/ \E h \in Handles : ExpireAuthorization(h) \/ ExpireStream(h)
    \/ ConnectHost \/ ServeEnds \/ ClockTicks

BrowserSpec == BrowserInit /\ [][BrowserNext]_browserVars

\* Every task is scheduled and the timers fire; nobody has to send anything.
BrowserFairness ==
    /\ \A c \in Controls : WF_browserVars(Started(c) \/ Awaited(c))
    /\ \A h \in Handles : WF_browserVars(ExpireAuthorization(h)) /\ WF_browserVars(ExpireStream(h))

-----------------------------------------------------------------------------

\* The tasks and handles that stand for the mutation in the work slot.
Stages(g) ==
    {c \in DOMAIN host.pending : host.pending[c] = g /\ control[c].cmd \in {"authorize", "execute"}}
      \union {h \in DOMAIN host.auths : host.auths[h].gen = g}
      \union {h \in DOMAIN host.streams : host.streams[h].gen = g}

\* The open reads: those still opening, and the streams.
OpenReads ==
    {c \in DOMAIN host.pending : host.pending[c] = 0 /\ control[c].cmd = "read"}
      \union {h \in DOMAIN host.streams : host.streams[h].gen = 0}

\* The slots are neither leaked nor lent twice (host.rs start_mutation, finish_mutation,
\* finish_stream, pull, Cancel, arm_expiry): the read count is the number of open reads
\* and within its limit; everything held under a generation belongs to the mutation in
\* the work slot, which is in exactly one stage; one reserved name is left exactly while
\* a handle is still to be named, so alias's assertions hold.
SlotsAccounted ==
    /\ host.reads = Cardinality(OpenReads) /\ host.reads <= MaxReads
    /\ Range(host.aliases) \union Range(host.pending) \union DOMAIN host.reserved
         \union {host.auths[h].gen : h \in DOMAIN host.auths}
         \union {host.streams[h].gen : h \in DOMAIN host.streams} \subseteq {0, host.work}
    /\ host.work # 0 =>
         /\ Cardinality(Stages(host.work)) = 1
         /\ host.reserved[host.work] = Cardinality(Stages(host.work) \intersect Controls)
    /\ DOMAIN host.aliases \intersect DOMAIN host.history = {}
    /\ Used(host) <= MaxAliases

\* A disposed host holds nothing (host.rs dispose), whatever was under way.
DisposedIsEmpty ==
    host.disposed => /\ host.work = 0 /\ host.reads = 0
                     /\ DOMAIN host.pending \union DOMAIN host.auths \union DOMAIN host.streams = {}

\* "False proves that this operation cannot dispatch after cancellation" (http.rs,
\* DispatchState::cancel): once the host has answered dispatched = false for a control
\* or a handle, cancelled before, while or after it ran, or failed, no mutation known
\* by that name sends its request.
UndispatchedStays ==
    [][\A g \in DOMAIN host.dispatch :
          (~Dispatched(host, g) /\ Dispatched(host', g))
             => \A t \in undispatched : ~(t \in DOMAIN host.named /\ host.named[t] = g)]_browserVars

\* The work slot is always given back, whether or not the extension asks for it: every
\* wait has a deadline, the authorization and the stream have timers.
SlotIsFreed == []<>(host.work = 0)

\* The host's books are true to the extension: slots are neither leaked nor lent twice, and what
\* it has called undispatched is never sent (host.rs finish_mutation, http.rs DispatchState).
HostIsHonest == [](SlotsAccounted /\ DisposedIsEmpty) /\ UndispatchedStays
=============================================================================
