---------------------------- MODULE ToolSources ----------------------------
(***************************************************************************)
(* The tool register and the MCP tool sources that keep their part of it   *)
(* up to date: loading at startup, refreshes on notifications and at       *)
(* intervals, failures of the transport, closing (core/domain/tool.py,     *)
(* infra/adapters/tool/mcp.py, core/domain/runtime.py).                    *)
(*                                                                         *)
(* All of it runs on one event loop: a step is what happens between two    *)
(* awaits.  A tool definition is its name and a version of it; that a      *)
(* listing is refused (too many tools, a name twice, one that is allowed   *)
(* missing, a definition too large) is a property of the server.           *)
(***************************************************************************)
EXTENDS Integers, Sequences, FiniteSets

CONSTANTS
  Order,       \* the sources, in the order they are loaded
  Names,       \* the local names, namespace__tool
  Offered,     \* Offered[s]: the names the server of s may publish
  Pages,       \* Pages[s]: how its tools/list splits them
  Blocked,     \* Blocked[s]: names that are not selected
  Local,       \* names of tools that are registered directly
  Advertises,  \* the sources whose server notifies of changes
  Watches,     \* those with watch_tool_changes
  Polls,       \* those with a refresh_interval_seconds
  MaxChanges,  \* bound: changes of what a server publishes
  MaxTroubles  \* bound: transport errors

Sources == {Order[i] : i \in 1..Len(Order)}

Nobody == "nobody"
Direct == "direct"

ASSUME SourcesAssumption ==
  /\ Order \in Seq(Sources) /\ {Nobody, Direct} \cap Sources = {}
  /\ \A i, j \in 1..Len(Order) : Order[i] = Order[j] => i = j
  /\ Offered \in [Sources -> SUBSET Names]
  /\ Blocked \in [Sources -> SUBSET Names]
  /\ \A s \in Sources :
       /\ Pages[s] \in Seq(SUBSET Names)
       /\ Pages[s] # << >>
       /\ Offered[s] \subseteq UNION {Pages[s][i] : i \in 1..Len(Pages[s])}
  /\ Local \subseteq Names
  /\ Advertises \subseteq Sources /\ Watches \subseteq Sources
  /\ Polls \subseteq Sources
  /\ MaxChanges \in Nat /\ MaxTroubles \in Nat

VARIABLES
  remote,    \* remote[s]: the tools its server publishes, with their versions
  valid,     \* whether the source would accept them
  session,   \* the client's session with the server
  notified,  \* a tools/list_changed on its way
  troubled,  \* a transport error on its way to the failure handler
  register,  \* the ToolRegister: owner and version by name
  runtime,   \* what the runtime does
  at,        \* the source it is at
  pc,        \* where each source is
  event,     \* _refresh_event
  ready,     \* _ready
  page,      \* the pages of the listing it has received,
  got,       \* and the tools in them
  changes, troubles,  \* the bounded counters
  accepted   \* history: the last listing a source has registered

server == <<remote, valid, session, notified, troubled>>
boot   == <<runtime, at>>
source == <<pc, event, ready, page, got>>
bounds == <<changes, troubles>>
vars   == <<server, register, boot, source, bounds, accepted>>

-----------------------------------------------------------------------------

Versions == 0..MaxChanges
Absent   == 0 - 1

\* What a server publishes: a version, or Absent, for each name.
Listing == [Names -> Versions \cup {Absent}]
Nothing == [n \in Names |-> Absent]

Free == [owner |-> Nobody, version |-> 0]

\* In load: connecting, loading.  The refresh loop: waiting, refreshing, and
\* asleep after a failure; a source without one is static.
Phase == {"new", "connecting", "loading", "static", "waiting", "refreshing",
          "asleep", "closed"}

Loaded(s) == pc[s] \in {"static", "waiting", "refreshing", "asleep"}

Selected(s, l) == [n \in Names |-> IF n \in Blocked[s] THEN Absent ELSE l[n]]

Owned(s) == {n \in Names : register[n].owner = s}

\* The names a listing cannot have: those another source or a direct
\* registration holds.
Conflicts(s, l) ==
  {n \in Names : l[n] # Absent /\ register[n].owner \notin {Nobody, s}}

\* A slip: tools the listing no longer has are kept.
ReplacedKeeping(s, l) ==
  [n \in Names |->
     IF l[n] # Absent THEN [owner |-> s, version |-> l[n]] ELSE register[n]]

\* A slip: every name the server may publish is registered.
ReplacedUnselected(s, l) ==
  [n \in Names |->
     IF n \in Offered[s] THEN [owner |-> s, version |-> l[n]] ELSE register[n]]

\* ToolRegister.replace_source, without a conflict.
Replaced(s, l) ==
  [n \in Names |->
     IF l[n] # Absent THEN [owner |-> s, version |-> l[n]]
     ELSE IF register[n].owner = s THEN Free ELSE register[n]]

Init ==
  /\ remote \in [Sources -> [Names -> {0, Absent}]]
  /\ \A s \in Sources, n \in Names :
       remote[s][n] = 0 => n \in Offered[s]
  /\ valid = [s \in Sources |-> TRUE]
  /\ session = [s \in Sources |-> "none"]
  /\ notified = [s \in Sources |-> FALSE]
  /\ troubled = [s \in Sources |-> FALSE]
  /\ \E D \in SUBSET Local :
       register = [n \in Names |->
                    IF n \in D THEN [owner |-> Direct, version |-> 0] ELSE Free]
  /\ runtime = "starting" /\ at = 1
  /\ pc = [s \in Sources |-> "new"]
  /\ event = [s \in Sources |-> FALSE]
  /\ ready = [s \in Sources |-> FALSE]
  /\ page = [s \in Sources |-> 0]
  /\ got = [s \in Sources |-> Nothing]
  /\ changes = 0 /\ troubles = 0
  /\ accepted = [s \in Sources |-> Nothing]

-----------------------------------------------------------------------------
(* The servers and the transports.                                         *)

Publish(s, n, v) ==
  /\ changes < MaxChanges /\ n \in Offered[s] /\ v # remote[s][n]
  /\ v \in {Absent, changes + 1}
  /\ changes' = changes + 1
  /\ remote' = [remote EXCEPT ![s][n] = v]
  /\ \E ok \in BOOLEAN : valid' = [valid EXCEPT ![s] = ok]
  /\ notified' = [notified EXCEPT
                   ![s] = @ \/ (s \in Advertises /\ session[s] = "open")]
  /\ UNCHANGED <<session, troubled, register, boot, source, troubles, accepted>>

\* An error of the transport is reported to the client, and may be its end.
Trouble(s) ==
  /\ troubles < MaxTroubles /\ session[s] = "open"
  /\ troubles' = troubles + 1
  /\ troubled' = [troubled EXCEPT ![s] = TRUE]
  /\ \/ session' = [session EXCEPT ![s] = "broken"]
     \/ UNCHANGED session
  /\ UNCHANGED <<remote, valid, notified, register, boot, source, changes,
                 accepted>>

\* _request_refresh.
HandleChanged(s) ==
  /\ notified[s] /\ session[s] = "open"
  /\ notified' = [notified EXCEPT ![s] = FALSE]
  /\ event' = [event EXCEPT ![s] = @ \/ s \in Watches]
  /\ UNCHANGED <<remote, valid, session, troubled, register, boot, pc, ready,
                 page, got, bounds, accepted>>

\* A slip: the source is not ready, and nobody is asked to refresh it.
HandleFailureOnly(s) ==
  /\ troubled[s] /\ session[s] # "none"
  /\ troubled' = [troubled EXCEPT ![s] = FALSE]
  /\ ready' = [ready EXCEPT ![s] = FALSE]
  /\ UNCHANGED <<remote, valid, session, notified, register, boot, pc, event,
                 page, got, bounds, accepted>>

\* _handle_client_failure: there is nobody to refresh it during load, nor in
\* a static source.
HandleFailure(s) ==
  /\ troubled[s] /\ session[s] # "none"
  /\ troubled' = [troubled EXCEPT ![s] = FALSE]
  /\ ready' = [ready EXCEPT ![s] = FALSE]
  /\ event' = [event EXCEPT
                ![s] = @ \/ pc[s] \in {"waiting", "refreshing", "asleep"}]
  /\ UNCHANGED <<remote, valid, session, notified, register, boot, pc, page,
                 got, bounds, accepted>>

-----------------------------------------------------------------------------
(* Listing and registering.                                                *)

\* The listing with the page that comes next.
WithPage(s) ==
  [n \in Names |-> IF n \in Pages[s][page[s] + 1] THEN remote[s][n] ELSE got[s][n]]

Receiving(s) == pc[s] \in {"loading", "refreshing"} /\ session[s] = "open"

\* session.list_tools, page by page, while the server may change.
ReceivePage(s) ==
  /\ Receiving(s) /\ page[s] + 1 < Len(Pages[s])
  /\ page' = [page EXCEPT ![s] = @ + 1]
  /\ got' = [got EXCEPT ![s] = WithPage(s)]
  /\ UNCHANGED <<server, register, boot, pc, event, ready, bounds, accepted>>

\* With the last page, refresh accepts the listing or refuses it.
LastPage(s) == Receiving(s) /\ page[s] + 1 = Len(Pages[s])

Acceptable(s) == valid[s] /\ Conflicts(s, Selected(s, WithPage(s))) = {}

\* _start_refresh_task.
Running(s) == IF s \in Watches \cup Polls THEN "waiting" ELSE "static"

Accept(s) ==
  /\ LastPage(s) /\ Acceptable(s)
  /\ register' = Replaced(s, Selected(s, WithPage(s)))
  /\ accepted' = [accepted EXCEPT ![s] = Selected(s, WithPage(s))]
  /\ ready' = [ready EXCEPT ![s] = TRUE]
  /\ pc' = [pc EXCEPT ![s] = Running(s)]
  /\ IF pc[s] = "loading" THEN at' = at + 1 ELSE UNCHANGED at
  /\ UNCHANGED <<server, runtime, event, page, got, bounds>>

\* list_tools raises, or the listing is refused.
RefreshRaises(s) ==
  \/ pc[s] \in {"loading", "refreshing"} /\ session[s] = "broken"
  \/ LastPage(s) /\ ~Acceptable(s)

\* The loop keeps what is registered and tries again later.
RefreshFails(s) ==
  /\ pc[s] = "refreshing" /\ RefreshRaises(s)
  /\ ready' = [ready EXCEPT ![s] = FALSE]
  /\ pc' = [pc EXCEPT ![s] = "asleep"]
  /\ UNCHANGED <<server, register, boot, event, page, got, bounds, accepted>>

Retry(s) ==
  /\ pc[s] = "asleep"
  /\ event' = [event EXCEPT ![s] = TRUE]
  /\ pc' = [pc EXCEPT ![s] = "waiting"]
  /\ UNCHANGED <<server, register, boot, ready, page, got, bounds, accepted>>

\* The event is cleared before the listing, so that a change during it counts.
Refresh(s) ==
  /\ pc[s] = "waiting" /\ (event[s] \/ s \in Polls)
  /\ event' = [event EXCEPT ![s] = FALSE]
  /\ pc' = [pc EXCEPT ![s] = "refreshing"]
  /\ page' = [page EXCEPT ![s] = 0]
  /\ got' = [got EXCEPT ![s] = Nothing]
  /\ UNCHANGED <<server, register, boot, ready, bounds, accepted>>

-----------------------------------------------------------------------------
(* Loading and closing, by RuntimeKernel.initialize and close.             *)

\* A slip: the tools are left to the refresh task that is cancelled.
GoneButTools(s) ==
  /\ UNCHANGED register
  /\ pc' = [pc EXCEPT ![s] = "closed"]
  /\ ready' = [ready EXCEPT ![s] = FALSE]
  /\ session' = [session EXCEPT ![s] = "none"]
  /\ notified' = [notified EXCEPT ![s] = FALSE]
  /\ troubled' = [troubled EXCEPT ![s] = FALSE]
  /\ accepted' = [accepted EXCEPT ![s] = Nothing]
  /\ UNCHANGED <<remote, valid, event, page, got>>

\* Nothing of the source is left: its tools, its handlers and its session.
Gone(s) ==
  /\ register' = Replaced(s, Nothing)
  /\ pc' = [pc EXCEPT ![s] = "closed"]
  /\ ready' = [ready EXCEPT ![s] = FALSE]
  /\ session' = [session EXCEPT ![s] = "none"]
  /\ notified' = [notified EXCEPT ![s] = FALSE]
  /\ troubled' = [troubled EXCEPT ![s] = FALSE]
  /\ accepted' = [accepted EXCEPT ![s] = Nothing]
  /\ UNCHANGED <<remote, valid, event, page, got>>

Load ==
  /\ runtime = "starting" /\ at <= Len(Order)
  /\ pc[Order[at]] = "new"
  /\ pc' = [pc EXCEPT ![Order[at]] = "connecting"]
  /\ UNCHANGED <<server, register, boot, event, ready, page, got, bounds,
                 accepted>>

Connect(s) ==
  /\ pc[s] = "connecting"
  /\ session' = [session EXCEPT ![s] = "open"]
  /\ pc' = [pc EXCEPT ![s] = "loading"]
  /\ UNCHANGED <<remote, valid, notified, troubled, register, boot, event,
                 ready, page, got, bounds, accepted>>

\* connect or refresh raises: the source is undone, and so is the startup.
LoadFails(s) ==
  /\ \/ pc[s] = "connecting" /\ troubles < MaxTroubles
                             /\ troubles' = troubles + 1
     \/ pc[s] = "loading" /\ RefreshRaises(s) /\ UNCHANGED troubles
  /\ Gone(s)
  /\ runtime' = "failing" /\ at' = at - 1
  /\ UNCHANGED changes

\* A part of the runtime that is started before the sources, or after them,
\* raises: the sources that were loaded are undone.
StartRaises ==
  /\ runtime = "starting"
  /\ \/ at > Len(Order)
     \/ at = 1 /\ pc[Order[1]] = "new"
  /\ runtime' = "failing" /\ at' = at - 1
  /\ UNCHANGED <<server, register, source, bounds, accepted>>

Started ==
  /\ runtime = "starting" /\ at > Len(Order)
  /\ runtime' = "up"
  /\ UNCHANGED <<server, register, at, source, bounds, accepted>>

\* The application closes the runtime, one that failed to start as well.
Shutdown ==
  /\ runtime \in {"up", "failed", "abandoned"}
  /\ runtime' = "closing" /\ at' = Len(Order)
  /\ UNCHANGED <<server, register, source, bounds, accepted>>

\* McpToolSource.close, of the loaded sources in reverse.
CloseSource ==
  /\ runtime \in {"failing", "closing"} /\ at > 0
  /\ Gone(Order[at])
  /\ at' = at - 1
  /\ UNCHANGED <<runtime, bounds>>

\* The session's close raises, when the client has forgotten it and everything
\* else of the source is gone. RuntimeKernel.close goes on with the next source;
\* the undoing of a start ends there, and what was loaded before stays.
CloseRaises ==
  /\ runtime \in {"failing", "closing"} /\ at > 0
  /\ session[Order[at]] # "none"
  /\ Gone(Order[at])
  /\ at' = at - 1
  /\ runtime' = IF runtime = "failing" THEN "abandoned" ELSE runtime
  /\ UNCHANGED bounds

Stopped ==
  /\ runtime \in {"failing", "closing"} /\ at = 0
  /\ runtime' = IF runtime = "failing" THEN "failed" ELSE "closed"
  /\ UNCHANGED <<server, register, at, source, bounds, accepted>>

-----------------------------------------------------------------------------

Server(s) ==
  \/ Trouble(s)
  \/ \E n \in Names, v \in Versions \cup {Absent} : Publish(s, n, v)

Deliver(s) == HandleChanged(s) \/ HandleFailure(s)

Source(s) ==
  \/ Connect(s) \/ LoadFails(s) \/ ReceivePage(s) \/ Accept(s)
  \/ RefreshFails(s) \/ Retry(s) \/ Refresh(s)

Closing == CloseSource \/ CloseRaises \/ Stopped

Runtime == Load \/ StartRaises \/ Started \/ Shutdown \/ Closing

Next ==
  \/ Runtime
  \/ \E s \in Sources : Server(s) \/ Deliver(s) \/ Source(s)

Spec == Init /\ [][Next]_vars

\* Requests time out, intervals and sleeps end, messages are delivered.
Fairness ==
  /\ WF_vars(Load \/ Started \/ Closing)
  /\ \A s \in Sources : WF_vars(Source(s)) /\ WF_vars(Deliver(s))

FairSpec == Spec /\ Fairness

-----------------------------------------------------------------------------
(* What the register and the sources promise.                              *)

\* The shape of the state.
TypeOK ==
  /\ remote \in [Sources -> Listing]
  /\ valid \in [Sources -> BOOLEAN]
  /\ session \in [Sources -> {"none", "open", "broken"}]
  /\ notified \in [Sources -> BOOLEAN] /\ troubled \in [Sources -> BOOLEAN]
  /\ register \in [Names -> [owner   : Sources \cup {Nobody, Direct},
                             version : Versions]]
  /\ runtime \in {"starting", "up", "failing", "abandoned", "closing", "failed",
                 "closed"}
  /\ at \in 0..(Len(Order) + 1)
  /\ pc \in [Sources -> Phase]
  /\ event \in [Sources -> BOOLEAN] /\ ready \in [Sources -> BOOLEAN]
  /\ page \in [Sources -> Nat]
  /\ \A s \in Sources : page[s] \in 0..Len(Pages[s])
  /\ got \in [Sources -> Listing]
  /\ changes \in 0..MaxChanges /\ troubles \in 0..MaxTroubles
  /\ accepted \in [Sources -> Listing]

\* What is registered for a source is one complete listing it has accepted,
\* never a mixture of an old and a new one (README.md:262-264: "without
\* exposing a partially updated registry").
OneListing ==
  \A s \in Sources, n \in Names :
    IF accepted[s][n] = Absent
    THEN register[n].owner # s
    ELSE register[n] = [owner |-> s, version |-> accepted[s][n]]

\* While the transport works, a source that is ready and has nothing to do
\* serves what its server publishes: no notification is lost, at whatever
\* point of a listing or of load it comes (_refresh_loop clears the event
\* before it lists).
Current(s) ==
  \A n \in Names : Selected(s, remote[s])[n] = accepted[s][n]

ReadyIsCurrent ==
  \A s \in Watches \cap Advertises :
    /\ pc[s] = "waiting" /\ ready[s] /\ session[s] = "open"
    /\ ~event[s] /\ ~notified[s]
    => Current(s)

\* A runtime that is closed, or whose failed start was undone to the end, has
\* left no tool of a source in the register and no session open, whichever of
\* the closes raised (RuntimeKernel.initialize, close).  An undoing that a raise
\* ends is no such state: what it leaves behind goes when the application closes.
NothingIsLeft ==
  runtime \in {"failed", "closed"} =>
    \A s \in Sources : Owned(s) = {} /\ session[s] = "none" /\ ~ready[s]

\* Once servers and transports are quiet, every source in service whose
\* transport works and whose tools it can accept is ready and current
\* (README.md:259-264: "refreshes its definitions automatically ... and
\* retry").
SourcesConverge ==
  \A s \in Sources :
    <>[](/\ Loaded(s) /\ session[s] = "open" /\ runtime = "up"
         /\ s \in (Watches \cap Advertises) \cup Polls
         /\ valid[s] /\ Conflicts(s, Selected(s, remote[s])) = {}
         => ready[s] /\ Current(s))

=============================================================================
