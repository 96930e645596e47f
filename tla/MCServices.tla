------------------------------- MODULE MCServices -------------------------------
(* Components that share no state, checked side by side: every behaviour runs one   *)
(* of them, `part`; the providers of the others stay as they begin, and their other *)
(* variables are None.                                                             *)
EXTENDS ProviderSlots, TLC

CONSTANTS p1, x1, x2, x3, u, t1, k1, oauth, r1, c1, s1, s2, o1, o2, o3, alpha, beta, client

VARIABLES part,
  now, file, loaded, sessions, keys, requests, conns,
  row, session, copy, turn, edits, lost,
  up, template, saved, revisions, run, stops,
  store, writes,
  history, said, settings,
  phase, step, conn, shut, started, runs, blocked, initialized, faults,
  parts, record, ran, writer, opener, failed,
  tree, overwrites, texts, given, dropped, calls,
  wire, answer, made, stage, finish, held, done, places, text, asked, message, outcome

access == <<now, file, loaded, sessions, keys, requests, conns>>
transcript == <<row, session, copy, turn, edits, lost>>
skills == <<up, template, saved, revisions, run, stops>>
memories == <<store, writes>>
window == <<history, said, settings>>
lifecycle == <<phase, step, conn, shut, started, runs, blocked, initialized, faults>>
migrations == <<parts, record, ran, writer, opener, failed>>
files == <<tree, overwrites, texts, given, dropped, calls>>
streams == <<wire, answer, made, stage, finish, held, done, places, text, asked, message, outcome>>

-----------------------------------------------------------------------------
Grant == u :> {"*"}

Access == INSTANCE Access WITH config <- file,
  Account <- {u}, Token <- {t1}, Key <- {k1}, Static <- oauth,
  StaticGrants <- {"contexts:get", "agent-runs:list_trace"},
  Configs <- {Grant, u :> {"memories:get", "agent-runs:resume"}, <<>>},
  Request <- {r1}, Conn <- {c1}, TTL <- 1, MaxTime <- 1,
  Asked <- {"enable_memory", "run_chat", "approve_pending_agent_run", "create_api_key", "revoke_api_key",
            "cancel"}

Transcript == INSTANCE Transcript WITH faults <- lost,
  Turn <- {alpha, beta}, Client <- client, MaxEdits <- 2, MaxFaults <- 1

Skills == INSTANCE Skills WITH loaded <- template, stored <- saved,
  Run <- {r1}, Prompt <- {alpha, beta}, MaxRevisions <- 4, MaxStops <- 1

Every == [scopes |-> <<>>, dedupe |-> TRUE, limit |-> None, disabled |-> FALSE, expired |-> FALSE, kinds |-> {}]
Memories == INSTANCE Memories WITH
  Id <- {1, 2, 3}, Text <- {alpha, beta}, Scope <- {"session", "global"}, RunScope <- "session", MaxWrites <- 4,
  Queries <- {[Every EXCEPT !.scopes = <<"session", "global">>],
              [Every EXCEPT !.scopes = <<"global", "session">>, !.limit = 1, !.disabled = TRUE]}

Kind(role, requested, answered, cost, on) ==
  [role |-> role, calls |-> requested, answers |-> answered, cost |-> cost, active |-> on]
Window == INSTANCE ContextWindow WITH turn <- said, MaxMessages <- 5,
  Kinds <- {Kind("system", {}, None, 1, TRUE), Kind("user", {}, None, 2, TRUE),
            Kind("user", {}, None, 1, FALSE), Kind("assistant", {"c", "d"}, None, 1, TRUE),
            Kind("tool", {}, "c", 1, TRUE), Kind("tool", {}, "d", 1, TRUE)},
  Settings <- {[memory |-> TRUE, after |-> None, keep |-> 1, window |-> 3, budget |-> 4],
               [memory |-> TRUE, after |-> 2, keep |-> 2, window |-> None, budget |-> 3],
               [memory |-> FALSE, after |-> None, keep |-> 1, window |-> None, budget |-> 3]}

Lifecycle == INSTANCE Lifecycle WITH up <- started, run <- runs,
  Run <- {x1, x2}, Store <- {s1, s2}, Source <- <<"mcp1", "mcp2">>, MaxFaults <- 2

Migrations == INSTANCE Migrations WITH faults <- failed,
  Opener <- {o1, o2, o3}, Newest <- 3, MaxFaults <- 2

Files == INSTANCE Files WITH MaxTexts <- 2, MaxCalls <- 5,
  Asked <- {<<>>, <<"a">>, <<"a", "b">>, <<"c">>, <<"link", "a">>, <<"..", "outside", "a">>}

Streams == INSTANCE Streams WITH parts <- places, calls <- asked, MaxBlocks <- 3, MaxPieces <- 2

-----------------------------------------------------------------------------
NoAccess ==
  /\ now = None /\ file = None /\ loaded = None /\ sessions = None /\ keys = None /\ requests = None
  /\ conns = None
NoTranscript ==
  row = None /\ session = None /\ copy = None /\ turn = None /\ edits = None /\ lost = None
NoSkills ==
  up = None /\ template = None /\ saved = None /\ revisions = None /\ run = None /\ stops = None
NoMemories == store = None /\ writes = None
NoWindow == history = None /\ said = None /\ settings = None
NoLifecycle ==
  /\ phase = None /\ step = None /\ conn = None /\ shut = None /\ started = None /\ runs = None
  /\ blocked = None /\ initialized = None /\ faults = None
NoMigrations ==
  parts = None /\ record = None /\ ran = None /\ writer = None /\ opener = None /\ failed = None
NoFiles ==
  /\ tree = None /\ overwrites = None /\ texts = None /\ given = None /\ dropped = None
  /\ calls = None
NoStreams ==
  /\ wire = None /\ answer = None /\ made = None /\ stage = None /\ finish = None /\ held = None
  /\ done = None /\ places = None /\ text = None /\ asked = None /\ message = None /\ outcome = None

InitServices ==
  /\ part \in {"slots", "access", "transcript", "skills", "memories", "window", "lifecycle", "migrations",
              "files", "streams"}
  /\ Init
  /\ IF part = "access" THEN Access!Init /\ file = Grant ELSE NoAccess
  /\ IF part = "transcript" THEN Transcript!Init ELSE NoTranscript
  /\ IF part = "skills" THEN Skills!Init ELSE NoSkills
  /\ IF part = "memories" THEN Memories!Init ELSE NoMemories
  /\ IF part = "window" THEN Window!Init ELSE NoWindow
  /\ IF part = "lifecycle" THEN Lifecycle!Init ELSE NoLifecycle
  /\ IF part = "migrations" THEN Migrations!Init ELSE NoMigrations
  /\ IF part = "files" THEN Files!Init ELSE NoFiles
  /\ IF part = "streams" THEN Streams!Init ELSE NoStreams

NextPart ==
  \/ part = "slots" /\ Next
       /\ UNCHANGED <<access, transcript, skills, memories, window, lifecycle, migrations, files, streams>>
  \/ part = "access" /\ Access!Next
       /\ UNCHANGED <<vars, transcript, skills, memories, window, lifecycle, migrations, files, streams>>
  \/ part = "transcript" /\ Transcript!Next
       /\ UNCHANGED <<vars, access, skills, memories, window, lifecycle, migrations, files, streams>>
  \/ part = "skills" /\ Skills!Next
       /\ UNCHANGED <<vars, access, transcript, memories, window, lifecycle, migrations, files, streams>>
  \/ part = "memories" /\ Memories!Next
       /\ UNCHANGED <<vars, access, transcript, skills, window, lifecycle, migrations, files, streams>>
  \/ part = "window" /\ Window!Next
       /\ UNCHANGED <<vars, access, transcript, skills, memories, lifecycle, migrations, files, streams>>
  \/ part = "lifecycle" /\ Lifecycle!Next
       /\ UNCHANGED <<vars, access, transcript, skills, memories, window, migrations, files, streams>>
  \/ part = "migrations" /\ Migrations!Next
       /\ UNCHANGED <<vars, access, transcript, skills, memories, window, lifecycle, files, streams>>
  \/ part = "files" /\ Files!Next
       /\ UNCHANGED <<vars, access, transcript, skills, memories, window, lifecycle, migrations, streams>>
  \/ part = "streams" /\ Streams!Next
       /\ UNCHANGED <<vars, access, transcript, skills, memories, window, lifecycle, migrations, files>>

NextServices == NextPart /\ UNCHANGED part

SpecServices ==
  /\ InitServices
  /\ [][NextServices]_<<part, vars, access, transcript, skills, memories, window, lifecycle, migrations, files, streams>>

-----------------------------------------------------------------------------
(* Nothing is done for a credential that had ended, and nothing is changed by a    *)
(* request that is refused (Access).                                               *)
AccessHolds == part = "access" => Access!NothingAfterDeath /\ Access!RefusedChangesNothing

(* The messages of a turn stay together, and a run knows where its own are         *)
(* (Transcript).                                                                   *)
TranscriptHolds == part = "transcript" => Transcript!WholeTurns /\ Transcript!IndicesHonest

(* A run uses one version of its skill from its start to its end (Skills).         *)
OneVersion == part = "skills" => Skills!OneVersion

(* A session has one summary, and a request is given the memories it should be     *)
(* (Memories).                                                                     *)
MemoriesHold == part = "memories" => Memories!OneSummary /\ Memories!SelectionHonest

(* A request is whole, whatever is trimmed (ContextWindow).                        *)
RequestsAreWhole == part = "window" => Window!RequestsAreWhole

(* What is used is closed after its users, and nothing is left open (Lifecycle).   *)
EverybodyOutlived == part = "lifecycle" => Lifecycle!EverybodyOutlived

(* Migrations are carried out once, in order, before a store is used (Migrations). *)
MigratedOnce == part = "migrations" => Migrations!MigratedOnce

(* No text is lost that nobody gave up, and nothing outside changes (Files).       *)
TextsAreKept == part = "files" => Files!TextsAreKept

(* An answer is put together from its stream as it was given (Streams).            *)
AnswersAreWhole == part = "streams" => Streams!AnswersAreWhole
=================================================================================
