---------------------------------- MODULE Access ----------------------------------
(***************************************************************************)
(* Who may do what: credentials (login sessions in the memory of the       *)
(* server, generated API keys in SQLite, access tokens of the              *)
(* configuration), the principals they stand for, the permission every     *)
(* operation of the interfaces asks for, and the three ways in: HTTP       *)
(* requests, the connections of the WebSocket endpoint and the commands of *)
(* the command line, which is a process of its own that reads the          *)
(* configuration file at each start.                                       *)
(*                                                                         *)
(* The dependency that resolves a credential is a plain function: the      *)
(* server runs it in a thread, and a logout, a revocation or an expiry may *)
(* fall between any two steps of a request or of the opening of a          *)
(* connection.                                                             *)
(***************************************************************************)
EXTENDS Naturals, Sequences, FiniteSets, SequencesExt

CONSTANTS
  Account,      \* the user names of the configuration; each is a principal_id
  Token,        \* access tokens of login sessions, drawn at random: never reused
  Key,          \* generated API keys, drawn at random
  Static,       \* a configured OAuth access token
  StaticGrants, \* its permissions
  Configs,      \* configurations: functions from some accounts to permissions
  Request, Conn, \* requests (or commands) and connections in flight
  Asked,        \* the endpoints that are asked for
  TTL,          \* auth.login_session_ttl_seconds
  MaxTime       \* bound on the clock

VARIABLES now, config, loaded, sessions, keys, requests, conns

vars == <<now, config, loaded, sessions, keys, requests, conns>>

-----------------------------------------------------------------------------
(* The operations of the authorized interfaces and the permission that     *)
(* each asks for before it calls the inner interface.                      *)

ContextOps ==
  [create_context |-> "contexts:create", get_context |-> "contexts:get",
   append_context |-> "contexts:append", replace_context |-> "contexts:replace",
   list_contexts |-> "contexts:list", delete_context |-> "contexts:delete"]

MemoryOps ==
  [create_memory |-> "memories:create", get_memory |-> "memories:get",
   replace_memory |-> "memories:replace", list_memories |-> "memories:list",
   delete_memory |-> "memories:delete", select_memories |-> "memories:select"]

ChatOps ==
  [chat |-> "chat:create", organize_chat_request |-> "contexts:preview",
   chat_with_context |-> "chat:create", chat_stream |-> "chat:stream",
   chat_stream_with_context |-> "chat:stream"]

\* submit_image_task asks a second permission when it names a session.
ImageOps ==
  [submit_image_task |-> "images:generate", get_image_task |-> "images:get",
   delete_image_task |-> "images:delete", list_image_tasks |-> "images:list",
   generate_images |-> "images:generate", edit_images |-> "images:generate",
   list_image_records |-> "images:list", get_image_record |-> "images:get",
   delete_image_record |-> "images:delete"]

ProviderOps ==
  [create_provider |-> "providers:create", list_providers |-> "providers:list",
   test_provider |-> "providers:test", update_provider |-> "providers:update",
   get_provider_config |-> "providers:get_config",
   list_provider_models |-> "providers:list_models",
   get_provider_model |-> "providers:get_model",
   provider_supports |-> "providers:supports", delete_provider |-> "providers:delete"]

ToolOps ==
  [list_tools |-> "tools:list", list_tool_policies |-> "tools:list",
   set_tool_policy |-> "tools:configure"]

FileOps == [upload_file |-> "files:create", get_file |-> "files:get", read_file |-> "files:read"]

DataOps ==
  [list_sources |-> "data-analysis:list", get_source |-> "data-analysis:get",
   list_fields |-> "data-analysis:list_fields",
   list_metrics |-> "data-analysis:list_metrics",
   statistics |-> "data-analysis:statistics", analyze |-> "data-analysis:analyze"]

RunOps ==
  [start |-> "agent-runs:create", resume |-> "agent-runs:resume",
   pause |-> "agent-runs:pause", cancel |-> "agent-runs:cancel",
   retry |-> "agent-runs:retry", retry_stream |-> "agent-runs:retry",
   start_stream |-> "agent-runs:stream", resume_stream |-> "agent-runs:resume_stream"]

RunQueries ==
  [get_state |-> "agent-runs:get", list_states |-> "agent-runs:list",
   list_trace |-> "agent-runs:list_trace",
   list_tool_executions |-> "agent-runs:list_tool_executions",
   resolve_tool_execution |-> "agent-runs:resolve_tool_execution"]

SkillOps ==
  [list_skills |-> "skills:list", create_template |-> "skills:create",
   get_template |-> "skills:get_template", update_template |-> "skills:update",
   delete_template |-> "skills:delete", get_skill |-> "skills:get",
   supports |-> "skills:supports", render |-> "skills:render"]

SessionOps ==
  [create_session |-> "sessions:create", get_session |-> "sessions:get",
   replace_session |-> "sessions:replace", archive_session |-> "sessions:archive",
   list_sessions |-> "sessions:list", delete_session |-> "sessions:delete",
   chat_with_session |-> "sessions:chat",
   start_agent_run_for_session |-> "sessions:start_agent_run"]

WorkspaceOps ==
  [browse |-> "workspaces:list", list_projects |-> "workspaces:list",
   add_project |-> "workspaces:register", create |-> "workspaces:create"]

\* The permission of every operation, and the operations that change nothing.
Permission ==
  ContextOps @@ MemoryOps @@ ChatOps @@ ImageOps @@ ProviderOps @@ ToolOps @@ FileOps
    @@ DataOps @@ RunOps @@ RunQueries @@ SkillOps @@ SessionOps @@ WorkspaceOps

Reads ==
  {"get_context", "list_contexts", "get_memory", "list_memories", "organize_chat_request",
   "get_image_task", "list_image_tasks", "list_image_records", "get_image_record",
   "list_providers", "get_provider_config", "list_provider_models", "get_provider_model",
   "provider_supports", "list_tools", "list_tool_policies", "get_file", "read_file",
   "list_sources", "get_source", "list_fields", "list_metrics", "statistics", "analyze",
   "get_state", "list_states", "list_trace", "list_tool_executions", "list_skills",
   "get_template", "get_skill", "supports", "render", "get_session", "list_sessions",
   "browse", "list_projects"}

-----------------------------------------------------------------------------
(* The endpoints and, in order, the operations each calls.                 *)

Same(ops) == [e \in ops |-> <<e>>]   \* the endpoints named after their operation

ContextRoutes == Same(DOMAIN ContextOps) @@ [compose_context_preview |-> <<"organize_chat_request">>]

MemoryRoutes ==
  Same(DOMAIN MemoryOps) @@
  [enable_memory |-> <<"get_memory", "replace_memory">>,
   disable_memory |-> <<"get_memory", "replace_memory">>]

ChatRoutes ==
  Same({"chat", "chat_stream", "chat_with_context"}) @@
  [chat_context_stream |-> <<"chat_stream_with_context">>]

ImageRoutes == Same(DOMAIN ImageOps)
ProviderRoutes ==
  Same(DOMAIN ProviderOps \ {"test_provider"}) @@ [test_provider_connection |-> <<"test_provider">>]
ToolRoutes == Same(DOMAIN ToolOps) @@ [reset_tool_policy |-> <<"set_tool_policy">>]
FileRoutes == Same(DOMAIN FileOps)

DataRoutes ==
  [list_data_sources |-> <<"list_sources">>, get_data_source |-> <<"get_source">>,
   list_data_fields |-> <<"list_fields">>, list_data_metrics |-> <<"list_metrics">>,
   run_data_statistics |-> <<"statistics">>, analyze_data |-> <<"analyze">>]

\* A slip: an approval resumes the run and then looks what was pending.
RunRoutesResumeFirst == [approve_pending_agent_run |-> <<"resume", "get_state">>]

RunRoutes ==
  [start_agent_run |-> <<"start">>, stream_agent_run |-> <<"start_stream">>,
   list_agent_runs |-> <<"list_states">>, get_agent_run |-> <<"get_state">>,
   resume_agent_run |-> <<"resume">>, pause_agent_run |-> <<"pause">>,
   cancel_agent_run |-> <<"cancel">>,
   approve_pending_agent_run |-> <<"get_state", "resume">>]

RunStreamRoutes ==
  [retry_agent_run |-> <<"retry">>, stream_retry_agent_run |-> <<"retry_stream">>,
   list_agent_run_tool_executions |-> <<"list_tool_executions">>,
   resolve_agent_run_tool_execution |-> <<"resolve_tool_execution">>,
   resume_agent_run_stream |-> <<"resume_stream">>, list_agent_trace |-> <<"list_trace">>]

SkillRoutes ==
  Same({"list_skills", "get_skill"}) @@
  [create_skill |-> <<"create_template">>, get_skill_template |-> <<"get_template">>,
   update_skill |-> <<"update_template">>, delete_skill |-> <<"delete_template">>,
   skill_supports |-> <<"supports">>, render_skill |-> <<"render">>]

SessionRoutes == Same(DOMAIN SessionOps)
WorkspaceRoutes ==
  Same({"list_projects", "add_project"}) @@
  [browse_directories |-> <<"browse">>, create_directory |-> <<"create">>]

\* The management of keys: no permission, but the session of an account.
KeyRoutes == {"create_api_key", "list_api_keys", "revoke_api_key"}

Route ==
  ContextRoutes @@ MemoryRoutes @@ ChatRoutes @@ ImageRoutes @@ ProviderRoutes @@ ToolRoutes
    @@ FileRoutes @@ DataRoutes @@ RunRoutes @@ RunStreamRoutes @@ SkillRoutes
    @@ SessionRoutes @@ WorkspaceRoutes

\* What a client of the WebSocket endpoint can ask for ...
SocketRoutes ==
  [subscribe |-> <<"list_trace">>, start |-> <<"start_stream">>,
   approve |-> <<"resume_stream">>, pause |-> <<"pause">>,
   cancel |-> <<"cancel", "get_state">>, resume |-> <<"resume_stream">>]

\* ... and the commands of the command line: they share the operations.
CommandRoutes ==
  Same((DOMAIN ContextOps \cup DOMAIN SessionOps \cup DOMAIN MemoryOps) \ {"replace_memory"})

RunCommandRoutes ==
  [list_agent_runs |-> <<"list_states">>, get_agent_run |-> <<"get_state">>,
   list_agent_trace |-> <<"list_trace">>, start_agent_run |-> <<"start">>,
   resume_agent_run |-> <<"resume">>, approve_pending_agent_run |-> <<"get_state", "resume">>]

OtherCommandRoutes ==
  [list_skills |-> <<"list_skills">>, show_skill |-> <<"get_skill">>,
   skill_supports |-> <<"supports">>, render_skill |-> <<"render">>,
   run_chat |-> <<"create_provider", "chat">>]

Commands == CommandRoutes @@ RunCommandRoutes @@ OtherCommandRoutes

-----------------------------------------------------------------------------
(* Credentials.                                                            *)

Never == MaxTime + 1    \* the expiry of a key without one
NoOne == [id |-> "nobody", grants |-> {}]

\* The principals of the login device: a session in memory, not yet expired.
SessionLives(t) == t \in DOMAIN sessions /\ sessions[t].until > now

\* owner_for_key and the principals of the accounts that are configured.
KeyLives(k) ==
  /\ k \in DOMAIN keys
  /\ ~keys[k].revoked
  /\ keys[k].until > now

\* CompositeHttpAuthDevice: one of the devices knows the credential.
Lives(c) ==
  \/ SessionLives(c)
  \/ KeyLives(c) /\ keys[c].owner \in DOMAIN loaded
  \/ c = Static

PrincipalOf(c) ==
  IF c = Static THEN [id |-> Static, grants |-> StaticGrants]
  ELSE LET a == IF c \in Token THEN sessions[c].owner ELSE keys[c].owner
       IN  [id |-> a, grants |-> loaded[a]]

\* A slip: only the device of the logins hands out a guard.
GuardedLogins(c) == c \in Token /\ Lives(c)

\* The guard of a connection: for other credentials there is none.
Guarded(c) == c # Static /\ Lives(c)

Grants(grants, op) == op \in KeyRoutes \/ {"*", Permission[op]} \cap grants # {}

Known == DOMAIN sessions \cup DOMAIN keys \cup {Static}

Idle == [phase |-> "idle", cli |-> FALSE, cred |-> Static, ask |-> "chat", who |-> NoOne,
         done |-> <<>>, dead |-> FALSE]
Closed == [phase |-> "closed", cred |-> Static, guard |-> FALSE, who |-> NoOne, left |-> <<>>,
           done |-> <<>>, dead |-> FALSE]

Init ==
  /\ now = 0
  /\ config \in Configs /\ loaded = config
  /\ sessions = <<>> /\ keys = <<>>
  /\ requests = [r \in Request |-> Idle]
  /\ conns = [c \in Conn |-> Closed]

Tick == now < MaxTime /\ now' = now + 1
        /\ UNCHANGED <<config, loaded, sessions, keys, requests, conns>>

Edit == config' \in Configs
        /\ UNCHANGED <<now, loaded, sessions, keys, requests, conns>>

\* A restart of the server: its memory is lost, the table of keys is kept, and the
\* commands go on: they are other processes.
Restart ==
  /\ loaded' = config
  /\ sessions' = [t \in DOMAIN sessions |-> [sessions[t] EXCEPT !.until = 0]]
  /\ requests' = [r \in Request |-> IF requests[r].cli THEN requests[r] ELSE Idle]
  /\ conns' = [c \in Conn |-> Closed]
  /\ UNCHANGED <<now, config, keys>>

\* login: a token that was never used; the other expired sessions are dropped,
\* which nobody can tell from their being expired. A token stays in the domain
\* with an expiry in the past when its session is gone.
Login(a, t) ==
  /\ a \in DOMAIN loaded /\ t \notin DOMAIN sessions
  /\ sessions' = sessions @@ (t :> [owner |-> a, until |-> now + TTL])
  /\ UNCHANGED <<now, config, loaded, keys, requests, conns>>

Logout(t) ==
  /\ t \in DOMAIN sessions
  /\ sessions' = [sessions EXCEPT ![t].until = 0]
  /\ UNCHANGED <<now, config, loaded, keys, requests, conns>>

-----------------------------------------------------------------------------
(* HTTP requests.                                                          *)

Ask(r, c, e) ==
  /\ requests[r].phase = "idle" /\ c \in Known
  /\ requests' = [requests EXCEPT ![r] = [Idle EXCEPT !.phase = "asked", !.cred = c,
                                          !.ask = e, !.dead = ~Lives(c)]]
  /\ UNCHANGED <<now, config, loaded, sessions, keys, conns>>

\* get_interface, in a thread; the management of keys asks the login device.
Resolve(r) ==
  LET q == requests[r]
      known == IF q.ask \in KeyRoutes THEN SessionLives(q.cred) ELSE Lives(q.cred)
  IN  /\ q.phase = "asked"
      /\ requests' = [requests EXCEPT ![r] =
           IF known THEN [q EXCEPT !.phase = "serving", !.who = PrincipalOf(q.cred)] ELSE Idle]
      /\ UNCHANGED <<now, config, loaded, sessions, keys, conns>>

Issue(who) ==
  \E k \in Key \ DOMAIN keys, u \in {now + 1, Never} :
    keys' = keys @@ (k :> [owner |-> who, until |-> u, revoked |-> FALSE])

\* A key of another account, or no key: 404. Repeating a revocation is harmless.
Revoke(who) ==
  \/ \E k \in DOMAIN keys : keys[k].owner = who /\ keys' = [keys EXCEPT ![k].revoked = TRUE]
  \/ keys' = keys

OpsOf(q) ==
  IF q.cli THEN Commands[q.ask] ELSE IF q.ask \in KeyRoutes THEN <<q.ask>> ELSE Route[q.ask]

\* require_permission, then the operation: the first that is refused ends the request.
Serve(r) ==
  LET q == requests[r]
      op == OpsOf(q)[Len(q.done) + 1]
      done == Append(q.done, op)
  IN  /\ q.phase = "serving"
      /\ IF Grants(q.who.grants, op)
         THEN /\ requests' = [requests EXCEPT ![r].done = done, ![r].phase =
                                IF done = OpsOf(q) THEN "ended" ELSE "serving"]
              /\ CASE op = "create_api_key" -> Issue(q.who.id)
                   [] op = "revoke_api_key" -> Revoke(q.who.id)
                   [] OTHER -> keys' = keys
         ELSE requests' = [requests EXCEPT ![r].phase = "refused"] /\ keys' = keys
      /\ UNCHANGED <<now, config, loaded, sessions, conns>>

Ended(r) ==
  /\ requests[r].phase \in {"ended", "refused"}
  /\ requests' = [requests EXCEPT ![r] = Idle]
  /\ UNCHANGED <<now, config, loaded, sessions, keys, conns>>

-----------------------------------------------------------------------------
(* WebSocket connections: the guard is taken before the principal.         *)

SetConn(c, new) ==
  /\ conns' = [conns EXCEPT ![c] = new]
  /\ UNCHANGED <<now, config, loaded, sessions, keys, requests>>

Connect(c, cred) ==
  /\ conns[c].phase = "closed" /\ cred \in Known
  /\ SetConn(c, [Closed EXCEPT !.phase = "accepted", !.cred = cred])

Guard(c) ==
  /\ conns[c].phase = "accepted"
  /\ SetConn(c, [conns[c] EXCEPT !.phase = "guarded", !.guard = Guarded(conns[c].cred)])

Open(c) ==
  LET k == conns[c]
  IN  /\ k.phase = "guarded"
      /\ SetConn(c, IF Lives(k.cred) THEN [k EXCEPT !.phase = "open", !.who = PrincipalOf(k.cred)]
                    ELSE Closed)

\* ensure_credential
Ensured(c) == conns[c].guard => Lives(conns[c].cred)

Receive(c, e) ==
  LET k == conns[c]
  IN  /\ k.phase = "open" /\ k.left = <<>>
      /\ SetConn(c, IF Ensured(c)
                    THEN [k EXCEPT !.left = SocketRoutes[e], !.done = <<>>, !.dead = ~Lives(k.cred)]
                    ELSE Closed)

\* The operations of a message that was let in: they may be carried out in a task,
\* after tasks of other connections were awaited, and do not look at the guard again.
Handle(c) ==
  LET k == conns[c]
  IN  /\ k.phase = "open" /\ k.left # <<>>
      /\ SetConn(c, IF Grants(k.who.grants, Head(k.left))
                    THEN [k EXCEPT !.left = Tail(@), !.done = Append(@, Head(k.left))]
                    ELSE [k EXCEPT !.left = <<>>])

\* The heartbeat, or a message that is sent, finds the credential gone.
Expel(c) == conns[c].phase = "open" /\ ~Ensured(c) /\ SetConn(c, Closed)
Hangup(c) == conns[c].phase = "open" /\ SetConn(c, Closed)

-----------------------------------------------------------------------------
(* Commands: one process each, with the configuration of the moment, that  *)
(* is authenticated by a generated key or by an account and its password.  *)

Run(r, c, e) ==
  LET a == IF c \in Key THEN keys[c].owner ELSE c
  IN  /\ requests[r].phase = "idle"
      /\ c \in Account \/ KeyLives(c)
      /\ a \in DOMAIN config
      /\ requests' = [requests EXCEPT ![r] =
           [Idle EXCEPT !.phase = "serving", !.cli = TRUE, !.cred = c, !.ask = e,
                        !.who = [id |-> a, grants |-> config[a]]]]
      /\ UNCHANGED <<now, config, loaded, sessions, keys, conns>>

-----------------------------------------------------------------------------
Opening == \E c \in Conn : Guard(c) \/ Open(c)
Beats == \E c \in Conn : Expel(c)

Next ==
  \/ Tick \/ Edit \/ Restart \/ Opening \/ Beats
  \/ \E a \in Account, t \in Token : Login(a, t)
  \/ \E t \in Token : Logout(t)
  \/ \E r \in Request, c \in Known, e \in Asked \cap (DOMAIN Route \cup KeyRoutes) : Ask(r, c, e)
  \/ \E r \in Request, c \in Account \cup DOMAIN keys, e \in Asked \cap DOMAIN Commands : Run(r, c, e)
  \/ \E r \in Request : Resolve(r) \/ Serve(r) \/ Ended(r)
  \/ \E c \in Conn, cred \in Known : Connect(c, cred)
  \/ \E c \in Conn, e \in Asked \cap DOMAIN SocketRoutes : Receive(c, e)
  \/ \E c \in Conn : Handle(c) \/ Hangup(c)

Spec == Init /\ [][Next]_vars

-----------------------------------------------------------------------------
(* Nothing is carried out for a request that was sent, or a message that   *)
(* was received, after its session was logged out or expired, its key was  *)
(* revoked or expired, or its account was removed.                         *)
NothingAfterDeath ==
  /\ \A r \in Request : requests[r].dead => requests[r].done = <<>>
  /\ \A c \in Conn : conns[c].dead => conns[c].done = <<>>

(* A request over HTTP that is refused has changed nothing: where a route  *)
(* needs several permissions, the operations before the refused one only   *)
(* read.                                                                   *)
RefusedChangesNothing ==
  \A r \in Request :
    requests[r].phase = "refused" /\ ~requests[r].cli =>
      \A i \in DOMAIN requests[r].done : requests[r].done[i] \in Reads
====
