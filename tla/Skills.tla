--------------------------------- MODULE Skills ---------------------------------
(* One custom skill template and the agent runs that use it. A run records the    *)
(* revision of its skill when it starts and compares it before every call of the  *)
(* model, every tool and every resume; clients change, disable, delete and create *)
(* the template again at every await of a run, and the server stops and restarts. *)
EXTENDS Naturals

CONSTANTS
  Run,
  Prompt,
  None,
  MaxRevisions,  \* bound on the revisions clients make
  MaxStops       \* bound on restarts

VARIABLES
  up,
  loaded,     \* the template the register serves, None if there is none
  stored,     \* its row; a row of an older program has revision 0, that is none
  revisions,  \* how many revisions there were: uuid4 never returns one again
  run,        \* run -> [pc, recorded, held, used]: the template it recorded, the one in
              \* the request it composed, those its calls were made with
  stops

vars == <<up, loaded, stored, revisions, run, stops>>

Template(p, on, r) == [prompt |-> p, on |-> on, revision |-> r]

\* A row of an older program has no revision, and neither has a run it left paused.
Init ==
  /\ up = FALSE /\ loaded = None /\ revisions = 0 /\ stops = 0
  /\ stored \in {None} \cup {Template(p, TRUE, 0) : p \in Prompt}
  /\ \E pc \in {"new", "paused"} :
       run = [r \in Run |-> [pc |-> pc, recorded |-> None, held |-> None, used |-> {}]]

Fresh == revisions + 1
MayWrite == up /\ revisions < MaxRevisions /\ UNCHANGED <<up, run, stops>>

\* A slip: the register is changed before the row is written, and the write fails.
PutsLoadedFirst(new) ==
  /\ loaded' = new
  /\ stored' \in {new, stored}

\* The row first, the register after; a write that raises changes neither.
Puts(new) ==
  \/ loaded' = new /\ stored' = new
  \/ UNCHANGED <<loaded, stored>>

\* A slip: a template's revisions are counted from one, again after it was deleted.
CreateCounts ==
  /\ MayWrite /\ loaded = None
  /\ revisions' = Fresh
  /\ \E p \in Prompt, on \in BOOLEAN : Puts(Template(p, on, 1))

\* create_template. A prompt that does not parse is refused before anything is written.
Create ==
  /\ MayWrite /\ loaded = None
  /\ revisions' = Fresh
  /\ \E p \in Prompt, on \in BOOLEAN : Puts(Template(p, on, Fresh))

\* update_template: an update that changes nothing keeps the revision.
Update ==
  /\ MayWrite /\ loaded # None
  /\ \E p \in Prompt, on \in BOOLEAN :
       LET same == p = loaded.prompt /\ on = loaded.on
       IN  /\ revisions' = IF same THEN revisions ELSE Fresh
           /\ Puts(IF same THEN loaded ELSE Template(p, on, Fresh))

Delete == MayWrite /\ loaded # None /\ UNCHANGED revisions /\ Puts(None)

\* restore: what has no revision gets one, which is stored before it is served.
Restart ==
  /\ ~up /\ up' = TRUE
  /\ IF stored # None /\ stored.revision = 0
     THEN /\ revisions' = Fresh
          /\ loaded' = [stored EXCEPT !.revision = Fresh] /\ stored' = loaded'
     ELSE loaded' = stored /\ UNCHANGED <<revisions, stored>>
  /\ UNCHANGED <<run, stops>>

\* A run that is interrupted is paused where its last checkpoint is.
Stop ==
  /\ up /\ stops < MaxStops /\ stops' = stops + 1
  /\ up' = FALSE /\ loaded' = None
  /\ run' = [r \in Run |->
       IF run[r].pc \in {"ready", "checked", "composed", "called"}
       THEN [run[r] EXCEPT !.pc = "paused", !.held = None] ELSE run[r]]
  /\ UNCHANGED <<stored, revisions>>

-----------------------------------------------------------------------------
\* _check_skill_revisions.
Same(r) ==
  /\ loaded # None /\ run[r].recorded # None
  /\ loaded.on /\ loaded.revision = run[r].recorded.revision

At(r, pc) == up /\ run[r].pc = pc /\ UNCHANGED <<up, loaded, stored, revisions, stops>>
To(r, pc) == run' = [run EXCEPT ![r].pc = pc]

Start(r) ==
  /\ At(r, "new") /\ loaded # None
  /\ run' = [run EXCEPT ![r].pc = "ready", ![r].recorded = loaded]

Check(r) == At(r, "ready") /\ To(r, IF Same(r) THEN "checked" ELSE "failed")

\* render_chat_skill_messages, which awaits the renderers of the run's other skills.
Render(r) ==
  /\ At(r, "checked")
  /\ IF loaded # None /\ loaded.on
     THEN run' = [run EXCEPT ![r].pc = "composed", ![r].held = loaded]
     ELSE To(r, "failed")

\* A slip: the check before the request is composed is the only one.
SendUnchecked(r) ==
  /\ At(r, "composed")
  /\ run' = [run EXCEPT ![r].pc = "called", ![r].used = @ \cup {run[r].held}, ![r].held = None]

\* The model is called with the prompt that was rendered, if that is still current.
Send(r) ==
  /\ At(r, "composed")
  /\ IF Same(r)
     THEN run' = [run EXCEPT ![r].pc = "called", ![r].used = @ \cup {run[r].held}, ![r].held = None]
     ELSE To(r, "failed")

\* The model asks for a tool that runs at once, for one that waits for an approval, or
\* for none. The tool is called after a check of its own.
Answered(r) ==
  /\ At(r, "called")
  /\ \/ To(r, "done") \/ To(r, "paused")
     \/ IF Same(r) THEN run' = [run EXCEPT ![r].pc = "ready", ![r].used = @ \cup {loaded}]
        ELSE To(r, "failed")

\* A resume that is refused leaves the run paused.
Resume(r) == At(r, "paused") /\ Same(r) /\ To(r, "ready")

Next ==
  \/ Create \/ Update \/ Delete \/ Stop \/ Restart
  \/ \E r \in Run : Start(r) \/ Check(r) \/ Render(r) \/ Send(r) \/ Answered(r) \/ Resume(r)

Spec == Init /\ [][Next]_vars

-----------------------------------------------------------------------------
(* Whatever clients do to a template while a run composes, waits, calls tools, is *)
(* paused or crosses a restart: every call of the run, of the model or of a tool, *)
(* is made with the very template it recorded when it started, in its prompt, its *)
(* setting and its revision; and what a running server serves is what it stored.  *)
OneVersion ==
  /\ \A r \in Run : run[r].used \subseteq {run[r].recorded}
  /\ up => loaded = stored
=================================================================================
