-------------------------------- MODULE Memories --------------------------------
(* The memories of one owner, what agent runs write of themselves among them, and *)
(* which memories a request is given. All of it happens in transactions and       *)
(* between awaits of one server.                                                 *)
EXTENDS Integers, Sequences, FiniteSets, SequencesExt

CONSTANTS
  Id,        \* memory identifiers, a set of naturals in their order
  Text,      \* contents, equal when only case and white space differ
  Scope,     \* the scopes there are
  RunScope,  \* the scope a run of the session writes its summary to
  Queries,   \* queries: [scopes, dedupe, limit, disabled, expired, kinds]
  None,
  MaxWrites  \* bound on what clients and runs do

VARIABLES
  store,   \* id -> None or [scope, kind, text, priority, on, live, print]: print is the
           \* fingerprint of the run summary that was written there, None for others
  writes

vars == <<store, writes>>

Init == store = [i \in Id |-> None] /\ writes = 0

Stored == {i \in Id : store[i] # None}
MayWrite == writes < MaxWrites /\ writes' = writes + 1

-----------------------------------------------------------------------------
(* BasicMemoryStrategy.                                                          *)

AnyQuery == [scopes |-> <<>>, dedupe |-> FALSE, limit |-> None,
             disabled |-> TRUE, expired |-> TRUE, kinds |-> {}]

Matches(m, q) ==
  /\ m.on \/ q.disabled
  /\ m.live \/ q.expired
  /\ q.scopes # <<>> => \E n \in DOMAIN q.scopes : q.scopes[n] = m.scope
  /\ q.kinds # {} => m.kind \in q.kinds

Rank(m, q) ==
  LET places == {n \in DOMAIN q.scopes : q.scopes[n] = m.scope}
  IN  IF places = {} THEN Len(q.scopes) + 1 ELSE CHOOSE n \in places : \A k \in places : n <= k

\* The sort key, compared place by place.
Precedes(i, j, q) ==
  LET a == <<Rank(store[i], q), -store[i].priority, i>>
      b == <<Rank(store[j], q), -store[j].priority, j>>
  IN  \E n \in 1..3 : a[n] < b[n] /\ \A k \in 1..n - 1 : a[k] = b[k]

\* Memories that say the same: in any scope, if the query lists scopes.
Same(i, j, q) ==
  /\ store[i].text = store[j].text /\ store[i].kind = store[j].kind
  /\ q.scopes = <<>> => store[i].scope = store[j].scope

FirstOfEach(ids, q) ==
  FoldLeft(LAMBDA kept, i : IF \E n \in DOMAIN kept : Same(kept[n], i, q) THEN kept ELSE Append(kept, i),
           <<>>, ids)

Cut(ids, q) == IF q.limit = None \/ q.limit >= Len(ids) THEN ids ELSE SubSeq(ids, 1, q.limit)

Matching(q) == {i \in Stored : Matches(store[i], q)}

\* A slip: what is the same is dropped in the order of the rows, and sorted after.
SelectUnsorted(q) ==
  LET rows == SetToSortSeq(Matching(q), <)
      kept == IF q.dedupe THEN FirstOfEach(rows, q) ELSE rows
  IN  Cut(SetToSortSeq(ToSet(kept), LAMBDA i, j : Precedes(i, j, q)), q)

\* Filtered, sorted, what is the same kept once, and cut.
Select(q) ==
  LET rows == SetToSortSeq(Matching(q), LAMBDA i, j : Precedes(i, j, q))
  IN  Cut(IF q.dedupe THEN FirstOfEach(rows, q) ELSE rows, q)

-----------------------------------------------------------------------------
(* Clients.                                                                      *)

Create ==
  /\ MayWrite
  /\ \E i \in Id \ Stored, s \in Scope, t \in Text, p \in {0, 1}, k \in {"note", "summary"} :
       store' = [store EXCEPT ![i] = [scope |-> s, kind |-> k, text |-> t, priority |-> p,
                                      on |-> TRUE, live |-> TRUE, print |-> None]]

\* replace: its text, its end, whether it is enabled. Kind, scope and metadata are those
\* it had.
Replace ==
  /\ MayWrite
  /\ \E i \in Stored, t \in Text, on \in BOOLEAN : \E live \in {TRUE, store[i].live} :
       store' = [store EXCEPT ![i].text = t, ![i].on = on, ![i].live = live]

Delete == MayWrite /\ \E i \in Stored : store' = [store EXCEPT ![i] = None]

Expire == MayWrite /\ \E i \in Stored : store' = [store EXCEPT ![i].live = FALSE]

-----------------------------------------------------------------------------
(* write_memory_candidate: the summary of a run that ends.                       *)

\* A slip: a summary that is disabled or expired is not looked at.
WrittenBeforeShown ==
  {i \in Stored : store[i].print # None /\ store[i].scope = RunScope /\ store[i].on /\ store[i].live}

\* _find_existing_memory, by key, scope and kind.
WrittenBefore ==
  LET found == Select([AnyQuery EXCEPT !.scopes = <<RunScope>>, !.kinds = {"summary"}])
  IN  {found[n] : n \in {n \in DOMAIN found : store[found[n]].print # None}}

\* create_memories: what a run writes of itself.
Candidate(t) ==
  [scope |-> RunScope, kind |-> "summary", text |-> t, priority |-> 0,
   on |-> TRUE, live |-> TRUE, print |-> t]

\* _merge_memory. The same again: what is there stays. Else the new summary takes its
\* place, enabled.
Merged(old, new) == IF old.print = new.print THEN old ELSE new

Summarize ==
  /\ MayWrite
  /\ \E t \in Text :
       IF WrittenBefore = {}
       THEN \E i \in Id \ Stored : store' = [store EXCEPT ![i] = Candidate(t)]
       ELSE LET i == CHOOSE i \in WrittenBefore : TRUE
            IN  store' = [store EXCEPT ![i] = Merged(@, Candidate(t))]

Next == Create \/ Replace \/ Delete \/ Expire \/ Summarize

Spec == Init /\ [][Next]_vars

-----------------------------------------------------------------------------
(* However often the runs of a session end, and whatever clients did to the       *)
(* summary (edited, disabled, let expire, deleted), there is one summary, not one *)
(* for each run.                                                                 *)
OneSummary ==
  Cardinality({i \in Stored : store[i].print # None}) <= 1

(* What a request is given: no memory the query does not match, nothing twice; and *)
(* a memory that matches and is not there is said by a selected one of a scope at *)
(* least as near, or the limit is reached by memories that precede it.            *)
SelectionHonest ==
  \A q \in Queries : LET given == Select(q) IN
    /\ ToSet(given) \subseteq Matching(q)
    /\ q.dedupe => \A m, n \in DOMAIN given : Same(given[m], given[n], q) => m = n
    /\ \A i \in Matching(q) \ ToSet(given) :
         \/ q.dedupe /\ \E n \in DOMAIN given :
              Same(given[n], i, q) /\ Rank(store[given[n]], q) <= Rank(store[i], q)
         \/ Len(given) = q.limit /\ \A n \in DOMAIN given : Precedes(given[n], i, q)
=================================================================================
