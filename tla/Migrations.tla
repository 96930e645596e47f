------------------------------- MODULE Migrations -------------------------------
(* Opening the database. Every store opens its own connection when it is first     *)
(* used, in several processes that start at the same time, and brings the schema   *)
(* up to date before it reads: each migration is looked up, carried out and        *)
(* recorded in one immediate transaction. Operations raise, the wait for the       *)
(* writer times out, processes die; the database may come from any older program,  *)
(* also from one that kept no record.                                              *)
EXTENDS Naturals, Sequences, FiniteSets, SequencesExt

CONSTANTS
  Opener,     \* connections that are opened, of stores and of the start of a process
  Newest,       \* the number of migrations
  None,
  MaxFaults   \* bound on operations that raise, waits that time out and crashes

VARIABLES
  parts,      \* what the migrations add that is there: tables, columns, indexes
  record,     \* evernight_schema_migrations, None if there is no such table
  ran,        \* the committed operations of this program, in their order
  writer,     \* the opener whose transaction is open
  opener,     \* opener -> [pc, next]: the migration it is at
  faults

vars == <<parts, record, ran, writer, opener, faults>>

Migration == 1..Newest

\* An older program left the parts of its migrations and their record, or parts alone.
Init ==
  /\ \/ \E n \in 0..Newest : record = 1..n /\ parts = 1..n
     \/ record = None /\ parts \in SUBSET Migration
  /\ ran = <<>> /\ writer = None /\ faults = 0
  /\ opener = [o \in Opener |-> [pc |-> "new", next |-> 1]]

At(o, pc) == opener[o].pc = pc
To(o, pc) == opener' = [opener EXCEPT ![o].pc = pc]
Fault == faults < MaxFaults /\ faults' = faults + 1

\* connect_sqlite and CREATE TABLE IF NOT EXISTS, a transaction of its own.
Connect(o) ==
  /\ At(o, "new") /\ writer = None
  /\ record' = IF record = None THEN {} ELSE record
  /\ opener' = [opener EXCEPT ![o] = [pc |-> "next", next |-> 1]]
  /\ UNCHANGED <<parts, ran, writer, faults>>

Done(o) ==
  /\ At(o, "next") /\ opener[o].next > Newest
  /\ To(o, "open")
  /\ UNCHANGED <<parts, record, ran, writer, faults>>

\* A slip: the record is read before the transaction begins.
BeginLate(o) ==
  \/ /\ At(o, "next") /\ opener[o].next <= Newest
     /\ opener' = IF opener[o].next \in record THEN [opener EXCEPT ![o].next = @ + 1]
                  ELSE [opener EXCEPT ![o].pc = "found"]
     /\ UNCHANGED <<parts, record, ran, writer, faults>>
  \/ /\ At(o, "found") /\ writer = None
     /\ writer' = o /\ To(o, "holds")
     /\ UNCHANGED <<parts, record, ran, faults>>

\* BEGIN IMMEDIATE waits for the writer; a migration that is recorded ends here.
Begin(o) ==
  /\ At(o, "next") /\ opener[o].next <= Newest /\ writer = None
  /\ IF opener[o].next \in record
     THEN opener' = [opener EXCEPT ![o].next = @ + 1] /\ UNCHANGED writer
     ELSE writer' = o /\ To(o, "holds")
  /\ UNCHANGED <<parts, record, ran, faults>>

\* An operation adds what is missing: tables, columns, rows that are filled in.
Operation(m) == parts \cup {m}

\* The operation, and its record with it.
Commit(o) ==
  LET m == opener[o].next
  IN  /\ At(o, "holds")
      /\ parts' = Operation(m) /\ record' = record \cup {m} /\ ran' = Append(ran, m)
      /\ writer' = None
      /\ opener' = [opener EXCEPT ![o] = [pc |-> "next", next |-> m + 1]]
      /\ UNCHANGED faults

\* A slip: the operation commits on its own, and what follows it fails.
RaisesCommitted(o) ==
  /\ ~At(o, "new") /\ ~At(o, "open") /\ Fault
  /\ ran' = IF At(o, "holds") THEN Append(ran, opener[o].next) ELSE ran
  /\ writer' = IF writer = o THEN None ELSE writer
  /\ opener' = [opener EXCEPT ![o] = [pc |-> "new", next |-> 1]]
  /\ UNCHANGED <<parts, record>>

\* The operation raises, the wait for the writer times out or the process dies: the
\* transaction is rolled back and the connection closed. The next use opens another.
Raises(o) ==
  /\ ~At(o, "new") /\ ~At(o, "open") /\ Fault
  /\ writer' = IF writer = o THEN None ELSE writer
  /\ opener' = [opener EXCEPT ![o] = [pc |-> "new", next |-> 1]]
  /\ UNCHANGED <<parts, record, ran>>

Next == \E o \in Opener : Connect(o) \/ Done(o) \/ Begin(o) \/ Commit(o) \/ Raises(o)

Spec == Init /\ [][Next]_vars

-----------------------------------------------------------------------------
(* However openings overlap, fail and are repeated: no operation is carried out    *)
(* twice and none after a later one, what is recorded is there, and a store that   *)
(* is open has the whole schema.                                                   *)
MigratedOnce ==
  /\ \A i, j \in DOMAIN ran : i < j => ran[i] < ran[j]
  /\ record # None => record \subseteq parts
  /\ \A o \in Opener : At(o, "open") => record = Migration /\ parts = Migration
==================================================================================
