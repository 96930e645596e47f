-------------------------- MODULE ToolSources_proofs --------------------------
(* Proofs about ToolSources for any sources, names, pages and bounds: what   *)
(* is registered for a source is always one listing it has accepted, a       *)
(* runtime that is closed or failed has left nothing, and no change a server *)
(* notifies is lost.                                                         *)
EXTENDS ToolSources, TLAPS

-----------------------------------------------------------------------------
(* Operators.                                                                *)

LEMMA OrderFacts ==
    /\ Len(Order) \in Nat
    /\ \A i \in 1..Len(Order) : Order[i] \in Sources
    /\ \A s \in Sources : \E i \in 1..Len(Order) : Order[i] = s
    /\ \A i, j \in 1..Len(Order) : Order[i] = Order[j] => i = j
  BY SourcesAssumption DEF Sources

LEMMA Numbers == MaxChanges \in Nat /\ MaxTroubles \in Nat /\ Len(Order) \in Nat
  BY SourcesAssumption, OrderFacts

LEMMA OthersAreNoSources == Nobody \notin Sources /\ Direct \notin Sources
  BY SourcesAssumption

LEMMA Values ==
    /\ 0 \in Versions /\ Versions \subseteq Nat /\ Absent \notin Versions
    /\ Nothing \in Listing
    /\ \A s \in Sources, l \in Listing : Selected(s, l) \in Listing
  <1>1. 0 \in Versions /\ Versions \subseteq Nat /\ Absent \notin Versions
    BY SourcesAssumption DEF Versions, Absent
  <1>2. Nothing \in Listing
    BY DEF Nothing, Listing
  <1>3. \A s \in Sources, l \in Listing : Selected(s, l) \in Listing
    BY DEF Selected, Listing
  <1> QED BY <1>1, <1>2, <1>3

LEMMA PagesAreLists == \A s \in Sources : Len(Pages[s]) \in Nat \ {0}
  BY SourcesAssumption

(* The register keeps its shape when a source's part is replaced.            *)
Registers == [Names -> [owner : Sources \cup {Nobody, Direct}, version : Versions]]

LEMMA ReplacedType ==
    ASSUME register \in Registers, NEW s \in Sources, NEW l \in Listing
    PROVE  Replaced(s, l) \in Registers
  BY Values DEF Registers, Replaced, Free, Listing

LEMMA WithPageType ==
    ASSUME TypeOK, NEW s \in Sources
    PROVE  WithPage(s) \in Listing
  BY DEF TypeOK, WithPage, Listing

-----------------------------------------------------------------------------
(* The inductive invariant of the register and of the order of loading.      *)

(* A source that is not loaded has accepted nothing, is not ready, and has   *)
(* no session unless it is loading.                                          *)
NotLoadedIsEmpty ==
  \A s \in Sources :
    /\ ~Loaded(s) => accepted[s] = Nothing /\ ~ready[s]
    /\ pc[s] \in {"new", "connecting", "closed"} => session[s] = "none"

(* Sources are loaded in order and closed in reverse: where the runtime is   *)
(* says which are loaded. When a failed start is closed, or its undoing was  *)
(* cut short, some of those before it may never have been loaded, or be      *)
(* closed already; none is being loaded.                                     *)
Before == \A i \in 1..Len(Order) : i < at => Loaded(Order[i])
Through == \A i \in 1..Len(Order) : i <= at => Loaded(Order[i])
Beyond == \A i \in 1..Len(Order) : i > at => pc[Order[i]] \in {"new", "closed"}

LoadedInOrder ==
  /\ runtime = "starting" =>
        /\ at \in 1..(Len(Order) + 1)
        /\ Before
        /\ at <= Len(Order) => pc[Order[at]] \in {"new", "connecting", "loading"}
        /\ \A i \in 1..Len(Order) : i > at => pc[Order[i]] = "new"
  /\ runtime = "up" => \A s \in Sources : Loaded(s)
  /\ runtime = "failing" => at \in 0..Len(Order) /\ Through /\ Beyond
  /\ runtime = "closing" => at \in 0..Len(Order) /\ Beyond
  /\ runtime \in {"closing", "abandoned"} =>
        \A s \in Sources : pc[s] \notin {"connecting", "loading"}
  /\ runtime \in {"failed", "closed"} => \A s \in Sources : pc[s] \in {"new", "closed"}

SourcesInv == TypeOK /\ OneListing /\ NotLoadedIsEmpty /\ LoadedInOrder

LEMMA SourcesInit == Init => SourcesInv
  <1> SUFFICES ASSUME Init PROVE SourcesInv
    OBVIOUS
  <1> USE SourcesAssumption, OrderFacts, Values
  <1>1. remote \in [Sources -> Listing]
    BY DEF Init, Listing
  <1>2. PICK D \in SUBSET Local : register = [n \in Names |->
                    IF n \in D THEN [owner |-> Direct, version |-> 0] ELSE Free]
    BY DEF Init
  <1>3. register \in Registers
    BY <1>2 DEF Registers, Free
  <1>4. \A s \in Sources : page[s] \in 0..Len(Pages[s])
    BY DEF Init
  <1>5. TypeOK
    BY <1>1, <1>3, <1>4 DEF Init, TypeOK, Registers, Phase
  <1>6. OneListing
    BY <1>2 DEF Init, OneListing, Nothing, Free
  <1>7. NotLoadedIsEmpty /\ LoadedInOrder
    BY DEF Init, NotLoadedIsEmpty, LoadedInOrder, Loaded, Before
  <1> QED BY <1>5, <1>6, <1>7 DEF SourcesInv

(* The steps of one source that leave the register, the runtime and what is  *)
(* accepted alone.                                                           *)
Quietly(s) ==
    \/ Trouble(s) \/ \E n \in Names, v \in Versions \cup {Absent} : Publish(s, n, v)
    \/ HandleChanged(s) \/ HandleFailure(s) \/ Connect(s) \/ ReceivePage(s)
    \/ RefreshFails(s) \/ Retry(s) \/ Refresh(s)

LEMMA StepsOfNext ==
    ASSUME Next
    PROVE  \/ Load \/ StartRaises \/ Started \/ Shutdown
           \/ CloseSource \/ CloseRaises \/ Stopped
           \/ \E s \in Sources : Quietly(s) \/ LoadFails(s) \/ Accept(s)
  BY DEF Next, Runtime, Closing, Server, Deliver, Source, Quietly

(* Where a source that connects or lists is in the order.                    *)
LEMMA LoadingIsAt ==
    ASSUME SourcesInv, NEW s \in Sources, pc[s] \in {"connecting", "loading"}
    PROVE  runtime = "starting" /\ at \in 1..Len(Order) /\ Order[at] = s
  <1>1. PICK i \in 1..Len(Order) : Order[i] = s
    BY OrderFacts
  <1>2. runtime = "starting"
    <2>1. ~Loaded(s) /\ pc[Order[i]] \notin {"new", "closed"}
      BY <1>1 DEF Loaded
    <2>2. runtime \notin {"up", "abandoned", "closing", "failed", "closed"}
      BY <2>1, <1>1 DEF SourcesInv, LoadedInOrder
    <2>3. ASSUME runtime = "failing" PROVE FALSE
      <3>1. at \in 0..Len(Order) /\ Through /\ Beyond
        BY <2>3 DEF SourcesInv, LoadedInOrder
      <3>2. i <= at \/ i > at
        BY <3>1, Numbers
      <3> QED BY <1>1, <2>1, <3>1, <3>2 DEF Through, Beyond
    <2> QED BY <2>2, <2>3 DEF SourcesInv, TypeOK
  <1>3. i = at
    BY <1>1, <1>2, OrderFacts DEF SourcesInv, LoadedInOrder, Loaded, Before
  <1> QED BY <1>1, <1>2, <1>3

LEMMA QuietType ==
    ASSUME SourcesInv, NEW s \in Sources, Quietly(s)
    PROVE  TypeOK'
  <1> USE Numbers
  <1>0. TypeOK
    BY DEF SourcesInv
  <1>1. CASE Trouble(s)
    <2>1. session' \in [Sources -> {"none", "open", "broken"}]
      BY <1>0, <1>1 DEF Trouble, TypeOK
    <2>2. troubled' \in [Sources -> BOOLEAN] /\ troubles' \in 0..MaxTroubles
      BY <1>0, <1>1 DEF Trouble, TypeOK
    <2>3. UNCHANGED <<remote, valid, notified, register, boot, source, changes, accepted>>
      BY <1>1 DEF Trouble
    <2> QED BY <1>0, <2>1, <2>2, <2>3 DEF TypeOK, boot, source
  <1>2. ASSUME NEW n \in Names, NEW v \in Versions \cup {Absent}, Publish(s, n, v)
        PROVE  TypeOK'
    <2>1. remote' = [remote EXCEPT ![s][n] = v]
      BY <1>2 DEF Publish
    <2>2. remote' \in [Sources -> Listing]
      BY <1>0, <2>1 DEF TypeOK, Listing
    <2>3. PICK ok \in BOOLEAN : valid' = [valid EXCEPT ![s] = ok]
      BY <1>2 DEF Publish
    <2>4. valid' \in [Sources -> BOOLEAN]
      BY <1>0, <2>3 DEF TypeOK
    <2>5. notified' \in [Sources -> BOOLEAN]
      BY <1>0, <1>2 DEF TypeOK, Publish
    <2>6. changes' \in 0..MaxChanges
      BY <1>0, <1>2 DEF TypeOK, Publish
    <2> QED BY <1>0, <1>2, <2>2, <2>4, <2>5, <2>6 DEF Publish, TypeOK, boot, source
  <1>3. CASE HandleChanged(s)
    BY <1>0, <1>3 DEF HandleChanged, TypeOK, boot, bounds
  <1>4. CASE HandleFailure(s)
    BY <1>0, <1>4 DEF HandleFailure, TypeOK, boot, bounds
  <1>5. CASE Connect(s)
    BY <1>0, <1>5 DEF Connect, TypeOK, boot, bounds, Phase
  <1>6. CASE ReceivePage(s)
    <2>1. got' \in [Sources -> Listing]
      BY <1>0, <1>6, WithPageType DEF ReceivePage, TypeOK
    <2>2. \A t \in Sources : page'[t] \in 0..Len(Pages[t])
      <3> SUFFICES ASSUME NEW t \in Sources PROVE page'[t] \in 0..Len(Pages[t])
        OBVIOUS
      <3>1. page[t] \in 0..Len(Pages[t]) /\ Len(Pages[t]) \in Nat
        BY <1>0, PagesAreLists DEF TypeOK
      <3>2. page'[t] = page[t] \/ (page'[t] = page[t] + 1 /\ page[t] + 1 < Len(Pages[t]))
        BY <1>6 DEF ReceivePage
      <3> QED BY <3>1, <3>2
    <2> QED BY <1>0, <1>6, <2>1, <2>2 DEF ReceivePage, TypeOK, server, boot, bounds
  <1>7. CASE RefreshFails(s) \/ Retry(s)
    BY <1>0, <1>7 DEF RefreshFails, Retry, TypeOK, server, boot, bounds, Phase
  <1>8. CASE Refresh(s)
    <2>1. \A t \in Sources : page'[t] \in 0..Len(Pages[t])
      <3> SUFFICES ASSUME NEW t \in Sources PROVE page'[t] \in 0..Len(Pages[t])
        OBVIOUS
      <3>1. page[t] \in 0..Len(Pages[t]) /\ Len(Pages[t]) \in Nat
        BY <1>0, PagesAreLists DEF TypeOK
      <3>2. page'[t] = page[t] \/ page'[t] = 0
        BY <1>8 DEF Refresh
      <3> QED BY <3>1, <3>2
    <2>2. got' \in [Sources -> Listing]
      BY <1>0, <1>8, Values DEF Refresh, TypeOK
    <2> QED BY <1>0, <1>8, <2>1, <2>2 DEF Refresh, TypeOK, server, boot, bounds, Phase
  <1> QED BY <1>1, <1>2, <1>3, <1>4, <1>5, <1>6, <1>7, <1>8 DEF Quietly

(* While the runtime stays where it is, loaded sources stay loaded and those *)
(* that are not load or stay as they are.                                    *)
LEMMA OrderKept ==
    ASSUME SourcesInv, UNCHANGED <<runtime, at>>,
           \A t \in Sources :
             /\ Loaded(t) => Loaded(t)'
             /\ pc[t] \in {"new", "closed"} => pc'[t] = pc[t]
             /\ pc[t] \in {"connecting", "loading"} => pc'[t] \in {"connecting", "loading"}
    PROVE  LoadedInOrder'
  <1>1. \A i \in 1..Len(Order) :
          /\ Loaded(Order[i]) => Loaded(Order[i])'
          /\ pc[Order[i]] \in {"new", "closed"} => pc'[Order[i]] = pc[Order[i]]
          /\ pc[Order[i]] \in {"connecting", "loading"} =>
                pc'[Order[i]] \in {"connecting", "loading"}
    BY OrderFacts DEF Loaded
  <1>2. CASE runtime = "starting"
    <2>1. at \in 1..(Len(Order) + 1) /\ Before'
      BY <1>1, <1>2 DEF SourcesInv, LoadedInOrder, Before, Loaded
    <2>2. at <= Len(Order) => pc'[Order[at]] \in {"new", "connecting", "loading"}
      <3>1. at <= Len(Order) => at \in 1..Len(Order)
        BY <2>1, Numbers
      <3> QED BY <1>1, <1>2, <3>1 DEF SourcesInv, LoadedInOrder
    <2>3. \A i \in 1..Len(Order) : i > at => pc'[Order[i]] = "new"
      BY <1>1, <1>2 DEF SourcesInv, LoadedInOrder
    <2> QED BY <1>2, <2>1, <2>2, <2>3 DEF LoadedInOrder
  <1>3. CASE runtime = "up"
    BY <1>3 DEF SourcesInv, LoadedInOrder, Loaded
  <1>4. CASE runtime = "failing"
    <2>1. at \in 0..Len(Order) /\ Through' /\ Beyond'
      BY <1>1, <1>4 DEF SourcesInv, LoadedInOrder, Through, Beyond, Loaded
    <2> QED BY <1>4, <2>1 DEF LoadedInOrder
  <1>5. CASE runtime \in {"closing", "abandoned"}
    <2>1. \A s \in Sources : pc'[s] \notin {"connecting", "loading"}
      BY <1>5 DEF SourcesInv, TypeOK, LoadedInOrder, Loaded, Phase
    <2>2. runtime = "closing" => at \in 0..Len(Order) /\ Beyond'
      BY <1>1, <1>5 DEF SourcesInv, LoadedInOrder, Beyond
    <2> QED BY <1>5, <2>1, <2>2 DEF LoadedInOrder
  <1>6. CASE runtime \in {"failed", "closed"}
    BY <1>6 DEF SourcesInv, LoadedInOrder
  <1> QED BY <1>2, <1>3, <1>4, <1>5, <1>6 DEF SourcesInv, TypeOK

(* Nothing quiet makes a source loaded or unloaded, ready or other than      *)
(* empty.                                                                    *)
LEMMA QuietNext ==
    ASSUME SourcesInv, NEW s \in Sources, Quietly(s)
    PROVE  SourcesInv'
  <1>1. UNCHANGED <<register, runtime, at, accepted>>
    BY DEF Quietly, Trouble, Publish, HandleChanged, HandleFailure, Connect, ReceivePage,
       RefreshFails, Retry, Refresh, boot
  <1>2. TypeOK'
    BY QuietType
  <1>3. OneListing'
    BY <1>1 DEF SourcesInv, OneListing
  <1>4. /\ \A t \in Sources : Loaded(t)' = Loaded(t) /\ (ready'[t] => ready[t])
        /\ \A t \in Sources : pc'[t] = pc[t] \/ (pc[t] = "connecting" /\ pc'[t] = "loading")
                              \/ (Loaded(t) /\ Loaded(t)')
        /\ \A t \in Sources : session'[t] = session[t] \/ pc'[t] \notin {"new", "connecting", "closed"}
    <2>1. CASE Trouble(s)
      BY <2>1 DEF SourcesInv, TypeOK, NotLoadedIsEmpty, Trouble, Loaded, source
    <2>2. CASE Connect(s)
      BY <2>2 DEF SourcesInv, TypeOK, Connect, Loaded
    <2>3. CASE RefreshFails(s) \/ Retry(s) \/ Refresh(s)
      BY <2>3 DEF SourcesInv, TypeOK, RefreshFails, Retry, Refresh, Loaded, server
    <2>4. CASE HandleFailure(s) \/ HandleChanged(s) \/ ReceivePage(s)
      BY <2>4 DEF SourcesInv, TypeOK, HandleFailure, HandleChanged, ReceivePage, Loaded, server
    <2>5. ASSUME NEW n \in Names, NEW v \in Versions \cup {Absent}, Publish(s, n, v)
          PROVE  UNCHANGED <<pc, ready, session>>
      BY <2>5 DEF Publish, source
    <2> QED BY <2>1, <2>2, <2>3, <2>4, <2>5 DEF Quietly, Loaded
  <1>5. NotLoadedIsEmpty'
    BY <1>1, <1>4 DEF SourcesInv, NotLoadedIsEmpty, Loaded
  <1>6. LoadedInOrder'
    <2>1. \A t \in Sources :
            /\ Loaded(t) => Loaded(t)'
            /\ pc[t] \in {"new", "closed"} => pc'[t] = pc[t]
            /\ pc[t] \in {"connecting", "loading"} => pc'[t] \in {"connecting", "loading"}
      BY <1>4 DEF Loaded
    <2> QED BY <1>1, <2>1, OrderKept
  <1> QED BY <1>2, <1>3, <1>5, <1>6 DEF SourcesInv

(* Only names nobody else holds are taken, and what a source no longer lists *)
(* is given up (ToolRegister.replace_source).                                *)
LEMMA AcceptNext ==
    ASSUME SourcesInv, NEW s \in Sources, Accept(s)
    PROVE  SourcesInv'
  <1> USE Numbers
  <1> DEFINE l == Selected(s, WithPage(s))
  <1>1. /\ register' = Replaced(s, l) /\ accepted' = [accepted EXCEPT ![s] = l]
        /\ ready' = [ready EXCEPT ![s] = TRUE] /\ pc' = [pc EXCEPT ![s] = Running(s)]
        /\ pc[s] \in {"loading", "refreshing"} /\ Conflicts(s, l) = {}
        /\ at' = IF pc[s] = "loading" THEN at + 1 ELSE at
        /\ UNCHANGED <<server, runtime, event, page, got, bounds>>
    BY DEF Accept, LastPage, Acceptable, Receiving
  <1>2. l \in Listing
    BY WithPageType, Values DEF SourcesInv
  <1> HIDE DEF l
  <1>3. TypeOK /\ register \in Registers /\ Running(s) \in {"waiting", "static"}
    BY DEF SourcesInv, TypeOK, Registers, Running
  <1>4. register' \in Registers
    BY <1>1, <1>2, <1>3, ReplacedType
  <1>5. pc[s] = "loading" => runtime = "starting" /\ at \in 1..Len(Order) /\ Order[at] = s
    BY LoadingIsAt
  <1>6. at' \in 0..(Len(Order) + 1)
    BY <1>1, <1>3, <1>5 DEF TypeOK
  <1>7. TypeOK'
    BY <1>1, <1>2, <1>3, <1>4, <1>6 DEF TypeOK, Registers, Phase, server, bounds
  <1>8. OneListing'
    <2> SUFFICES ASSUME NEW t \in Sources, NEW n \in Names
                 PROVE  IF accepted'[t][n] = Absent THEN register'[n].owner # t
                        ELSE register'[n] = [owner |-> t, version |-> accepted'[t][n]]
      BY DEF OneListing
    <2>1. register'[n] = IF l[n] # Absent THEN [owner |-> s, version |-> l[n]]
                         ELSE IF register[n].owner = s THEN Free ELSE register[n]
      BY <1>1 DEF Replaced
    <2>2. l[n] # Absent => register[n].owner \in {Nobody, s}
      BY <1>1 DEF Conflicts
    <2>3. IF accepted[t][n] = Absent THEN register[n].owner # t
          ELSE register[n] = [owner |-> t, version |-> accepted[t][n]]
      BY DEF SourcesInv, OneListing
    <2>4. accepted' = [accepted EXCEPT ![s] = l] /\ accepted \in [Sources -> Listing]
      BY <1>1, <1>3 DEF TypeOK
    <2>5. CASE t = s
      BY <2>1, <2>4, <2>5, OthersAreNoSources DEF Free
    <2>6. CASE t # s
      <3>1. accepted'[t][n] = accepted[t][n]
        BY <2>4, <2>6
      <3> QED BY <2>1, <2>2, <2>3, <2>6, <3>1, OthersAreNoSources DEF Free
    <2> QED BY <2>5, <2>6
  <1>9. /\ \A t \in Sources \ {s} : pc'[t] = pc[t] /\ ready'[t] = ready[t] /\ accepted'[t] = accepted[t]
        /\ Loaded(s)' /\ pc'[s] \in {"waiting", "static"}
    BY <1>1, <1>3 DEF TypeOK, Loaded
  <1>10. NotLoadedIsEmpty'
    BY <1>1, <1>9 DEF SourcesInv, NotLoadedIsEmpty, Loaded, server
  <1>11. LoadedInOrder'
    <2>1. CASE pc[s] = "loading"
      <3>1. at' = at + 1 /\ runtime = "starting" /\ runtime' = "starting"
        BY <1>1, <1>5, <2>1
      <3>2. \A i \in 1..Len(Order) : i < at => Loaded(Order[i])
        BY <3>1 DEF SourcesInv, LoadedInOrder, Before
      <3>3. Before'
        <4> SUFFICES ASSUME NEW i \in 1..Len(Order), i < at + 1 PROVE Loaded(Order[i])'
          BY <3>1 DEF Before
        <4>1. CASE i = at
          BY <1>5, <1>9, <2>1, <4>1
        <4>2. CASE i < at
          <5>1. Order[i] \in Sources /\ Loaded(Order[i])
            BY <3>2, <4>2, OrderFacts
          <5> QED BY <1>9, <5>1 DEF Loaded
        <4> QED BY <1>5, <2>1, <4>1, <4>2
      <3>4. \A i \in 1..Len(Order) : i > at => pc'[Order[i]] = "new"
        <4> SUFFICES ASSUME NEW i \in 1..Len(Order), i > at PROVE pc'[Order[i]] = "new"
          OBVIOUS
        <4>1. Order[i] # s /\ Order[i] \in Sources
          BY <1>5, <2>1, OrderFacts
        <4>2. pc[Order[i]] = "new"
          BY <3>1 DEF SourcesInv, LoadedInOrder
        <4> QED BY <1>9, <4>1, <4>2
      <3> QED BY <1>5, <2>1, <3>1, <3>3, <3>4 DEF LoadedInOrder
    <2>2. CASE pc[s] = "refreshing"
      <3>1. UNCHANGED <<runtime, at>>
        BY <1>1, <2>2
      <3>2. \A t \in Sources :
              /\ Loaded(t) => Loaded(t)'
              /\ pc[t] \in {"new", "closed"} => pc'[t] = pc[t]
              /\ pc[t] \in {"connecting", "loading"} => pc'[t] \in {"connecting", "loading"}
        BY <1>9, <2>2 DEF Loaded
      <3> QED BY <3>1, <3>2, OrderKept
    <2> QED BY <1>1, <2>1, <2>2
  <1> QED BY <1>7, <1>8, <1>10, <1>11 DEF SourcesInv

(* Undoing or closing a source leaves nothing of it, and the others' parts   *)
(* as they were.                                                             *)
LEMMA GoneKeeps ==
    ASSUME SourcesInv, NEW s \in Sources, Gone(s), at' \in 0..Len(Order),
           runtime' \in {"failing", "abandoned", "closing"}, UNCHANGED changes, troubles' \in 0..MaxTroubles
    PROVE  TypeOK' /\ OneListing' /\ NotLoadedIsEmpty'
  <1> USE Numbers
  <1>1. TypeOK /\ register \in Registers
    BY DEF SourcesInv, TypeOK, Registers
  <1>2. register' \in Registers
    BY <1>1, ReplacedType, Values DEF Gone
  <1>3. TypeOK'
    <2>1. /\ at' \in 0..(Len(Order) + 1) /\ accepted' \in [Sources -> Listing]
          /\ runtime' \in {"starting", "up", "failing", "abandoned", "closing", "failed", "closed"}
      BY <1>1, Values DEF TypeOK, Gone
    <2>2. pc' \in [Sources -> Phase]
      BY <1>1 DEF TypeOK, Gone, Phase
    <2>3. /\ ready' \in [Sources -> BOOLEAN] /\ notified' \in [Sources -> BOOLEAN]
          /\ troubled' \in [Sources -> BOOLEAN]
          /\ session' \in [Sources -> {"none", "open", "broken"}]
      BY <1>1 DEF TypeOK, Gone
    <2>4. UNCHANGED <<remote, valid, event, page, got, changes>>
      BY DEF Gone
    <2> QED BY <1>1, <1>2, <2>1, <2>2, <2>3, <2>4 DEF TypeOK, Registers
  <1>4. OneListing'
    <2> SUFFICES ASSUME NEW t \in Sources, NEW n \in Names
                 PROVE  IF accepted'[t][n] = Absent THEN register'[n].owner # t
                        ELSE register'[n] = [owner |-> t, version |-> accepted'[t][n]]
      BY DEF OneListing
    <2>1. register'[n] = IF register[n].owner = s THEN Free ELSE register[n]
      BY DEF Gone, Replaced, Nothing
    <2>2. IF accepted[t][n] = Absent THEN register[n].owner # t
          ELSE register[n] = [owner |-> t, version |-> accepted[t][n]]
      BY DEF SourcesInv, OneListing
    <2>3. accepted' = [accepted EXCEPT ![s] = Nothing] /\ accepted \in [Sources -> Listing]
      BY <1>1 DEF TypeOK, Gone
    <2>4. CASE t = s
      BY <2>1, <2>3, <2>4, OthersAreNoSources DEF Free, Nothing
    <2>5. CASE t # s
      <3>1. accepted'[t][n] = accepted[t][n]
        BY <2>3, <2>5
      <3> QED BY <2>1, <2>2, <2>5, <3>1, OthersAreNoSources DEF Free
    <2> QED BY <2>4, <2>5
  <1>5. NotLoadedIsEmpty'
    BY <1>1 DEF SourcesInv, NotLoadedIsEmpty, TypeOK, Gone, Loaded
  <1> QED BY <1>3, <1>4, <1>5

(* A source that cannot be loaded is undone; those loaded before it are to   *)
(* be closed.                                                                *)
LEMMA LoadFailsNext ==
    ASSUME SourcesInv, NEW s \in Sources, LoadFails(s)
    PROVE  SourcesInv'
  <1> USE Numbers
  <1>1. pc[s] \in {"connecting", "loading"} /\ Gone(s) /\ runtime' = "failing" /\ at' = at - 1
        /\ UNCHANGED changes
    BY DEF LoadFails
  <1>2. runtime = "starting" /\ at \in 1..Len(Order) /\ Order[at] = s
    BY <1>1, LoadingIsAt
  <1>3. at' \in 0..Len(Order) /\ troubles' \in 0..MaxTroubles
    BY <1>1, <1>2 DEF LoadFails, SourcesInv, TypeOK
  <1>4. \A t \in Sources : pc'[t] = IF t = s THEN "closed" ELSE pc[t]
    BY <1>1 DEF Gone, SourcesInv, TypeOK
  <1>5. \A i \in 1..Len(Order) : Order[i] \in Sources /\ (Order[i] = s <=> i = at)
    BY <1>2, OrderFacts
  <1>6. \A i \in 1..Len(Order) : /\ i < at => Loaded(Order[i])
                                 /\ i > at => pc[Order[i]] = "new"
    BY <1>2 DEF SourcesInv, LoadedInOrder, Before
  <1>7. Through' /\ Beyond'
    <2> SUFFICES ASSUME NEW i \in 1..Len(Order)
                 PROVE  /\ i <= at - 1 => Loaded(Order[i])'
                        /\ i > at - 1 => pc'[Order[i]] \in {"new", "closed"}
      BY <1>1 DEF Through, Beyond
    <2> QED BY <1>2, <1>4, <1>5, <1>6 DEF Loaded
  <1>8. LoadedInOrder'
    BY <1>1, <1>3, <1>7 DEF LoadedInOrder
  <1> QED BY <1>1, <1>3, <1>8, GoneKeeps DEF SourcesInv

LEMMA CloseSourceNext ==
    ASSUME SourcesInv, CloseSource \/ CloseRaises
    PROVE  SourcesInv'
  <1> USE Numbers
  <1>1. /\ runtime \in {"failing", "closing"} /\ at > 0 /\ at' = at - 1 /\ Gone(Order[at])
        /\ runtime' = runtime \/ (runtime = "failing" /\ runtime' = "abandoned")
        /\ UNCHANGED <<changes, troubles>>
    BY DEF CloseSource, CloseRaises, bounds
  <1>2. at \in 1..Len(Order) /\ Order[at] \in Sources
    BY <1>1, OrderFacts DEF SourcesInv, LoadedInOrder
  <1>3. at' \in 0..Len(Order) /\ troubles' \in 0..MaxTroubles
    BY <1>1, <1>2 DEF SourcesInv, TypeOK
  <1>4. \A t \in Sources : pc'[t] = IF t = Order[at] THEN "closed" ELSE pc[t]
    BY <1>1 DEF Gone, SourcesInv, TypeOK
  <1>5. \A i \in 1..Len(Order) : Order[i] \in Sources /\ (Order[i] = Order[at] <=> i = at)
    BY <1>2, OrderFacts
  <1>6. \A i \in 1..Len(Order) : i > at => pc[Order[i]] \in {"new", "closed"}
    BY <1>1 DEF SourcesInv, LoadedInOrder, Beyond
  <1>7. runtime = "failing" => \A i \in 1..Len(Order) : i <= at => Loaded(Order[i])
    BY DEF SourcesInv, LoadedInOrder, Through
  <1>8. Beyond'
    <2> SUFFICES ASSUME NEW i \in 1..Len(Order), i > at - 1
                 PROVE  pc'[Order[i]] \in {"new", "closed"}
      BY <1>1 DEF Beyond
    <2> QED BY <1>2, <1>4, <1>5, <1>6
  <1>9. runtime' = "failing" => Through'
    <2> SUFFICES ASSUME runtime = "failing", NEW i \in 1..Len(Order), i <= at - 1
                 PROVE  Loaded(Order[i])'
      BY <1>1 DEF Through
    <2> QED BY <1>2, <1>4, <1>5, <1>7 DEF Loaded
  <1>10. \A t \in Sources : pc'[t] \notin {"connecting", "loading"}
    <2> SUFFICES ASSUME NEW t \in Sources, pc[t] \in {"connecting", "loading"} PROVE FALSE
      BY <1>4
    <2> QED BY <1>1, LoadingIsAt
  <1>11. LoadedInOrder'
    BY <1>1, <1>3, <1>8, <1>9, <1>10 DEF LoadedInOrder
  <1> QED BY <1>1, <1>2, <1>3, <1>11, GoneKeeps DEF SourcesInv

(* The runtime's own steps.                                                  *)
LEMMA RuntimeNext ==
    ASSUME SourcesInv, Load \/ StartRaises \/ Started \/ Shutdown \/ Stopped
    PROVE  SourcesInv'
  <1> USE Numbers
  <1>1. CASE Load
    <2>1. /\ runtime = "starting" /\ at \in 1..Len(Order) /\ pc[Order[at]] = "new"
          /\ pc' = [pc EXCEPT ![Order[at]] = "connecting"]
          /\ UNCHANGED <<server, register, runtime, at, event, ready, page, got, bounds, accepted>>
      BY <1>1 DEF Load, boot, SourcesInv, LoadedInOrder
    <2>2. \A t \in Sources : pc'[t] = IF t = Order[at] THEN "connecting" ELSE pc[t]
      BY <2>1 DEF SourcesInv, TypeOK
    <2>3. \A i \in 1..Len(Order) : Order[i] \in Sources /\ (Order[i] = Order[at] <=> i = at)
      BY <2>1, OrderFacts
    <2>4. LoadedInOrder'
      <3>1. \A i \in 1..Len(Order) : /\ i < at => Loaded(Order[i])
                                     /\ i > at => pc[Order[i]] = "new"
        BY <2>1 DEF SourcesInv, LoadedInOrder, Before
      <3>2. \A i \in 1..Len(Order) : /\ i < at => Loaded(Order[i])'
                                     /\ i > at => pc'[Order[i]] = "new"
                                     /\ i = at => pc'[Order[i]] = "connecting"
        BY <2>1, <2>2, <2>3, <3>1 DEF Loaded
      <3>3. Before'
        BY <2>1, <3>2 DEF Before
      <3> QED BY <2>1, <3>2, <3>3 DEF LoadedInOrder
    <2>5. NotLoadedIsEmpty'
      BY <2>1, <2>2 DEF SourcesInv, NotLoadedIsEmpty, Loaded, server
    <2>6. TypeOK'
      BY <2>1 DEF SourcesInv, TypeOK, Phase, server, bounds
    <2> QED BY <2>1, <2>4, <2>5, <2>6 DEF SourcesInv, OneListing
  <1>2. ASSUME StartRaises \/ Started \/ Shutdown \/ Stopped
        PROVE  SourcesInv'
    <2>1. UNCHANGED <<server, register, source, bounds, accepted>>
      BY <1>2 DEF StartRaises, Started, Shutdown, Stopped
    <2>2. OneListing' /\ NotLoadedIsEmpty'
      BY <2>1 DEF SourcesInv, OneListing, NotLoadedIsEmpty, Loaded, server, source
    <2>3. at' \in 0..(Len(Order) + 1)
      BY <1>2 DEF StartRaises, Started, Shutdown, Stopped, SourcesInv, TypeOK, LoadedInOrder
    <2>4. runtime' \in {"starting", "up", "failing", "abandoned", "closing", "failed", "closed"}
      BY <1>2 DEF StartRaises, Started, Shutdown, Stopped
    <2>5. TypeOK'
      BY <2>1, <2>3, <2>4 DEF SourcesInv, TypeOK, server, source, bounds
    <2>6. LoadedInOrder'
      <3>1. CASE Started
        <4>1. runtime = "starting" /\ at > Len(Order) /\ runtime' = "up"
          BY <3>1 DEF Started
        <4>2. \A i \in 1..Len(Order) : Loaded(Order[i])
          BY <4>1 DEF SourcesInv, LoadedInOrder, Before
        <4>3. \A s \in Sources : Loaded(s)
          BY <4>2, OrderFacts DEF Loaded
        <4> QED BY <2>1, <4>1, <4>3 DEF LoadedInOrder, Loaded, source
      <3>2. CASE Shutdown
        <4>1. /\ runtime \in {"up", "failed", "abandoned"}
              /\ runtime' = "closing" /\ at' = Len(Order)
          BY <3>2 DEF Shutdown
        <4>2. \A s \in Sources : pc[s] \notin {"connecting", "loading"}
          BY <4>1 DEF SourcesInv, LoadedInOrder, Loaded
        <4>3. Beyond'
          BY <4>1 DEF Beyond
        <4> QED BY <2>1, <4>1, <4>2, <4>3 DEF LoadedInOrder, source
      <3>3. CASE Stopped
        <4>1. /\ runtime \in {"failing", "closing"} /\ at = 0
              /\ runtime' \in {"failed", "closed"}
          BY <3>3 DEF Stopped
        <4>2. \A i \in 1..Len(Order) : pc[Order[i]] \in {"new", "closed"}
          BY <4>1 DEF SourcesInv, LoadedInOrder, Beyond
        <4>3. \A s \in Sources : pc[s] \in {"new", "closed"}
          BY <4>2, OrderFacts
        <4> QED BY <2>1, <4>1, <4>3 DEF LoadedInOrder, source
      <3>4. CASE StartRaises
        <4>1. /\ runtime = "starting" /\ runtime' = "failing" /\ at' = at - 1
              /\ at > Len(Order) \/ (at = 1 /\ pc[Order[1]] = "new")
          BY <3>4 DEF StartRaises
        <4>2. at \in 1..(Len(Order) + 1) /\ Before
          BY <4>1 DEF SourcesInv, LoadedInOrder
        <4>3. at' \in 0..Len(Order)
          BY <4>1, <4>2
        <4>4. Through'
          BY <2>1, <4>1, <4>2 DEF Through, Before, Loaded, source
        <4>5. Beyond'
          <5>1. \A i \in 1..Len(Order) : i > at => pc[Order[i]] = "new"
            BY <4>1 DEF SourcesInv, LoadedInOrder
          <5> SUFFICES ASSUME NEW i \in 1..Len(Order), i > at - 1
                       PROVE  pc[Order[i]] \in {"new", "closed"}
            BY <2>1, <4>1 DEF Beyond, source
          <5> QED BY <4>1, <4>2, <5>1
        <4> QED BY <4>1, <4>3, <4>4, <4>5 DEF LoadedInOrder
      <3> QED BY <1>2, <3>1, <3>2, <3>3, <3>4
    <2> QED BY <2>2, <2>5, <2>6 DEF SourcesInv
  <1> QED BY <1>1, <1>2

LEMMA SourcesNext == SourcesInv /\ [Next]_vars => SourcesInv'
  <1> SUFFICES ASSUME SourcesInv, [Next]_vars PROVE SourcesInv'
    OBVIOUS
  <1>1. CASE UNCHANGED vars
    BY <1>1 DEF vars, server, boot, source, bounds, SourcesInv, TypeOK, OneListing,
       NotLoadedIsEmpty, LoadedInOrder, Before, Through, Beyond, Loaded
  <1>2. CASE Next
    BY <1>2, StepsOfNext, QuietNext, AcceptNext, LoadFailsNext, CloseSourceNext, RuntimeNext
  <1> QED BY <1>1, <1>2

(* In every state the register, the sources and the runtime agree on what is *)
(* loaded.                                                                   *)
THEOREM SourcesCoherent == Spec => []SourcesInv
  BY SourcesInit, SourcesNext, PTL DEF Spec

(* What is registered for a source is one complete listing it has accepted,  *)
(* whatever fails, is published or is closed while it is received            *)
(* (ToolRegister.replace_source, McpToolSource.refresh).                     *)
THEOREM RegistersOneListing == Spec => []OneListing
  <1>1. SourcesInv => OneListing
    BY DEF SourcesInv
  <1> QED BY <1>1, SourcesCoherent, PTL

(* A runtime that is closed has left no tool of any source in the register,  *)
(* no session open and no source ready, whichever loads and closes raised    *)
(* and whether or not its start was undone to the end; nor has one whose     *)
(* failed start was (RuntimeKernel.initialize and close, McpToolSource.load  *)
(* and close).                                                               *)
THEOREM StoppedLeavesNothing == Spec => []NothingIsLeft
  <1>1. SourcesInv => NothingIsLeft
    <2> SUFFICES ASSUME SourcesInv, runtime \in {"failed", "closed"}, NEW s \in Sources
                 PROVE  Owned(s) = {} /\ session[s] = "none" /\ ~ready[s]
      BY DEF NothingIsLeft
    <2>1. pc[s] \in {"new", "closed"} /\ ~Loaded(s)
      BY DEF SourcesInv, LoadedInOrder, Loaded
    <2>2. accepted[s] = Nothing /\ session[s] = "none" /\ ~ready[s]
      BY <2>1 DEF SourcesInv, NotLoadedIsEmpty
    <2>3. \A n \in Names : register[n].owner # s
      BY <2>2 DEF SourcesInv, OneListing, Nothing
    <2> QED BY <2>2, <2>3 DEF Owned
  <1> QED BY <1>1, SourcesCoherent, PTL

-----------------------------------------------------------------------------
(* Notifications.                                                            *)

(* What a listing has received of the server's tools.                        *)
Received(s) == UNION {Pages[s][i] : i \in 1..page[s]}

(* A server publishes only what it may; before its first listing a source    *)
(* has received nothing.                                                     *)
OfferedOnly(s) ==
    /\ \A n \in Names : remote[s][n] # Absent => n \in Offered[s]
    /\ pc[s] \in {"new", "connecting"} => page[s] = 0 /\ got[s] = Nothing

(* As long as no change is announced, what a watched source has received is  *)
(* what the server publishes now, and so is what it has accepted once it is  *)
(* ready and waits: a change during a listing leaves its mark in the event   *)
(* that was cleared before the listing.                                      *)
Unchanged(s) == session[s] = "open" /\ ~event[s] /\ ~notified[s]

ReceivedIsCurrent(s) ==
    \A n \in Names : got[s][n] = IF n \in Received(s) THEN remote[s][n] ELSE Absent

ListingIsCurrent(s) ==
    s \in Watches \cap Advertises /\ Unchanged(s) =>
        /\ pc[s] \in {"loading", "refreshing"} => ReceivedIsCurrent(s)
        /\ pc[s] = "waiting" /\ ready[s] => Current(s)

CurrentInv == SourcesInv /\ \A s \in Sources : OfferedOnly(s) /\ ListingIsCurrent(s)

LEMMA NothingReceived ==
    ASSUME NEW s \in Sources, page[s] = 0, got[s] = Nothing
    PROVE  ReceivedIsCurrent(s)
  BY DEF ReceivedIsCurrent, Received, Nothing

(* A page adds what the server publishes of it.                              *)
LEMMA PageReceived ==
    ASSUME TypeOK, NEW s \in Sources, ReceivedIsCurrent(s)
    PROVE  \A n \in Names : WithPage(s)[n] =
              IF n \in Received(s) \cup Pages[s][page[s] + 1] THEN remote[s][n] ELSE Absent
  BY DEF WithPage, ReceivedIsCurrent

LEMMA OnePageMore ==
    ASSUME TypeOK, NEW s \in Sources
    PROVE  UNION {Pages[s][i] : i \in 1..(page[s] + 1)} = Received(s) \cup Pages[s][page[s] + 1]
  <1>1. page[s] \in Nat
    BY PagesAreLists DEF TypeOK
  <1>2. 1..(page[s] + 1) = (1..page[s]) \cup {page[s] + 1}
    BY <1>1
  <1> QED BY <1>2 DEF Received

LEMMA CurrentInit == Init => CurrentInv
  <1> SUFFICES ASSUME Init, NEW s \in Sources PROVE OfferedOnly(s) /\ ListingIsCurrent(s)
    BY SourcesInit DEF CurrentInv
  <1>1. \A n \in Names : remote[s][n] # Absent => n \in Offered[s]
    BY DEF Init
  <1> QED BY <1>1 DEF Init, OfferedOnly, ListingIsCurrent, Unchanged

(* The sources a step does not concern.                                      *)
Same(t) ==
    /\ remote'[t] = remote[t] /\ session'[t] = session[t] /\ notified'[t] = notified[t]
    /\ event'[t] = event[t] /\ pc'[t] = pc[t] /\ ready'[t] = ready[t]
    /\ page'[t] = page[t] /\ got'[t] = got[t] /\ accepted'[t] = accepted[t]

LEMMA SameKeeps ==
    ASSUME NEW t \in Sources, Same(t), OfferedOnly(t), ListingIsCurrent(t)
    PROVE  OfferedOnly(t)' /\ ListingIsCurrent(t)'
  BY DEF Same, OfferedOnly, ListingIsCurrent, Unchanged, ReceivedIsCurrent, Received, Current, Selected

(* A step of a source, or of the runtime on a source.                        *)
Concerns(s) ==
    \/ Quietly(s) \/ LoadFails(s) \/ Accept(s)
    \/ s = Order[at] /\ (Load \/ CloseSource \/ CloseRaises)

LEMMA OthersSame ==
    ASSUME SourcesInv, NEW s \in Sources, Concerns(s), NEW t \in Sources, t # s
    PROVE  Same(t)
  <1>1. ASSUME NEW n \in Names, NEW v \in Versions \cup {Absent}, Publish(s, n, v) PROVE Same(t)
    BY <1>1 DEF SourcesInv, TypeOK, Same, Publish, source
  <1>2. CASE Trouble(s)
    BY <1>2 DEF SourcesInv, TypeOK, Same, Trouble, source
  <1>3. CASE HandleChanged(s) \/ HandleFailure(s) \/ Connect(s)
    BY <1>3 DEF SourcesInv, TypeOK, Same, HandleChanged, HandleFailure, Connect
  <1>4. CASE ReceivePage(s)
    BY <1>4 DEF SourcesInv, TypeOK, Same, ReceivePage, server
  <1>5. CASE RefreshFails(s) \/ Retry(s) \/ Refresh(s)
    BY <1>5 DEF SourcesInv, TypeOK, Same, RefreshFails, Retry, Refresh, server
  <1>6. CASE Accept(s)
    BY <1>6 DEF SourcesInv, TypeOK, Same, Accept, server
  <1>7. CASE Gone(s)
    BY <1>7 DEF SourcesInv, TypeOK, Same, Gone
  <1>8. CASE s = Order[at] /\ Load
    BY <1>8 DEF SourcesInv, TypeOK, Same, Load, server
  <1> QED BY <1>1, <1>2, <1>3, <1>4, <1>5, <1>6, <1>7, <1>8 DEF Concerns, Quietly, LoadFails, CloseSource, CloseRaises

(* What the source itself keeps.                                             *)
LEMMA OneKeeps ==
    ASSUME CurrentInv, NEW s \in Sources, Concerns(s)
    PROVE  OfferedOnly(s)' /\ ListingIsCurrent(s)'
  <1>0. SourcesInv /\ TypeOK /\ OfferedOnly(s) /\ ListingIsCurrent(s)
    BY DEF CurrentInv, SourcesInv
  <1>1. ASSUME NEW n \in Names, NEW v \in Versions \cup {Absent}, Publish(s, n, v)
        PROVE  OfferedOnly(s)' /\ ListingIsCurrent(s)'
    <2>1. n \in Offered[s] /\ remote' = [remote EXCEPT ![s][n] = v]
      BY <1>1 DEF Publish
    <2>2. \A m \in Names : remote'[s][m] = IF m = n THEN v ELSE remote[s][m]
      BY <1>0, <2>1 DEF TypeOK, Listing
    <2>3. UNCHANGED <<session, source, accepted>>
      BY <1>1 DEF Publish
    <2>4. s \in Advertises /\ session[s] = "open" => notified'[s]
      BY <1>0, <1>1 DEF Publish, TypeOK
    <2> QED BY <1>0, <2>1, <2>2, <2>3, <2>4 DEF OfferedOnly, ListingIsCurrent, Unchanged, source
  <1>2. CASE Trouble(s)
    <2>1. UNCHANGED <<remote, notified, source, accepted>> /\ (session'[s] = "open" => session[s] = "open")
      BY <1>0, <1>2 DEF Trouble, TypeOK
    <2> QED BY <1>0, <2>1 DEF OfferedOnly, ListingIsCurrent, Unchanged, ReceivedIsCurrent, Received,
               Current, Selected, source
  <1>3. CASE HandleChanged(s)
    <2>1. /\ UNCHANGED <<remote, session, pc, page, got>> /\ session[s] = "open"
          /\ s \in Watches => event'[s]
      BY <1>0, <1>3 DEF HandleChanged, TypeOK
    <2> QED BY <1>0, <2>1 DEF OfferedOnly, ListingIsCurrent, Unchanged
  <1>4. CASE HandleFailure(s)
    <2>1. /\ UNCHANGED <<remote, session, notified, pc, page, got>>
          /\ ~ready'[s] /\ (event[s] => event'[s])
      BY <1>0, <1>4 DEF HandleFailure, TypeOK
    <2> QED BY <1>0, <2>1 DEF OfferedOnly, ListingIsCurrent, Unchanged, ReceivedIsCurrent, Received
  <1>5. CASE Connect(s)
    <2>1. /\ UNCHANGED <<remote, page, got>> /\ pc[s] = "connecting" /\ pc'[s] = "loading"
          /\ page[s] = 0 /\ got[s] = Nothing
      BY <1>0, <1>5 DEF Connect, TypeOK, OfferedOnly
    <2>2. ReceivedIsCurrent(s)'
      BY <2>1, NothingReceived DEF ReceivedIsCurrent, Received
    <2> QED BY <1>0, <2>1, <2>2 DEF OfferedOnly, ListingIsCurrent
  <1>6. CASE ReceivePage(s)
    <2>1. /\ UNCHANGED <<remote, session, notified, event, pc>>
          /\ pc[s] \in {"loading", "refreshing"}
          /\ page'[s] = page[s] + 1 /\ got'[s] = WithPage(s)
      BY <1>0, <1>6 DEF ReceivePage, Receiving, TypeOK, server
    <2>2. ReceivedIsCurrent(s) => ReceivedIsCurrent(s)'
      BY <1>0, <2>1, PageReceived, OnePageMore DEF ReceivedIsCurrent, Received
    <2> QED BY <1>0, <2>1, <2>2 DEF OfferedOnly, ListingIsCurrent, Unchanged
  <1>7. CASE RefreshFails(s)
    <2>1. UNCHANGED remote /\ pc'[s] = "asleep"
      BY <1>0, <1>7 DEF RefreshFails, TypeOK, server
    <2> QED BY <1>0, <2>1 DEF OfferedOnly, ListingIsCurrent
  <1>8. CASE Retry(s)
    <2>1. UNCHANGED remote /\ pc'[s] = "waiting" /\ event'[s]
      BY <1>0, <1>8 DEF Retry, TypeOK, server
    <2> QED BY <1>0, <2>1 DEF OfferedOnly, ListingIsCurrent, Unchanged
  <1>9. CASE Refresh(s)
    <2>1. UNCHANGED remote /\ pc'[s] = "refreshing" /\ page'[s] = 0 /\ got'[s] = Nothing
      BY <1>0, <1>9 DEF Refresh, TypeOK, server
    <2>2. ReceivedIsCurrent(s)'
      BY <2>1 DEF ReceivedIsCurrent, Received, Nothing
    <2> QED BY <1>0, <2>1, <2>2 DEF OfferedOnly, ListingIsCurrent
  <1>10. CASE Accept(s)
    <2>1. /\ UNCHANGED <<server, event>> /\ pc[s] \in {"loading", "refreshing"}
          /\ pc'[s] \in {"waiting", "static"}
          /\ page[s] + 1 = Len(Pages[s])
          /\ accepted'[s] = Selected(s, WithPage(s))
      BY <1>0, <1>10 DEF Accept, LastPage, Receiving, Running, TypeOK
    <2>2. ASSUME ReceivedIsCurrent(s), NEW n \in Names PROVE WithPage(s)[n] = remote[s][n]
      <3>1. WithPage(s)[n] = IF n \in Received(s) \cup Pages[s][page[s] + 1]
                             THEN remote[s][n] ELSE Absent
        BY <1>0, <2>2, PageReceived
      <3>2. Offered[s] \subseteq Received(s) \cup Pages[s][page[s] + 1]
        BY <1>0, <2>1, OnePageMore, SourcesAssumption
      <3> QED BY <1>0, <3>1, <3>2 DEF OfferedOnly
    <2>3. ReceivedIsCurrent(s) => Current(s)'
      BY <2>1, <2>2 DEF Current, Selected, server
    <2> QED BY <1>0, <2>1, <2>3 DEF OfferedOnly, ListingIsCurrent, Unchanged, server
  <1>11. CASE Gone(s)
    <2>1. UNCHANGED remote /\ pc'[s] = "closed"
      BY <1>0, <1>11 DEF Gone, TypeOK
    <2> QED BY <1>0, <2>1 DEF OfferedOnly, ListingIsCurrent
  <1>12. CASE s = Order[at] /\ Load
    <2>1. UNCHANGED <<remote, page, got>> /\ pc[s] = "new" /\ pc'[s] = "connecting"
      BY <1>0, <1>12 DEF Load, TypeOK, server
    <2> QED BY <1>0, <2>1 DEF OfferedOnly, ListingIsCurrent
  <1> QED BY <1>1, <1>2, <1>3, <1>4, <1>5, <1>6, <1>7, <1>8, <1>9, <1>10, <1>11, <1>12
          DEF Concerns, Quietly, LoadFails, CloseSource, CloseRaises

LEMMA CurrentNext == CurrentInv /\ [Next]_vars => CurrentInv'
  <1> SUFFICES ASSUME CurrentInv, [Next]_vars PROVE CurrentInv'
    OBVIOUS
  <1>1. SourcesInv'
    BY SourcesNext DEF CurrentInv
  <1>2. ASSUME NEW s \in Sources, Concerns(s) PROVE CurrentInv'
    <2> SUFFICES ASSUME NEW t \in Sources PROVE OfferedOnly(t)' /\ ListingIsCurrent(t)'
      BY <1>1 DEF CurrentInv
    <2>1. CASE t = s
      BY <1>2, <2>1, OneKeeps
    <2>2. CASE t # s
      BY <1>2, <2>2, OthersSame, SameKeeps DEF CurrentInv
    <2> QED BY <2>1, <2>2
  <1>3. CASE StartRaises \/ Started \/ Shutdown \/ Stopped \/ UNCHANGED vars
    <2> SUFFICES ASSUME NEW t \in Sources PROVE OfferedOnly(t)' /\ ListingIsCurrent(t)'
      BY <1>1 DEF CurrentInv
    <2>1. Same(t)
      BY <1>3 DEF StartRaises, Started, Shutdown, Stopped, Same, vars, server, source
    <2> QED BY <2>1, SameKeeps DEF CurrentInv
  <1>4. CASE Load \/ CloseSource \/ CloseRaises
    <2>1. at \in 1..Len(Order)
      BY <1>4, Numbers DEF Load, CloseSource, CloseRaises, CurrentInv, SourcesInv, LoadedInOrder
    <2>2. Order[at] \in Sources /\ Concerns(Order[at])
      BY <1>4, <2>1, OrderFacts DEF Concerns
    <2> QED BY <1>2, <2>2
  <1>5. ASSUME NEW s \in Sources, Quietly(s) \/ LoadFails(s) \/ Accept(s) PROVE CurrentInv'
    BY <1>2, <1>5 DEF Concerns
  <1> QED BY <1>3, <1>4, <1>5, StepsOfNext

(* No notification is lost: while its transport works, a watched source that *)
(* is ready, waits and has no change announced serves exactly what its       *)
(* server publishes now, even when the change came between two pages of a    *)
(* listing or while the source was loaded (McpToolSource._refresh_loop       *)
(* clears the event before it lists; _request_refresh).                      *)
THEOREM NoNotificationIsLost == Spec => []ReadyIsCurrent
  <1>1. CurrentInv => ReadyIsCurrent
    <2> SUFFICES ASSUME CurrentInv, NEW s \in Watches \cap Advertises,
                        pc[s] = "waiting" /\ ready[s] /\ session[s] = "open",
                        ~event[s] /\ ~notified[s]
                 PROVE  Current(s)
      BY DEF ReadyIsCurrent
    <2>1. s \in Sources
      BY SourcesAssumption
    <2> QED BY <2>1 DEF CurrentInv, ListingIsCurrent, Unchanged
  <1> QED BY <1>1, CurrentInit, CurrentNext, PTL DEF Spec
=============================================================================
