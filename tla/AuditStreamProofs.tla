-------------------------- MODULE AuditStreamProofs --------------------------
(***************************************************************************)
(* Proofs about AuditStream for any number of overlapping runs, rows,      *)
(* batch size and retry budget: its types, at-least-once delivery, its     *)
(* refinement of AtLeastOnceFeed and, for one run at a time, its windows.  *)
(***************************************************************************)
EXTENDS AuditStream, TLAPS

(* The deployments the delivery theorems are about: the source is ordered, *)
(* or no store drops a body because of its batch id.                       *)
SafeMode == InOrder \/ (~KeyedSink /\ ~HasDLQ)

(* Every row up to position c has been handed over, or is excused.         *)
Covered(c) == \A p \in ever : p <= c => p \in Handled \cup late

Cursors ==
  /\ Covered(stored.checkpoint)
  /\ \A r \in Runners : Covered(cursor[r])

(* A cursor names a committed row, so an ordered commit lands above it.    *)
CursorsName ==
  /\ stored.checkpoint \in ever \cup {0}
  /\ \A r \in Runners : cursor[r] \in ever \cup {0}

(* What a runner holds in memory while its page is in flight.              *)
Pages ==
  \A r \in Runners :
    /\ pc[r] \in InFlight =>
         /\ page[r].rows \subseteq ever
         /\ page[r].first \in Pos /\ page[r].last \in ever
         /\ \A p \in ever : p <= page[r].last
              => p \in page[r].rows \cup Handled \cup late
    /\ pc[r] = "advance" => page[r].rows \subseteq Handled
    /\ pc[r] = "dlq" => HasDLQ
    /\ pc[r] = "idle" => cursor[r] = 0

Rows ==
  /\ log \subseteq ever
  /\ Handled \subseteq ever
  /\ ever \ log \subseteq Handled \cup late

(* The rows an ordered source holds between two committed positions.       *)
Between(first, last) == {p \in ever : first <= p /\ p <= last}

(* Retention removes a prefix, so the visible rows are a suffix.           *)
LogSuffix == \A p \in log, q \in ever : p <= q => q \in log

PagesExact ==
  \A r \in Runners : pc[r] \in InFlight =>
    page[r].rows = Between(page[r].first, page[r].last)

(* With an ordered source a batch id determines the batch.                 *)
StoresExact ==
  \A b \in BatchIds :
    /\ sink[b] # {} => b[2] \in ever /\ sink[b] = Between(b[1], b[2])
    /\ dlq[b] # {} => b[2] \in ever /\ dlq[b] = Between(b[1], b[2])

Exact == InOrder => LogSuffix /\ PagesExact /\ StoresExact

IInv == TypeOK /\ Rows /\ Cursors /\ CursorsName /\ Pages /\ Exact

-----------------------------------------------------------------------------
(* Positions are numbers, and 0 is not the position of a row.              *)
LEMMA PosFacts ==
  /\ Position \subseteq Nat /\ Pos \subseteq Position /\ 0 \in Position
  /\ \A p \in Pos : p \in Int /\ p >= 1 /\ p \in Position
  /\ \A p \in Position : p \in Int
  BY NPosAssumption DEF Position, Pos

(* The stores only ever gain rows of the page they are given.              *)
LEMMA StoreFacts ==
  ASSUME NEW B \in [BatchIds -> SUBSET Pos], NEW b \in BatchIds, NEW S \in SUBSET Pos
  PROVE  /\ PutOnce(B, b, S) \in [BatchIds -> SUBSET Pos]
         /\ Receive(B, b, S) \in [BatchIds -> SUBSET Pos]
         /\ Stored(B) \subseteq Stored(PutOnce(B, b, S))
         /\ Stored(B) \subseteq Stored(Receive(B, b, S))
         /\ Stored(PutOnce(B, b, S)) \subseteq Stored(B) \cup S
         /\ Stored(Receive(B, b, S)) \subseteq Stored(B) \cup S
         /\ PutOnce(B, b, S)[b] \subseteq Stored(PutOnce(B, b, S))
         /\ Receive(B, b, S)[b] \subseteq Stored(Receive(B, b, S))
         /\ ~KeyedSink => S \subseteq Receive(B, b, S)[b]
         /\ B[b] = {} \/ B[b] = S => PutOnce(B, b, S)[b] = S
         /\ B[b] = {} \/ B[b] = S => Receive(B, b, S)[b] = S
         /\ \A c \in BatchIds : c # b =>
              PutOnce(B, b, S)[c] = B[c] /\ Receive(B, b, S)[c] = B[c]
  <1>1. PutOnce(B, b, S) \in [BatchIds -> SUBSET Pos]
    BY DEF PutOnce
  <1>2. Receive(B, b, S) \in [BatchIds -> SUBSET Pos]
    BY <1>1 DEF Receive
  <1>3. Stored(B) \subseteq Stored(PutOnce(B, b, S))
        /\ Stored(PutOnce(B, b, S)) \subseteq Stored(B) \cup S
    BY DEF PutOnce, Stored
  <1>4. Stored(B) \subseteq Stored(Receive(B, b, S))
        /\ Stored(Receive(B, b, S)) \subseteq Stored(B) \cup S
    <2>1. CASE KeyedSink
      BY <2>1, <1>3 DEF Receive
    <2>2. CASE ~KeyedSink
      BY <2>2 DEF Receive, Stored
    <2> QED BY <2>1, <2>2
  <1>5. /\ PutOnce(B, b, S)[b] \subseteq Stored(PutOnce(B, b, S))
        /\ Receive(B, b, S)[b] \subseteq Stored(Receive(B, b, S))
    BY <1>1, <1>2 DEF Stored
  <1>6. /\ ~KeyedSink => S \subseteq Receive(B, b, S)[b]
        /\ B[b] = {} \/ B[b] = S => PutOnce(B, b, S)[b] = S
        /\ B[b] = {} \/ B[b] = S => Receive(B, b, S)[b] = S
        /\ \A c \in BatchIds : c # b =>
              PutOnce(B, b, S)[c] = B[c] /\ Receive(B, b, S)[c] = B[c]
    BY DEF PutOnce, Receive
  <1> QED BY <1>1, <1>2, <1>3, <1>4, <1>5, <1>6

(* A run that ends leaves well-typed memory.                               *)
LEMMA StopType ==
  ASSUME TypeOK, NEW r \in Runners, Stop(r)
  PROVE  /\ pc' \in [Runners -> Locations]
         /\ cursor' \in [Runners -> Position] /\ bound' \in [Runners -> Position]
         /\ hw' \in [Runners -> Position]
         /\ page' \in [Runners -> PageRec]
         /\ attempt' \in [Runners -> 0..(MaxRetries + 1)]
  <1>1. NoPage \in PageRec
    BY PosFacts DEF NoPage, PageRec
  <1> QED BY <1>1, PosFacts, SizeAssumption DEF Stop, TypeOK, Locations

(* A page in flight names its first and last row.                          *)
PageNamed ==
  \A r \in Runners : pc[r] \in InFlight =>
    page[r].first \in Pos /\ page[r].last \in Pos

(* The batch id of a page in flight is one the stores may hold.            *)
LEMMA NamedBatchType ==
  ASSUME TypeOK, PageNamed, NEW r \in Runners, pc[r] \in InFlight
  PROVE  BatchId(r) \in BatchIds /\ page[r].rows \in SUBSET Pos
  BY DEF TypeOK, PageNamed, BatchId, BatchIds, PageRec

(* Types hold at first, and no page is in flight.                          *)
LEMMA TypeInit == Init => TypeOK /\ PageNamed
  <1> SUFFICES ASSUME Init PROVE TypeOK /\ PageNamed
    OBVIOUS
  <1>1. PICK n \in StartAt : Init!(n)
    BY DEF Init
  <1>2. n \in Position /\ 1..n \subseteq Pos
    BY StartAssumption, NPosAssumption DEF Position, Pos
  <1>3. NoPage \in PageRec
    BY PosFacts DEF NoPage, PageRec
  <1>4. stored \in StateRec
    BY <1>1, <1>2 DEF StateRec
  <1>5. sink \in [BatchIds -> SUBSET Pos] /\ dlq \in [BatchIds -> SUBSET Pos]
    BY <1>1, <1>2
  <1> QED BY <1>1, <1>2, <1>3, <1>4, <1>5, PosFacts, SizeAssumption
           DEF TypeOK, PageNamed, Locations, InFlight

(* Every step keeps the types and the names of pages in flight.            *)
LEMMA TypeStep ==
  ASSUME TypeOK, PageNamed, [Next]_vars
  PROVE  TypeOK' /\ PageNamed'
  <1> USE DEF rows, stores, locals, vars
  <1>1. ASSUME NEW r \in Runners, Load(r) PROVE TypeOK' /\ PageNamed'
    BY <1>1, PosFacts DEF Load, TypeOK, PageNamed, StateRec, Locations, InFlight
  <1>2. ASSUME NEW r \in Runners, ResetWindow(r) PROVE TypeOK' /\ PageNamed'
    BY <1>2, PosFacts DEF ResetWindow, TypeOK, PageNamed, StateRec, Locations, InFlight
  <1>3. ASSUME NEW r \in Runners, ResolveWatermark(r) PROVE TypeOK' /\ PageNamed'
    BY <1>3, PosFacts DEF ResolveWatermark, Window, TypeOK, PageNamed, Locations, InFlight
  <1>4. ASSUME NEW r \in Runners, Stop(r), UNCHANGED <<log, ever, sink, dlq>>,
               late' \subseteq late, stored' \in StateRec
        PROVE  TypeOK' /\ PageNamed'
    <2>1. TypeOK'
      BY <1>4, StopType DEF TypeOK
    <2>2. PageNamed'
      BY <1>4 DEF Stop, PageNamed, TypeOK, InFlight
    <2> QED BY <2>1, <2>2
  <1>5. ASSUME NEW r \in Runners, ReadPage(r) PROVE TypeOK' /\ PageNamed'
    <2>1. PICK first, last \in Window(r, hw[r]) :
             page' = [page EXCEPT ![r] =
               [rows |-> {p \in Window(r, hw[r]) : p <= last}, first |-> first,
                last |-> last, more |-> {p \in Window(r, hw[r]) : p <= last} # Window(r, hw[r])]]
      BY <1>5 DEF ReadPage
    <2>2. Window(r, hw[r]) \subseteq Pos
      BY DEF Window, TypeOK
    <2>3. page' \in [Runners -> PageRec]
      BY <2>1, <2>2, PosFacts DEF TypeOK, PageRec
    <2>4. attempt' \in [Runners -> 0..(MaxRetries + 1)]
      BY <1>5, SizeAssumption DEF ReadPage, TypeOK
    <2> QED BY <1>5, <2>1, <2>2, <2>3, <2>4 DEF ReadPage, TypeOK, PageNamed, Locations, InFlight
  <1>6. ASSUME NEW r \in Runners, PersistWindow(r) PROVE TypeOK' /\ PageNamed'
    BY <1>6 DEF PersistWindow, TypeOK, PageNamed, StateRec, Locations, InFlight
  <1>7. ASSUME NEW r \in Runners, pc[r] \in InFlight
        PROVE  /\ Receive(sink, BatchId(r), page[r].rows) \in [BatchIds -> SUBSET Pos]
               /\ PutOnce(dlq, BatchId(r), page[r].rows) \in [BatchIds -> SUBSET Pos]
    BY <1>7, NamedBatchType, StoreFacts DEF TypeOK
  <1>8. ASSUME NEW r \in Runners, DeliverAck(r) PROVE TypeOK' /\ PageNamed'
    <2>1. sink' \in [BatchIds -> SUBSET Pos]
      BY <1>7, <1>8 DEF DeliverAck, InFlight
    <2> QED BY <1>8, <2>1 DEF DeliverAck, TypeOK, PageNamed, Locations, InFlight
  <1>9. ASSUME NEW r \in Runners, DeliverRetry(r) PROVE TypeOK' /\ PageNamed'
    <2>1. sink' \in [BatchIds -> SUBSET Pos]
      BY <1>7, <1>9 DEF DeliverRetry, MaybeReceived, InFlight, TypeOK
    <2>2. attempt' \in [Runners -> 0..(MaxRetries + 1)]
      BY <1>9, SizeAssumption DEF DeliverRetry, TypeOK
    <2> QED BY <1>9, <2>1, <2>2 DEF DeliverRetry, TypeOK, PageNamed
  <1>10. ASSUME NEW r \in Runners, DeliverExhausted(r) PROVE TypeOK' /\ PageNamed'
    <2>1. sink' \in [BatchIds -> SUBSET Pos]
      BY <1>7, <1>10 DEF DeliverExhausted, MaybeReceived, InFlight, TypeOK
    <2>2. TypeOK'
      BY <1>10, <2>1, StopType DEF DeliverExhausted, TypeOK
    <2>3. PageNamed'
      BY <1>10 DEF DeliverExhausted, Stop, PageNamed, TypeOK, InFlight
    <2> QED BY <2>2, <2>3
  <1>11. ASSUME NEW r \in Runners, DeliverTerminal(r) PROVE TypeOK' /\ PageNamed'
    <2>1. CASE HasDLQ
      BY <1>11, <2>1 DEF DeliverTerminal, TypeOK, PageNamed, Locations, InFlight
    <2>2. CASE ~HasDLQ
      BY <1>4, <1>11, <2>2 DEF DeliverTerminal, TypeOK
    <2> QED BY <2>1, <2>2
  <1>12. ASSUME NEW r \in Runners, DeadLetter(r) PROVE TypeOK' /\ PageNamed'
    <2>1. dlq' \in [BatchIds -> SUBSET Pos]
      BY <1>7, <1>12 DEF DeadLetter, InFlight
    <2> QED BY <1>12, <2>1 DEF DeadLetter, TypeOK, PageNamed, Locations, InFlight
  <1>13. ASSUME NEW r \in Runners, Advance(r) PROVE TypeOK' /\ PageNamed'
    <2>1. stored' \in StateRec
      BY <1>13, PosFacts DEF Advance, TypeOK, StateRec, PageRec
    <2>2. CASE page[r].more
      <3>1. NoPage \in PageRec
        BY PosFacts DEF NoPage, PageRec
      <3>2. /\ cursor' \in [Runners -> Position]
            /\ bound' \in [Runners -> Position]
            /\ page' \in [Runners -> PageRec]
        <4>1. page[r].last \in Position /\ hw[r] \in Position
          BY DEF TypeOK, PageRec
        <4>2. /\ cursor' = [cursor EXCEPT ![r] = page[r].last]
              /\ bound' = [bound EXCEPT ![r] = IF page[r].last = hw[r] THEN 0 ELSE hw[r]]
              /\ page' = [page EXCEPT ![r] = NoPage]
          BY <1>13, <2>2 DEF Advance
        <4> QED BY <3>1, <4>1, <4>2, PosFacts DEF TypeOK
      <3>3. attempt' \in [Runners -> 0..(MaxRetries + 1)]
        BY <1>13, <2>2, SizeAssumption DEF Advance, TypeOK
      <3>4. TypeOK'
        BY <1>13, <2>1, <2>2, <3>2, <3>3 DEF Advance, TypeOK, Locations
      <3>5. PageNamed'
        BY <1>13, <2>2 DEF Advance, TypeOK, PageNamed, InFlight
      <3> QED BY <3>4, <3>5
    <2>3. CASE ~page[r].more
      BY <1>4, <1>13, <2>1, <2>3 DEF Advance
    <2> QED BY <2>2, <2>3
  <1>14. ASSUME NEW p \in Pos, Commit(p) PROVE TypeOK' /\ PageNamed'
    BY <1>14 DEF Commit, TypeOK, PageNamed
  <1>15. ASSUME NEW t \in Cutoffs, Prune(t) PROVE TypeOK' /\ PageNamed'
    BY <1>15 DEF Prune, TypeOK, PageNamed
  <1>16. CASE UNCHANGED vars
    BY <1>16 DEF TypeOK, PageNamed
  <1>17. ASSUME NEW r \in Runners, Stop(r), UNCHANGED <<rows, stores>>
         PROVE  TypeOK' /\ PageNamed'
    BY <1>4, <1>17 DEF TypeOK
  <1> QED
    BY <1>1, <1>2, <1>3, <1>5, <1>6, <1>8, <1>9, <1>10, <1>11, <1>12, <1>13, <1>14,
       <1>15, <1>16, <1>17
       DEF Next, RunnerStep, ResolveEmpty, ReadEmpty, Interrupt

(* Every table row and every runner's memory keeps its type.               *)
THEOREM TypeCorrect == Spec => []TypeOK
  <1>1. TypeOK /\ PageNamed /\ [Next]_vars => (TypeOK /\ PageNamed)'
    BY TypeStep
  <1> QED BY <1>1, TypeInit, PTL DEF Spec
-----------------------------------------------------------------------------
(* What an earlier deployment has exported is exactly what the sink holds. *)
LEMMA InitHandled ==
  ASSUME NEW n \in StartAt, Init!(n)
  PROVE  Handled = 1..n
  <1>1. n \in Position /\ 1..n \subseteq Pos
    BY StartAssumption, NPosAssumption DEF Position, Pos
  <1>2. Stored(dlq) = {} /\ Stored(sink) \subseteq 1..n
    BY DEF Stored
  <1>3. 1..n \subseteq Stored(sink)
    <2>1. CASE n = 0
      BY <2>1
    <2>2. CASE n # 0
      <3>1. <<1, n>> \in BatchIds
        BY <1>1, <2>2, NPosAssumption DEF BatchIds, Position, Pos
      <3>2. sink[<<1, n>>] = 1..n
        BY <3>1
      <3> QED BY <3>1, <3>2 DEF Stored
    <2> QED BY <2>1, <2>2
  <1> QED BY <1>2, <1>3 DEF Handled

(* What an earlier deployment left behind satisfies the invariant.         *)
LEMMA InitInv == Init => IInv
  <1> SUFFICES ASSUME Init PROVE IInv
    OBVIOUS
  <1>1. PICK n \in StartAt : Init!(n)
    BY DEF Init
  <1>2. n \in Position /\ n \in Nat /\ 1..n \subseteq Pos
    BY StartAssumption, NPosAssumption DEF Position, Pos
  <1>3. TypeOK
    BY TypeInit
  <1>4. Handled = 1..n
    BY <1>1, InitHandled
  <1>5. Rows
    BY <1>1, <1>4 DEF Rows
  <1>6. Cursors
    BY <1>1, <1>4 DEF Cursors, Covered
  <1>7. CursorsName
    BY <1>1, <1>2 DEF CursorsName
  <1>8. Pages
    BY <1>1 DEF Pages, InFlight
  <1>9. Exact
    <2>1. LogSuffix /\ PagesExact
      BY <1>1 DEF LogSuffix, PagesExact, InFlight
    <2>2. ASSUME NEW b \in BatchIds, sink[b] # {}
          PROVE  b[2] \in ever /\ sink[b] = Between(b[1], b[2])
      <3>1. b = <<1, n>> /\ sink[b] = 1..n
        BY <1>1, <2>2
      <3>2. n \in 1..n
        BY <1>2, <2>2, <3>1
      <3> QED BY <1>1, <1>2, <3>1, <3>2 DEF Between
    <2>3. \A b \in BatchIds : dlq[b] = {}
      BY <1>1
    <2> QED BY <2>1, <2>2, <2>3 DEF Exact, StoresExact
  <1> QED BY <1>3, <1>5, <1>6, <1>7, <1>8, <1>9 DEF IInv

(* What a delivery attempt does to the sink.                               *)
LEMMA SinkStep ==
  ASSUME IInv, SafeMode, NEW r \in Runners, pc[r] \in InFlight,
         sink' \in {sink, Receive(sink, BatchId(r), page[r].rows)},
         UNCHANGED <<ever, dlq>>
  PROVE  /\ Handled \subseteq Handled' /\ Handled' \subseteq ever
         /\ InOrder => StoresExact'
         /\ sink' = Receive(sink, BatchId(r), page[r].rows)
              => page[r].rows \subseteq Handled'
  <1> DEFINE b == BatchId(r)
             S == page[r].rows
  <1>1. b \in BatchIds /\ S \in SUBSET Pos /\ S \subseteq ever
    BY PosFacts DEF IInv, TypeOK, Pages, BatchId, BatchIds, PageRec
  <1>2. sink \in [BatchIds -> SUBSET Pos]
    BY DEF IInv, TypeOK
  <1>3. /\ Stored(sink) \subseteq Stored(sink')
        /\ Stored(sink') \subseteq Stored(sink) \cup S
    BY <1>1, <1>2, StoreFacts
  <1>4. Handled \subseteq Handled' /\ Handled' \subseteq ever
    BY <1>1, <1>3 DEF Handled, IInv, Rows, Stored
  <1>5. InOrder => sink[b] = {} \/ sink[b] = S
    BY <1>1 DEF IInv, Exact, PagesExact, StoresExact, BatchId
  <1>6. ASSUME InOrder PROVE StoresExact'
    <2>1. S = Between(b[1], b[2]) /\ b[2] \in ever
      BY <1>6 DEF IInv, Exact, PagesExact, Pages, BatchId
    <2>2. sink'[b] \in {sink[b], S}
      BY <1>1, <1>2, <1>5, <1>6, StoreFacts
    <2>3. \A c \in BatchIds : c # b => sink'[c] = sink[c]
      BY <1>1, <1>2, StoreFacts
    <2>4. StoresExact
      BY <1>6 DEF IInv, Exact
    <2> QED BY <2>1, <2>2, <2>3, <2>4 DEF StoresExact, Between
  <1>7. ASSUME sink' = Receive(sink, b, S) PROVE S \subseteq Handled'
    <2>1. S \subseteq sink'[b]
      BY <1>1, <1>2, <1>5, <1>7, StoreFacts DEF SafeMode
    <2>2. sink'[b] \subseteq Stored(sink')
      BY <1>1, <1>2, <1>7, StoreFacts
    <2> QED BY <2>1, <2>2 DEF Handled, Stored
  <1> QED BY <1>4, <1>6, <1>7

(* What a dead-letter write does.                                          *)
LEMMA DeadLetterStep ==
  ASSUME IInv, SafeMode, NEW r \in Runners, pc[r] = "dlq",
         dlq' = PutOnce(dlq, BatchId(r), page[r].rows),
         UNCHANGED <<ever, sink>>
  PROVE  /\ Handled \subseteq Handled' /\ Handled' \subseteq ever
         /\ InOrder => StoresExact'
         /\ page[r].rows \subseteq Handled'
  <1> DEFINE b == BatchId(r)
             S == page[r].rows
  <1>1. b \in BatchIds /\ S \in SUBSET Pos /\ S \subseteq ever
    BY PosFacts DEF IInv, TypeOK, Pages, BatchId, BatchIds, PageRec, InFlight
  <1>2. dlq \in [BatchIds -> SUBSET Pos]
    BY DEF IInv, TypeOK
  <1>3. /\ Stored(dlq) \subseteq Stored(dlq')
        /\ Stored(dlq') \subseteq Stored(dlq) \cup S
    BY <1>1, <1>2, StoreFacts
  <1>4. Handled \subseteq Handled' /\ Handled' \subseteq ever
    BY <1>1, <1>3 DEF Handled, IInv, Rows, Stored
  <1>5. InOrder
    BY DEF IInv, Pages, SafeMode
  <1>6. StoresExact /\ S = Between(b[1], b[2]) /\ b[2] \in ever
    BY <1>5 DEF IInv, Exact, PagesExact, Pages, BatchId, InFlight
  <1>7. dlq[b] = {} \/ dlq[b] = S
    BY <1>1, <1>6 DEF StoresExact
  <1>8. dlq'[b] = S /\ \A c \in BatchIds : c # b => dlq'[c] = dlq[c]
    BY <1>1, <1>2, <1>7, StoreFacts
  <1>9. StoresExact'
    BY <1>6, <1>8 DEF StoresExact, Between
  <1>10. S \subseteq Handled'
    BY <1>1, <1>8 DEF Handled, Stored
  <1> QED BY <1>4, <1>9, <1>10

(* Coverage survives a step that keeps the rows and what covers them.      *)
LEMMA CoveredStable ==
  ASSUME NEW c, Covered(c), ever' = ever,
         Handled \cup late \subseteq (Handled \cup late)'
  PROVE  Covered(c)'
  BY DEF Covered

(* A run that ends, whatever it has delivered, leaves a safe state.        *)
LEMMA StopStep ==
  ASSUME IInv, NEW r \in Runners, Stop(r), TypeOK',
         UNCHANGED <<log, ever, late, stored>>,
         Handled \subseteq Handled', Handled' \subseteq ever,
         InOrder => StoresExact'
  PROVE  IInv'
  <1>1. Rows'
    BY DEF IInv, Rows
  <1>2. Cursors'
    <2>1. \A q \in Runners : cursor'[q] \in {cursor[q], 0}
      BY DEF Stop, IInv, TypeOK
    <2>2. Covered(0)'
      BY PosFacts DEF Covered, IInv, TypeOK
    <2> QED BY <2>1, <2>2, CoveredStable DEF IInv, Cursors
  <1>3. CursorsName'
    BY DEF Stop, IInv, TypeOK, CursorsName
  <1>4. Pages'
    <2>1. /\ pc'[r] = "idle" /\ cursor'[r] = 0
          /\ \A q \in Runners \ {r} :
               pc'[q] = pc[q] /\ page'[q] = page[q] /\ cursor'[q] = cursor[q]
      BY DEF Stop, IInv, TypeOK
    <2> QED BY <2>1 DEF IInv, Pages, InFlight
  <1>5. Exact'
    <2>1. ASSUME InOrder PROVE LogSuffix'
      BY <2>1 DEF IInv, Exact, LogSuffix
    <2>2. ASSUME InOrder PROVE PagesExact'
      <3>1. /\ pc'[r] = "idle"
            /\ \A q \in Runners \ {r} : pc'[q] = pc[q] /\ page'[q] = page[q]
        BY DEF Stop, IInv, TypeOK
      <3> QED BY <2>2, <3>1 DEF IInv, Exact, PagesExact, Between, InFlight
    <2> QED BY <2>1, <2>2 DEF Exact
  <1> QED BY <1>1, <1>2, <1>3, <1>4, <1>5 DEF IInv

(* A step that moves runner r between awaits, leaving its page alone.      *)
LEMMA MoveStep ==
  ASSUME IInv, NEW r \in Runners, NEW to \in Locations \ {"idle"}, TypeOK',
         pc' = [pc EXCEPT ![r] = to],
         UNCHANGED <<log, ever, late, cursor, page>>,
         stored'.checkpoint \in {stored.checkpoint, cursor[r]},
         Handled \subseteq Handled', Handled' \subseteq ever,
         InOrder => StoresExact',
         to \in InFlight => pc[r] \in InFlight,
         to = "dlq" => HasDLQ,
         to = "advance" => page[r].rows \subseteq Handled'
  PROVE  IInv'
  <1>1. Rows'
    BY DEF IInv, Rows
  <1>2. Cursors'
    BY CoveredStable DEF IInv, Cursors
  <1>3. CursorsName'
    BY DEF IInv, CursorsName
  <1>4. pc'[r] = to /\ \A q \in Runners \ {r} : pc'[q] = pc[q]
    BY DEF IInv, TypeOK
  <1>5. Pages'
    BY <1>4 DEF IInv, Pages
  <1>6. Exact'
    BY <1>4 DEF IInv, Exact, LogSuffix, PagesExact, Between
  <1> QED BY <1>1, <1>2, <1>3, <1>5, <1>6 DEF IInv

(* The window of a runner holds the visible rows above its cursor; every   *)
(* other row up to a page's end is already covered.                        *)
LEMMA ReadStep ==
  ASSUME IInv, NEW r \in Runners, ReadPage(r), TypeOK'
  PROVE  IInv'
  <1> DEFINE W == Window(r, hw[r])
  <1>1. PICK first, last \in W :
          /\ \A p \in W : first <= p
          /\ page' = [page EXCEPT ![r] =
               [rows |-> {p \in W : p <= last}, first |-> first, last |-> last,
                more |-> {p \in W : p <= last} # W]]
    BY DEF ReadPage
  <1>2. W \subseteq log /\ log \subseteq ever /\ ever \subseteq Pos
    BY DEF Window, IInv, Rows, TypeOK
  <1>3. /\ cursor[r] \in Int /\ hw[r] \in Int /\ \A p \in ever : p \in Int
         /\ first \in ever /\ last \in ever
         /\ cursor[r] < first /\ (hw[r] = 0 \/ last <= hw[r])
    BY <1>2, PosFacts DEF IInv, TypeOK, Window
  <1>4. /\ page'[r].rows = {p \in W : p <= last}
        /\ page'[r].first = first /\ page'[r].last = last
    BY <1>1 DEF IInv, TypeOK
  <1>5. /\ pc'[r] \in {"persist", "deliver"} /\ pc[r] = "read"
        /\ \A q \in Runners \ {r} : pc'[q] = pc[q] /\ page'[q] = page[q]
        /\ cursor' = cursor
    BY <1>1 DEF ReadPage, IInv, TypeOK
  <1>6. UNCHANGED <<log, ever, late, stored, sink, dlq>>
    BY DEF ReadPage, rows, stores
  <1>7. Handled' = Handled
    BY <1>6 DEF Handled, Stored
  <1>8. Rows' /\ Cursors' /\ CursorsName'
    BY <1>5, <1>6, <1>7, CoveredStable DEF IInv, Rows, Cursors, CursorsName
  <1>9. ASSUME NEW p \in ever, p <= last
        PROVE  p \in page'[r].rows \cup Handled \cup late
    <2>1. CASE p \notin log
      BY <2>1 DEF IInv, Rows
    <2>2. CASE p <= cursor[r]
      BY <2>2 DEF IInv, Cursors, Covered
    <2>3. CASE p \in log /\ ~(p <= cursor[r])
      <3>1. cursor[r] < p /\ (hw[r] = 0 \/ p <= hw[r])
        BY <1>9, <1>3, <2>3
      <3> QED BY <1>4, <1>9, <2>3, <3>1 DEF Window
    <2> QED BY <2>1, <2>2, <2>3
  <1>10. Pages'
    BY <1>2, <1>4, <1>5, <1>6, <1>7, <1>9 DEF IInv, Pages, InFlight
  <1>11. ASSUME InOrder PROVE page'[r].rows = Between(first, last)
    <2>1. \A p \in ever : first <= p => p \in log
      BY <1>2, <1>11 DEF IInv, Exact, LogSuffix
    <2>2. \A p \in ever : first <= p /\ p <= last => p \in W
      BY <1>3, <2>1 DEF Window
    <2>3. \A p \in W : p \in ever /\ first <= p
      BY <1>1, <1>2
    <2> HIDE DEF W
    <2>4. {p \in W : p <= last} = {p \in ever : first <= p /\ p <= last}
      BY <2>2, <2>3
    <2> QED BY <1>4, <2>4 DEF Between
  <1>12. Exact'
    <2>1. ASSUME InOrder PROVE LogSuffix' /\ StoresExact'
      BY <1>6, <2>1 DEF IInv, Exact, LogSuffix, StoresExact, Between
    <2>2. ASSUME InOrder PROVE PagesExact'
      BY <1>4, <1>5, <1>6, <1>11, <2>2 DEF IInv, Exact, PagesExact, Between
    <2> QED BY <2>1, <2>2 DEF Exact
  <1> QED BY <1>8, <1>10, <1>12 DEF IInv

(* A loaded cursor is the durable one, which is covered.                   *)
LEMMA LoadStep ==
  ASSUME IInv, NEW r \in Runners, Load(r), TypeOK'
  PROVE  IInv'
  <1>1. /\ pc'[r] \in {"reset", "resolve"} /\ cursor'[r] = stored.checkpoint
        /\ \A q \in Runners \ {r} : pc'[q] = pc[q] /\ cursor'[q] = cursor[q]
    BY DEF Load, IInv, TypeOK
  <1>2. UNCHANGED <<log, ever, late, stored, sink, dlq, page>>
    BY DEF Load, rows, stores
  <1>3. Handled' = Handled
    BY <1>2 DEF Handled, Stored
  <1>4. Rows' /\ Cursors' /\ CursorsName'
    BY <1>1, <1>2, <1>3 DEF IInv, Rows, Cursors, Covered, CursorsName
  <1>5. Pages'
    BY <1>1, <1>2, <1>3 DEF IInv, Pages, InFlight
  <1>6. Exact'
    BY <1>1, <1>2 DEF IInv, Exact, LogSuffix, PagesExact, StoresExact, Between, InFlight
  <1> QED BY <1>4, <1>5, <1>6 DEF IInv

(* The checkpoint passes a page whose rows are all handed over.            *)
LEMMA AdvanceStep ==
  ASSUME IInv, NEW r \in Runners, Advance(r), TypeOK'
  PROVE  IInv'
  <1> DEFINE last == page[r].last
  <1>1. /\ pc[r] = "advance" /\ pc'[r] \in {"idle", "read"}
        /\ stored'.checkpoint = last
        /\ pc'[r] = "idle" => cursor'[r] = 0
        /\ cursor'[r] \in {0, last}
        /\ \A q \in Runners \ {r} :
             pc'[q] = pc[q] /\ cursor'[q] = cursor[q] /\ page'[q] = page[q]
    BY DEF Advance, Stop, IInv, TypeOK
  <1>2. UNCHANGED <<log, ever, sink, dlq>> /\ late' = late \ page[r].rows
    BY DEF Advance
  <1>3. Handled' = Handled
    BY <1>2 DEF Handled, Stored
  <1>4. Handled \cup late \subseteq (Handled \cup late)'
    BY <1>1, <1>2, <1>3 DEF IInv, Pages
  <1>5. \A p \in ever : p <= last \/ p <= 0 => p \in (Handled \cup late)'
    <2>1. \A p \in ever : p <= last => p \in Handled \cup late
      BY <1>1 DEF IInv, Pages, InFlight
    <2>2. \A p \in ever : ~(p <= 0)
      BY PosFacts DEF IInv, TypeOK
    <2> QED BY <1>4, <2>1, <2>2
  <1>6. Rows'
    BY <1>2, <1>3, <1>4 DEF IInv, Rows
  <1>7. Cursors'
    <2>1. Covered(stored.checkpoint)'
      BY <1>1, <1>2, <1>5 DEF Covered
    <2>2. ASSUME NEW q \in Runners PROVE Covered(cursor[q])'
      <3>1. cursor'[q] \in {0, last} \/ cursor'[q] = cursor[q]
        BY <1>1
      <3> QED BY <1>2, <1>4, <1>5, <3>1 DEF IInv, Cursors, Covered
    <2> QED BY <2>1, <2>2 DEF Cursors
  <1>8. CursorsName'
    BY <1>1, <1>2 DEF IInv, CursorsName, Pages, InFlight
  <1>9. Pages'
    BY <1>1, <1>2, <1>3, <1>4 DEF IInv, Pages, InFlight
  <1>10. Exact'
    BY <1>1, <1>2 DEF IInv, Exact, LogSuffix, PagesExact, StoresExact, Between, InFlight
  <1> QED BY <1>6, <1>7, <1>8, <1>9, <1>10 DEF IInv

(* A commit below anything already read is excused; an ordered commit is   *)
(* above everything, so it disturbs no batch.                              *)
LEMMA CommitStep ==
  ASSUME IInv, NEW p \in Pos, Commit(p), TypeOK'
  PROVE  IInv'
  <1>1. /\ ever' = ever \cup {p} /\ log' = log \cup {p} /\ p \notin ever
        /\ late \subseteq late' /\ (BehindFrontier(p) => p \in late')
        /\ UNCHANGED <<stored, sink, dlq, pc, cursor, page>>
    BY DEF Commit, stores, locals
  <1>2. Handled' = Handled
    BY <1>1 DEF Handled, Stored
  <1>3. Rows'
    BY <1>1, <1>2 DEF IInv, Rows
  <1>4. Cursors'
    <2>1. Covered(stored.checkpoint)'
      BY <1>1, <1>2 DEF IInv, Cursors, Covered, BehindFrontier
    <2>2. ASSUME NEW r \in Runners PROVE Covered(cursor[r])'
      <3>1. CASE pc[r] # "idle"
        BY <1>1, <1>2, <3>1 DEF IInv, Cursors, Covered, BehindFrontier
      <3>2. CASE pc[r] = "idle"
        BY <1>1, <3>2, PosFacts DEF IInv, TypeOK, Pages, Covered
      <3> QED BY <3>1, <3>2
    <2> QED BY <1>1, <2>1, <2>2 DEF Cursors
  <1>5. CursorsName'
    BY <1>1 DEF IInv, CursorsName
  <1>6. Pages'
    <2>1. ASSUME NEW r \in Runners, pc[r] \in InFlight, NEW q \in ever',
                 q <= page[r].last
          PROVE  q \in page[r].rows \cup Handled \cup late'
      <3>1. CASE q \in ever
        BY <1>1, <2>1, <3>1 DEF IInv, Pages
      <3>2. CASE q = p
        BY <1>1, <2>1, <3>2 DEF BehindFrontier, InFlight
      <3> QED BY <1>1, <3>1, <3>2
    <2> QED BY <1>1, <1>2, <2>1 DEF IInv, Pages
  <1>7. ASSUME InOrder PROVE LogSuffix' /\ PagesExact' /\ StoresExact'
    <2>1. \A q \in ever : q < p
      BY <1>7 DEF Commit
    <2>2. p \in Int /\ \A q \in ever : q \in Int
      BY PosFacts DEF IInv, TypeOK
    <2>3. LogSuffix'
      BY <1>1, <1>7, <2>1, <2>2 DEF IInv, Rows, Exact, LogSuffix
    <2>4. ASSUME NEW f, NEW l \in ever PROVE Between(f, l)' = Between(f, l)
      BY <1>1, <2>1, <2>2 DEF Between
    <2>5. PagesExact'
      BY <1>1, <1>7, <2>4 DEF IInv, Exact, PagesExact, Pages
    <2>6. StoresExact'
      BY <1>1, <1>7, <2>4 DEF IInv, Exact, StoresExact
    <2> QED BY <2>3, <2>5, <2>6
  <1>8. Exact'
    BY <1>7 DEF Exact
  <1> QED BY <1>3, <1>4, <1>5, <1>6, <1>8 DEF IInv

(* A permitted cutoff removes only rows older than the checkpoint's, which *)
(* lie below it and are therefore covered.                                 *)
LEMMA PruneStep ==
  ASSUME IInv, NEW t \in Cutoffs, Prune(t), TypeOK'
  PROVE  IInv'
  <1>1. /\ log' = {p \in log : TsOf[p] >= t}
        /\ UNCHANGED <<ever, late, stored, sink, dlq, pc, cursor, page>>
    BY DEF Prune, stores, locals
  <1>2. Handled' = Handled
    BY <1>1 DEF Handled, Stored
  <1>3. \A p \in Pos : TsOf[p] \in Int /\ p \in Int
    BY TsAssumption, PosFacts
  <1>4. t \in Int
    BY <1>3 DEF Cutoffs
  <1>5. log \subseteq Pos /\ ever \subseteq Pos
    BY DEF IInv, TypeOK
  <1>6. Rows'
    <2>1. ASSUME NEW p \in log, p \notin log' PROVE p \in Handled \cup late
      <3>1. stored.checkpoint \in Pos /\ t <= TsOf[stored.checkpoint]
        BY <1>5 DEF Prune, CutoffAllowed, IInv, CursorsName
      <3>2. TsOf[p] < TsOf[stored.checkpoint]
        BY <1>1, <1>3, <1>4, <1>5, <2>1, <3>1
      <3>3. p <= stored.checkpoint
        BY <1>3, <1>5, <3>1, <3>2, TsAssumption
      <3> QED BY <3>3 DEF IInv, Rows, Cursors, Covered
    <2> QED BY <1>1, <1>2, <2>1 DEF IInv, Rows
  <1>7. Cursors' /\ CursorsName' /\ Pages'
    BY <1>1, <1>2 DEF IInv, Cursors, Covered, CursorsName, Pages
  <1>8. Exact'
    <2>1. ASSUME InOrder PROVE LogSuffix'
      <3>1. ASSUME NEW p \in log', NEW q \in ever, p <= q PROVE q \in log'
        <4>1. q \in log /\ TsOf[p] <= TsOf[q] /\ TsOf[p] >= t
          BY <1>1, <1>5, <2>1, <3>1, TsAssumption DEF IInv, Exact, LogSuffix
        <4> QED BY <1>1, <1>3, <1>4, <1>5, <3>1, <4>1
      <3> QED BY <1>1, <3>1 DEF LogSuffix
    <2>2. ASSUME InOrder PROVE PagesExact' /\ StoresExact'
      BY <1>1, <2>2 DEF IInv, Exact, PagesExact, StoresExact, Between
    <2> QED BY <2>1, <2>2 DEF Exact
  <1> QED BY <1>6, <1>7, <1>8 DEF IInv

(* Every step keeps the invariant.                                         *)
LEMMA InvStep ==
  ASSUME SafeMode, IInv, TypeOK', [Next]_vars
  PROVE  IInv'
  <1> USE DEF rows, stores
  <1>1. ASSUME NEW r \in Runners, ResetWindow(r) PROVE IInv'
    <2>1. Handled' = Handled
      BY <1>1 DEF ResetWindow, Handled, Stored
    <2>2. Handled' \subseteq ever /\ (InOrder => StoresExact')
      BY <1>1, <2>1 DEF ResetWindow, IInv, Rows, Exact, StoresExact, Between
    <2> QED BY <1>1, <2>1, <2>2, MoveStep DEF ResetWindow, Locations, InFlight
  <1>2. ASSUME NEW r \in Runners, ResolveWatermark(r) PROVE IInv'
    <2>1. Handled' = Handled
      BY <1>2 DEF ResolveWatermark, Handled, Stored
    <2>2. Handled' \subseteq ever /\ (InOrder => StoresExact')
      BY <1>2, <2>1 DEF ResolveWatermark, IInv, Rows, Exact, StoresExact, Between
    <2>3. /\ pc' = [pc EXCEPT ![r] = "read"]
          /\ UNCHANGED <<log, ever, late, stored, cursor, page>>
      BY <1>2 DEF ResolveWatermark
    <2>4. "read" \in Locations \ {"idle"} /\ "read" \notin InFlight
      BY DEF Locations, InFlight
    <2> QED BY <2>1, <2>2, <2>3, <2>4, MoveStep DEF InFlight
  <1>3. ASSUME NEW r \in Runners, PersistWindow(r) PROVE IInv'
    <2>1. Handled' = Handled
      BY <1>3 DEF PersistWindow, Handled, Stored
    <2>2. Handled' \subseteq ever /\ (InOrder => StoresExact')
      BY <1>3, <2>1 DEF PersistWindow, IInv, Rows, Exact, StoresExact, Between
    <2> QED BY <1>3, <2>1, <2>2, MoveStep DEF PersistWindow, Locations, InFlight
  <1>4. ASSUME NEW r \in Runners, DeliverAck(r) PROVE IInv'
    <2>1. pc[r] \in InFlight /\ UNCHANGED <<log, ever, late, dlq, cursor, page, stored>>
      BY <1>4 DEF DeliverAck, InFlight
    <2>2. /\ Handled \subseteq Handled' /\ Handled' \subseteq ever
          /\ InOrder => StoresExact'
          /\ page[r].rows \subseteq Handled'
      BY <1>4, <2>1, SinkStep DEF DeliverAck
    <2> QED BY <1>4, <2>1, <2>2, MoveStep DEF DeliverAck, Locations, InFlight
  <1>5. ASSUME NEW r \in Runners, DeliverRetry(r) PROVE IInv'
    <2>1. pc[r] \in InFlight /\ UNCHANGED <<log, ever, late, dlq, cursor, page, stored, pc>>
      BY <1>5 DEF DeliverRetry, InFlight
    <2>2. /\ Handled \subseteq Handled' /\ Handled' \subseteq ever
          /\ InOrder => StoresExact'
      BY <1>5, <2>1, SinkStep DEF DeliverRetry, MaybeReceived
    <2>3. pc' = [pc EXCEPT ![r] = "deliver"]
      BY <1>5, <2>1 DEF DeliverRetry, IInv, TypeOK
    <2>4. "deliver" \in Locations \ {"idle"} /\ "deliver" \in InFlight
      BY DEF Locations, InFlight
    <2>5. stored'.checkpoint \in {stored.checkpoint, cursor[r]}
      BY <2>1
    <2> HIDE DEF rows, stores
    <2> QED BY <2>1, <2>2, <2>3, <2>4, <2>5, MoveStep
  <1>6. ASSUME NEW r \in Runners, DeliverExhausted(r) PROVE IInv'
    <2>1. /\ pc[r] \in InFlight /\ UNCHANGED <<log, ever, late, dlq, stored>>
      BY <1>6 DEF DeliverExhausted, InFlight
    <2>2. /\ Handled \subseteq Handled' /\ Handled' \subseteq ever
          /\ InOrder => StoresExact'
      BY <1>6, <2>1, SinkStep DEF DeliverExhausted, MaybeReceived
    <2> QED BY <1>6, <2>1, <2>2, StopStep DEF DeliverExhausted
  <1>7. ASSUME NEW r \in Runners, Stop(r), UNCHANGED <<rows, stores>> PROVE IInv'
    <2>1. Handled' = Handled
      BY <1>7 DEF Handled, Stored
    <2>2. Handled' \subseteq ever /\ (InOrder => StoresExact')
      BY <1>7, <2>1 DEF IInv, Rows, Exact, StoresExact, Between
    <2> QED BY <1>7, <2>1, <2>2, StopStep
  <1>8. ASSUME NEW r \in Runners, DeliverTerminal(r) PROVE IInv'
    <2>1. CASE ~HasDLQ
      BY <1>7, <1>8, <2>1 DEF DeliverTerminal
    <2>2. CASE HasDLQ
      <3>1. Handled' = Handled
        BY <1>8 DEF DeliverTerminal, Handled, Stored
      <3>2. Handled' \subseteq ever /\ (InOrder => StoresExact')
        BY <1>8, <3>1 DEF DeliverTerminal, IInv, Rows, Exact, StoresExact, Between
      <3> QED BY <1>8, <2>2, <3>1, <3>2, MoveStep DEF DeliverTerminal, Locations, InFlight
    <2> QED BY <2>1, <2>2
  <1>9. ASSUME NEW r \in Runners, DeadLetter(r) PROVE IInv'
    <2>1. pc[r] = "dlq" /\ UNCHANGED <<log, ever, late, sink, cursor, page, stored>>
      BY <1>9 DEF DeadLetter
    <2>2. /\ Handled \subseteq Handled' /\ Handled' \subseteq ever
          /\ InOrder => StoresExact'
          /\ page[r].rows \subseteq Handled'
      BY <1>9, <2>1, DeadLetterStep DEF DeadLetter
    <2> QED BY <1>9, <2>1, <2>2, MoveStep DEF DeadLetter, Locations, InFlight
  <1>10. CASE UNCHANGED vars
    <2>1. UNCHANGED <<log, ever, late, stored, sink, dlq, pc, cursor, page>>
      BY <1>10 DEF vars, locals
    <2>2. Handled' = Handled
      BY <2>1 DEF Handled, Stored
    <2> QED BY <2>1, <2>2
         DEF IInv, Rows, Cursors, Covered, CursorsName, Pages, Exact, LogSuffix,
             PagesExact, StoresExact, Between
  <1> QED
    BY <1>1, <1>2, <1>3, <1>4, <1>5, <1>6, <1>7, <1>8, <1>9, <1>10,
       LoadStep, ReadStep, AdvanceStep, CommitStep, PruneStep
       DEF Next, RunnerStep, ResolveEmpty, ReadEmpty, Interrupt

(* The inductive invariant: every cursor covers only rows that are handed  *)
(* over or excused, whatever runs overlap, crash or retry.                 *)
THEOREM Invariance ==
  ASSUME SafeMode
  PROVE  Spec => []IInv
  <1>1. (TypeOK /\ PageNamed /\ IInv) /\ [Next]_vars
          => (TypeOK /\ PageNamed /\ IInv)'
    BY TypeStep, InvStep
  <1>2. Init => TypeOK /\ PageNamed /\ IInv
    BY TypeInit, InitInv
  <1> QED BY <1>1, <1>2, PTL DEF Spec

(* At-least-once delivery for any number of overlapping runs: no row at or *)
(* below the durable checkpoint is undelivered, bar the late commits.      *)
THEOREM Delivery ==
  ASSUME SafeMode
  PROVE  Spec => []NoSilentLoss
  <1>1. IInv => NoSilentLoss
    BY DEF IInv, Cursors, Covered, NoSilentLoss
  <1> QED BY <1>1, Invariance, PTL

(* Retention under requiredCheckpoints removes only covered rows.          *)
THEOREM Retention ==
  ASSUME SafeMode
  PROVE  Spec => []PruneKeepsUndelivered
  <1>1. IInv => PruneKeepsUndelivered
    BY DEF IInv, Rows, PruneKeepsUndelivered
  <1> QED BY <1>1, Invariance, PTL

(* The checkpoint passes a batch only when all of it is durable elsewhere. *)
THEOREM WholeBatch ==
  ASSUME SafeMode
  PROVE  Spec => []WholeBatchHandledBeforeAdvance
  <1>1. IInv => WholeBatchHandledBeforeAdvance
    BY DEF IInv, Pages, WholeBatchHandledBeforeAdvance
  <1> QED BY <1>1, Invariance, PTL

-----------------------------------------------------------------------------
(* An ordered source commits nothing behind a run: no row is ever excused. *)
NothingLate ==
  /\ late = {}
  /\ \A r \in Runners : page[r].last \in ever \cup {0}

(* An ordered commit lands above every cursor and every page.              *)
LEMMA NothingLateStep ==
  ASSUME InOrder, IInv, NothingLate, [Next]_vars
  PROVE  NothingLate'
  <1> USE DEF rows, stores, locals, vars
  <1>1. ASSUME NEW p \in Pos, Commit(p) PROVE NothingLate'
    <2>1. p \in Int /\ p > 0 /\ \A q \in ever : q \in Int /\ q < p
      BY <1>1, PosFacts DEF Commit, IInv, TypeOK
    <2>2. ~BehindFrontier(p)
      BY <2>1 DEF BehindFrontier, IInv, CursorsName, NothingLate
    <2> QED BY <1>1, <2>2 DEF Commit, NothingLate
  <1>2. ASSUME NEW r \in Runners, Stop(r), UNCHANGED ever, late' \subseteq late
        PROVE  NothingLate'
    BY <1>2 DEF Stop, NoPage, NothingLate, IInv, TypeOK
  <1>3. ASSUME NEW r \in Runners, ReadPage(r) PROVE NothingLate'
    <2>1. PICK last \in Window(r, hw[r]) :
            page'[r].last = last /\ \A q \in Runners \ {r} : page'[q] = page[q]
      BY <1>3 DEF ReadPage, IInv, TypeOK
    <2>2. last \in ever
      BY DEF Window, IInv, Rows
    <2> QED BY <1>3, <2>1, <2>2 DEF ReadPage, NothingLate
  <1>4. ASSUME NEW r \in Runners, Advance(r) PROVE NothingLate'
    <2>1. CASE page[r].more
      BY <1>4, <2>1 DEF Advance, NoPage, NothingLate, IInv, TypeOK
    <2>2. CASE ~page[r].more
      BY <1>2, <1>4, <2>2 DEF Advance
    <2> QED BY <2>1, <2>2
  <1>5. ASSUME NEW r \in Runners, DeliverTerminal(r) PROVE NothingLate'
    BY <1>2, <1>5 DEF DeliverTerminal, NothingLate
  <1>6. ASSUME UNCHANGED <<ever, late, page>> PROVE NothingLate'
    BY <1>6 DEF NothingLate
  <1> QED
    BY <1>1, <1>2, <1>3, <1>4, <1>5, <1>6
       DEF Next, RunnerStep, Load, ResetWindow, ResolveWatermark, ResolveEmpty, ReadEmpty,
           PersistWindow, DeliverAck, DeliverRetry, DeliverExhausted, DeadLetter,
           Interrupt, Prune

(* Every step but a commit either hands rows over or saves a checkpoint,   *)
(* never both.                                                             *)
LEMMA StepShape ==
  ASSUME InOrder, IInv, [Next]_vars
  PROVE  \/ \E p \in Pos : Commit(p)
         \/ /\ ever' = ever
            /\ Handled \subseteq Handled' /\ Handled' \subseteq ever
            /\ stored' = stored \/ Handled' = Handled
  <1> USE DEF rows, stores, locals, vars
  <1>1. Handled \subseteq ever /\ SafeMode
    BY DEF IInv, Rows, SafeMode
  <1>2. ASSUME UNCHANGED <<sink, dlq>> PROVE Handled' = Handled
    BY <1>2 DEF Handled, Stored
  <1>3. ASSUME NEW r \in Runners, pc[r] = "deliver", UNCHANGED <<ever, dlq>>,
               sink' \in {sink, Receive(sink, BatchId(r), page[r].rows)}
        PROVE  Handled \subseteq Handled' /\ Handled' \subseteq ever
    BY <1>1, <1>3, SinkStep DEF InFlight
  <1>4. ASSUME NEW r \in Runners, DeadLetter(r)
        PROVE  Handled \subseteq Handled' /\ Handled' \subseteq ever
    BY <1>1, <1>4, DeadLetterStep DEF DeadLetter
  <1>5. ASSUME NEW r \in Runners,
               DeliverAck(r) \/ DeliverRetry(r) \/ DeliverExhausted(r)
        PROVE  /\ ever' = ever /\ stored' = stored
               /\ Handled \subseteq Handled' /\ Handled' \subseteq ever
    BY <1>3, <1>5 DEF DeliverAck, DeliverRetry, DeliverExhausted, MaybeReceived
  <1> QED
    BY <1>1, <1>2, <1>4, <1>5
       DEF Next, RunnerStep, Load, ResetWindow, ResolveWatermark, ResolveEmpty, ReadPage,
           ReadEmpty, PersistWindow, DeliverTerminal, DeadLetter, Advance, Interrupt, Prune

(* Over an ordered source overlapping runs, their tables and their sink    *)
(* implement the abstract at-least-once feed.                              *)
THEOREM Refinement ==
  ASSUME InOrder
  PROVE  Spec => ImplementsFeed
  <1> USE DEF SafeMode
  <1>1. Init => Feed!Init /\ NothingLate
    <2> SUFFICES ASSUME Init PROVE Feed!Init /\ NothingLate
      OBVIOUS
    <2>1. PICK n \in StartAt : Init!(n)
      BY DEF Init
    <2>2. Handled = 1..n
      BY <2>1, InitHandled
    <2> QED BY <2>1, <2>2 DEF Feed!Init, NothingLate, NoPage
  <1>2. IInv /\ NothingLate /\ [Next]_vars => NothingLate'
    BY NothingLateStep
  <1>3. ASSUME IInv, NothingLate, IInv', NothingLate', [Next]_vars
        PROVE  [Feed!Next]_(Feed!vars)
    <2>1. ASSUME NEW p \in Pos, Commit(p) PROVE Feed!Commit(p)
      <3>1. p \in Int /\ p > 0 /\ \A q \in ever : q \in Int /\ q < p
        BY <1>3, <2>1, PosFacts DEF Commit, IInv, TypeOK
      <3>2. stored.checkpoint < p
        BY <1>3, <3>1 DEF IInv, CursorsName
      <3>3. Handled' = Handled
        BY <2>1 DEF Commit, stores, Handled, Stored
      <3> QED BY <2>1, <3>1, <3>2, <3>3 DEF Commit, Feed!Commit, stores
    <2>2. ASSUME ever' = ever, stored' = stored,
                 Handled \subseteq Handled', Handled' \subseteq ever
          PROVE  Feed!Deliver
      BY <2>2 DEF Feed!Deliver
    <2>3. ASSUME ever' = ever, Handled' = Handled PROVE Feed!MoveCheckpoint
      <3>1. stored'.checkpoint \in ever \cup {0}
        BY <1>3, <2>3 DEF IInv, CursorsName
      <3>2. \A p \in ever : p <= stored'.checkpoint => p \in Handled
        BY <1>3, <2>3 DEF IInv, Cursors, Covered, NothingLate
      <3> QED BY <2>3, <3>1, <3>2 DEF Feed!MoveCheckpoint, Feed!Covered
    <2> QED BY <1>3, <2>1, <2>2, <2>3, StepShape DEF Feed!Next
  <1>4. Spec => []IInv
    BY Invariance
  <1> QED BY <1>1, <1>2, <1>3, <1>4, PTL DEF Spec, ImplementsFeed, Feed!Spec

-----------------------------------------------------------------------------
(* One run at a time on a stream.  Overlapping ones may put an older pair   *)
(* back (run stream_overlap), so what follows is not true of them.         *)
OneRunner == \A q, r \in Runners : q = r

(* A durable window is closed, is the equal pair of a finished deployment, *)
(* or ends at a row that is there and beyond the checkpoint.               *)
WindowOpen ==
  \/ stored.highWatermark = 0
  \/ stored.highWatermark = stored.checkpoint
  \/ stored.checkpoint < stored.highWatermark /\ stored.highWatermark \in log

(* What the memory of a run has to do with the durable state.              *)
InStep(r) ==
  /\ pc[r] # "idle" => cursor[r] = stored.checkpoint
  /\ pc[r] = "reset" => bound[r] = 0 /\ stored.highWatermark = stored.checkpoint
  /\ pc[r] \notin {"idle", "reset"} => bound[r] = stored.highWatermark
  /\ pc[r] = "resolve" => bound[r] = 0 \/ (cursor[r] < bound[r] /\ bound[r] \in log)
  /\ pc[r] \in {"read"} \cup InFlight =>
       hw[r] \in log /\ cursor[r] < hw[r] /\ bound[r] \in {0, hw[r]}
  /\ pc[r] = "persist" => bound[r] = 0
  /\ pc[r] \in {"deliver", "dlq", "advance"} => bound[r] = hw[r]
  /\ pc[r] \in InFlight =>
       /\ cursor[r] < page[r].last /\ page[r].last <= hw[r]
       /\ page[r].more <=> page[r].last # hw[r]

WindowInv == WindowOpen /\ \A r \in Runners : InStep(r)

(* At first no run is under way and the pair is equal.                     *)
LEMMA WindowInit == Init => WindowInv
  <1> SUFFICES ASSUME Init PROVE WindowInv
    OBVIOUS
  <1>1. stored.highWatermark = stored.checkpoint /\ \A r \in Runners : pc[r] = "idle"
    BY DEF Init
  <1> QED BY <1>1 DEF WindowInv, WindowOpen, InStep, InFlight

(* A run that is over holds nothing.                                       *)
LEMMA StopInStep ==
  ASSUME TypeOK, NEW r \in Runners, Stop(r)
  PROVE  InStep(r)'
  <1>1. pc'[r] = "idle"
    BY DEF Stop, TypeOK
  <1> QED BY <1>1 DEF InStep, InFlight

(* Load, and the save that closes an equal pair.                           *)
LEMMA LoadWindow ==
  ASSUME TypeOK, WindowInv, NEW r \in Runners, Load(r) \/ ResetWindow(r)
  PROVE  /\ WindowOpen' /\ InStep(r)' /\ stored'.checkpoint = stored.checkpoint
         /\ stored'.highWatermark # stored.highWatermark =>
              stored.checkpoint = stored.highWatermark
  <1> USE DEF rows, stores
  <1>1. CASE Load(r)
    <2>1. stored' = stored /\ log' = log
      BY <1>1 DEF Load
    <2>2. CASE stored.checkpoint # 0 /\ stored.checkpoint = stored.highWatermark
      <3>1. pc'[r] = "reset" /\ cursor'[r] = stored.checkpoint /\ bound'[r] = 0
        BY <1>1, <2>2 DEF Load, TypeOK
      <3> QED BY <2>1, <2>2, <3>1 DEF WindowInv, WindowOpen, InStep, InFlight
    <2>3. CASE ~(stored.checkpoint # 0 /\ stored.checkpoint = stored.highWatermark)
      <3>1. /\ pc'[r] = "resolve" /\ cursor'[r] = stored.checkpoint
            /\ bound'[r] = stored.highWatermark
        BY <1>1, <2>3 DEF Load, TypeOK
      <3>2. \/ stored.highWatermark = 0
            \/ stored.checkpoint < stored.highWatermark /\ stored.highWatermark \in log
        BY <2>3 DEF WindowInv, WindowOpen
      <3> QED BY <2>1, <3>1, <3>2 DEF WindowInv, WindowOpen, InStep, InFlight
    <2> QED BY <2>2, <2>3
  <1>2. CASE ResetWindow(r)
    <2>1. /\ stored' = [checkpoint |-> cursor[r], highWatermark |-> 0] /\ log' = log
          /\ pc'[r] = "resolve" /\ cursor'[r] = cursor[r] /\ bound'[r] = bound[r]
          /\ pc[r] = "reset"
      BY <1>2 DEF ResetWindow, TypeOK
    <2>2. /\ cursor[r] = stored.checkpoint /\ bound[r] = 0
          /\ stored.highWatermark = stored.checkpoint
      BY <2>1 DEF WindowInv, InStep
    <2> QED BY <2>1, <2>2 DEF WindowOpen, InStep, InFlight
  <1> QED BY <1>1, <1>2

(* The upper bound of a window that is resumed is its last row again.      *)
LEMMA ResolveWindow ==
  ASSUME TypeOK, WindowInv, NEW r \in Runners, ResolveWatermark(r)
  PROVE  InStep(r)' /\ stored' = stored /\ log' = log
  <1> USE DEF rows, stores
  <1>1. PICK h \in Window(r, bound[r]) :
          /\ \A p \in Window(r, bound[r]) : p <= h
          /\ hw' = [hw EXCEPT ![r] = h]
    BY DEF ResolveWatermark
  <1>2. /\ pc[r] = "resolve" /\ pc'[r] = "read" /\ hw'[r] = h /\ stored' = stored
        /\ log' = log /\ cursor'[r] = cursor[r] /\ bound'[r] = bound[r]
    BY <1>1 DEF ResolveWatermark, TypeOK
  <1>3. h \in log /\ cursor[r] < h /\ (bound[r] = 0 \/ h <= bound[r])
    BY <1>1 DEF Window
  <1>4. /\ cursor[r] = stored.checkpoint /\ bound[r] = stored.highWatermark
        /\ bound[r] = 0 \/ (cursor[r] < bound[r] /\ bound[r] \in log)
    BY <1>2 DEF WindowInv, InStep
  <1>5. bound[r] \in {0, h}
    <2>1. CASE bound[r] # 0
      <3>1. bound[r] \in log /\ cursor[r] < bound[r] /\ h <= bound[r]
        BY <1>3, <1>4, <2>1
      <3>2. bound[r] \in Int /\ h \in Int
        BY <1>3, <3>1, PosFacts DEF TypeOK
      <3>3. bound[r] \in Window(r, bound[r])
        BY <3>1, <3>2 DEF Window
      <3> QED BY <1>1, <3>1, <3>2, <3>3
    <2> QED BY <2>1
  <1> QED BY <1>2, <1>3, <1>4, <1>5 DEF InStep, InFlight

(* A page lies in its window and ends there when there is no more.         *)
LEMMA ReadWindow ==
  ASSUME TypeOK, WindowInv, NEW r \in Runners, ReadPage(r)
  PROVE  InStep(r)' /\ stored' = stored /\ log' = log
  <1> USE DEF rows, stores
  <1> DEFINE W == Window(r, hw[r])
  <1>1. PICK first \in W, last \in W :
          LET S == {p \in W : p <= last}
          IN  page' = [page EXCEPT ![r] =
                [rows |-> S, first |-> first, last |-> last, more |-> S # W]]
    BY DEF ReadPage
  <1> DEFINE S == {p \in W : p <= last}
  <1>2. page'[r].last = last /\ page'[r].more = (S # W)
    BY <1>1 DEF TypeOK
  <1>3. /\ pc[r] = "read" /\ pc'[r] = (IF bound[r] = 0 THEN "persist" ELSE "deliver")
        /\ cursor'[r] = cursor[r] /\ bound'[r] = bound[r] /\ hw'[r] = hw[r]
        /\ stored' = stored /\ log' = log
    BY DEF ReadPage, TypeOK
  <1>4. /\ cursor[r] = stored.checkpoint /\ bound[r] = stored.highWatermark
        /\ hw[r] \in log /\ cursor[r] < hw[r] /\ bound[r] \in {0, hw[r]}
    BY <1>3 DEF WindowInv, InStep
  <1>5. hw[r] \in Int /\ hw[r] >= 1 /\ \A p \in W : p \in Int /\ cursor[r] < p /\ p <= hw[r]
    <2>1. log \subseteq Pos
      BY DEF TypeOK
    <2>2. hw[r] \in Int /\ hw[r] >= 1 /\ \A p \in log : p \in Int
      BY <1>4, <2>1, PosFacts
    <2>3. hw[r] # 0
      BY <2>2
    <2> QED BY <2>2, <2>3 DEF Window
  <1>6. hw[r] \in W
    BY <1>4, <1>5 DEF Window
  <1>7. page'[r].more <=> last # hw[r]
    <2>1. ASSUME last # hw[r] PROVE hw[r] \in W /\ hw[r] \notin S
      BY <1>5, <1>6, <2>1
    <2>2. ASSUME last = hw[r] PROVE S = W
      BY <1>5, <2>2
    <2> QED BY <1>2, <2>1, <2>2
  <1>8. cursor[r] < last /\ last <= hw[r]
    BY <1>5
  <1> HIDE DEF W, S
  <1>9. pc'[r] \in {"persist", "deliver"} /\ (pc'[r] = "persist" <=> bound[r] = 0)
    BY <1>3
  <1>10. pc'[r] = "deliver" => bound[r] = hw[r]
    BY <1>4, <1>9
  <1> QED BY <1>2, <1>3, <1>4, <1>7, <1>8, <1>9, <1>10 DEF InStep, InFlight

(* The save before the first delivery of a window.                         *)
LEMMA PersistInStep ==
  ASSUME TypeOK, WindowInv, NEW r \in Runners, PersistWindow(r)
  PROVE  WindowOpen' /\ InStep(r)' /\ stored'.checkpoint = stored.checkpoint
         /\ stored.highWatermark = 0
  <1> USE DEF rows
  <1>1. /\ pc[r] = "persist" /\ pc'[r] = "deliver" /\ page' = page /\ log' = log
        /\ stored' = [checkpoint |-> cursor[r], highWatermark |-> hw[r]]
        /\ bound'[r] = hw[r] /\ hw'[r] = hw[r] /\ cursor'[r] = cursor[r]
    BY DEF PersistWindow, TypeOK
  <1>2. /\ cursor[r] = stored.checkpoint /\ stored.highWatermark = 0
        /\ hw[r] \in log /\ cursor[r] < hw[r]
        /\ cursor[r] < page[r].last /\ page[r].last <= hw[r]
        /\ page[r].more <=> page[r].last # hw[r]
    BY <1>1 DEF WindowInv, InStep, InFlight
  <1>3. stored'.checkpoint = cursor[r] /\ stored'.highWatermark = hw[r]
    BY <1>1
  <1> QED BY <1>1, <1>2, <1>3 DEF WindowOpen, InStep, InFlight

(* The outcomes of a delivery that stay with the page.                     *)
LEMMA DeliverInStep ==
  ASSUME TypeOK, WindowInv, NEW r \in Runners, pc[r] \in {"deliver", "dlq"},
         pc'[r] \in {"deliver", "dlq", "advance"},
         UNCHANGED <<log, stored, cursor, bound, hw, page>>
  PROVE  InStep(r)'
  BY DEF WindowInv, InStep, InFlight

(* The save after a page, which closes the window at its last row.         *)
LEMMA AdvanceWindow ==
  ASSUME TypeOK, WindowInv, NEW r \in Runners, Advance(r)
  PROVE  /\ WindowOpen' /\ InStep(r)' /\ stored'.checkpoint > stored.checkpoint
         /\ stored'.highWatermark # stored.highWatermark =>
              stored'.checkpoint = stored.highWatermark
  <1>1. /\ pc[r] = "advance" /\ log' = log /\ stored'.checkpoint = page[r].last
        /\ stored'.highWatermark = IF page[r].last = hw[r] THEN 0 ELSE hw[r]
    BY DEF Advance
  <1>2. /\ cursor[r] = stored.checkpoint /\ stored.highWatermark = hw[r]
        /\ hw[r] \in log /\ cursor[r] < page[r].last /\ page[r].last <= hw[r]
        /\ page[r].more <=> page[r].last # hw[r]
    BY <1>1 DEF WindowInv, InStep, InFlight
  <1>3. cursor[r] \in Int /\ page[r].last \in Int /\ hw[r] \in Int
    <2>1. cursor[r] \in Position /\ page[r] \in PageRec /\ hw[r] \in Position
      BY DEF TypeOK
    <2> QED BY <2>1, PosFacts DEF PageRec
  <1>4. WindowOpen'
    BY <1>1, <1>2, <1>3 DEF WindowOpen
  <1>5. InStep(r)'
    <2>1. CASE page[r].more
      <3>1. /\ pc'[r] = "read" /\ cursor'[r] = page[r].last /\ hw'[r] = hw[r]
            /\ bound'[r] = IF page[r].last = hw[r] THEN 0 ELSE hw[r]
        BY <2>1 DEF Advance, TypeOK
      <3> QED BY <1>1, <1>2, <1>3, <2>1, <3>1 DEF InStep, InFlight
    <2>2. CASE ~page[r].more
      BY <2>2, StopInStep DEF Advance
    <2> QED BY <2>1, <2>2
  <1> QED BY <1>1, <1>2, <1>3, <1>4, <1>5

(* A commit adds a row; retention removes none beyond the checkpoint.      *)
LEMMA SourceWindow ==
  ASSUME TypeOK, WindowInv,
         (\E p \in Pos : Commit(p)) \/ (\E t \in Cutoffs : Prune(t))
  PROVE  WindowInv' /\ stored' = stored
  <1> USE DEF stores, locals
  <1>1. stored' = stored /\ UNCHANGED locals
    BY DEF Commit, Prune
  <1>2. ASSUME NEW p \in log, p > stored.checkpoint PROVE p \in log'
    <2>1. CASE \E q \in Pos : Commit(q)
      BY <2>1 DEF Commit
    <2>2. CASE \E t \in Cutoffs : Prune(t)
      <3>1. PICK t \in Cutoffs : Prune(t)
        BY <2>2
      <3>2. stored.checkpoint # 0 /\ t <= TsOf[stored.checkpoint]
        BY <3>1 DEF Prune, CutoffAllowed
      <3>3. stored.checkpoint \in Position /\ p \in Pos
        BY DEF TypeOK, StateRec
      <3>4. stored.checkpoint \in Pos
        BY <3>2, <3>3, NPosAssumption DEF Position, Pos
      <3>5. TsOf[stored.checkpoint] <= TsOf[p] /\ TsOf[stored.checkpoint] \in Nat
            /\ TsOf[p] \in Nat
        <4>1. \A q \in Pos : TsOf[q] \in Nat /\ q \in Int
          BY TsAssumption, PosFacts
        <4>2. \A q \in Pos : q <= p => TsOf[q] <= TsOf[p]
          BY <3>3, TsAssumption
        <4>3. stored.checkpoint <= p
          BY <1>2, <3>3, <3>4, <4>1
        <4> QED BY <3>3, <3>4, <4>1, <4>2, <4>3
      <3>6. t \in Nat
        BY TsAssumption DEF Cutoffs
      <3>7. TsOf[p] >= t
        BY <3>2, <3>5, <3>6
      <3> QED BY <3>1, <3>7 DEF Prune
    <2> QED BY <2>1, <2>2
  <1>3. stored.checkpoint \in Int /\ \A p \in log : p \in Int
    <2>1. stored.checkpoint \in Position /\ log \subseteq Pos
      BY DEF TypeOK, StateRec
    <2> QED BY <2>1, PosFacts
  <1>4. WindowOpen'
    BY <1>1, <1>2, <1>3 DEF WindowInv, WindowOpen
  <1>5. ASSUME NEW r \in Runners PROVE InStep(r)'
    <2>1. InStep(r) /\ cursor[r] \in Int
      BY PosFacts DEF WindowInv, TypeOK
    <2>2. pc[r] = "resolve" /\ bound[r] # 0 => bound[r] \in log'
      BY <1>2, <1>3, <2>1 DEF InStep
    <2>3. pc[r] \in {"read"} \cup InFlight => hw[r] \in log'
      <3> SUFFICES ASSUME pc[r] \in {"read"} \cup InFlight PROVE hw[r] \in log'
        OBVIOUS
      <3>1. pc[r] # "idle"
        BY DEF InFlight
      <3> QED BY <1>2, <1>3, <2>1, <3>1 DEF InStep
    <2> QED BY <1>1, <2>1, <2>2, <2>3 DEF InStep
  <1> QED BY <1>1, <1>4, <1>5 DEF WindowInv

-----------------------------------------------------------------------------
(* Steps that leave the window as it is, from its first row to its last.   *)
LEMMA WindowStep ==
  ASSUME OneRunner, TypeOK, WindowInv, [Next]_vars
  PROVE  /\ WindowInv'
         /\ stored'.checkpoint >= stored.checkpoint
         /\ stored'.highWatermark # stored.highWatermark /\ stored.highWatermark # 0
              => stored'.checkpoint = stored.highWatermark
  <1> DEFINE Onward ==
        /\ stored'.checkpoint >= stored.checkpoint
        /\ stored'.highWatermark # stored.highWatermark /\ stored.highWatermark # 0
             => stored'.checkpoint = stored.highWatermark
  <1> USE DEF rows, stores, locals
  <1>1. stored.checkpoint \in Int
    BY PosFacts DEF TypeOK, StateRec
  <1>2. ASSUME stored' = stored PROVE Onward
    BY <1>1, <1>2
  <1>3. ASSUME NEW r \in Runners, InStep(r)', WindowOpen' PROVE WindowInv'
    BY <1>3 DEF OneRunner, WindowInv
  <1>4. ASSUME stored' = stored, log' = log PROVE WindowOpen'
    BY <1>4 DEF WindowInv, WindowOpen
  <1> HIDE DEF Onward
  <1>5. ASSUME NEW r \in Runners, Load(r) \/ ResetWindow(r) PROVE WindowInv' /\ Onward
    <2>1. /\ WindowOpen' /\ InStep(r)' /\ stored'.checkpoint = stored.checkpoint
          /\ stored'.highWatermark # stored.highWatermark =>
               stored.checkpoint = stored.highWatermark
      BY <1>5, LoadWindow
    <2> QED BY <1>1, <1>3, <2>1 DEF Onward
  <1>6. ASSUME NEW r \in Runners, ResolveWatermark(r) \/ ReadPage(r)
        PROVE  WindowInv' /\ Onward
    BY <1>2, <1>3, <1>4, <1>6, ResolveWindow, ReadWindow
  <1>7. ASSUME NEW r \in Runners, PersistWindow(r) PROVE WindowInv' /\ Onward
    <2>1. /\ WindowOpen' /\ InStep(r)' /\ stored'.checkpoint = stored.checkpoint
          /\ stored.highWatermark = 0
      BY <1>7, PersistInStep
    <2> QED BY <1>1, <1>3, <2>1 DEF Onward
  <1>8. ASSUME NEW r \in Runners, Advance(r) PROVE WindowInv' /\ Onward
    <2>1. /\ WindowOpen' /\ InStep(r)' /\ stored'.checkpoint > stored.checkpoint
          /\ stored'.highWatermark # stored.highWatermark =>
               stored'.checkpoint = stored.highWatermark
      BY <1>8, AdvanceWindow
    <2>2. stored'.checkpoint \in Int
      BY <1>8, PosFacts DEF Advance, TypeOK, PageRec
    <2> QED BY <1>1, <1>3, <2>1, <2>2 DEF Onward
  <1>9. ASSUME NEW r \in Runners, Stop(r), stored' = stored, log' = log
        PROVE  WindowInv' /\ Onward
    BY <1>2, <1>3, <1>4, <1>9, StopInStep
  <1>10. ASSUME NEW r \in Runners, pc[r] \in {"deliver", "dlq"},
                pc'[r] \in {"deliver", "dlq", "advance"},
                UNCHANGED <<log, stored, cursor, bound, hw, page>>
         PROVE  WindowInv' /\ Onward
    BY <1>2, <1>3, <1>4, <1>10, DeliverInStep
  <1>11. ASSUME NEW r \in Runners, DeliverAck(r) \/ DeliverRetry(r) \/ DeadLetter(r)
         PROVE  WindowInv' /\ Onward
    <2>1. /\ pc[r] \in {"deliver", "dlq"} /\ pc'[r] \in {"deliver", "dlq", "advance"}
          /\ UNCHANGED <<log, stored, cursor, bound, hw, page>>
      BY <1>11 DEF DeliverAck, DeliverRetry, DeadLetter, TypeOK
    <2> QED BY <1>10, <2>1
  <1>12. ASSUME NEW r \in Runners, DeliverTerminal(r) PROVE WindowInv' /\ Onward
    <2>1. CASE HasDLQ
      <3>1. /\ pc[r] = "deliver" /\ pc'[r] = "dlq"
            /\ UNCHANGED <<log, stored, cursor, bound, hw, page>>
        BY <1>12, <2>1 DEF DeliverTerminal, TypeOK
      <3> QED BY <1>10, <3>1
    <2>2. CASE ~HasDLQ
      BY <1>9, <1>12, <2>2 DEF DeliverTerminal
    <2> QED BY <2>1, <2>2
  <1>13. ASSUME NEW r \in Runners,
                ResolveEmpty(r) \/ ReadEmpty(r) \/ DeliverExhausted(r) \/ Interrupt(r)
         PROVE  WindowInv' /\ Onward
    BY <1>9, <1>13 DEF ResolveEmpty, ReadEmpty, DeliverExhausted, Interrupt
  <1>14. ASSUME (\E p \in Pos : Commit(p)) \/ (\E t \in Cutoffs : Prune(t))
         PROVE  WindowInv' /\ Onward
    BY <1>2, <1>14, SourceWindow
  <1>15. ASSUME UNCHANGED vars PROVE WindowInv' /\ Onward
    <2>1. UNCHANGED <<log, stored, pc, cursor, bound, hw, page>>
      BY <1>15 DEF vars
    <2>2. WindowInv'
      BY <2>1 DEF WindowInv, WindowOpen, InStep
    <2> QED BY <1>2, <2>1, <2>2
  <1>16. WindowInv' /\ Onward
    BY <1>5, <1>6, <1>7, <1>8, <1>11, <1>12, <1>13, <1>14, <1>15 DEF Next, RunnerStep
  <1> QED BY <1>16 DEF Onward

(* The window invariant, for any source, sink, batch size and retry budget.*)
THEOREM WindowInvariance ==
  ASSUME OneRunner
  PROVE  Spec => [](TypeOK /\ WindowInv)
  <1>1. (TypeOK /\ PageNamed /\ WindowInv) /\ [Next]_vars
          => (TypeOK /\ PageNamed /\ WindowInv)'
    BY TypeStep, WindowStep
  <1> QED BY <1>1, TypeInit, WindowInit, PTL DEF Spec

(* Nothing is sent outside a window that is already durable.               *)
THEOREM WindowIsPersisted ==
  ASSUME OneRunner
  PROVE  Spec => []WindowPersistedBeforeDelivery
  <1>1. WindowInv => WindowPersistedBeforeDelivery
    <2> SUFFICES ASSUME WindowInv, NEW r \in Runners, pc[r] \in {"deliver", "dlq", "advance"}
                 PROVE  /\ stored.checkpoint = cursor[r] /\ stored.highWatermark = hw[r]
                        /\ page[r].last <= stored.highWatermark
      BY DEF WindowPersistedBeforeDelivery
    <2>1. InStep(r) /\ pc[r] \notin {"idle", "reset"} /\ pc[r] \in InFlight
      BY DEF WindowInv, InFlight
    <2> QED BY <2>1 DEF InStep
  <1> QED BY <1>1, WindowInvariance, PTL

(* A window that a run has left open can always be finished: the row it    *)
(* ends at is still there, because retention stops at the checkpoint.      *)
THEOREM WindowIsResumable ==
  ASSUME OneRunner
  PROVE  Spec => []WindowResumable
  <1>1. TypeOK /\ WindowInv => WindowResumable
    <2> SUFFICES ASSUME TypeOK, WindowInv, stored.highWatermark # 0,
                        stored.checkpoint # stored.highWatermark
                 PROVE  \E p \in log : stored.checkpoint < p /\ p <= stored.highWatermark
      BY DEF WindowResumable
    <2>1. stored.checkpoint < stored.highWatermark /\ stored.highWatermark \in log
      BY DEF WindowInv, WindowOpen
    <2>2. stored.highWatermark \in Int
      BY PosFacts DEF TypeOK, StateRec
    <2> QED BY <2>1, <2>2
  <1> QED BY <1>1, WindowInvariance, PTL

(* The durable checkpoint never moves back, and a durable window is left   *)
(* only at its upper bound.                                                *)
THEOREM CheckpointNeverBack ==
  ASSUME OneRunner
  PROVE  Spec => CheckpointMonotone
  <1>1. TypeOK /\ WindowInv /\ [Next]_vars =>
          [ /\ stored'.checkpoint >= stored.checkpoint
            /\ stored'.highWatermark # stored.highWatermark /\ stored.highWatermark # 0
                 => stored'.checkpoint = stored.highWatermark ]_stored
    BY WindowStep
  <1> QED BY <1>1, WindowInvariance, PTL DEF Spec, CheckpointMonotone
=============================================================================
