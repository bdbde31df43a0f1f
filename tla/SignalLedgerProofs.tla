------------------------- MODULE SignalLedgerProofs -------------------------
(***************************************************************************)
(* Proofs about SignalLedger, for any signals, requests and processors.    *)
(*                                                                         *)
(* First what relates statuses to fills and mails, then what relates the   *)
(* positions to the sums of the ledger.                                    *)
(***************************************************************************)
EXTENDS SignalLedger, CountingLemmas, SequenceTheorems

\* What the fields of a handler are, from the statement it is at.
LEMMA HandlerFields ==
  ASSUME NEW h \in Handlers, h.pc \in {"position", "write"}
  PROVE  /\ h.signal \in Signals \cup {Manual}
         /\ h.inst \in Instruments
         /\ h.side \in Sides
         /\ h.qty \in Quantities
         /\ h.held \in Held
BY DEF Handlers

\* What the fields of a pass are.
LEMMA PassFields ==
  ASSUME NEW x \in Passes
  PROVE  /\ x.pc \in {"idle", "send", "update"}
         /\ x.pc # "idle" => x.batch \in SUBSET Signals
         /\ x.pc = "update" => x.signal \in Signals /\ x.sent \in BOOLEAN
BY DEF Passes

\* A handler about to write has a fill that apply_fill accepted for the
\* quantity it read: its result is never negative.
WriteChecked ==
    \A r \in Requests : request[r].pc = "write" =>
        ~Rejected(request[r].held, request[r].side, request[r].qty)

\* apply_fill returns a quantity that user_positions can hold.
LEMMA AppliedIsHeld ==
  ASSUME NEW held \in Held, NEW side \in Sides, NEW qty \in Quantities,
         ~Rejected(held, side, qty)
  PROVE  Applied(held, side, qty) \in Held
BY LedgerAssumption DEF Held, Sides, Rejected, Applied, Flat

\* An order of a set of signals to save.
LEMMA OrderIsSequence ==
  ASSUME NEW S \in SUBSET Signals, NEW order \in [1..Cardinality(S) -> S]
  PROVE  order \in Seq(Signals)
<1>1. IsFiniteSet(S)
  BY LedgerAssumption, FS_Subset
<1>2. Cardinality(S) \in Nat
  BY <1>1, FS_CardinalityType
<1> QED
  BY <1>2

\* The strategy run's commit keeps the types of what it writes.
LEMMA RunSaveTypes ==
  ASSUME TypeOK, RunSave
  PROVE  status' \in [Signals -> Statuses] /\ created' \in Seq(Signals)
<1>1. PICK S \in SUBSET {s \in Signals : status[s] = "absent" /\ Passes_Filter(s, seen)} :
        \E order \in [1..Cardinality(S) -> S] :
           /\ status' = [s \in Signals |-> IF s \in S THEN "pending" ELSE status[s]]
           /\ created' = created \o order
  BY DEF RunSave
<1>2. PICK order \in [1..Cardinality(S) -> S] : created' = created \o order
  BY <1>1
<1>3. order \in Seq(Signals)
  BY <1>2, OrderIsSequence
<1>4. created \in Seq(Signals)
  BY DEF TypeOK
<1>5. created' \in Seq(Signals)
  BY <1>2, <1>3, <1>4
<1>6. status' \in [Signals -> Statuses]
  BY <1>1 DEF TypeOK, Statuses
<1> QED
  BY <1>5, <1>6

\* Answering keeps the types of what it writes.
LEMMA AnswerTypes ==
  ASSUME TypeOK, NEW r \in Requests, Answer(r)
  PROVE  /\ request' \in [Requests -> Handlers]
         /\ upserting' \in [Instruments -> Requests \cup {Nobody}]
<1>1. Done \in Handlers
  BY DEF Done, Handlers
<1> QED
  BY <1>1 DEF Answer, TypeOK

\* One step keeps the types, and a quantity is only written when checked.
LEMMA TypeStep ==
  TypeOK /\ WriteChecked /\ [Next]_vars => TypeOK'
<1> SUFFICES ASSUME TypeOK, WriteChecked, [Next]_vars PROVE TypeOK'
  OBVIOUS
<1> USE LedgerAssumption
<1>1. CASE RunLoad
  BY <1>1 DEF RunLoad, TypeOK
<1>2. CASE RunSave
  BY <1>2, RunSaveTypes DEF RunSave, TypeOK
<1>n. NoPass \in Passes
  BY DEF NoPass, Passes
<1>3. ASSUME NEW p \in Processors, PassStart(p) PROVE TypeOK'
  <2>1. [pc |-> "send", batch |-> OldestPending] \in Passes
    BY DEF Passes, OldestPending, Pending
  <2> QED
    BY <1>3, <2>1 DEF PassStart, TypeOK
<1>4. ASSUME NEW p \in Processors, NEW s \in Signals, NEW ok \in BOOLEAN, Send(p, s, ok)
      PROVE  TypeOK'
  <2>1. pass[p].batch \in SUBSET Signals
    BY <1>4, PassFields DEF Send, TypeOK
  <2>2. [pc |-> "update", batch |-> pass[p].batch \ {s}, signal |-> s, sent |-> ok] \in Passes
    BY <2>1 DEF Passes
  <2>3. pass' \in [Processors -> Passes]
    BY <1>4, <2>2 DEF Send, TypeOK
  <2> QED
    BY <1>4, <2>3 DEF Send, TypeOK
<1>5. ASSUME NEW p \in Processors, Update(p) \/ UpdateRaises(p) PROVE TypeOK'
  <2>1. pass[p].batch \in SUBSET Signals /\ pass[p].signal \in Signals
    BY <1>5, PassFields DEF Update, UpdateRaises, TypeOK
  <2>2. [pc |-> "send", batch |-> pass[p].batch] \in Passes
    BY <2>1 DEF Passes
  <2>3. pass' \in [Processors -> Passes]
    BY <1>5, <1>n, <2>2 DEF Update, UpdateRaises, NextSignal, TypeOK
  <2>4. status' \in [Signals -> Statuses]
    BY <1>5, <2>1 DEF Update, UpdateRaises, TypeOK, Statuses
  <2> QED
    BY <1>5, <2>3, <2>4 DEF Update, UpdateRaises, TypeOK
<1>6. ASSUME NEW p \in Processors, PassAbort(p) PROVE TypeOK'
  BY <1>6, <1>n DEF PassAbort, TypeOK
<1>7. ASSUME NEW r \in Requests, NEW s \in Signals, NEW qty \in Quantities,
             ExecuteSignal(r, s, qty)
      PROVE  TypeOK'
  <2>1. [pc |-> "position", signal |-> s, inst |-> SignalInst[s],
         side |-> SignalSide[s], qty |-> qty, held |-> NoRow] \in Handlers
    BY DEF Handlers, Sides, Held
  <2>2. Done \in Handlers
    BY DEF Done, Handlers
  <2>3. request' \in [Requests -> Handlers]
    BY <1>7, <2>1, <2>2 DEF ExecuteSignal, TypeOK
  <2> QED
    BY <1>7, <2>3 DEF ExecuteSignal, TypeOK
<1>8. ASSUME NEW r \in Requests, NEW i \in Instruments, NEW side \in Sides,
             NEW qty \in Quantities, ManualFill(r, i, side, qty)
      PROVE  TypeOK'
  <2>1. [pc |-> "position", signal |-> Manual, inst |-> i,
         side |-> side, qty |-> qty, held |-> NoRow] \in Handlers
    BY DEF Handlers, Held
  <2> QED
    BY <1>8, <2>1 DEF ManualFill, TypeOK
<1>9. ASSUME NEW r \in Requests, ReadPosition(r) PROVE TypeOK'
  <2> DEFINE q == request[r]
             held == position[q.inst]
  <2>1. q \in Handlers /\ q.pc = "position"
    BY <1>9 DEF ReadPosition, TypeOK
  <2>2. held \in Held
    BY <2>1, HandlerFields DEF TypeOK
  <2>3. [q EXCEPT !.pc = "write", !.held = held] \in Handlers
    <3>1. q \in [pc : {"position", "write"}, signal : Signals \cup {Manual},
                 inst : Instruments, side : Sides, qty : Quantities, held : Held]
      BY <2>1 DEF Handlers
    <3> HIDE DEF q, held
    <3> QED
      BY <2>2, <3>1 DEF Handlers
  <2>4. CASE Rejected(held, q.side, q.qty)
    BY <1>9, <2>4, AnswerTypes DEF ReadPosition, TypeOK
  <2>5. CASE ~Rejected(held, q.side, q.qty)
    <3>1. request' = [request EXCEPT ![r] = [q EXCEPT !.pc = "write", !.held = held]]
      BY <1>9, <2>5 DEF ReadPosition
    <3> QED
      BY <1>9, <2>3, <2>5, <3>1 DEF ReadPosition, TypeOK
  <2> QED
    BY <2>4, <2>5
<1>10. ASSUME NEW r \in Requests, Commit(r) PROVE TypeOK'
  <2> DEFINE q == request[r]
  <2>1. q \in Handlers /\ q.pc = "write"
    BY <1>10 DEF Commit, TypeOK
  <2>2. /\ q.signal \in Signals \cup {Manual} /\ q.inst \in Instruments
        /\ q.side \in Sides /\ q.qty \in Quantities /\ q.held \in Held
    BY <2>1, HandlerFields
  <2>3. Applied(q.held, q.side, q.qty) \in Held
    BY <2>1, <2>2, AppliedIsHeld DEF WriteChecked
  <2>4. position' \in [Instruments -> Held]
    BY <1>10, <2>2, <2>3 DEF Commit, TypeOK
  <2>5. fills' \subseteq Fills
    BY <1>10, <2>2 DEF Commit, TypeOK, Fills
  <2>6. status' \in [Signals -> Statuses]
    BY <1>10, <2>2 DEF Commit, TypeOK, Statuses
  <2>7. Answer(r)
    BY <1>10 DEF Commit
  <2> QED
    BY <1>10, <2>4, <2>5, <2>6, <2>7, AnswerTypes DEF Commit, TypeOK
<1>11. ASSUME NEW r \in Requests, Rollback(r) PROVE TypeOK'
  BY <1>11, AnswerTypes DEF Rollback, TypeOK
<1>12. CASE UNCHANGED vars
  BY <1>12 DEF vars, TypeOK
<1> QED
  BY <1>1, <1>2, <1>3, <1>4, <1>5, <1>6, <1>7, <1>8, <1>9, <1>10, <1>11, <1>12
  DEF Next, PassStep, RequestStep, RequestArrives

\* What a handler was told by apply_fill stays true of what it read.
LEMMA CheckedStep ==
  TypeOK /\ WriteChecked /\ [Next]_vars => WriteChecked'
<1> SUFFICES ASSUME TypeOK, WriteChecked, [Next]_vars,
                    NEW q \in Requests, request'[q].pc = "write"
             PROVE  ~Rejected(request'[q].held, request'[q].side, request'[q].qty)
  BY DEF WriteChecked, Rejected, Flat
<1> USE DEF WriteChecked, TypeOK
<1> DEFINE Checked == ~Rejected(request'[q].held, request'[q].side, request'[q].qty)
<1>1. CASE RunLoad \/ RunSave
  BY <1>1 DEF RunLoad, RunSave
<1>2. ASSUME NEW p \in Processors, PassStep(p) \/ PassAbort(p) PROVE Checked
  BY <1>2 DEF PassStep, PassStart, Send, Update, UpdateRaises, PassAbort
<1>3. ASSUME NEW r \in Requests, RequestArrives(r) PROVE Checked
  BY <1>3 DEF RequestArrives, ExecuteSignal, ManualFill, Done
<1>4. ASSUME NEW r \in Requests, ReadPosition(r) PROVE Checked
  <2>1. CASE q # r
    BY <1>4, <2>1 DEF ReadPosition, Answer
  <2>2. CASE q = r
    <3> DEFINE h == request[r]
               held == position[h.inst]
    <3>1. h \in Handlers /\ h.pc = "position"
      BY <1>4 DEF ReadPosition
    <3>2. h \in [pc : {"position", "write"}, signal : Signals \cup {Manual},
                 inst : Instruments, side : Sides, qty : Quantities, held : Held]
      BY <3>1 DEF Handlers
    <3>3. CASE Rejected(held, h.side, h.qty)
      BY <1>4, <2>2, <3>3 DEF ReadPosition, Answer, Done
    <3>4. CASE ~Rejected(held, h.side, h.qty)
      <4>1. request'[q] = [h EXCEPT !.pc = "write", !.held = held]
        BY <1>4, <2>2, <3>4 DEF ReadPosition
      <4>2. /\ [h EXCEPT !.pc = "write", !.held = held].held = held
            /\ [h EXCEPT !.pc = "write", !.held = held].side = h.side
            /\ [h EXCEPT !.pc = "write", !.held = held].qty = h.qty
        BY <3>2
      <4> QED
        BY <3>4, <4>1, <4>2
    <3> QED
      BY <3>3, <3>4
  <2> QED
    BY <2>1, <2>2
<1>5. ASSUME NEW r \in Requests, Commit(r) \/ Rollback(r) PROVE Checked
  BY <1>5 DEF Commit, Rollback, Answer, Done
<1>6. CASE UNCHANGED vars
  BY <1>6 DEF vars
<1> QED
  BY <1>1, <1>2, <1>3, <1>4, <1>5, <1>6 DEF Next, RequestStep

\* Every variable keeps its type; no position goes below zero, because the
\* quantity a commit writes was computed from the one apply_fill accepted.
THEOREM TypeCorrect == Spec => [](TypeOK /\ WriteChecked)
<1> USE LedgerAssumption
<1>1. Init => TypeOK /\ WriteChecked
  <2> SUFFICES ASSUME Init PROVE TypeOK /\ WriteChecked
    OBVIOUS
  <2>1. Idle \in Handlers /\ NoPass \in Passes
    BY DEF Idle, Handlers, NoPass, Passes
  <2>2. created \in Seq(Signals)
    BY DEF Init
  <2>3. position \in [Instruments -> Held]
    BY DEF Init, Held
  <2>4. status \in [Signals -> Statuses]
    BY DEF Init, Statuses
  <2>5. WriteChecked
    BY DEF Init, Idle, WriteChecked
  <2> QED
    BY <2>1, <2>2, <2>3, <2>4, <2>5 DEF Init, TypeOK
<1> QED
  BY <1>1, TypeStep, CheckedStep, PTL DEF Spec

\* A signal shown as executed has its fill: the status and the fill are
\* committed together, and no fill is ever removed.
THEOREM ExecutedIsFilled == Spec => []ExecutedHasFill
<1>1. Init => ExecutedHasFill
  BY DEF Init, ExecutedHasFill
<1>2. TypeOK /\ ExecutedHasFill /\ [Next]_vars => ExecutedHasFill'
  <2> SUFFICES ASSUME TypeOK, ExecutedHasFill, [Next]_vars,
                      NEW s \in Signals, status'[s] = "executed"
               PROVE  \E f \in fills' : f.signal = s
    BY DEF ExecutedHasFill
  <2> USE DEF ExecutedHasFill, TypeOK
  <2> DEFINE HasFill == \E f \in fills' : f.signal = s
  <2>1. CASE RunLoad \/ RunSave
    BY <2>1 DEF RunLoad, RunSave
  <2>2. ASSUME NEW p \in Processors, PassStep(p) \/ PassAbort(p) PROVE HasFill
    BY <2>2 DEF PassStep, PassStart, Send, Update, UpdateRaises, PassAbort
  <2>3. ASSUME NEW r \in Requests, RequestArrives(r) PROVE HasFill
    BY <2>3 DEF RequestArrives, ExecuteSignal, ManualFill
  <2>4. ASSUME NEW r \in Requests, ReadPosition(r) \/ Rollback(r) PROVE HasFill
    BY <2>4 DEF ReadPosition, Rollback
  <2>5. ASSUME NEW r \in Requests, Commit(r) PROVE HasFill
    <3>1. CASE request[r].signal = s
      <4> DEFINE f == [request |-> r, signal |-> request[r].signal,
                       inst |-> request[r].inst, side |-> request[r].side,
                       qty |-> request[r].qty]
      <4>1. f \in fills' /\ f.signal = s
        BY <2>5, <3>1 DEF Commit
      <4> QED
        BY <4>1
    <3>2. CASE request[r].signal # s
      BY <2>5, <3>2 DEF Commit
    <3> QED
      BY <3>1, <3>2
  <2>6. CASE UNCHANGED vars
    BY <2>6 DEF vars
  <2> QED
    BY <2>1, <2>2, <2>3, <2>4, <2>5, <2>6 DEF Next, RequestStep
<1> QED
  BY <1>1, <1>2, TypeCorrect, PTL DEF Spec

\* What the processor is about to record as sent was sent.
SentWasMailed ==
    \A p \in Processors :
        pass[p].pc = "update" => (pass[p].sent => pass[p].signal \in mailed)

\* A signal shown as notified was really mailed.
THEOREM NotifiedIsMailed == Spec => []NotifiedWasMailed
<1> DEFINE Inv == SentWasMailed /\ NotifiedWasMailed
<1>1. Init => Inv
  BY DEF Init, NoPass, SentWasMailed, NotifiedWasMailed
<1>2. TypeOK /\ Inv /\ [Next]_vars => Inv'
  <2> SUFFICES ASSUME TypeOK, SentWasMailed, NotifiedWasMailed, [Next]_vars PROVE Inv'
    OBVIOUS
  <2> USE DEF SentWasMailed, NotifiedWasMailed, TypeOK
  <2>1. CASE RunLoad \/ RunSave
    BY <2>1 DEF RunLoad, RunSave
  <2>2. ASSUME NEW p \in Processors, PassStart(p) \/ PassAbort(p) PROVE Inv'
    BY <2>2 DEF PassStart, PassAbort, NoPass
  <2>3. ASSUME NEW p \in Processors, NEW t \in Signals, NEW ok \in BOOLEAN, Send(p, t, ok)
        PROVE  Inv'
    BY <2>3 DEF Send
  <2>4. ASSUME NEW p \in Processors, Update(p) \/ UpdateRaises(p) PROVE Inv'
    <3>1. \A x \in Processors : pass'[x].pc = "update" => pass'[x] = pass[x]
      BY <2>4 DEF Update, UpdateRaises, NextSignal, NoPass
    <3>2. \A u \in Signals : status'[u] = "notified" => u \in mailed'
      BY <2>4 DEF Update, UpdateRaises
    <3>3. mailed' = mailed
      BY <2>4 DEF Update, UpdateRaises
    <3> QED
      BY <3>1, <3>2, <3>3
  <2>5. ASSUME NEW r \in Requests, RequestArrives(r) PROVE Inv'
    BY <2>5 DEF RequestArrives, ExecuteSignal, ManualFill
  <2>6. ASSUME NEW r \in Requests, RequestStep(r) PROVE Inv'
    BY <2>6 DEF RequestStep, ReadPosition, Commit, Rollback
  <2>7. CASE UNCHANGED vars
    BY <2>7 DEF vars
  <2> QED
    BY <2>1, <2>2, <2>3, <2>4, <2>5, <2>6, <2>7 DEF Next, PassStep
<1> QED
  BY <1>1, <1>2, TypeCorrect, PTL DEF Spec

\* A settled signal stays settled and is never filled again: a new pass takes
\* only pending signals, a new request only pending or notified ones.
THEOREM SettledStays == Spec => SettledForever
<1>1. TypeOK /\ [Next]_vars =>
        [\A s \in Signals : Settled(s) =>
           /\ Settled(s)'
           /\ \A f \in fills' \ fills : f.signal # s]_vars
  <2> SUFFICES ASSUME TypeOK, [Next]_vars, NEW s \in Signals, Settled(s)
               PROVE  Settled(s)' /\ \A f \in fills' \ fills : f.signal # s
    OBVIOUS
  <2> DEFINE Kept == Settled(s)' /\ \A f \in fills' \ fills : f.signal # s
  <2>s. status[s] = "executed"
    BY DEF Settled
  <2>p. \A p \in Processors :
           /\ pass[p].pc = "send" => s \notin pass[p].batch
           /\ pass[p].pc = "update" => s \notin pass[p].batch /\ pass[p].signal # s
    BY DEF Settled, Undone
  <2>t. \A p \in Processors : pass[p].pc \in {"idle", "send", "update"}
    BY PassFields DEF TypeOK
  <2>r. \A r \in Requests :
           request[r].pc \in {"position", "write"} => request[r].signal # s
    BY DEF Settled, InFlight
  <2>k. ASSUME status'[s] = "executed",
               \A p \in Processors : pass'[p].pc \in {"idle", "send", "update"},
               \A p \in Processors :
                  /\ pass'[p].pc = "send" => s \notin pass'[p].batch
                  /\ pass'[p].pc = "update" => s \notin pass'[p].batch /\ pass'[p].signal # s,
               \A r \in Requests :
                  request'[r].pc \in {"position", "write"} => request'[r].signal # s,
               \A f \in fills' \ fills : f.signal # s
        PROVE  Kept
    BY <2>k DEF Settled, Undone, InFlight
  <2> USE DEF TypeOK
  <2>1. CASE RunLoad \/ RunSave
    <3>1. status'[s] = "executed"
      BY <2>1, <2>s DEF RunLoad, RunSave
    <3> QED
      BY <2>1, <3>1, <2>p, <2>t, <2>r, <2>k DEF RunLoad, RunSave
  <2>2. ASSUME NEW p \in Processors, PassStart(p) PROVE Kept
    <3>1. s \notin OldestPending
      BY <2>s DEF OldestPending, Pending
    <3>2. /\ \A x \in Processors : pass'[x].pc \in {"idle", "send", "update"}
          /\ \A x \in Processors :
                  /\ pass'[x].pc = "send" => s \notin pass'[x].batch
                  /\ pass'[x].pc = "update" => s \notin pass'[x].batch /\ pass'[x].signal # s
      BY <2>2, <2>p, <2>t, <3>1 DEF PassStart
    <3> QED
      BY <2>2, <2>s, <2>r, <3>2, <2>k DEF PassStart
  <2>3. ASSUME NEW p \in Processors, NEW t \in Signals, NEW ok \in BOOLEAN, Send(p, t, ok)
        PROVE  Kept
    <3>1. t # s
      BY <2>3, <2>p DEF Send
    <3>2. /\ \A x \in Processors : pass'[x].pc \in {"idle", "send", "update"}
          /\ \A x \in Processors :
                  /\ pass'[x].pc = "send" => s \notin pass'[x].batch
                  /\ pass'[x].pc = "update" => s \notin pass'[x].batch /\ pass'[x].signal # s
      BY <2>3, <2>p, <2>t, <3>1 DEF Send
    <3> QED
      BY <2>3, <2>s, <2>r, <3>2, <2>k DEF Send
  <2>4. ASSUME NEW p \in Processors, Update(p) \/ UpdateRaises(p) PROVE Kept
    <3>1. status'[s] = "executed"
      BY <2>4, <2>s, <2>p DEF Update, UpdateRaises
    <3>2. /\ \A x \in Processors : pass'[x].pc \in {"idle", "send", "update"}
          /\ \A x \in Processors :
                  /\ pass'[x].pc = "send" => s \notin pass'[x].batch
                  /\ pass'[x].pc = "update" => s \notin pass'[x].batch /\ pass'[x].signal # s
      BY <2>4, <2>p, <2>t DEF Update, UpdateRaises, NextSignal, NoPass
    <3> QED
      BY <2>4, <2>r, <3>1, <3>2, <2>k DEF Update, UpdateRaises
  <2>5. ASSUME NEW p \in Processors, PassAbort(p) PROVE Kept
    BY <2>5, <2>s, <2>p, <2>t, <2>r, <2>k DEF PassAbort, NoPass
  <2>6. ASSUME NEW r \in Requests, RequestArrives(r) PROVE Kept
    <3>1. \A x \in Requests :
             request'[x].pc \in {"position", "write"} => request'[x].signal # s
      <4>1. ASSUME NEW t \in Signals, NEW qty \in Quantities, ExecuteSignal(r, t, qty),
                   NEW x \in Requests, request'[x].pc \in {"position", "write"}
            PROVE  request'[x].signal # s
        BY <4>1, <2>s, <2>r DEF ExecuteSignal, Done
      <4>2. ASSUME NEW i \in Instruments, NEW side \in Sides, NEW qty \in Quantities,
                   ManualFill(r, i, side, qty),
                   NEW x \in Requests, request'[x].pc \in {"position", "write"}
            PROVE  request'[x].signal # s
        BY <4>2, <2>r, LedgerAssumption DEF ManualFill
      <4> QED
        BY <2>6, <4>1, <4>2 DEF RequestArrives
    <3>2. UNCHANGED <<status, pass, fills>>
      BY <2>6 DEF RequestArrives, ExecuteSignal, ManualFill
    <3> QED
      BY <3>1, <3>2, <2>s, <2>p, <2>t, <2>k
  <2>7. ASSUME NEW r \in Requests, ReadPosition(r) PROVE Kept
    <3>1. \A x \in Requests :
             request'[x].pc \in {"position", "write"} =>
                /\ request[x].pc \in {"position", "write"}
                /\ request'[x].signal = request[x].signal
      <4> DEFINE h == request[r]
      <4>1. h \in [pc : {"position", "write"}, signal : Signals \cup {Manual},
                   inst : Instruments, side : Sides, qty : Quantities, held : Held]
        BY <2>7 DEF ReadPosition, Handlers
      <4>2. request'[r] = Done \/ request'[r] = [h EXCEPT !.pc = "write",
                                                  !.held = position[h.inst]]
        BY <2>7 DEF ReadPosition, Answer
      <4>3. [h EXCEPT !.pc = "write", !.held = position[h.inst]].signal = h.signal
        BY <4>1
      <4>4. h.pc = "position" /\ \A x \in Requests \ {r} : request'[x] = request[x]
        BY <2>7 DEF ReadPosition, Answer
      <4>5. request'[r] = Done \/ request'[r].signal = h.signal
        BY <4>2, <4>3
      <4>6. ASSUME NEW x \in Requests, request'[x].pc \in {"position", "write"}
            PROVE  /\ request[x].pc \in {"position", "write"}
                   /\ request'[x].signal = request[x].signal
        <5>1. CASE x = r
          BY <4>4, <4>5, <4>6, <5>1 DEF Done
        <5>2. CASE x # r
          BY <4>4, <4>6, <5>2
        <5> QED
          BY <5>1, <5>2
      <4> QED
        BY <4>6
    <3> QED
      BY <2>7, <2>s, <2>p, <2>t, <2>r, <3>1, <2>k DEF ReadPosition
  <2>8. ASSUME NEW r \in Requests, Commit(r) PROVE Kept
    <3>1. request[r].signal # s
      BY <2>8, <2>r DEF Commit
    <3>2. status'[s] = "executed" /\ \A f \in fills' \ fills : f.signal # s
      BY <2>8, <2>s, <3>1 DEF Commit
    <3> QED
      BY <2>8, <2>p, <2>t, <2>r, <3>2, <2>k DEF Commit, Answer, Done
  <2>9. ASSUME NEW r \in Requests, Rollback(r) PROVE Kept
    BY <2>9, <2>s, <2>p, <2>t, <2>r, <2>k DEF Rollback, Answer, Done
  <2>10. CASE UNCHANGED vars
    BY <2>10, <2>s, <2>p, <2>t, <2>r, <2>k DEF vars
  <2> QED
    BY <2>1, <2>2, <2>3, <2>4, <2>5, <2>6, <2>7, <2>8, <2>9, <2>10
    DEF Next, PassStep, RequestStep
<1> QED
  BY <1>1, TypeCorrect, PTL DEF Spec, SettledForever

-----------------------------------------------------------------------------
(* The positions and the sums of the ledger.                               *)

Counted(r) ==
    [request |-> r, signal |-> request[r].signal, inst |-> request[r].inst,
     side |-> request[r].side, qty |-> request[r].qty]

\* The ledger is finite, and a request that has a fill in it has answered.
LedgerTyped ==
    /\ IsFiniteSet(fills)
    /\ \A f \in fills : request[f.request].pc = "done"

\* What a handler about to write has read is there or was bought since.
HeldBacked ==
    \A r \in Requests, i \in Instruments :
        request[r].pc = "write" /\ request[r].inst = i /\ request[r].held # NoRow =>
            request[r].held <= Filled(i, "buy")

RowBacked ==
    \A i \in Instruments : position[i] # NoRow => position[i] <= Filled(i, "buy")

\* The sum of a part of the ledger is a number.
LEMMA FilledIsNat ==
  ASSUME TypeOK, IsFiniteSet(fills), NEW i, NEW side
  PROVE  Filled(i, side) \in Nat
<1> DEFINE f == [x \in fills |-> x.qty]
           P == {x \in fills : x.inst = i /\ x.side = side}
<1>1. IsFiniteSet(P) /\ \A x \in P : f[x] \in Nat
  BY FS_Subset, LedgerAssumption DEF TypeOK, Fills
<1> HIDE DEF f, P
<1>2. SumFunctionOnSet(f, P) \in Nat
  BY <1>1, SumIsNat
<1> QED
  BY <1>2 DEF Filled, f, P

\* A commit adds its fill to one of the sums, by its quantity.
LEMMA CommitFills ==
  ASSUME TypeOK, LedgerTyped, NEW r \in Requests, Commit(r),
         NEW i \in Instruments, NEW side \in Sides
  PROVE  Filled(i, side)' = Filled(i, side)
            + (IF request[r].inst = i /\ request[r].side = side THEN request[r].qty ELSE 0)
<1> DEFINE new == Counted(r)
           f == [x \in fills |-> x.qty]
           g == [x \in fills' |-> x.qty]
           P == {x \in fills : x.inst = i /\ x.side = side}
           Q == {x \in fills' : x.inst = i /\ x.side = side}
<1>1. fills' = fills \cup {new}
  BY DEF Commit, Counted
<1>2. new \notin fills
  BY DEF Commit, Counted, LedgerTyped
<1>3. request[r].qty \in Nat /\ \A x \in fills : x.qty \in Nat
  BY HandlerFields, LedgerAssumption DEF Commit, TypeOK, Fills
<1>4. IsFiniteSet(P) /\ P \in SUBSET fills
  BY FS_Subset DEF LedgerTyped
<1>5. \A x \in fills : g[x] = x.qty /\ f[x] = x.qty
  BY <1>1
<1>5a. g[new] = request[r].qty
  <2>1. new \in fills' /\ new.qty = request[r].qty
    BY <1>1 DEF Counted
  <2> QED
    BY <2>1
<1>6. SumFunctionOnSet(g, P) = SumFunctionOnSet(f, P)
  <2>1. \A x \in P : f[x] \in Int /\ f[x] = g[x]
    BY <1>3, <1>4, <1>5
  <2> HIDE DEF f, g, P
  <2> QED
    BY <1>4, <2>1, SumOfEqual
<1>7. CASE request[r].inst = i /\ request[r].side = side
  <2>1. Q = P \cup {new} /\ new \notin P
    BY <1>1, <1>2, <1>7 DEF Counted
  <2>2. \A x \in P \cup {new} : g[x] \in Int
    BY <1>3, <1>4, <1>5, <1>5a
  <2> HIDE DEF f, g, P, Q, new
  <2>3. SumFunctionOnSet(g, P \cup {new}) = g[new] + SumFunctionOnSet(g, P)
    BY <1>4, <2>1, <2>2, SumAdds
  <2>4. SumFunctionOnSet(f, P) \in Nat
    BY FilledIsNat DEF LedgerTyped, Filled, f, P
  <2>5. SumFunctionOnSet(g, Q) = SumFunctionOnSet(f, P) + request[r].qty
    BY <2>1, <2>3, <2>4, <1>3, <1>5a, <1>6
  <2> QED
    BY <1>7, <2>5 DEF Filled, f, g, P, Q
<1>8. CASE ~(request[r].inst = i /\ request[r].side = side)
  <2>1. Q = P
    BY <1>1, <1>8 DEF Counted
  <2>2. SumFunctionOnSet(f, P) \in Nat
    BY FilledIsNat DEF LedgerTyped, Filled
  <2> HIDE DEF f, g, P, Q
  <2>3. SumFunctionOnSet(g, Q) = SumFunctionOnSet(f, P) + 0
    BY <2>1, <2>2, <1>6
  <2> QED
    BY <1>8, <2>3 DEF Filled, f, g, P, Q
<1> QED
  BY <1>7, <1>8

\* Only a commit touches the positions and the ledger.
LEMMA LedgerSteps ==
  ASSUME [Next]_vars
  PROVE  \/ UNCHANGED <<position, fills>>
         \/ \E r \in Requests : Commit(r)
BY DEF Next, vars, RunLoad, RunSave, PassStep, PassStart, Send, Update, UpdateRaises, PassAbort,
       RequestArrives, ExecuteSignal, ManualFill, RequestStep, ReadPosition, Rollback

\* What a step makes of one handler.
LEMMA RequestSteps ==
  ASSUME TypeOK, [Next]_vars, NEW r \in Requests
  PROVE  \/ request'[r] = request[r]
         \/ /\ request[r].pc = "idle"
            /\ request'[r].pc \in {"position", "done"}
         \/ /\ request[r].pc = "position" /\ request'[r].pc = "write"
            /\ request'[r].inst = request[r].inst
            /\ request'[r].held = position[request[r].inst]
            /\ UNCHANGED <<position, fills>>
         \/ request[r].pc \in {"position", "write"} /\ request'[r] = Done
<1> DEFINE Stepped ==
         \/ request'[r] = request[r]
         \/ /\ request[r].pc = "idle"
            /\ request'[r].pc \in {"position", "done"}
         \/ /\ request[r].pc = "position" /\ request'[r].pc = "write"
            /\ request'[r].inst = request[r].inst
            /\ request'[r].held = position[request[r].inst]
            /\ UNCHANGED <<position, fills>>
         \/ request[r].pc \in {"position", "write"} /\ request'[r] = Done
<1> USE DEF TypeOK
<1>1. CASE RunLoad \/ RunSave
  BY <1>1 DEF RunLoad, RunSave
<1>2. ASSUME NEW p \in Processors, PassStep(p) \/ PassAbort(p) PROVE Stepped
  BY <1>2 DEF PassStep, PassStart, Send, Update, UpdateRaises, PassAbort
<1>3. ASSUME NEW q \in Requests, RequestArrives(q) PROVE Stepped
  BY <1>3 DEF RequestArrives, ExecuteSignal, ManualFill, Done
<1>4. ASSUME NEW q \in Requests, ReadPosition(q) PROVE Stepped
  <2>1. CASE q # r
    BY <1>4, <2>1 DEF ReadPosition, Answer
  <2>2. CASE q = r
    <3> DEFINE h == request[r]
               w == [h EXCEPT !.pc = "write", !.held = position[h.inst]]
    <3>1. h \in [pc : {"position", "write"}, signal : Signals \cup {Manual},
                 inst : Instruments, side : Sides, qty : Quantities, held : Held]
      BY <1>4, <2>2 DEF ReadPosition, Handlers
    <3>2. request'[r] = Done \/ request'[r] = w
      BY <1>4, <2>2 DEF ReadPosition, Answer
    <3>3. w.pc = "write" /\ w.inst = h.inst /\ w.held = position[h.inst]
      BY <3>1
    <3> QED
      BY <1>4, <2>2, <3>2, <3>3 DEF ReadPosition
  <2> QED
    BY <2>1, <2>2
<1>5. ASSUME NEW q \in Requests, Commit(q) \/ Rollback(q) PROVE Stepped
  BY <1>5 DEF Commit, Rollback, Answer, InFlight
<1>6. CASE UNCHANGED vars
  BY <1>6 DEF vars
<1> QED
  BY <1>1, <1>2, <1>3, <1>4, <1>5, <1>6 DEF Next, RequestStep

LEMMA LedgerTypedStep ==
  TypeOK /\ LedgerTyped /\ [Next]_vars => LedgerTyped'
<1> SUFFICES ASSUME TypeOK, LedgerTyped, [Next]_vars PROVE LedgerTyped'
  OBVIOUS
<1>1. \A f \in fills : f.request \in Requests
  BY DEF TypeOK, Fills
<1>2. \A f \in fills : request'[f.request].pc = "done"
  BY <1>1, RequestSteps DEF LedgerTyped
<1>3. CASE UNCHANGED <<position, fills>>
  BY <1>2, <1>3 DEF LedgerTyped
<1>4. ASSUME NEW r \in Requests, Commit(r) PROVE LedgerTyped'
  <2>1. fills' = fills \cup {Counted(r)} /\ Counted(r).request = r
    BY <1>4 DEF Commit, Counted
  <2>2. IsFiniteSet(fills')
    BY <2>1, FS_AddElement DEF LedgerTyped
  <2>3. request'[r].pc = "done"
    BY <1>4 DEF Commit, Answer, Done, TypeOK
  <2> QED
    BY <1>2, <2>1, <2>2, <2>3 DEF LedgerTyped
<1> QED
  BY <1>3, <1>4, LedgerSteps

\* A handler's quantity was computed from a position that was backed when it
\* was read, and what has been bought never shrinks.
LEMMA BackedStep ==
  TypeOK /\ WriteChecked /\ LedgerTyped /\ HeldBacked /\ RowBacked /\ [Next]_vars
    => HeldBacked' /\ RowBacked'
<1> SUFFICES ASSUME TypeOK, WriteChecked, LedgerTyped, HeldBacked, RowBacked, [Next]_vars
             PROVE  HeldBacked' /\ RowBacked'
  OBVIOUS
<1> USE LedgerAssumption
<1>1. ASSUME NEW i \in Instruments PROVE Filled(i, "buy") \in Nat
  BY <1>1, FilledIsNat DEF LedgerTyped
<1>2. ASSUME NEW i \in Instruments
      PROVE  Filled(i, "buy")' \in Nat /\ Filled(i, "buy") <= Filled(i, "buy")'
  <2>1. CASE UNCHANGED <<position, fills>>
    BY <1>1, <1>2, <2>1 DEF Filled
  <2>2. ASSUME NEW r \in Requests, Commit(r)
        PROVE  Filled(i, "buy")' \in Nat /\ Filled(i, "buy") <= Filled(i, "buy")'
    <3>1. request[r].qty \in Nat
      BY <2>2, HandlerFields DEF Commit, TypeOK
    <3> QED
      BY <1>1, <1>2, <2>2, <3>1, CommitFills DEF Sides
  <2> QED
    BY <2>1, <2>2, LedgerSteps
<1>3. HeldBacked'
  <2> SUFFICES ASSUME NEW r \in Requests, NEW i \in Instruments, request'[r].pc = "write",
                      request'[r].inst = i, request'[r].held # NoRow
               PROVE  request'[r].held <= Filled(i, "buy")'
    BY DEF HeldBacked
  <2>1. CASE request'[r] = request[r]
    <3>1. request[r].held \in Nat /\ request[r].held <= Filled(i, "buy")
      BY <2>1, HandlerFields DEF TypeOK, Held, HeldBacked
    <3> QED
      BY <2>1, <3>1, <1>1, <1>2
  <2>2. CASE /\ request[r].pc = "position"
             /\ request'[r].inst = request[r].inst
             /\ request'[r].held = position[request[r].inst]
             /\ UNCHANGED <<position, fills>>
    <3>1. position[i] <= Filled(i, "buy")
      BY <2>2 DEF RowBacked
    <3> QED
      BY <2>2, <3>1 DEF Filled
  <2> QED
    BY <2>1, <2>2, RequestSteps DEF Done
<1>4. RowBacked'
  <2>1. CASE UNCHANGED <<position, fills>>
    BY <2>1 DEF RowBacked, Filled
  <2>2. ASSUME NEW r \in Requests, Commit(r) PROVE RowBacked'
    <3> DEFINE q == request[r]
    <3>1. /\ q.inst \in Instruments /\ q.side \in Sides /\ q.qty \in Nat /\ q.held \in Held
          /\ q.pc = "write"
      BY <2>2, HandlerFields DEF Commit, TypeOK
    <3>2. SUFFICES ASSUME NEW i \in Instruments, position'[i] # NoRow
                   PROVE  position'[i] <= Filled(i, "buy")'
      BY DEF RowBacked, Filled
    <3>3. CASE i # q.inst
      <4>1. position'[i] = position[i]
        BY <2>2, <3>3 DEF Commit, TypeOK
      <4>2. position[i] \in Nat /\ position[i] <= Filled(i, "buy")
        BY <3>2, <4>1 DEF RowBacked, TypeOK, Held
      <4> QED
        BY <4>1, <4>2, <1>1, <1>2
    <3>4. CASE i = q.inst
      <4>1. position'[i] = Applied(q.held, q.side, q.qty)
        BY <2>2, <3>1, <3>4 DEF Commit, TypeOK
      <4>2. ~Rejected(q.held, q.side, q.qty)
        BY <3>1 DEF WriteChecked
      <4>3. q.held # NoRow => q.held \in Nat /\ q.held <= Filled(i, "buy")
        BY <3>1, <3>4 DEF HeldBacked, Held
      <4>4. Filled(i, "buy")' = Filled(i, "buy") + (IF q.side = "buy" THEN q.qty ELSE 0)
        BY <2>2, <3>4, CommitFills DEF Sides
      <4>5. Filled(i, "buy") \in Nat
        BY <1>1
      <4> HIDE DEF q
      <4>6. CASE q.side = "buy"
        BY <3>1, <4>1, <4>3, <4>4, <4>5, <4>6 DEF Applied, Flat
      <4>7. CASE q.side = "sell"
        BY <3>1, <4>1, <4>2, <4>3, <4>4, <4>5, <4>7 DEF Applied, Rejected, Flat
      <4> QED
        BY <3>1, <4>6, <4>7 DEF Sides
    <3> QED
      BY <3>3, <3>4
  <2> QED
    BY <2>1, <2>2, LedgerSteps
<1> QED
  BY <1>3, <1>4

\* The ledger of every reachable state is finite, and no request counts twice.
THEOREM LedgerIsTyped == Spec => []LedgerTyped
<1>1. Init => LedgerTyped
  BY FS_EmptySet DEF Init, LedgerTyped
<1> QED
  BY <1>1, LedgerTypedStep, TypeCorrect, PTL DEF Spec

\* However fills race, a position is never larger than what was bought: a
\* lost update loses shares, it does not make any.
THEOREM PositionIsBacked == Spec => []PositionBacked
<1>1. Init => HeldBacked /\ RowBacked
  BY DEF Init, HeldBacked, RowBacked, Idle
<1>2. TypeOK /\ LedgerTyped /\ RowBacked => PositionBacked
  <2> SUFFICES ASSUME TypeOK, LedgerTyped, RowBacked, NEW i \in Instruments, ~Flat(position[i])
               PROVE  position[i] <= Filled(i, "buy")
    BY DEF PositionBacked
  <2> QED
    BY DEF RowBacked, Flat
<1> QED
  BY <1>1, <1>2, BackedStep, TypeCorrect, LedgerIsTyped, PTL DEF Spec

-----------------------------------------------------------------------------
(* When the position is the net of the ledger.                             *)

\* Every commit writes what it computed from the position as it still is.
CommitsAreFresh ==
    [][\A r \in Requests : Commit(r) => request[r].held = position[request[r].inst]]_vars

\* A commit that is not stale keeps the ledger balanced.
LEMMA FreshCommitBalances ==
  ASSUME TypeOK, WriteChecked, LedgerTyped, LedgerBalances, NEW r \in Requests, Commit(r),
         request[r].held = position[request[r].inst]
  PROVE  LedgerBalances'
<1> USE LedgerAssumption
<1> DEFINE q == request[r]
<1>1. /\ q.inst \in Instruments /\ q.side \in Sides /\ q.qty \in Nat /\ q.held \in Held
      /\ q.pc = "write" /\ ~Rejected(q.held, q.side, q.qty)
  BY HandlerFields DEF Commit, TypeOK, WriteChecked
<1>2. SUFFICES ASSUME NEW i \in Instruments
               PROVE  (IF position'[i] = NoRow THEN 0 ELSE position'[i])
                        = Filled(i, "buy")' - Filled(i, "sell")'
  BY DEF LedgerBalances, Filled
<1> DEFINE B == Filled(i, "buy")
           S == Filled(i, "sell")
           B2 == Filled(i, "buy")'
           S2 == Filled(i, "sell")'
<1>3. /\ B \in Nat /\ S \in Nat
      /\ (IF position[i] = NoRow THEN 0 ELSE position[i]) = B - S
  BY FilledIsNat DEF LedgerTyped, LedgerBalances
<1>4. /\ B2 = B + (IF q.inst = i /\ q.side = "buy" THEN q.qty ELSE 0)
      /\ S2 = S + (IF q.inst = i /\ q.side = "sell" THEN q.qty ELSE 0)
  BY CommitFills DEF Sides
<1>5. position'[i] = IF i = q.inst THEN Applied(q.held, q.side, q.qty) ELSE position[i]
  BY <1>1 DEF Commit, TypeOK
<1>6. q.inst = i => q.held = position[i]
  OBVIOUS
<1>7. position[i] \in Held
  BY DEF TypeOK
<1> DEFINE Net == (IF position'[i] = NoRow THEN 0 ELSE position'[i]) = B2 - S2
<1> SUFFICES Net
  OBVIOUS
<1> HIDE DEF q, B, S, B2, S2
<1>8. CASE q.inst # i
  BY <1>3, <1>4, <1>5, <1>8
<1>9. CASE q.inst = i /\ q.side = "buy"
  BY <1>1, <1>3, <1>4, <1>5, <1>6, <1>7, <1>9 DEF Applied, Flat, Held
<1>10. CASE q.inst = i /\ q.side = "sell"
  BY <1>1, <1>3, <1>4, <1>5, <1>6, <1>7, <1>10 DEF Applied, Rejected, Flat, Held
<1> QED
  BY <1>1, <1>8, <1>9, <1>10 DEF Sides

\* The positions are the net of the ledger as long as no commit is stale,
\* whatever else the handlers and the processor interleave.
THEOREM FreshLedgerBalances == Spec /\ CommitsAreFresh => []LedgerBalances
<1>1. Init => LedgerBalances
  <2> SUFFICES ASSUME Init, NEW i \in Instruments PROVE Filled(i, "buy") - Filled(i, "sell") = 0
    BY DEF Init, LedgerBalances
  <2>1. \A side \in Sides : Filled(i, side) = 0
    BY SumOfNothing DEF Init, Filled
  <2> QED
    BY <2>1 DEF Sides
<1>2. /\ TypeOK /\ WriteChecked /\ LedgerTyped /\ LedgerBalances /\ [Next]_vars
      /\ [\A r \in Requests : Commit(r) => request[r].held = position[request[r].inst]]_vars
      => LedgerBalances'
  <2> SUFFICES ASSUME TypeOK, WriteChecked, LedgerTyped, LedgerBalances, [Next]_vars,
                      [\A r \in Requests : Commit(r) =>
                          request[r].held = position[request[r].inst]]_vars
               PROVE  LedgerBalances'
    OBVIOUS
  <2>1. CASE UNCHANGED <<position, fills>>
    BY <2>1 DEF LedgerBalances, Filled
  <2>2. ASSUME NEW r \in Requests, Commit(r) PROVE LedgerBalances'
    <3>1. CASE UNCHANGED vars
      BY <3>1, <2>1 DEF vars
    <3>2. CASE ~UNCHANGED vars
      BY <2>2, <3>2, FreshCommitBalances
    <3> QED
      BY <3>1, <3>2
  <2> QED
    BY <2>1, <2>2, LedgerSteps
<1> QED
  BY <1>1, <1>2, TypeCorrect, LedgerIsTyped, PTL DEF Spec, CommitsAreFresh

\* One request at a time, and what it has read is what is there.
Alone ==
    /\ \A r, q \in InFlight : r = q
    /\ \A r \in Requests : request[r].pc = "write" =>
           request[r].held = position[request[r].inst]

LEMMA AloneStep ==
  ASSUME MaxInFlight = 1, TypeOK, Alone, [Next]_vars
  PROVE  Alone'
<1>1. \A r, q \in InFlight' : r = q
  <2>1. CASE InFlight' \subseteq InFlight
    BY <2>1 DEF Alone
  <2>2. ASSUME NEW r \in Requests, RequestArrives(r) PROVE \A x, y \in InFlight' : x = y
    <3>1. /\ Cardinality(InFlight) < 1
          /\ \A x \in Requests \ {r} : request'[x] = request[x]
      BY <2>2 DEF RequestArrives, ExecuteSignal, ManualFill, TypeOK
    <3>2. InFlight = {}
      <4>1. ASSUME NEW x \in InFlight PROVE FALSE
        <5>1. InFlight = {x}
          BY DEF Alone
        <5> QED
          BY <3>1, <5>1, FS_Singleton
      <4> QED
        BY <4>1
    <3>3. InFlight' \subseteq {r}
      BY <3>1, <3>2 DEF InFlight
    <3> QED
      BY <3>3
  <2>3. CASE ~ \E r \in Requests : RequestArrives(r)
    <3>1. \A r \in Requests : request[r].pc = "idle" => request'[r].pc \in {"idle"}
      <4> USE DEF TypeOK
      <4>1. CASE RunLoad \/ RunSave \/ UNCHANGED vars
        BY <4>1 DEF RunLoad, RunSave, vars
      <4>2. ASSUME NEW p \in Processors, PassStep(p) \/ PassAbort(p) PROVE request' = request
        BY <4>2 DEF PassStep, PassStart, Send, Update, UpdateRaises, PassAbort
      <4>3. ASSUME NEW q \in Requests, RequestStep(q)
            PROVE  \A r \in Requests : request[r].pc = "idle" => request'[r] = request[r]
        BY <4>3 DEF RequestStep, ReadPosition, Commit, Rollback, Answer, InFlight
      <4> QED
        BY <2>3, <4>1, <4>2, <4>3 DEF Next
    <3>2. InFlight' \subseteq InFlight
      BY <3>1, RequestSteps DEF InFlight, Done
    <3> QED
      BY <3>2, <2>1
  <2> QED
    BY <2>2, <2>3
<1>2. ASSUME NEW r \in Requests, request'[r].pc = "write"
      PROVE  request'[r].held = position'[request'[r].inst]
  <2>1. CASE request'[r] = request[r]
    <3>1. CASE UNCHANGED <<position, fills>>
      BY <1>2, <2>1, <3>1 DEF Alone
    <3>2. ASSUME NEW q \in Requests, Commit(q) PROVE FALSE
      <4>1. q \in InFlight /\ r \in InFlight
        BY <1>2, <2>1, <3>2 DEF InFlight, Commit
      <4>2. request'[r] = Done
        BY <3>2, <4>1 DEF Alone, Commit, Answer, TypeOK
      <4> QED
        BY <1>2, <4>2 DEF Done
    <3> QED
      BY <3>1, <3>2, LedgerSteps
  <2>2. CASE request'[r] # request[r]
    BY <1>2, <2>2, RequestSteps DEF Done
  <2> QED
    BY <2>1, <2>2
<1> QED
  BY <1>1, <1>2 DEF Alone

\* With one request at a time no commit is stale: the positions are the net
\* of the ledger, as its comment says.
THEOREM SerialLedgerBalances == MaxInFlight = 1 => (Spec => []LedgerBalances)
<1> SUFFICES ASSUME MaxInFlight = 1 PROVE Spec => []LedgerBalances
  OBVIOUS
<1>1. Init => Alone
  BY DEF Init, Idle, Alone, InFlight
<1>2. TypeOK /\ Alone /\ [Next]_vars => Alone'
  BY AloneStep
<1>3. Alone => \A r \in Requests : Commit(r) => request[r].held = position[request[r].inst]
  BY DEF Alone, Commit
<1>4. Spec => CommitsAreFresh
  BY <1>1, <1>2, <1>3, TypeCorrect, PTL DEF Spec, CommitsAreFresh
<1> QED
  BY <1>4, FreshLedgerBalances, PTL
=============================================================================
