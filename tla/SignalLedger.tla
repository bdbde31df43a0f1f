---------------------------- MODULE SignalLedger ----------------------------
(***************************************************************************)
(* One user's trade signals, positions and fills, and everything that      *)
(* writes them:                                                            *)
(*                                                                         *)
(*   scheduler/runner.py       a strategy run filters its signals by the   *)
(*                             positions it read, then saves them          *)
(*   signals/processor.py      reads a batch of pending signals, mails     *)
(*                             each one, then writes its status            *)
(*   api/routers/signals.py    POST /api/signals/{id}/execute              *)
(*   api/routers/me_positions.py  POST /api/me/positions/fills             *)
(*   positions/repository.py   record_position_fill, used by both          *)
(*                                                                         *)
(* Transactions run at READ COMMITTED.  The statements that read and the   *)
(* commit that writes are separate actions; the locks are those PostgreSQL *)
(* takes for the code's own statements.  Left out: average cost, prices,   *)
(* option signals, other users (no row is shared between users).           *)
(***************************************************************************)
EXTENDS Integers, FiniteSets, Sequences, FiniteSetsExt

CONSTANTS Signals,       \* the signals strategies may generate
          SignalInst,    \* their instruments, [Signals -> Instruments]
          SignalSide,    \* their directions, [Signals -> {"buy", "sell"}]
          Instruments,
          Requests,      \* the HTTP requests the user may send
          Quantities,    \* the quantities of a request
          MaxInFlight,   \* bound: requests served at the same time
          Processors,    \* processes running the signal_processor job
          BatchLimit,    \* LIMIT of process_pending (50 in the code)
          NoRow,         \* the instrument has no user_positions row
          Manual,        \* the request is a manual fill, signal_id NULL
          Nobody         \* no request holds the instrument row

ASSUME LedgerAssumption ==
    /\ IsFiniteSet(Signals)
    /\ SignalInst \in [Signals -> Instruments]
    /\ SignalSide \in [Signals -> {"buy", "sell"}]
    /\ Quantities \subseteq Nat \ {0}
    /\ MaxInFlight \in Nat /\ BatchLimit \in Nat \ {0}
    /\ NoRow \notin Int
    /\ Manual \notin Signals
    /\ Nobody \notin Requests

VARIABLES status,     \* trade_signals.status
          created,    \* the signals in the order of created_at
          mailed,     \* the signals whose mail was delivered
          position,   \* user_positions.quantity
          fills,      \* the rows of position_fills, named by their request
          request,    \* the handlers, one per request
          upserting,  \* the request holding each instruments row
          pass,       \* the pass of process_pending in each process
          seen        \* the positions the current strategy run has read

vars == <<status, created, mailed, position, fills, request, upserting, pass, seen>>

-----------------------------------------------------------------------------
Statuses == {"absent", "pending", "notified", "executed"}
Held     == Nat \cup {NoRow}
Sides    == {"buy", "sell"}

Fills == [request : Requests, signal : Signals \cup {Manual},
          inst : Instruments, side : Sides, qty : Quantities]

\* A handler waits for its request, has checked its signal ("position"), has
\* computed the fill ("write"), or has answered.
Handlers ==
    [pc : {"idle", "done"}] \cup
    [pc : {"position", "write"}, signal : Signals \cup {Manual},
     inst : Instruments, side : Sides, qty : Quantities, held : Held]

\* A pass has its batch before it, or has just sent (or failed to send) the
\* mail of "signal".
Passes ==
    [pc : {"idle"}] \cup
    [pc : {"send"}, batch : SUBSET Signals] \cup
    [pc : {"update"}, batch : SUBSET Signals, signal : Signals, sent : BOOLEAN]

TypeOK ==
    /\ status \in [Signals -> Statuses]
    /\ created \in Seq(Signals)
    /\ mailed \subseteq Signals
    /\ position \in [Instruments -> Held]
    /\ fills \subseteq Fills
    /\ request \in [Requests -> Handlers]
    /\ upserting \in [Instruments -> Requests \cup {Nobody}]
    /\ pass \in [Processors -> Passes]
    /\ seen \in [Instruments -> Held] \cup {<<>>}

Idle == [pc |-> "idle"]
Done == [pc |-> "done"]
NoPass == [pc |-> "idle"]

Init ==
    /\ status = [s \in Signals |-> "absent"]
    /\ created = <<>>
    /\ mailed = {}
    /\ position = [i \in Instruments |-> NoRow]
    /\ fills = {}
    /\ request = [r \in Requests |-> Idle]
    /\ upserting = [i \in Instruments |-> Nobody]
    /\ pass = [p \in Processors |-> NoPass]
    /\ seen = <<>>

-----------------------------------------------------------------------------
(* positions/service.py                                                    *)

Flat(held) == IF held = NoRow THEN TRUE ELSE held = 0

\* Variant: a sell is only checked against a flat position.
Rejected_FlatOnly(held, side, qty) == side = "sell" /\ Flat(held)

\* apply_fill raises ValueError.
Rejected(held, side, qty) ==
    side = "sell" /\ (IF Flat(held) THEN TRUE ELSE qty > held)

\* Variant: every fill adds to the position.
Applied_IgnoresSide(held, side, qty) ==
    IF Flat(held) THEN qty ELSE held + qty

\* The new quantity apply_fill returns.
Applied(held, side, qty) ==
    IF side = "sell" THEN held - qty
    ELSE IF Flat(held) THEN qty ELSE held + qty

\* filter_signals_for_positions: buy what is not held, sell what is.
Passes_Filter(s, held) == SignalSide[s] = "buy" <=> Flat(held[SignalInst[s]])

-----------------------------------------------------------------------------
(* A strategy run: load_positions_by_symbol, then _save_signals.           *)

RunLoad ==
    /\ seen = <<>>
    /\ seen' = position
    /\ UNCHANGED <<status, created, mailed, position, fills, request, upserting, pass>>

\* The run saves the signals the filter leaves in one transaction (none, if
\* the strategy found nothing); equal created_at leaves their order open.
RunSave ==
    /\ seen # <<>>
    /\ \E S \in SUBSET {s \in Signals : status[s] = "absent" /\ Passes_Filter(s, seen)} :
       \E order \in [1..Cardinality(S) -> S] :
          /\ S = {order[n] : n \in 1..Cardinality(S)}
          /\ status' = [s \in Signals |-> IF s \in S THEN "pending" ELSE status[s]]
          /\ created' = created \o order
    /\ seen' = <<>>
    /\ UNCHANGED <<mailed, position, fills, request, upserting, pass>>

-----------------------------------------------------------------------------
(* SignalProcessor.process_pending.  APScheduler runs one pass at a time in *)
(* a process.                                                               *)

Before(s, t) ==
    \E m, n \in 1..Len(created) : m < n /\ created[m] = s /\ created[n] = t

Pending == {s \in Signals : status[s] = "pending"}

\* ORDER BY created_at LIMIT 50.
OldestPending ==
    {s \in Pending : Cardinality({t \in Pending : Before(t, s)}) < BatchLimit}

PassStart(p) ==
    /\ pass[p].pc = "idle"
    /\ Pending # {}
    /\ pass' = [pass EXCEPT ![p] = [pc |-> "send", batch |-> OldestPending]]
    /\ UNCHANGED <<status, created, mailed, position, fills, request, upserting, seen>>

\* notifier.send for the next signal of the batch: the mail goes out, or the
\* failure is logged.
Send(p, s, ok) ==
    /\ pass[p].pc = "send"
    /\ s \in pass[p].batch
    /\ \A t \in pass[p].batch : ~Before(t, s)
    /\ pass' = [pass EXCEPT ![p] = [pc |-> "update", batch |-> @.batch \ {s},
                                   signal |-> s, sent |-> ok]]
    /\ mailed' = IF ok THEN mailed \cup {s} ELSE mailed
    /\ UNCHANGED <<status, created, position, fills, request, upserting, seen>>

\* The loop goes on to the next signal, or the pass is over.
NextSignal(p) ==
    pass' = [pass EXCEPT ![p] = IF @.batch = {} THEN NoPass
                                ELSE [pc |-> "send", batch |-> @.batch]]

\* Variant: a mail that failed counts as sent.
Update_IgnoresFailure(p) ==
    /\ pass[p].pc = "update"
    /\ status' = [status EXCEPT ![pass[p].signal] = "notified"]
    /\ NextSignal(p)
    /\ UNCHANGED <<created, mailed, position, fills, request, upserting, seen>>

\* UPDATE ... SET status WHERE id: whatever the status is by now.
Update(p) ==
    /\ pass[p].pc = "update"
    /\ status' = [status EXCEPT ![pass[p].signal] =
                    IF pass[p].sent THEN "notified" ELSE "pending"]
    /\ NextSignal(p)
    /\ UNCHANGED <<created, mailed, position, fills, request, upserting, seen>>

\* The UPDATE raises: logged, and the loop goes on.
UpdateRaises(p) ==
    /\ pass[p].pc = "update"
    /\ NextSignal(p)
    /\ UNCHANGED <<status, created, mailed, position, fills, request, upserting, seen>>

\* The process dies, or _get_symbol raises: the rest of the batch is dropped.
PassAbort(p) ==
    /\ pass[p].pc # "idle"
    /\ pass' = [pass EXCEPT ![p] = NoPass]
    /\ UNCHANGED <<status, created, mailed, position, fills, request, upserting, seen>>

-----------------------------------------------------------------------------
(* The two handlers that record a fill.                                    *)

InFlight == {r \in Requests : request[r].pc \in {"position", "write"}}

\* Variant: an executed signal is not refused with 409.
ExecuteSignal_NoConflict(r, s, qty) ==
    /\ request[r].pc = "idle"
    /\ Cardinality(InFlight) < MaxInFlight
    /\ request' = [request EXCEPT ![r] =
           [pc |-> "position", signal |-> s, inst |-> SignalInst[s],
            side |-> SignalSide[s], qty |-> qty, held |-> NoRow]]
    /\ UNCHANGED <<status, created, mailed, position, fills, upserting, pass, seen>>

\* execute_signal reads the signal and checks its status (404, 409 or 400).
ExecuteSignal(r, s, qty) ==
    /\ request[r].pc = "idle"
    /\ Cardinality(InFlight) < MaxInFlight
    /\ request' = [request EXCEPT ![r] =
           IF status[s] \in {"pending", "notified"}
           THEN [pc |-> "position", signal |-> s, inst |-> SignalInst[s],
                 side |-> SignalSide[s], qty |-> qty, held |-> NoRow]
           ELSE Done]
    /\ UNCHANGED <<status, created, mailed, position, fills, upserting, pass, seen>>

\* create_manual_fill upserts the instrument, which locks its row until the
\* transaction ends.
ManualFill(r, i, side, qty) ==
    /\ request[r].pc = "idle"
    /\ Cardinality(InFlight) < MaxInFlight
    /\ upserting[i] = Nobody
    /\ upserting' = [upserting EXCEPT ![i] = r]
    /\ request' = [request EXCEPT ![r] =
           [pc |-> "position", signal |-> Manual, inst |-> i,
            side |-> side, qty |-> qty, held |-> NoRow]]
    /\ UNCHANGED <<status, created, mailed, position, fills, pass, seen>>

\* The transaction of r ends.
Answer(r) ==
    /\ request' = [request EXCEPT ![r] = Done]
    /\ upserting' = [i \in Instruments |-> IF upserting[i] = r THEN Nobody ELSE upserting[i]]

\* record_position_fill selects the position and applies the fill; a
\* ValueError is answered with 400.
ReadPosition(r) ==
    /\ request[r].pc = "position"
    /\ LET held == position[request[r].inst] IN
       IF Rejected(held, request[r].side, request[r].qty)
       THEN Answer(r)
       ELSE /\ request' = [request EXCEPT ![r].pc = "write", ![r].held = held]
            /\ UNCHANGED upserting
    /\ UNCHANGED <<status, created, mailed, position, fills, pass, seen>>

\* Variant: the status is committed before the fill is written.
Commit_StatusFirst(r) ==
    /\ request[r].pc = "write"
    /\ status' = IF request[r].signal = Manual THEN status
                 ELSE [status EXCEPT ![request[r].signal] = "executed"]
    /\ Answer(r)
    /\ UNCHANGED <<created, mailed, position, fills, pass, seen>>

\* The flush and the commit: the fill row, the position row with the quantity
\* computed from the one read, and the signal's status.
Commit(r) ==
    LET q == request[r] IN
    /\ q.pc = "write"
    /\ ~(q.held = NoRow /\ position[q.inst] # NoRow)
    /\ position' = [position EXCEPT ![q.inst] = Applied(q.held, q.side, q.qty)]
    /\ fills' = fills \cup {[request |-> r, signal |-> q.signal, inst |-> q.inst,
                             side |-> q.side, qty |-> q.qty]}
    /\ status' = IF q.signal = Manual THEN status
                 ELSE [status EXCEPT ![q.signal] = "executed"]
    /\ Answer(r)
    /\ UNCHANGED <<created, mailed, pass, seen>>

\* The transaction rolls back: both requests inserted the position row (the
\* second violates the primary key), or the process or connection is lost.
Rollback(r) ==
    /\ r \in InFlight
    /\ Answer(r)
    /\ UNCHANGED <<status, created, mailed, position, fills, pass, seen>>

-----------------------------------------------------------------------------
RequestStep(r) == ReadPosition(r) \/ Commit(r) \/ Rollback(r)

RequestArrives(r) ==
    \E qty \in Quantities :
       \/ \E s \in Signals : status[s] # "absent" /\ ExecuteSignal(r, s, qty)
       \/ \E i \in Instruments, side \in Sides : ManualFill(r, i, side, qty)

PassStep(p) ==
    PassStart(p) \/ (\E s \in Signals, ok \in BOOLEAN : Send(p, s, ok)) \/ Update(p) \/ UpdateRaises(p)

Next ==
    \/ RunLoad \/ RunSave
    \/ \E p \in Processors : PassStep(p) \/ PassAbort(p)
    \/ \E r \in Requests : RequestArrives(r) \/ RequestStep(r)

Spec == Init /\ [][Next]_vars

\* The job fires every minute for ever; the mail server and the database do
\* not refuse one signal for ever.
Fairness ==
    \A p \in Processors :
       /\ WF_vars(PassStep(p))
       /\ \A s \in Signals :
             /\ SF_vars(Send(p, s, TRUE))
             /\ SF_vars(Update(p) /\ pass[p].signal = s /\ pass[p].sent)

FairSpec == Spec /\ Fairness

-----------------------------------------------------------------------------
(* Properties.                                                             *)

\* A signal shown as executed has its fill in the ledger: the status and the
\* fill are committed together, whatever the processor writes in between.
ExecutedHasFill ==
    \A s \in Signals : status[s] = "executed" => \E f \in fills : f.signal = s

\* A signal shown as notified was really mailed, though the status is written
\* in a later transaction than the mail was sent.
NotifiedWasMailed == \A s \in Signals : status[s] = "notified" => s \in mailed

\* The signals a pass will still write.
Undone(p) ==
    CASE pass[p].pc = "idle"   -> {}
      [] pass[p].pc = "send"   -> pass[p].batch
      [] pass[p].pc = "update" -> pass[p].batch \cup {pass[p].signal}

\* Nothing in flight can touch a settled signal: it is executed, no pass has
\* it in its batch, no request has passed the status check on it.
Settled(s) ==
    /\ status[s] = "executed"
    /\ \A p \in Processors : s \notin Undone(p)
    /\ \A r \in InFlight : request[r].signal # s

\* Once settled, a signal stays executed and is never filled again.
SettledForever ==
    [][\A s \in Signals : Settled(s) =>
          /\ Settled(s)'
          /\ \A f \in fills' \ fills : f.signal # s]_vars

\* The quantity of the fills of one side on one instrument.
Filled(i, side) ==
    SumFunctionOnSet([f \in fills |-> f.qty], {f \in fills : f.inst = i /\ f.side = side})

\* However fills race, a position is never larger than what was bought.
PositionBacked ==
    \A i \in Instruments : Flat(position[i]) \/ position[i] <= Filled(i, "buy")

\* The position is the net of the ledger ("update net positions").
LedgerBalances ==
    \A i \in Instruments :
        (IF position[i] = NoRow THEN 0 ELSE position[i])
            = Filled(i, "buy") - Filled(i, "sell")

\* "One-shot per signal": a signal is filled at most once.
OneShot ==
    \A f, g \in fills : f.signal = g.signal /\ f.signal # Manual => f = g

\* Every pending signal is mailed in the end, or executed before: a full
\* batch of older signals, failing mails and dropped passes do not starve it.
EveryPendingIsMailed ==
    \A s \in Signals : status[s] = "pending" ~> s \in mailed \/ status[s] = "executed"
=============================================================================
