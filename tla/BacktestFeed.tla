---------------------------- MODULE BacktestFeed ----------------------------
(* How the page of a backtest learns that it has ended: it polls GET         *)
(* /api/backtests/{id} while the job is in progress, and the API process     *)
(* that reaps silent jobs broadcasts their failure over its web sockets      *)
(* (api/websocket.py, the second half of _reap_once, BacktestDetail).        *)
(*                                                                           *)
(* What happens to the jobs is JobLifecycle, which the queue implements.     *)
(* The worker is another process: its own ws_manager has no connections, so  *)
(* its progress broadcasts send nothing and are left out.                    *)
EXTENDS Integers, FiniteSets, Sequences, SequencesExt, Listing

CONSTANTS
    Jobs,
    Clients,    \* open pages
    Watched,    \* [Clients -> Jobs]: the backtest a page is about
    MaxSockets, \* bound: the sockets a page opens
    MaxFaults   \* bound: failed requests, dropped sockets, crashes of the API

ASSUME FeedAssumption ==
    /\ IsFiniteSet(Jobs) /\ Watched \in [Clients -> Jobs]
    /\ MaxSockets \in Nat \ {0, 1} /\ MaxFaults \in Nat

VARIABLES
    row,          \* the status column of each job
    results,      \* the jobs whose results are stored
    connections,  \* ws_manager._connections
    socket,       \* each socket as its page has it
    page,         \* what each page shows and has asked for
    cast,         \* the broadcasts of the reaper
    faults

vars == <<row, results, connections, socket, page, cast, faults>>
server == <<connections, cast>>
browser == <<socket, page>>

Job == INSTANCE JobLifecycle WITH verdict <- row, published <- results

Statuses == {"queued", "running", "completed", "failed"}
InProgress == {"queued", "running"}

\* A page opens its sockets one after the other.
Sockets == Clients \X (1 .. MaxSockets)

\* The remaining job ids and, of the current broadcast, the position in the
\* list, the sockets sent to, those whose send failed, and how many have left
\* the list since it began.
Silence == [ids |-> <<>>, next |-> 1, reached |-> {}, dead |-> <<>>, left |-> 0]

----------------------------------------------------------------------------
(* The jobs                                                                *)

JobStep ==
    /\ \E j \in Jobs : \/ Job!Start(j) \/ Job!Publish(j)
                       \/ row[j] = "running" /\ Job!GiveUp({j})
    /\ UNCHANGED <<server, browser, faults>>

\* _reap_once fails the rows it had selected as silent, one of which may have
\* completed since, and goes on to broadcast their ids.
Reap(S) ==
    /\ cast.ids = <<>>
    /\ S # {} /\ \A j \in S : row[j] \in {"queued", "running", "completed"}
    /\ Job!GiveUp(S)
    /\ \E ids \in SetToSeqs(S) : cast' = [Silence EXCEPT !.ids = ids]
    /\ UNCHANGED <<connections, browser, faults>>

----------------------------------------------------------------------------
(* WebSocketManager                                                        *)

AcceptTwice(s) ==               \* a variant: a connection may register again
    /\ socket[s] \in {"opening", "open"}
    /\ socket' = [socket EXCEPT ![s] = "open"]
    /\ connections' = Append(connections, s)
    /\ UNCHANGED <<row, results, page, cast, faults>>

\* connect
Accept(s) ==
    /\ socket[s] = "opening"
    /\ socket' = [socket EXCEPT ![s] = "open"]
    /\ connections' = Append(connections, s)
    /\ UNCHANGED <<row, results, page, cast, faults>>

\* receive_text raises WebSocketDisconnect and the endpoint calls disconnect,
\* also while a broadcast awaits: the list shifts under its iterator.
Disconnect(s) ==
    /\ socket[s] = "closed"
    /\ s \in ToSet(connections)
    /\ connections' = RemoveFirst(connections, s)
    /\ cast' = IF cast.ids = <<>> THEN cast ELSE [cast EXCEPT !.left = @ + 1]
    /\ UNCHANGED <<row, results, browser, faults>>

\* The message of a failed job: its page fetches the job again, at once.
Told(s, job) ==
    IF Watched[s[1]] = job
    THEN [page EXCEPT ![s[1]].request = "none", ![s[1]].due = TRUE] ELSE page

SendRemovesDead ==              \* a variant: a dead socket is removed in the loop
    LET s == connections[cast.next]
    IN  /\ cast.ids # <<>>
        /\ cast.next <= Len(connections)
        /\ IF socket[s] = "open"
           THEN /\ page' = Told(s, Head(cast.ids))
                /\ cast' = [cast EXCEPT !.next = @ + 1, !.reached = @ \cup {s}]
                /\ UNCHANGED connections
           ELSE /\ connections' = RemoveFirst(connections, s)
                /\ cast' = [cast EXCEPT !.next = @ + 1]
                /\ UNCHANGED page
        /\ UNCHANGED <<row, results, socket, faults>>

\* One turn of broadcast's loop.  A send to a closed socket is swallowed, or
\* fails and marks it dead, or raises what broadcast does not catch
\* (WebSocketDisconnect): the reaper logs it and the rest is never sent.
Send ==
    LET s == connections[cast.next]
        sent == [cast EXCEPT !.next = @ + 1, !.reached = @ \cup {s}]
        failed == [sent EXCEPT !.dead = Append(@, s)]
    IN  /\ cast.ids # <<>>
        /\ cast.next <= Len(connections)
        /\ \/ /\ socket[s] = "open"
              /\ page' = Told(s, Head(cast.ids))
              /\ cast' = sent
           \/ /\ socket[s] # "open"
              /\ cast' \in {sent, failed, Silence}
              /\ UNCHANGED page
        /\ UNCHANGED <<row, results, connections, socket, faults>>

BuriedByPosition(dead) ==       \* a variant: the first places are the dead ones'
    IF dead = <<>> THEN connections ELSE SubSeq(connections, Len(dead) + 1, Len(connections))

\* What is left when the dead, down to the first that is already gone, are
\* removed.
Buried(dead) ==
    LET here(k) == dead[k] \in ToSet(connections)
        removed == {dead[i] : i \in {j \in DOMAIN dead : \A k \in 1 .. j : here(k)}}
    IN  ElementsAt(connections, {i \in DOMAIN connections : connections[i] \notin removed})

\* The end of a broadcast.  remove raises ValueError for a socket its endpoint
\* has removed: the reaper logs it and the remaining ids are never broadcast.
EndBroadcast ==
    /\ cast.ids # <<>>
    /\ cast.next > Len(connections)
    /\ connections' = Buried(cast.dead)
    /\ cast' = IF ToSet(cast.dead) \subseteq ToSet(connections)
               THEN [Silence EXCEPT !.ids = Tail(cast.ids)] ELSE Silence
    /\ UNCHANGED <<row, results, browser, faults>>

----------------------------------------------------------------------------
(* Pages                                                                   *)

AskWhenTold(c) ==               \* a variant: a page waits for its socket
    /\ page[c].request = "none"
    /\ page[c].due \/ page[c].shown = "nothing"
    /\ page' = [page EXCEPT ![c].request = row[Watched[c]], ![c].due = FALSE]
    /\ UNCHANGED <<row, results, server, socket, faults>>

\* useQuery fetches the job when the page opens, when it has been told to, and
\* every 2.5 seconds while what it shows is in progress.
Ask(c) ==
    /\ page[c].request = "none"
    /\ page[c].due \/ page[c].shown \in {"nothing"} \cup InProgress
    /\ page' = [page EXCEPT ![c].request = row[Watched[c]], ![c].due = FALSE]
    /\ UNCHANGED <<row, results, server, socket, faults>>

\* The answer is as before and nothing is rendered, or it is shown: the query
\* keys of the effect are made anew by every rendering, so it closes the
\* socket and, while the job is in progress, opens another, though the status
\* be the same.  The bound leaves a socket for the status that is to come.
Answer(c) ==
    LET new == page[c].request
        opened == page[c].opened
        same == new = page[c].shown
        opens == IF new \in InProgress THEN 1 ELSE 0
        last == MaxSockets - (IF new = "queued" THEN 1 ELSE 0)
    IN  /\ new # "none"
        /\ \/ /\ same
              /\ page' = [page EXCEPT ![c].request = "none"]
              /\ UNCHANGED socket
           \/ /\ same => opened < last
              /\ page' = [page EXCEPT ![c].shown = new, ![c].request = "none",
                                      ![c].opened = opened + opens]
              /\ socket' = [s \in Sockets |->
                    CASE s = <<c, opened>> -> "closed"
                      [] s = <<c, opened + opens>> /\ opens = 1 -> "opening"
                      [] OTHER -> socket[s]]
        /\ UNCHANGED <<row, results, server, faults>>

\* A request fails, after its retry: without data the page stops asking.
Lost(p) ==
    IF p.request = "none" THEN p
    ELSE [p EXCEPT !.request = "none", !.shown = IF @ = "nothing" THEN "error" ELSE @]

RequestFails(c) ==
    /\ page[c].request # "none" /\ faults < MaxFaults
    /\ page' = [page EXCEPT ![c] = Lost(@)]
    /\ faults' = faults + 1
    /\ UNCHANGED <<row, results, server, socket>>

\* The network drops a socket; the page does not open it again.
SocketDrops(s) ==
    /\ socket[s] = "open" /\ faults < MaxFaults
    /\ socket' = [socket EXCEPT ![s] = "closed"]
    /\ faults' = faults + 1
    /\ UNCHANGED <<row, results, server, page>>

\* The API process dies and is restarted by its container.
ApiCrash ==
    /\ faults < MaxFaults
    /\ connections' = <<>>
    /\ cast' = Silence
    /\ socket' = [s \in Sockets |-> IF socket[s] = "unused" THEN "unused" ELSE "closed"]
    /\ page' = [c \in Clients |-> Lost(page[c])]
    /\ faults' = faults + 1
    /\ UNCHANGED <<row, results>>

----------------------------------------------------------------------------
\* The backtests a page is about have been enqueued.
Init ==
    /\ row = [j \in Jobs |-> "queued"]
    /\ results = {}
    /\ connections = <<>>
    /\ socket = [s \in Sockets |-> "unused"]
    /\ page = [c \in Clients |-> [shown |-> "nothing", request |-> "none", due |-> FALSE,
                                  opened |-> 0]]
    /\ cast = Silence
    /\ faults = 0

Next ==
    \/ JobStep
    \/ \E S \in SUBSET Jobs : Reap(S)
    \/ Send \/ EndBroadcast
    \/ \E s \in Sockets : Accept(s) \/ Disconnect(s) \/ SocketDrops(s)
    \/ \E c \in Clients : Ask(c) \/ Answer(c) \/ RequestFails(c)
    \/ ApiCrash

Spec == Init /\ [][Next]_vars

\* A page keeps its timer and the network answers, unless it fails.
FairSpec == Spec /\ \A c \in Clients : WF_vars(Ask(c)) /\ WF_vars(Answer(c))

----------------------------------------------------------------------------
(* Properties                                                              *)

\* The type of the state; no socket is registered twice.
TypeOK ==
    /\ row \in [Jobs -> Statuses] /\ results \subseteq Jobs
    /\ connections \in Seq(Sockets) /\ IsInjective(connections)
    /\ socket \in [Sockets -> {"unused", "opening", "open", "closed"}]
    /\ page \in [Clients -> [shown : Statuses \cup {"nothing", "error"},
                             request : Statuses \cup {"none"}, due : BOOLEAN,
                             opened : 0 .. MaxSockets]]
    /\ cast \in [ids : Seq(Jobs), next : Nat, reached : SUBSET Sockets,
                 dead : Seq(Sockets), left : Nat]
    /\ faults \in 0 .. MaxFaults

\* A page whose socket is open is in the list of the broadcasts, whatever the
\* endpoints and the end of a broadcast remove from it, and in whatever order.
OpenIsListed ==
    \A s \in Sockets : socket[s] = "open" => s \in ToSet(connections)

\* A broadcast that comes to its end has missed no more open sockets than have
\* left the list while it awaited: each of them shifts at most one socket
\* past the iterator.
LossIsBounded ==
    (cast.ids # <<>> /\ cast.next > Len(connections)) =>
        LET missed == {s \in ToSet(connections) : socket[s] = "open" /\ s \notin cast.reached}
        IN  Cardinality(missed) <= cast.left

\* A page that shows a job in progress comes to show it ended once it has:
\* although sockets drop, broadcasts skip sockets or break off, requests fail
\* and the API process crashes, the polls get through.
EndIsShown ==
    \A c \in Clients :
        (row[Watched[c]] \in {"completed", "failed"} /\ page[c].shown \in InProgress)
            ~> page[c].shown \in {"completed", "failed"}
=============================================================================
