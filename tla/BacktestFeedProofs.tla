------------------------- MODULE BacktestFeedProofs -------------------------
(* Theorems about the web sockets and the pages, for any pages, jobs and     *)
(* numbers of sockets and faults.                                            *)
EXTENDS BacktestFeed, CountingLemmas

----------------------------------------------------------------------------
(* The list of connections                                                 *)

\* list.remove, of an element that is in the list once.
LEMMA RemovalFacts ==
    ASSUME NEW S, NEW list \in Seq(S), IsInjective(list), NEW p \in DOMAIN list,
           NEW rest, rest = RemoveFirst(list, list[p])
    PROVE  /\ rest \in Seq(S) /\ Len(rest) = Len(list) - 1
           /\ \A i \in DOMAIN rest : rest[i] = IF i < p THEN list[i] ELSE list[i + 1]
           /\ IsInjective(rest)
           /\ ToSet(rest) = ToSet(list) \ {list[p]}
<1>1. /\ DOMAIN list = 1 .. Len(list) /\ Len(list) \in Nat /\ p \in 1 .. Len(list)
      /\ p \in Nat \ {0}
  OBVIOUS
<1>2. \A i \in DOMAIN list : list[i] = list[p] => i = p
  BY DEF IsInjective
<1>3. {i \in 1 .. Len(list) : list[i] = list[p]} = {p}
  BY <1>1, <1>2
<1>4. Min({p}) = p
  BY <1>1 DEF Min
<1>5. SelectInSeq(list, LAMBDA v : v = list[p]) = p
  BY <1>3, <1>4 DEF SelectInSeq
<1>6. rest = SubSeq(list, 1, p - 1) \o SubSeq(list, p + 1, Len(list))
  BY <1>1, <1>5 DEF RemoveFirst, RemoveAt
<1>7. rest \in Seq(S) /\ Len(rest) = Len(list) - 1
  BY <1>1, <1>6
<1>9. DOMAIN rest = 1 .. Len(list) - 1
  BY <1>7
<1>8. ASSUME NEW i \in DOMAIN rest
      PROVE  rest[i] = IF i < p THEN list[i] ELSE list[i + 1]
  <2> DEFINE front == SubSeq(list, 1, p - 1)
             back == SubSeq(list, p + 1, Len(list))
  <2>1. /\ front \in Seq(S) /\ Len(front) = p - 1
        /\ \A k \in 1 .. p - 1 : front[k] = list[k]
    BY <1>1
  <2>2. /\ back \in Seq(S) /\ Len(back) = Len(list) - p
        /\ \A k \in 1 .. Len(list) - p : back[k] = list[p + k]
    BY <1>1
  <2> HIDE DEF front, back
  <2>3. i \in Nat /\ 1 <= i /\ i <= Len(list) - 1
    BY <1>1, <1>9
  <2>4. CASE i < p
    BY <1>1, <1>6, <2>1, <2>2, <2>3, <2>4 DEF front, back
  <2>5. CASE ~(i < p)
    <3>1. i - (p - 1) \in 1 .. Len(list) - p /\ p + (i - (p - 1)) = i + 1
      BY <1>1, <2>3, <2>5
    <3>2. (front \o back)[i] = back[i - (p - 1)]
      BY <1>1, <2>1, <2>2, <2>3, <2>5
    <3> QED BY <1>6, <2>2, <2>5, <3>1, <3>2 DEF front, back
  <2> QED BY <2>4, <2>5
<1> HIDE <1>6
<1>10. IsInjective(rest)
  <2> SUFFICES ASSUME NEW i \in DOMAIN rest, NEW j \in DOMAIN rest, rest[i] = rest[j]
               PROVE  i = j
    BY DEF IsInjective
  <2> DEFINE at(k) == IF k < p THEN k ELSE k + 1
  <2>1. /\ at(i) \in DOMAIN list /\ at(j) \in DOMAIN list
        /\ rest[i] = list[at(i)] /\ rest[j] = list[at(j)]
    BY <1>1, <1>8, <1>9
  <2>2. at(i) = at(j)
    BY <2>1 DEF IsInjective
  <2> QED BY <1>1, <1>9, <2>2
<1>11. ASSUME NEW x \in ToSet(rest) PROVE x \in ToSet(list) \ {list[p]}
  <2>1. PICK i \in DOMAIN rest : x = rest[i]
    BY DEF ToSet
  <2>2. PICK j \in DOMAIN list : x = list[j] /\ j # p
    BY <1>1, <1>8, <1>9, <2>1
  <2> QED BY <1>2, <2>2 DEF ToSet
<1>12. ASSUME NEW x \in ToSet(list) \ {list[p]} PROVE x \in ToSet(rest)
  <2>1. PICK j \in DOMAIN list : x = list[j] /\ j # p
    BY DEF ToSet
  <2>2. PICK i \in DOMAIN rest : x = rest[i]
    <3>1. CASE j < p
      BY <1>1, <1>8, <1>9, <2>1, <3>1
    <3>2. CASE j > p
      <4>1. j - 1 \in DOMAIN rest /\ ~(j - 1 < p) /\ j - 1 + 1 = j
        BY <1>1, <1>9, <2>1, <3>2
      <4> QED BY <1>8, <2>1, <4>1
    <3> QED BY <1>1, <2>1, <3>1, <3>2
  <2> QED BY <2>2 DEF ToSet
<1> QED
  BY <1>7, <1>8, <1>10, <1>11, <1>12

\* The end of a broadcast removes dead sockets only, and repeats none.
LEMMA BuriedFacts ==
    ASSUME connections \in Seq(Sockets), IsInjective(connections), NEW dead \in Seq(Sockets)
    PROVE  /\ Buried(dead) \in Seq(Sockets) /\ IsInjective(Buried(dead))
           /\ ToSet(Buried(dead)) \subseteq ToSet(connections)
           /\ ToSet(connections) \ ToSet(dead) \subseteq ToSet(Buried(dead))
<1> DEFINE here(k) == dead[k] \in ToSet(connections)
           removed == {dead[i] : i \in {j \in DOMAIN dead : \A k \in 1 .. j : here(k)}}
           kept == {i \in DOMAIN connections : connections[i] \notin removed}
           places == Ascending(kept)
           rest == Buried(dead)
<1>1. DOMAIN connections = 1 .. Len(connections) /\ Len(connections) \in Nat
  OBVIOUS
<1>2. removed \subseteq ToSet(dead)
  BY DEF ToSet
<1>3. kept \in SUBSET Int /\ kept \subseteq DOMAIN connections
  BY <1>1
<1>4. IsFiniteSet(kept)
  <2>1. IsFiniteSet(1 .. Len(connections))
    BY <1>1, FS_Interval
  <2> QED BY <1>1, <1>3, <2>1, FS_Subset
<1>5. rest = [i \in DOMAIN places |-> connections[places[i]]]
  BY DEF Buried, ElementsAt
<1>6. \A i \in DOMAIN connections : connections[i] \notin ToSet(dead) => i \in kept
  BY <1>2
<1> HIDE DEF kept, rest
<1>7. places \in Seq(kept) /\ Ordered(places) /\ ToSet(places) = kept
  BY <1>3, <1>4, AscendingFacts
<1> HIDE DEF places
<1>8. /\ DOMAIN places = 1 .. Len(places) /\ Len(places) \in Nat
      /\ \A i \in DOMAIN places : places[i] \in kept /\ places[i] \in Int
  <2>1. \A i \in DOMAIN places : places[i] \in kept
    BY <1>7 DEF ToSet
  <2>2. places \in Seq(kept)
    BY <1>7
  <2>3. DOMAIN places = 1 .. Len(places) /\ Len(places) \in Nat
    BY <2>2
  <2>4. kept \subseteq Int
    BY <1>3
  <2> QED BY <2>1, <2>3, <2>4
<1>9. /\ DOMAIN rest = DOMAIN places
      /\ \A i \in DOMAIN rest : rest[i] = connections[places[i]]
  BY <1>5
<1>10. rest \in Seq(Sockets)
  <2>1. \A i \in DOMAIN places : connections[places[i]] \in Sockets
    BY <1>3, <1>8
  <2> QED BY <1>5, <1>8, <2>1
<1>11. IsInjective(rest)
  <2> SUFFICES ASSUME NEW i \in DOMAIN rest, NEW j \in DOMAIN rest, rest[i] = rest[j], i # j
               PROVE  FALSE
    BY DEF IsInjective
  <2>1. places[i] = places[j]
    BY <1>3, <1>8, <1>9 DEF IsInjective
  <2>2. i < j \/ j < i
    BY <1>8, <1>9
  <2>3. places[i] < places[j] \/ places[j] < places[i]
    BY <1>7, <1>9, <2>2 DEF Ordered
  <2> QED BY <1>8, <1>9, <2>1, <2>3
<1>12. ToSet(rest) \subseteq ToSet(connections)
  BY <1>3, <1>8, <1>9 DEF ToSet
<1>13. ASSUME NEW s \in ToSet(connections) \ ToSet(dead) PROVE s \in ToSet(rest)
  <2>1. PICK i \in DOMAIN connections : s = connections[i]
    BY DEF ToSet
  <2>2. i \in kept
    BY <1>6, <2>1
  <2>3. PICK j \in DOMAIN places : i = places[j]
    BY <1>7, <2>2 DEF ToSet
  <2> QED BY <1>9, <2>1, <2>3 DEF ToSet
<1> QED
  BY <1>10, <1>11, <1>12, <1>13 DEF rest

\* A new connection goes to the end.
LEMMA AppendFacts ==
    ASSUME NEW S, NEW list \in Seq(S), IsInjective(list), NEW s \in S \ ToSet(list)
    PROVE  /\ Append(list, s) \in Seq(S) /\ IsInjective(Append(list, s))
           /\ ToSet(Append(list, s)) = ToSet(list) \cup {s}
<1> DEFINE longer == Append(list, s)
<1>1. /\ longer \in Seq(S) /\ DOMAIN longer = 1 .. Len(list) + 1 /\ Len(list) \in Nat
      /\ DOMAIN list = 1 .. Len(list)
      /\ longer[Len(list) + 1] = s
      /\ \A i \in DOMAIN list : longer[i] = list[i] /\ list[i] # s
  BY DEF ToSet
<1> HIDE DEF longer
<1>2. IsInjective(longer)
  BY <1>1 DEF IsInjective
<1>3. ToSet(longer) = ToSet(list) \cup {s}
  BY <1>1 DEF ToSet
<1> QED
  BY <1>1, <1>2, <1>3 DEF longer

\* The orders in which the failures of several jobs are broadcast.
LEMMA OrdersOfJobs ==
    ASSUME NEW T \in SUBSET Jobs, NEW ids \in SetToSeqs(T)
    PROVE  ids \in Seq(Jobs)
<1>1. Cardinality(T) \in Nat
  BY FeedAssumption, FS_Subset, FS_CardinalityType
<1> QED
  BY <1>1 DEF SetToSeqs
----------------------------------------------------------------------------
(* The inductive invariant                                                 *)

Ended == {"completed", "failed"}

PageStates == [shown : Statuses \cup {"nothing", "error"}, request : Statuses \cup {"none"},
               due : BOOLEAN, opened : 0 .. MaxSockets]

\* What a page p shows and has been answered is not ahead of the row r of its
\* job; it has opened a socket for each status in progress it has shown.
PageFollows(p, r) ==
    /\ p.shown \in {"nothing", "error"} => p.opened = 0
    /\ p.shown = "queued" => p.opened <= MaxSockets - 1
    /\ p.shown = "running" => p.request # "queued" /\ r # "queued"
    /\ p.shown \in Ended => p.request \in Ended \cup {"none"} /\ r \in Ended
    /\ p.request = "running" => r # "queued"
    /\ p.request \in Ended => r \in Ended

JobsAreTyped == row \in [Jobs -> Statuses] /\ results \subseteq Jobs

PagesFollow == \A c \in Clients : page[c] \in PageStates /\ PageFollows(page[c], row[Watched[c]])

PagesAreSound == page \in [Clients -> PageStates] /\ PagesFollow

SocketStates == {"unused", "opening", "open", "closed"}

\* The sockets a page has not opened yet are unused.
SocketsAreSound ==
    /\ socket \in [Sockets -> SocketStates]
    /\ \A s \in Sockets : page[s[1]].opened < s[2] => socket[s] = "unused"

\* Only accepted sockets are in the list, each once.
ListIsSound ==
    /\ connections \in Seq(Sockets) /\ IsInjective(connections)
    /\ \A s \in ToSet(connections) : socket[s] \in {"open", "closed"}

\* The sockets a broadcast holds for dead are closed.
CastIsSound ==
    /\ cast \in [ids : Seq(Jobs), next : Nat, reached : SUBSET Sockets,
                 dead : Seq(Sockets), left : Nat]
    /\ cast.next >= 1
    /\ \A s \in ToSet(cast.dead) : socket[s] = "closed"

FeedInv ==
    /\ JobsAreTyped /\ PagesAreSound /\ SocketsAreSound
    /\ ListIsSound /\ CastIsSound /\ OpenIsListed /\ faults \in 0 .. MaxFaults

----------------------------------------------------------------------------
(* Jobs and pages                                                          *)

\* The status of a job never goes back.
LEMMA JobsGoOn ==
    ASSUME JobsAreTyped, [Next]_vars
    PROVE  /\ JobsAreTyped'
           /\ \A j \in Jobs : /\ row[j] # "queued" => row'[j] # "queued"
                              /\ row[j] \in Ended => row'[j] \in Ended
<1> USE DEF JobsAreTyped, Ended, Statuses
<1>1. CASE JobStep
  BY <1>1 DEF JobStep, Job!Start, Job!Publish, Job!GiveUp
<1>2. CASE \E S \in SUBSET Jobs : Reap(S)
  BY <1>2 DEF Reap, Job!GiveUp
<1>3. CASE UNCHANGED <<row, results>>
  BY <1>3
<1>4. UNCHANGED <<row, results>> \/ JobStep \/ \E S \in SUBSET Jobs : Reap(S)
  BY DEF Next, vars, Send, EndBroadcast, Accept, Disconnect, SocketDrops, Ask, Answer,
         RequestFails, ApiCrash
<1> QED
  BY <1>1, <1>2, <1>3, <1>4

\* The answers, failures and messages a page gets leave it behind its job.
LEMMA PageFacts ==
    ASSUME NEW p \in PageStates, NEW r \in Statuses, PageFollows(p, r)
    PROVE  /\ \A q \in Statuses :
                  (r # "queued" => q # "queued") /\ (r \in Ended => q \in Ended)
                      => PageFollows(p, q)
           /\ Lost(p) \in PageStates /\ PageFollows(Lost(p), r)
           /\ [p EXCEPT !.request = "none", !.due = TRUE] \in PageStates
           /\ PageFollows([p EXCEPT !.request = "none", !.due = TRUE], r)
           /\ [p EXCEPT !.request = "none"] \in PageStates
           /\ PageFollows([p EXCEPT !.request = "none"], r)
           /\ [p EXCEPT !.request = r, !.due = FALSE] \in PageStates
           /\ PageFollows([p EXCEPT !.request = r, !.due = FALSE], r)
<1> USE DEF PageFollows, PageStates, Statuses, Ended
<1>1. \A q \in Statuses : (r # "queued" => q # "queued") /\ (r \in Ended => q \in Ended)
                              => PageFollows(p, q)
  OBVIOUS
<1>2. Lost(p) \in PageStates /\ PageFollows(Lost(p), r)
  BY DEF Lost
<1>3. /\ [p EXCEPT !.request = "none", !.due = TRUE] \in PageStates
      /\ PageFollows([p EXCEPT !.request = "none", !.due = TRUE], r)
  OBVIOUS
<1>4. /\ [p EXCEPT !.request = "none"] \in PageStates
      /\ PageFollows([p EXCEPT !.request = "none"], r)
  OBVIOUS
<1>5. /\ [p EXCEPT !.request = r, !.due = FALSE] \in PageStates
      /\ PageFollows([p EXCEPT !.request = r, !.due = FALSE], r)
  OBVIOUS
<1> QED
  BY <1>1, <1>2, <1>3, <1>4, <1>5

\* A page that renders an answer has a socket left for it.
LEMMA RenderFacts ==
    ASSUME NEW p \in PageStates, NEW r \in Statuses, PageFollows(p, r), p.request # "none",
           NEW opens, opens = IF p.request \in InProgress THEN 1 ELSE 0,
           NEW last, last = MaxSockets - (IF p.request = "queued" THEN 1 ELSE 0),
           p.request = p.shown => p.opened < last,
           NEW q, q = [p EXCEPT !.shown = p.request, !.request = "none",
                                !.opened = p.opened + opens]
    PROVE  q \in PageStates /\ PageFollows(q, r)
<1>1. MaxSockets \in Nat /\ MaxSockets >= 2
  BY FeedAssumption
<1>2. p.opened \in Nat /\ opens \in {0, 1}
  BY <1>1 DEF PageStates
<1>3. q.shown = p.request /\ q.request = "none" /\ q.opened = p.opened + opens /\ q.due = p.due
  BY DEF PageStates
<1>4. p.request \in Statuses /\ p.shown \in Statuses \cup {"nothing", "error"}
  BY DEF PageStates
<1>5. p.opened + opens <= last /\ last <= MaxSockets
  <2>1. CASE p.request = "queued"
    BY <1>1, <1>2, <2>1 DEF PageStates, PageFollows, InProgress, Statuses, Ended
  <2>2. CASE p.request = "running"
    BY <1>1, <1>2, <2>2 DEF PageStates, PageFollows, InProgress, Statuses, Ended
  <2>3. CASE p.request \in Ended
    BY <1>1, <1>2, <2>3 DEF PageStates, InProgress, Ended
  <2> QED BY <1>4, <2>1, <2>2, <2>3 DEF Statuses, Ended
<1>6. q.opened \in 0 .. MaxSockets /\ (p.request = "queued" => q.opened <= MaxSockets - 1)
  BY <1>1, <1>2, <1>3, <1>5
<1>7. q \in PageStates
  BY <1>3, <1>4, <1>6 DEF PageStates
<1>8. PageFollows(q, r)
  BY <1>3, <1>4, <1>6 DEF PageFollows, Statuses, Ended
<1> QED
  BY <1>7, <1>8
----------------------------------------------------------------------------

LEMMA PagesGoOn ==
    ASSUME FeedInv, [Next]_vars
    PROVE  PagesAreSound'
<1>1. /\ page \in [Clients -> PageStates] /\ row \in [Jobs -> Statuses]
      /\ \A c \in Clients : /\ page[c] \in PageStates /\ row[Watched[c]] \in Statuses
                            /\ PageFollows(page[c], row[Watched[c]]) /\ Watched[c] \in Jobs
  BY FeedAssumption DEF FeedInv, PagesAreSound, PagesFollow, JobsAreTyped
<1>2. SUFFICES /\ page' \in [Clients -> PageStates]
               /\ \A c \in Clients : PageFollows(page'[c], row'[Watched[c]])
  BY DEF PagesAreSound, PagesFollow
<1>3. CASE UNCHANGED page
  <2>1. ASSUME NEW c \in Clients PROVE PageFollows(page[c], row'[Watched[c]])
    <3>1. /\ row'[Watched[c]] \in Statuses
          /\ row[Watched[c]] # "queued" => row'[Watched[c]] # "queued"
          /\ row[Watched[c]] \in Ended => row'[Watched[c]] \in Ended
      BY <1>1, JobsGoOn DEF FeedInv, JobsAreTyped
    <3> QED BY <1>1, <3>1, PageFacts
  <2> QED BY <1>1, <1>3, <2>1
<1>4. CASE Send
  <2>1. UNCHANGED row /\ (UNCHANGED page \/ page' = Told(connections[cast.next], Head(cast.ids)))
    BY <1>4 DEF Send
  <2>2. ASSUME NEW s, NEW job
        PROVE  /\ Told(s, job) \in [Clients -> PageStates]
               /\ \A c \in Clients :
                     Told(s, job)[c] \in
                         {page[c], [page[c] EXCEPT !.request = "none", !.due = TRUE]}
    <3>1. \A c \in Clients :
              [page[c] EXCEPT !.request = "none", !.due = TRUE] \in PageStates
      BY <1>1, PageFacts
    <3> QED BY <1>1, <3>1 DEF Told
  <2>3. ASSUME NEW c \in Clients PROVE PageFollows(page'[c], row[Watched[c]])
    <3> DEFINE p == page[c]
               q == [page[c] EXCEPT !.request = "none", !.due = TRUE]
    <3>1. page'[c] = p \/ page'[c] = q
      <4>1. CASE UNCHANGED page
        BY <4>1
      <4>2. CASE page' = Told(connections[cast.next], Head(cast.ids))
        <5> DEFINE s == connections[cast.next]
                   job == Head(cast.ids)
        <5>1. Told(s, job)[c] \in {p, q}
          <6> HIDE DEF s, job, p, q
          <6> QED BY <2>2 DEF p, q
        <5> QED BY <4>2, <5>1
      <4> QED BY <2>1, <4>1, <4>2
    <3>2. PageFollows(p, row[Watched[c]])
      BY <1>1
    <3>3. PageFollows(q, row[Watched[c]])
      BY <1>1, PageFacts
    <3> HIDE DEF p, q
    <3> QED BY <3>1, <3>2, <3>3
  <2>4. page' \in [Clients -> PageStates]
    <3>1. CASE UNCHANGED page
      BY <1>1, <3>1 DEF PagesAreSound
    <3>2. CASE page' = Told(connections[cast.next], Head(cast.ids))
      <4> DEFINE s == connections[cast.next]
                 job == Head(cast.ids)
      <4>1. Told(s, job) \in [Clients -> PageStates]
        <5> HIDE DEF s, job
        <5> QED BY <2>2
      <4> QED BY <3>2, <4>1
    <3> QED BY <2>1, <3>1, <3>2
  <2> QED BY <2>1, <2>3, <2>4 DEF PagesAreSound, PagesFollow
<1>5. ASSUME NEW c \in Clients, Ask(c) PROVE PagesAreSound'
  <2> DEFINE q == [page[c] EXCEPT !.request = row[Watched[c]], !.due = FALSE]
  <2>1. UNCHANGED row /\ page' = [page EXCEPT ![c] = q]
    BY <1>1, <1>5 DEF Ask
  <2>2. q \in PageStates /\ PageFollows(q, row[Watched[c]])
    BY <1>1, PageFacts
  <2> HIDE DEF q
  <2> QED BY <1>1, <2>1, <2>2 DEF PagesAreSound, PagesFollow
<1>6. ASSUME NEW c \in Clients, Answer(c) PROVE PagesAreSound'
  <2> DEFINE opens == IF page[c].request \in InProgress THEN 1 ELSE 0
             last == MaxSockets - (IF page[c].request = "queued" THEN 1 ELSE 0)
             unchanged == [page[c] EXCEPT !.request = "none"]
             shown == [page[c] EXCEPT !.shown = page[c].request, !.request = "none",
                                      !.opened = page[c].opened + opens]
  <2>1. /\ page[c].request # "none" /\ UNCHANGED row
        /\ \/ page' = [page EXCEPT ![c] = unchanged]
           \/ /\ page[c].request = page[c].shown => page[c].opened < last
              /\ page' = [page EXCEPT ![c] = shown]
    BY <1>1, <1>6 DEF Answer
  <2>2. unchanged \in PageStates /\ PageFollows(unchanged, row[Watched[c]])
    BY <1>1, PageFacts
  <2>3. (page[c].request = page[c].shown => page[c].opened < last) =>
            shown \in PageStates /\ PageFollows(shown, row[Watched[c]])
    BY <1>1, <2>1, RenderFacts
  <2> HIDE DEF opens, last, unchanged, shown
  <2> QED BY <1>1, <2>1, <2>2, <2>3 DEF PagesAreSound, PagesFollow
<1>7. ASSUME NEW c \in Clients, RequestFails(c) PROVE PagesAreSound'
  <2>1. UNCHANGED row /\ page' = [page EXCEPT ![c] = Lost(page[c])]
    BY <1>7 DEF RequestFails
  <2>2. Lost(page[c]) \in PageStates /\ PageFollows(Lost(page[c]), row[Watched[c]])
    BY <1>1, PageFacts
  <2> QED BY <1>1, <2>1, <2>2 DEF PagesAreSound, PagesFollow
<1>8. CASE ApiCrash
  <2>1. UNCHANGED row /\ page' = [c \in Clients |-> Lost(page[c])]
    BY <1>8 DEF ApiCrash
  <2>2. \A c \in Clients : /\ Lost(page[c]) \in PageStates
                           /\ PageFollows(Lost(page[c]), row[Watched[c]])
    BY <1>1, PageFacts
  <2> QED BY <2>1, <2>2
<1>9. \/ UNCHANGED page \/ Send \/ ApiCrash
      \/ \E c \in Clients : Ask(c) \/ Answer(c) \/ RequestFails(c)
  BY DEF Next, vars, browser, JobStep, Reap, EndBroadcast, Accept, Disconnect, SocketDrops
<1> QED
  BY <1>3, <1>4, <1>5, <1>6, <1>7, <1>8, <1>9 DEF PagesAreSound, PagesFollow

----------------------------------------------------------------------------
(* Sockets                                                                 *)

\* A closed socket stays closed, and an open one was just accepted or open.
LEMMA SocketsGoOn ==
    ASSUME FeedInv, [Next]_vars
    PROVE  /\ SocketsAreSound'
           /\ \A s \in Sockets :
                 /\ socket[s] = "closed" => socket'[s] = "closed"
                 /\ socket[s] = "open" => socket'[s] \in {"open", "closed"}
                 /\ socket'[s] = "open" => socket[s] = "open" \/ Accept(s)
<1>1. /\ socket \in [Sockets -> SocketStates]
      /\ \A s \in Sockets : page[s[1]].opened < s[2] => socket[s] = "unused"
      /\ page \in [Clients -> PageStates]
      /\ \A c \in Clients : page[c] \in PageStates /\ page[c].opened \in Nat
      /\ MaxSockets \in Nat
  BY FeedAssumption
     DEF FeedInv, SocketsAreSound, PagesAreSound, PagesFollow, PageStates
<1> DEFINE Goal == /\ SocketsAreSound'
                   /\ \A s \in Sockets :
                         /\ socket[s] = "closed" => socket'[s] = "closed"
                         /\ socket[s] = "open" => socket'[s] \in {"open", "closed"}
                         /\ socket'[s] = "open" => socket[s] = "open" \/ Accept(s)
<1>2. \A s \in Sockets : s[1] \in Clients /\ s[2] \in 1 .. MaxSockets /\ s[2] \in Nat
  BY DEF Sockets
\* The pages open no socket in the steps other than Answer.
<1>3. ASSUME \A c \in Clients : page'[c].opened = page[c].opened,
             socket' \in [Sockets -> SocketStates],
             \A s \in Sockets : socket[s] = "unused" => socket'[s] = "unused"
      PROVE  SocketsAreSound'
  BY <1>1, <1>2, <1>3 DEF SocketsAreSound
<1>4. CASE UNCHANGED socket
  <2>1. CASE \E c \in Clients : Answer(c)
    <3>1. \A c \in Clients : page'[c].opened >= page[c].opened /\ page'[c].opened \in Nat
      BY <1>1, <2>1 DEF Answer, PageStates, InProgress
    <3> QED BY <1>1, <1>2, <1>4, <3>1 DEF SocketsAreSound
  <2>2. CASE ~\E c \in Clients : Answer(c)
    <3>1. \A c \in Clients : page'[c].opened = page[c].opened
      <4>1. \A c \in Clients : Lost(page[c]).opened = page[c].opened
        BY <1>1 DEF Lost, PageStates
      <4>2. CASE UNCHANGED page
        BY <4>2
      <4>3. CASE Send
        BY <1>1, <4>3 DEF Send, Told, PageStates
      <4>4. CASE \E c \in Clients : Ask(c)
        BY <1>1, <4>4 DEF Ask, PageStates
      <4>5. CASE ApiCrash \/ \E c \in Clients : RequestFails(c)
        BY <1>1, <4>1, <4>5 DEF ApiCrash, RequestFails
      <4> QED
        BY <2>2, <4>2, <4>3, <4>4, <4>5
           DEF Next, vars, browser, JobStep, Reap, EndBroadcast, Accept, Disconnect, SocketDrops
    <3> QED BY <1>1, <1>3, <1>4, <3>1
  <2> QED BY <1>1, <1>4, <2>1, <2>2 DEF SocketStates
<1>5. ASSUME NEW s \in Sockets, Accept(s) \/ SocketDrops(s) PROVE Goal
  <2>1. /\ UNCHANGED page
        /\ \/ socket[s] = "opening" /\ socket' = [socket EXCEPT ![s] = "open"] /\ Accept(s)
           \/ socket[s] = "open" /\ socket' = [socket EXCEPT ![s] = "closed"]
    BY <1>5 DEF Accept, SocketDrops
  <2>2. /\ socket' \in [Sockets -> SocketStates]
        /\ \A t \in Sockets : socket[t] = "unused" => socket'[t] = "unused"
    BY <1>1, <2>1 DEF SocketStates
  <2>3. \A t \in Sockets : /\ socket[t] = "closed" => socket'[t] = "closed"
                           /\ socket[t] = "open" => socket'[t] \in {"open", "closed"}
                           /\ socket'[t] = "open" => socket[t] = "open" \/ Accept(t)
    BY <1>1, <2>1
  <2> QED BY <1>3, <2>1, <2>2, <2>3
<1>6. ASSUME NEW c \in Clients, Answer(c), ~UNCHANGED socket PROVE Goal
  <2> DEFINE opened == page[c].opened
             opens == IF page[c].request \in InProgress THEN 1 ELSE 0
  <2>1. /\ page' = [page EXCEPT ![c].shown = page[c].request, ![c].request = "none",
                                ![c].opened = opened + opens]
        /\ socket' = [s \in Sockets |->
              CASE s = <<c, opened>> -> "closed"
                [] s = <<c, opened + opens>> /\ opens = 1 -> "opening"
                [] OTHER -> socket[s]]
    BY <1>6 DEF Answer
  <2>2. opened \in Nat /\ opens \in {0, 1}
    BY <1>1
  <2>3. /\ page'[c].opened = opened + opens
        /\ \A d \in Clients : d # c => page'[d].opened = page[d].opened
    BY <1>1, <2>1 DEF PageStates
  <2> HIDE DEF opened, opens
  <2>4. socket' \in [Sockets -> SocketStates]
    BY <1>1, <2>1 DEF SocketStates
  <2>5. \A s \in Sockets : /\ s[1] # c => socket'[s] = socket[s]
                           /\ s[1] = c /\ s[2] > opened + opens => socket'[s] = socket[s]
    BY <1>2, <2>1, <2>2
  <2>6. SocketsAreSound'
    <3> SUFFICES ASSUME NEW s \in Sockets, page'[s[1]].opened < s[2]
                 PROVE  socket'[s] = "unused"
      BY <2>4 DEF SocketsAreSound
    <3>1. CASE s[1] = c
      <4>1. opened + opens < s[2] /\ opened < s[2]
        BY <1>2, <2>2, <2>3, <3>1
      <4> QED BY <1>1, <2>5, <3>1, <4>1, <1>2 DEF opened
    <3>2. CASE s[1] # c
      BY <1>1, <1>2, <2>3, <2>5, <3>2
    <3> QED BY <3>1, <3>2
  <2>7. \A s \in Sockets : s = <<c, opened + opens>> /\ opens = 1 => socket[s] = "unused"
    BY <1>1, <1>2, <2>2 DEF opened
  <2>8. \A s \in Sockets : \/ socket'[s] = "closed"
                           \/ socket'[s] = socket[s]
                           \/ socket[s] = "unused" /\ socket'[s] = "opening"
    BY <2>1, <2>7
  <2> QED BY <2>6, <2>8
<1>7. CASE ApiCrash
  <2>1. /\ socket' = [s \in Sockets |-> IF socket[s] = "unused" THEN "unused" ELSE "closed"]
        /\ page' = [c \in Clients |-> Lost(page[c])]
    BY <1>7 DEF ApiCrash
  <2>2. \A c \in Clients : page'[c].opened = page[c].opened
    BY <1>1, <2>1 DEF Lost, PageStates
  <2>3. socket' \in [Sockets -> SocketStates]
    BY <1>1, <2>1 DEF SocketStates
  <2>4. SocketsAreSound'
    BY <1>3, <2>1, <2>2, <2>3
  <2> QED BY <2>1, <2>4
<1>8. \/ UNCHANGED socket \/ ApiCrash
      \/ \E s \in Sockets : Accept(s) \/ SocketDrops(s)
      \/ \E c \in Clients : Answer(c)
  BY DEF Next, vars, browser, JobStep, Reap, Send, EndBroadcast, Disconnect, Ask, RequestFails
<1> QED
  BY <1>4, <1>5, <1>6, <1>7, <1>8
----------------------------------------------------------------------------

----------------------------------------------------------------------------
(* The list of connections, and the broadcasts                             *)

\* The steps that change the list: the others leave it as it is.
LEMMA ListChanges ==
    ASSUME [Next]_vars
    PROVE  \/ UNCHANGED connections
           \/ \E s \in Sockets : Accept(s) \/ Disconnect(s)
           \/ EndBroadcast \/ ApiCrash
BY DEF Next, vars, server, JobStep, Reap, Send, SocketDrops, Ask, Answer, RequestFails

\* What Disconnect leaves of the list.
LEMMA DisconnectFacts ==
    ASSUME ListIsSound, NEW s \in Sockets, Disconnect(s)
    PROVE  \E p \in DOMAIN connections :
              /\ connections[p] = s /\ socket[s] = "closed"
              /\ connections' \in Seq(Sockets) /\ IsInjective(connections')
              /\ Len(connections') = Len(connections) - 1
              /\ \A i \in DOMAIN connections' :
                    connections'[i] = IF i < p THEN connections[i] ELSE connections[i + 1]
              /\ ToSet(connections') = ToSet(connections) \ {s}
<1>1. PICK p \in DOMAIN connections : connections[p] = s
  BY DEF Disconnect, ToSet
<1>2. /\ connections \in Seq(Sockets) /\ IsInjective(connections)
      /\ connections' = RemoveFirst(connections, connections[p]) /\ socket[s] = "closed"
  BY <1>1 DEF ListIsSound, Disconnect
<1>3. PICK rest : rest = RemoveFirst(connections, connections[p])
  OBVIOUS
<1>4. /\ rest \in Seq(Sockets) /\ Len(rest) = Len(connections) - 1
      /\ \A i \in DOMAIN rest :
            rest[i] = IF i < p THEN connections[i] ELSE connections[i + 1]
      /\ IsInjective(rest)
      /\ ToSet(rest) = ToSet(connections) \ {connections[p]}
  BY <1>2, <1>3, RemovalFacts
<1>5. connections' = rest
  BY <1>2, <1>3
<1> QED
  BY <1>1, <1>2, <1>4, <1>5

\* No socket is registered twice, and none that is open leaves the list.
LEMMA ListGoesOn ==
    ASSUME FeedInv, [Next]_vars
    PROVE  ListIsSound' /\ OpenIsListed'
<1>1. /\ connections \in Seq(Sockets) /\ IsInjective(connections)
      /\ \A s \in ToSet(connections) : s \in Sockets /\ socket[s] \in {"open", "closed"}
      /\ \A s \in Sockets : socket[s] = "open" => s \in ToSet(connections)
      /\ cast.dead \in Seq(Sockets) /\ \A s \in ToSet(cast.dead) : socket[s] = "closed"
  BY DEF FeedInv, ListIsSound, OpenIsListed, CastIsSound, ToSet
<1>2. \A s \in Sockets : /\ socket[s] = "closed" => socket'[s] = "closed"
                         /\ socket[s] = "open" => socket'[s] \in {"open", "closed"}
                         /\ socket'[s] = "open" => socket[s] = "open" \/ Accept(s)
  BY SocketsGoOn
<1>3. SUFFICES /\ connections' \in Seq(Sockets) /\ IsInjective(connections')
               /\ \A s \in ToSet(connections') : socket'[s] \in {"open", "closed"}
               /\ \A s \in Sockets : socket'[s] = "open" => s \in ToSet(connections')
  BY DEF ListIsSound, OpenIsListed
<1>4. ASSUME NEW s \in Sockets, Accept(s)
      PROVE  /\ connections' \in Seq(Sockets) /\ IsInjective(connections')
             /\ ToSet(connections') = ToSet(connections) \cup {s} /\ socket'[s] = "open"
  <2>1. /\ socket[s] = "opening" /\ connections' = Append(connections, s)
        /\ socket' = [socket EXCEPT ![s] = "open"]
    BY <1>4 DEF Accept
  <2>2. s \notin ToSet(connections) /\ socket'[s] = "open"
    BY <1>1, <2>1 DEF FeedInv, SocketsAreSound
  <2> QED BY <1>1, <2>1, <2>2, AppendFacts
<1>5. CASE \E s \in Sockets : Accept(s)
  <2>1. PICK s \in Sockets : Accept(s)
    BY <1>5
  <2>2. \A t \in Sockets : Accept(t) => t \in ToSet(connections')
    BY <1>4
  <2> QED BY <1>1, <1>2, <1>4, <2>1, <2>2
<1>6. CASE UNCHANGED connections /\ ~\E s \in Sockets : Accept(s)
  BY <1>1, <1>2, <1>6
<1>7. CASE \E s \in Sockets : Disconnect(s)
  <2>1. PICK s \in Sockets : Disconnect(s)
    BY <1>7
  <2>2. /\ connections' \in Seq(Sockets) /\ IsInjective(connections')
        /\ ToSet(connections') = ToSet(connections) \ {s} /\ socket[s] = "closed"
    BY <2>1, DisconnectFacts DEF FeedInv
  <2>3. UNCHANGED socket
    BY <2>1 DEF Disconnect, browser
  <2> QED BY <1>1, <2>2, <2>3
<1>8. CASE EndBroadcast
  <2>1. connections' = Buried(cast.dead) /\ UNCHANGED socket
    BY <1>8 DEF EndBroadcast, browser
  <2>2. /\ connections' \in Seq(Sockets) /\ IsInjective(connections')
        /\ ToSet(connections') \subseteq ToSet(connections)
        /\ ToSet(connections) \ ToSet(cast.dead) \subseteq ToSet(connections')
    BY <1>1, <2>1, BuriedFacts
  <2>3. \A s \in Sockets : socket[s] = "open" => s \notin ToSet(cast.dead)
    BY <1>1
  <2> QED BY <1>1, <2>1, <2>2, <2>3
<1>9. CASE ApiCrash
  <2>1. /\ connections' = <<>>
        /\ \A s \in Sockets : socket'[s] # "open"
    BY <1>9 DEF ApiCrash
  <2> QED BY <2>1 DEF IsInjective, ToSet
<1> QED
  BY <1>5, <1>6, <1>7, <1>8, <1>9, ListChanges

LEMMA AppendedSet ==
    ASSUME NEW S, NEW list \in Seq(S), NEW x \in S
    PROVE  ToSet(Append(list, x)) = ToSet(list) \cup {x}
<1> DEFINE more == Append(list, x)
           n == Len(list)
<1>1. n \in Nat /\ DOMAIN list = 1 .. n
  OBVIOUS
<1>2. /\ DOMAIN more = 1 .. n + 1 /\ more[n + 1] = x
      /\ \A i \in 1 .. n : more[i] = list[i]
  BY <1>1
<1>3. 1 .. n + 1 = (1 .. n) \cup {n + 1}
  BY <1>1
<1> HIDE DEF more, n
<1>4. ToSet(more) = ToSet(list) \cup {x}
  <2>1. ToSet(more) = {more[i] : i \in (1 .. n) \cup {n + 1}}
    BY <1>2, <1>3 DEF ToSet
  <2>2. ToSet(list) = {list[i] : i \in 1 .. n}
    BY <1>1 DEF ToSet
  <2> QED BY <1>2, <2>1, <2>2
<1> QED
  BY <1>4 DEF more

LEMMA CastGoesOn ==
    ASSUME FeedInv, [Next]_vars
    PROVE  CastIsSound'
<1> DEFINE Casts == [ids : Seq(Jobs), next : Nat, reached : SUBSET Sockets,
                     dead : Seq(Sockets), left : Nat]
<1>1. /\ cast \in Casts /\ cast.next >= 1 /\ cast.next \in Nat
      /\ \A s \in ToSet(cast.dead) : s \in Sockets /\ socket[s] = "closed"
  BY DEF FeedInv, CastIsSound, ToSet
<1>2. \A s \in Sockets : socket[s] = "closed" => socket'[s] = "closed"
  BY SocketsGoOn
<1>3. SUFFICES /\ cast' \in Casts /\ cast'.next >= 1
               /\ \A s \in ToSet(cast'.dead) : s \in Sockets /\ socket[s] = "closed"
  BY <1>2 DEF CastIsSound
<1>4. ASSUME NEW ids \in Seq(Jobs), NEW c, c = [Silence EXCEPT !.ids = ids]
      PROVE  c \in Casts /\ c.next >= 1 /\ \A s \in ToSet(c.dead) : FALSE
  <2>1. c = [ids |-> ids, next |-> 1, reached |-> {}, dead |-> <<>>, left |-> 0]
    BY <1>4 DEF Silence
  <2>2. <<>> \in Seq(Sockets) /\ ToSet(<<>>) = {}
    BY DEF ToSet
  <2> QED BY <2>1, <2>2
<1>5. Silence = [Silence EXCEPT !.ids = <<>>] /\ <<>> \in Seq(Jobs)
  BY DEF Silence
<1>6. CASE cast' = Silence
  BY <1>4, <1>5, <1>6
<1>7. CASE UNCHANGED cast
  BY <1>1, <1>7
<1>8. ASSUME NEW T \in SUBSET Jobs, Reap(T)
      PROVE  cast' \in Casts /\ cast'.next >= 1 /\ \A s \in ToSet(cast'.dead) : FALSE
  <2>1. PICK ids \in SetToSeqs(T) : cast' = [Silence EXCEPT !.ids = ids]
    BY <1>8 DEF Reap
  <2>2. ids \in Seq(Jobs)
    BY OrdersOfJobs
  <2> QED BY <1>4, <2>1, <2>2
<1>9. CASE Send
  <2> DEFINE s == connections[cast.next]
             sent == [cast EXCEPT !.next = @ + 1, !.reached = @ \cup {s}]
             failed == [sent EXCEPT !.dead = Append(@, s)]
  <2>1. cast.next <= Len(connections) /\ connections \in Seq(Sockets)
    BY <1>9 DEF Send, FeedInv, ListIsSound
  <2>2. s \in Sockets /\ s \in ToSet(connections)
    BY <1>1, <2>1 DEF ToSet
  <2>5. cast.dead \in Seq(Sockets)
    BY <1>1
  <2>31. Append(cast.dead, s) \in Seq(Sockets) /\ cast.next + 1 \in Nat /\ cast.next + 1 >= 1
         /\ cast.reached \cup {s} \in SUBSET Sockets
    <3> HIDE DEF s
    <3> QED BY <1>1, <2>2, <2>5
  <2>6. ToSet(Append(cast.dead, s)) = ToSet(cast.dead) \cup {s}
    <3> HIDE DEF s
    <3> QED BY <2>2, <2>5, AppendedSet
  <2>3. sent \in Casts /\ sent.next >= 1 /\ sent.dead = cast.dead
    <3> HIDE DEF s
    <3> QED BY <1>1, <2>31
  <2>4. /\ failed \in Casts /\ failed.next = sent.next
        /\ failed.dead = Append(cast.dead, s)
    <3>1. failed = [sent EXCEPT !.dead = Append(cast.dead, s)]
      BY <2>3
    <3> HIDE DEF s, sent, failed
    <3> QED BY <2>3, <2>31, <3>1
  <2>7. \/ cast' = sent
        \/ cast' = Silence
        \/ cast' = failed /\ socket[s] # "open"
    BY <1>9 DEF Send
  <2>8. socket[s] # "open" => socket[s] = "closed"
    BY <2>2 DEF FeedInv, ListIsSound
  <2> HIDE DEF s, sent, failed, Casts
  <2> QED BY <1>1, <1>6, <2>2, <2>3, <2>4, <2>6, <2>7, <2>8
<1>10. CASE EndBroadcast
  <2>1. /\ cast.ids # <<>>
        /\ cast' = [Silence EXCEPT !.ids = Tail(cast.ids)] \/ cast' = Silence
    BY <1>10 DEF EndBroadcast
  <2>2. Tail(cast.ids) \in Seq(Jobs)
    BY <1>1, <2>1
  <2> QED BY <1>4, <1>6, <2>1, <2>2
<1>11. CASE \E s \in Sockets : Disconnect(s)
  <2>1. cast' = cast \/ cast' = [cast EXCEPT !.left = @ + 1]
    BY <1>11 DEF Disconnect
  <2> QED BY <1>1, <2>1
<1>12. \/ UNCHANGED cast \/ cast' = Silence \/ Send \/ EndBroadcast
       \/ \E T \in SUBSET Jobs : Reap(T)
       \/ \E s \in Sockets : Disconnect(s)
  BY DEF Next, vars, server, JobStep, Accept, SocketDrops, Ask, Answer, RequestFails, ApiCrash
<1> QED
  BY <1>6, <1>7, <1>8, <1>9, <1>10, <1>11, <1>12

LEMMA FeedInitially == Init => FeedInv
<1> SUFFICES ASSUME Init PROVE FeedInv
  OBVIOUS
<1>1. MaxSockets \in Nat /\ MaxFaults \in Nat
  BY FeedAssumption
<1>2. JobsAreTyped /\ faults \in 0 .. MaxFaults
  BY <1>1 DEF Init, JobsAreTyped, Statuses
<1>3. PagesAreSound
  BY <1>1 DEF Init, PagesAreSound, PagesFollow, PageStates, PageFollows, Ended, Statuses
<1>4. SocketsAreSound
  BY DEF Init, SocketsAreSound, SocketStates
<1>5. ListIsSound /\ OpenIsListed
  BY DEF Init, ListIsSound, OpenIsListed, IsInjective, ToSet
<1>6. CastIsSound
  BY DEF Init, CastIsSound, Silence, ToSet
<1> QED
  BY <1>2, <1>3, <1>4, <1>5, <1>6 DEF FeedInv

LEMMA FeedInductive ==
    ASSUME FeedInv, [Next]_vars
    PROVE  FeedInv'
<1>1. faults' \in 0 .. MaxFaults
  <2>1. MaxFaults \in Nat /\ faults \in 0 .. MaxFaults
    BY FeedAssumption DEF FeedInv
  <2>2. UNCHANGED faults \/ (faults < MaxFaults /\ faults' = faults + 1)
    <3>1. CASE JobStep \/ Send \/ EndBroadcast \/ \E S \in SUBSET Jobs : Reap(S)
      BY <3>1 DEF JobStep, Send, EndBroadcast, Reap
    <3>2. CASE \E s \in Sockets : Accept(s) \/ Disconnect(s) \/ SocketDrops(s)
      BY <3>2 DEF Accept, Disconnect, SocketDrops
    <3>3. CASE \E c \in Clients : Ask(c) \/ Answer(c) \/ RequestFails(c)
      BY <3>3 DEF Ask, Answer, RequestFails
    <3>4. CASE ApiCrash
      BY <3>4 DEF ApiCrash
    <3>5. CASE UNCHANGED vars
      BY <3>5 DEF vars
    <3> QED BY <3>1, <3>2, <3>3, <3>4, <3>5 DEF Next
  <2> QED BY <2>1, <2>2
<1>2. JobsAreTyped'
  BY JobsGoOn DEF FeedInv
<1> QED
  BY <1>1, <1>2, PagesGoOn, SocketsGoOn, ListGoesOn, CastGoesOn DEF FeedInv

LEMMA FeedIsSound == Spec => []FeedInv
<1>1. FeedInv /\ [Next]_vars => FeedInv'
  BY FeedInductive
<1> QED
  BY FeedInitially, <1>1, PTL DEF Spec

\* The state has its type: in particular no socket is ever registered twice,
\* though endpoints and broadcasts remove sockets from the list independently
\* of each other (WebSocketManager), and no page needs more than its sockets.
THEOREM FeedTypeCorrect == Spec => []TypeOK
<1>1. FeedInv => TypeOK
  BY DEF FeedInv, TypeOK, JobsAreTyped, PagesAreSound, PageStates, SocketsAreSound,
         SocketStates, ListIsSound, CastIsSound
<1> QED
  BY FeedIsSound, <1>1, PTL

\* A page whose socket is open is in the list of the broadcasts: whatever
\* disconnect and the end of a broadcast remove, in whatever order, they remove
\* only sockets that are closed (WebSocketManager).
THEOREM OpenSocketsAreListed == Spec => []OpenIsListed
<1>1. FeedInv => OpenIsListed
  BY DEF FeedInv
<1> QED
  BY FeedIsSound, <1>1, PTL
----------------------------------------------------------------------------

----------------------------------------------------------------------------
(* The sockets a broadcast misses                                          *)

\* The sockets at the first n places of a list.
Seen(list, n) == {list[i] : i \in {j \in DOMAIN list : j <= n}}

\* Those the iterator has passed without a send.
Passed == Seen(connections, cast.next - 1) \ cast.reached

\* Every removal shifts at most one socket past the iterator, or leaves it one
\* place further behind the end of the list, where a new connection is missed.
LossInv ==
    cast.ids # <<>> =>
        \E d \in Nat : /\ Cardinality(Passed) + d <= cast.left
                       /\ cast.next - 1 <= Len(connections) + d

LEMMA SeenIsFinite ==
    ASSUME NEW S, NEW list \in Seq(S)
    PROVE  /\ IsFiniteSet(ToSet(list))
           /\ \A n \in Int : Seen(list, n) \subseteq ToSet(list)
           /\ \A n \in Int : n >= Len(list) => Seen(list, n) = ToSet(list)
           /\ \A n \in Int : n <= 0 => Seen(list, n) = {}
<1>1. Len(list) \in Nat /\ DOMAIN list = 1 .. Len(list)
  OBVIOUS
<1>2. IsFiniteSet(ToSet(list))
  BY ToSetIsFinite
<1> QED
  BY <1>1, <1>2 DEF Seen, ToSet

\* A set that gains at most one element.
LEMMA OneMore ==
    ASSUME NEW A, IsFiniteSet(A), NEW x, NEW B \in SUBSET (A \cup {x})
    PROVE  /\ Cardinality(A) \in Nat /\ Cardinality(B) \in Nat
           /\ Cardinality(B) <= Cardinality(A) + 1
<1>1. /\ IsFiniteSet(A \cup {x}) /\ Cardinality(A) \in Nat
      /\ Cardinality(A \cup {x}) <= Cardinality(A) + 1
  <2>1. Cardinality(A) \in Nat
    BY FS_CardinalityType
  <2>2. /\ IsFiniteSet(A \cup {x})
        /\ x \in A => A \cup {x} = A
        /\ x \notin A => Cardinality(A \cup {x}) = Cardinality(A) + 1
    BY FS_AddElement
  <2>3. CASE x \in A
    <3>1. A \cup {x} = A
      BY <2>2, <2>3
    <3> DEFINE a == Cardinality(A)
    <3>2. Cardinality(A \cup {x}) = a /\ a \in Nat
      BY <2>1, <3>1
    <3> HIDE DEF a
    <3>3. a <= a + 1
      BY <3>2
    <3>4. Cardinality(A \cup {x}) <= a + 1
      BY <3>2, <3>3
    <3> QED BY <2>1, <2>2, <3>4 DEF a
  <2>4. CASE x \notin A
    <3> DEFINE a == Cardinality(A)
               more == Cardinality(A \cup {x})
    <3>1. more = a + 1 /\ a \in Nat
      BY <2>1, <2>2, <2>4
    <3>2. more <= a + 1
      <4> HIDE DEF a, more
      <4> QED BY <3>1
    <3> QED BY <2>1, <2>2, <3>2
  <2> QED BY <2>3, <2>4
<1>2. IsFiniteSet(B) /\ Cardinality(B) <= Cardinality(A \cup {x})
  BY <1>1, FS_Subset
<1>3. Cardinality(B) \in Nat /\ Cardinality(A \cup {x}) \in Nat
  BY <1>1, <1>2, FS_CardinalityType
<1> DEFINE a == Cardinality(A)
           more == Cardinality(A \cup {x})
           b == Cardinality(B)
<1>4. a \in Nat /\ more \in Nat /\ b \in Nat /\ more <= a + 1 /\ b <= more
  BY <1>1, <1>2, <1>3
<1>5. b <= a + 1
  <2> HIDE DEF a, more, b
  <2> QED BY <1>4
<1> QED
  BY <1>4, <1>5

LEMMA FewerOrEqual ==
    ASSUME NEW A, IsFiniteSet(A), NEW B \in SUBSET A
    PROVE  /\ Cardinality(A) \in Nat /\ Cardinality(B) \in Nat
           /\ Cardinality(B) <= Cardinality(A)
BY FS_Subset, FS_CardinalityType

LEMMA LossInductive ==
    ASSUME FeedInv, LossInv, [Next]_vars
    PROVE  LossInv'
<1> DEFINE n == cast.next - 1
           length == Len(connections)
<1>1. /\ connections \in Seq(Sockets) /\ connections' \in Seq(Sockets)
      /\ length \in Nat /\ DOMAIN connections = 1 .. length
      /\ n \in Nat /\ cast.left \in Nat /\ cast.next = n + 1
  BY CastGoesOn, ListGoesOn DEF FeedInv, ListIsSound, CastIsSound
<1>2. IsFiniteSet(Passed)
  <2>1. IsFiniteSet(ToSet(connections)) /\ Seen(connections, n) \subseteq ToSet(connections)
    BY <1>1, SeenIsFinite
  <2> QED BY <2>1, FS_Subset DEF Passed
<1>3. Cardinality(Passed) \in Nat
  BY <1>2, FS_CardinalityType
<1>4. ASSUME cast.ids # <<>>
      PROVE  \E d \in Nat : Cardinality(Passed) + d <= cast.left /\ n <= length + d
  BY <1>4 DEF LossInv
<1>5. ASSUME cast'.next = 1, cast'.left = 0
      PROVE  LossInv'
  <2>1. Seen(connections', 0) = {}
    BY <1>1, SeenIsFinite
  <2>2. Passed' = {} /\ Len(connections') \in Nat
    BY <1>1, <1>5, <2>1 DEF Passed
  <2>3. Cardinality(Passed') + 0 <= cast'.left /\ cast'.next - 1 <= Len(connections') + 0
    BY <1>5, <2>2, FS_EmptySet
  <2> QED BY <2>3 DEF LossInv
<1>6. CASE cast'.ids = <<>>
  BY <1>6 DEF LossInv
<1>7. CASE EndBroadcast \/ \E T \in SUBSET Jobs : Reap(T)
  BY <1>5, <1>7 DEF EndBroadcast, Reap, Silence
<1>8. CASE Send /\ cast' # Silence
  <2>1. /\ cast.ids # <<>> /\ cast.next <= length /\ UNCHANGED connections
        /\ cast'.next = cast.next + 1 /\ cast'.left = cast.left
        /\ cast'.reached = cast.reached \cup {connections[cast.next]}
    BY <1>8, <1>1 DEF Send, FeedInv, CastIsSound
  <2>2. PICK d \in Nat : Cardinality(Passed) + d <= cast.left /\ n <= length + d
    BY <1>4, <2>1
  <2>3. Passed' \in SUBSET Passed
    <3>1. Seen(connections, n + 1) \subseteq Seen(connections, n) \cup {connections[n + 1]}
      BY <1>1 DEF Seen
    <3>2. cast'.next - 1 = n + 1
      BY <1>1, <2>1
    <3> QED BY <1>1, <2>1, <3>1, <3>2 DEF Passed
  <2>4. Cardinality(Passed') \in Nat /\ Cardinality(Passed') <= Cardinality(Passed)
    BY <1>2, <2>3, FewerOrEqual
  <2>5. Cardinality(Passed') + d <= cast'.left /\ cast'.next - 1 <= Len(connections') + d
    BY <1>1, <1>3, <2>1, <2>2, <2>4
  <2> QED BY <2>5 DEF LossInv
<1>9. CASE cast.ids # <<>> /\ \E s \in Sockets : Accept(s)
  <2>1. PICK s \in Sockets : connections' = Append(connections, s) /\ UNCHANGED cast
    BY <1>9 DEF Accept
  <2>2. PICK d \in Nat : Cardinality(Passed) + d <= cast.left /\ n <= length + d
    BY <1>4, <1>9
  <2>3. /\ Len(connections') = length + 1 /\ DOMAIN connections' = 1 .. length + 1
        /\ connections'[length + 1] = s
        /\ \A i \in 1 .. length : connections'[i] = connections[i]
    BY <1>1, <2>1
  <2>4. Seen(connections', n) \subseteq Seen(connections, n) \cup {s}
    BY <1>1, <2>3 DEF Seen
  <2>5. n <= length => Seen(connections', n) \subseteq Seen(connections, n)
    BY <1>1, <2>3 DEF Seen
  <2>6. CASE n <= length
    <3>1. Passed' \in SUBSET Passed
      BY <2>1, <2>5, <2>6 DEF Passed
    <3>2. Cardinality(Passed') \in Nat /\ Cardinality(Passed') <= Cardinality(Passed)
      BY <1>2, <3>1, FewerOrEqual
    <3>3. Cardinality(Passed') + d <= cast'.left /\ cast'.next - 1 <= Len(connections') + d
      BY <1>1, <1>3, <2>1, <2>2, <2>3, <3>2
    <3> QED BY <3>3 DEF LossInv
  <2>7. CASE n > length
    <3>1. Passed' \in SUBSET (Passed \cup {s})
      BY <2>1, <2>4 DEF Passed
    <3>2. Cardinality(Passed') \in Nat /\ Cardinality(Passed') <= Cardinality(Passed) + 1
      BY <1>2, <3>1, OneMore
    <3>3. d - 1 \in Nat
      BY <1>1, <2>2, <2>7
    <3>4. /\ Cardinality(Passed') + (d - 1) <= cast'.left
          /\ cast'.next - 1 <= Len(connections') + (d - 1)
      BY <1>1, <1>3, <2>1, <2>2, <2>3, <3>2
    <3> QED BY <3>3, <3>4 DEF LossInv
  <2> QED BY <1>1, <2>6, <2>7
<1>10. CASE cast.ids # <<>> /\ \E s \in Sockets : Disconnect(s)
  <2>1. PICK s \in Sockets : Disconnect(s)
    BY <1>10
  <2>2. PICK p \in DOMAIN connections :
            /\ Len(connections') = length - 1
            /\ \A i \in DOMAIN connections' :
                  connections'[i] = IF i < p THEN connections[i] ELSE connections[i + 1]
    BY <2>1, DisconnectFacts DEF FeedInv
  <2>3. /\ cast'.next = cast.next /\ cast'.reached = cast.reached
        /\ cast'.left = cast.left + 1
    BY <1>1, <1>10, <2>1 DEF Disconnect, FeedInv, CastIsSound
  <2>4. PICK d \in Nat : Cardinality(Passed) + d <= cast.left /\ n <= length + d
    BY <1>4, <1>10
  <2>5. DOMAIN connections' = 1 .. length - 1 /\ p \in 1 .. length
    BY <1>1, <2>2
  <2>6. \A i \in DOMAIN connections' :
            \E k \in DOMAIN connections : k <= i + 1 /\ connections'[i] = connections[k]
    BY <1>1, <2>2, <2>5
  <2>7. Seen(connections', n) \subseteq Seen(connections, n + 1)
    BY <1>1, <2>5, <2>6 DEF Seen
  <2>8. Seen(connections, n + 1) \subseteq Seen(connections, n) \cup {connections[n + 1]}
    BY <1>1 DEF Seen
  <2>9. n >= length => Seen(connections, n + 1) \subseteq Seen(connections, n)
    BY <1>1 DEF Seen
  <2>10. CASE n >= length
    <3>1. Passed' \in SUBSET Passed
      BY <2>3, <2>7, <2>9, <2>10 DEF Passed
    <3>2. Cardinality(Passed') \in Nat /\ Cardinality(Passed') <= Cardinality(Passed)
      BY <1>2, <3>1, FewerOrEqual
    <3>3. /\ Cardinality(Passed') + (d + 1) <= cast'.left
          /\ cast'.next - 1 <= Len(connections') + (d + 1) /\ d + 1 \in Nat
      BY <1>1, <1>3, <2>2, <2>3, <2>4, <3>2
    <3> QED BY <3>3 DEF LossInv
  <2>11. CASE n < length
    <3>1. Passed' \in SUBSET (Passed \cup {connections[n + 1]})
      BY <2>3, <2>7, <2>8 DEF Passed
    <3>2. Cardinality(Passed') \in Nat /\ Cardinality(Passed') <= Cardinality(Passed) + 1
      BY <1>2, <3>1, OneMore
    <3>3. /\ Cardinality(Passed') + d <= cast'.left
          /\ cast'.next - 1 <= Len(connections') + d
      BY <1>1, <1>3, <2>2, <2>3, <2>4, <2>11, <3>2
    <3> QED BY <3>3 DEF LossInv
  <2> QED BY <1>1, <2>10, <2>11
<1>11. CASE UNCHANGED <<connections, cast>>
  BY <1>11 DEF LossInv, Passed
<1>12. CASE cast.ids = <<>> /\ \E s \in Sockets : Accept(s) \/ Disconnect(s)
  BY <1>6, <1>12 DEF Accept, Disconnect
<1>13. CASE ApiCrash \/ cast' = Silence
  BY <1>6, <1>13 DEF ApiCrash, Silence
<1>14. \/ UNCHANGED <<connections, cast>> \/ Send \/ EndBroadcast \/ ApiCrash
       \/ \E T \in SUBSET Jobs : Reap(T)
       \/ \E s \in Sockets : Accept(s) \/ Disconnect(s)
  BY DEF Next, vars, server, JobStep, SocketDrops, Ask, Answer, RequestFails
<1> QED
  BY <1>7, <1>8, <1>9, <1>10, <1>11, <1>12, <1>13, <1>14

\* A broadcast that comes to its end has missed no more open sockets than have
\* left the list while it awaited (WebSocketManager.broadcast, disconnect).
THEOREM LossIsAlwaysBounded == Spec => []LossIsBounded
<1>1. Init => LossInv
  BY DEF Init, LossInv, Silence
<1>2. FeedInv /\ LossInv /\ [Next]_vars => LossInv'
  BY LossInductive
<1>3. FeedInv /\ LossInv => LossIsBounded
  <2> SUFFICES ASSUME FeedInv, LossInv, cast.ids # <<>>, cast.next > Len(connections)
               PROVE  Cardinality({s \in ToSet(connections) :
                                      socket[s] = "open" /\ s \notin cast.reached}) <= cast.left
    BY DEF LossIsBounded
  <2> DEFINE missed == {s \in ToSet(connections) : socket[s] = "open" /\ s \notin cast.reached}
  <2>1. /\ connections \in Seq(Sockets) /\ cast.next \in Nat /\ cast.left \in Nat
        /\ Len(connections) \in Nat
    BY DEF FeedInv, ListIsSound, CastIsSound
  <2>2. cast.next - 1 \in Int /\ cast.next - 1 >= Len(connections)
    BY <2>1
  <2>3. /\ Seen(connections, cast.next - 1) = ToSet(connections)
        /\ IsFiniteSet(ToSet(connections))
    BY <2>1, <2>2, SeenIsFinite
  <2>4. missed \in SUBSET Passed /\ IsFiniteSet(Passed)
    <3>1. Passed \in SUBSET ToSet(connections)
      BY <2>3 DEF Passed
    <3> QED BY <2>3, <3>1, FS_Subset DEF Passed
  <2>5. /\ Cardinality(Passed) \in Nat /\ Cardinality(missed) \in Nat
        /\ Cardinality(missed) <= Cardinality(Passed)
    BY <2>4, FewerOrEqual
  <2>6. PICK d \in Nat : Cardinality(Passed) + d <= cast.left
    BY DEF LossInv
  <2> HIDE DEF missed
  <2>7. Cardinality(missed) <= cast.left
    BY <2>1, <2>5, <2>6
  <2> QED BY <2>7 DEF missed
<1> QED
  BY <1>1, <1>2, <1>3, FeedIsSound, PTL DEF Spec
=============================================================================
