--------------------------- MODULE StashBoxClient ---------------------------
(***************************************************************************)
(* ThePornDB's client: the identity lookups that concurrent queries share, *)
(* the file that plugin processes keep them in, and the pace of requests.  *)
(* src/core/theporndb.go.                                                  *)
(*                                                                         *)
(* A query filters by performers or by tags: it looks every id up, lists   *)
(* the scenes, remembers the identities in them and saves the cache.  The  *)
(* lookups of all queries of a process run at once.                        *)
(***************************************************************************)
EXTENDS Integers, FiniteSets

CONSTANTS
  Session,      \* plugin processes, one client each
  Query,        \* queries
  Ident,        \* the ids they filter by
  SiteIdent,    \* ids of site profiles, which exist; the others are performers
  Slots,        \* requests in flight, 4
  KeepFor,      \* days an identity is kept, 7
  LastDay, MaxMerges, MaxQueries,  \* bounds: days, changes of identities, queries
  Call,         \* requests of one client, for its pace
  RequestInterval, MaxAttempts,    \* a second; 4
  LastSecond    \* bound: the clock of the pace

ASSUME StashBoxClientAssumption ==
  /\ {Slots, KeepFor, LastDay, MaxMerges, MaxQueries, RequestInterval, MaxAttempts, LastSecond} \subseteq Nat \ {0}
  /\ SiteIdent \subseteq Ident

VARIABLES
  day,          \* the day
  number,       \* the number of an id's performer, 0: no such performer, a profile of none
  left,         \* history: the day on which it had another number last
  cacheFile,    \* data/theporndb-identities.json: identities by key
  client,       \* by process: when it began, its details, its tags, who holds mu
  query,        \* by query: where it stands
  lookup,       \* by query and id: where its lookup stands
  asked         \* queries so far

identityVars == <<day, number, left, cacheFile, client, query, lookup, asked>>

VARIABLES
  paceClock,    \* the clock
  retryAfter, nextRequest,
  request,      \* by request: where it stands and when it starts
  starts        \* history: the times requests were given

paceVars == <<paceClock, retryAfter, nextRequest, request, starts>>

Key == {"performers", "performer-sites"} \X Ident
NoEntry == [state |-> "absent"]
NoClient == [since |-> 0]
NoQuery == [pc |-> "idle"]
NoLookup == [pc |-> "none"]
Nobody == "nobody"

InitIdentities ==
  /\ day = 1
  /\ number \in [Ident -> {0, 1}] /\ left = [i \in Ident |-> 0]
  /\ cacheFile = [k \in Key |-> NoEntry]
  /\ client = [s \in Session |-> NoClient]
  /\ query = [q \in Query |-> NoQuery]
  /\ lookup = [q \in Query |-> [i \in Ident |-> NoLookup]]
  /\ asked = 0

-----------------------------------------------------------------------------
Ready(n) == [state |-> "ready", number |-> n, failed |-> FALSE, day |-> day]
Failed == [state |-> "ready", number |-> 0, failed |-> TRUE, day |-> day]
Loading == [state |-> "loading"]

(* loadCache: what is a week old is looked up again. *)
Loaded(k) ==
  IF cacheFile[k] # NoEntry /\ day - cacheFile[k].day < KeepFor THEN cacheFile[k] ELSE NoEntry

NewClient == [since |-> day, details |-> [k \in Key |-> Loaded(k)], tags |-> FALSE, mu |-> Nobody]

(* thePornDBQuery: the first query of a process makes its client. *)
BeginQuery(q, s, source, ids) ==
  /\ query[q] = NoQuery /\ asked < MaxQueries
  /\ asked' = asked + 1
  /\ client' = IF client[s] = NoClient THEN [client EXCEPT ![s] = NewClient] ELSE client
  /\ query' = [query EXCEPT ![q] = [pc |-> "filtering", session |-> s, source |-> source, ids |-> ids]]
  /\ lookup' = [lookup EXCEPT ![q] = [i \in Ident |-> IF i \in ids THEN [pc |-> "queued"] ELSE NoLookup]]
  /\ UNCHANGED <<day, number, left, cacheFile>>

-----------------------------------------------------------------------------
Home(q) == query[q].session
Free(s) == client[s].mu = Nobody
Details(s) == client[s].details
QueriesOf(s) == {q \in Query : query[q] # NoQuery /\ Home(q) = s}

InFlight(s) == Cardinality({w \in QueriesOf(s) \X Ident : lookup[w[1]][w[2]].pc = "sent"})
               + Cardinality({q \in QueriesOf(s) : query[q].pc = "listing"})

Done(n) == [pc |-> "done", number |-> n, failed |-> FALSE]
Broken == [pc |-> "done", number |-> 0, failed |-> TRUE]
Breaks(q) == \E i \in query[q].ids : lookup[q][i] = Broken

(* Where a lookup goes with an entry: an id that is no performer's may be a *)
(* site profile's.                                                          *)
Concluded(e, k) ==
  IF e.failed THEN Broken
  ELSE IF e.number = 0 /\ k[1] = "performers" THEN [pc |-> "detail", key |-> <<"performer-sites", k[2]>>]
  ELSE Done(e.number)

(* The entry is there, or another lookup is getting it. *)
Joins(q, i, k) ==
  lookup' = [lookup EXCEPT ![q][i] =
    IF Details(Home(q))[k] = Loading THEN [pc |-> "awaiting", key |-> k] ELSE Concluded(Details(Home(q))[k], k)]

(* parentPerformer: a known site profile tells its parent. *)
LookUp(q, i) ==
  /\ lookup[q][i].pc = "queued" /\ query[q].source = "performers" /\ ~Breaks(q) /\ Free(Home(q))
  /\ LET site == <<"performer-sites", i>>
     IN IF Details(Home(q))[site] = NoEntry
        THEN lookup' = [lookup EXCEPT ![q][i] = [pc |-> "detail", key |-> <<"performers", i>>]]
        ELSE Joins(q, i, site)
  /\ UNCHANGED <<day, number, left, cacheFile, client, query, asked>>

(* detail: the first lookup of a key gets it, the others wait for it. *)
Detail(q, i) ==
  /\ lookup[q][i].pc = "detail" /\ Free(Home(q))
  /\ LET k == lookup[q][i].key
     IN IF Details(Home(q))[k] = NoEntry
        THEN /\ client' = [client EXCEPT ![Home(q)].details[k] = Loading]
             /\ lookup' = [lookup EXCEPT ![q][i] = [pc |-> "getting", key |-> k]]
        ELSE Joins(q, i, k) /\ UNCHANGED client
  /\ UNCHANGED <<day, number, left, cacheFile, query, asked>>

(* get: at most Slots requests of a client at once. *)
Send(q, i) ==
  /\ lookup[q][i].pc = "getting" /\ InFlight(Home(q)) < Slots
  /\ lookup' = [lookup EXCEPT ![q][i].pc = "sent"]
  /\ UNCHANGED <<day, number, left, cacheFile, client, query, asked>>

Own(k) == (k[1] = "performer-sites") <=> (k[2] \in SiteIdent)
There(k, n) == Own(k) /\ (n # 0 \/ k[1] = "performer-sites")

Answered(k) == Ready(IF Own(k) THEN number[k[2]] ELSE 0)

(* An answer is for all who wait for it, a failure too, and stays. *)
Answer(q, i, e) ==
  /\ lookup[q][i].pc = "sent" /\ query[q].source = "performers"
  /\ LET k == lookup[q][i].key
         s == Home(q)
     IN /\ e \in {Answered(k), Failed}
        /\ client' = [client EXCEPT ![s].details[k] = e]
        /\ lookup' = [p \in Query |-> [j \in Ident |->
             IF \/ p = q /\ j = i
                \/ p \in QueriesOf(s) /\ lookup[p][j] = [pc |-> "awaiting", key |-> k]
             THEN Concluded(e, k) ELSE lookup[p][j]]]
  /\ UNCHANGED <<day, number, left, cacheFile, query, asked>>

-----------------------------------------------------------------------------
(* tagCatalog holds mu while it gets the tags; a failure does not stay.     *)
ReadTags(q, i) ==
  /\ lookup[q][i].pc = "queued" /\ query[q].source = "tags" /\ ~Breaks(q) /\ Free(Home(q))
  /\ IF client[Home(q)].tags
     THEN lookup' = [lookup EXCEPT ![q][i] = Done(1)] /\ UNCHANGED client
     ELSE /\ lookup' = [lookup EXCEPT ![q][i] = [pc |-> "getting", key |-> "tags"]]
          /\ client' = [client EXCEPT ![Home(q)].mu = <<q, i>>]
  /\ UNCHANGED <<day, number, left, cacheFile, query, asked>>

(* A slip: a failure that returns without giving mu back. *)
TagsArriveHolding(q, i, fails) ==
  /\ lookup[q][i].pc = "sent" /\ query[q].source = "tags"
  /\ lookup' = [lookup EXCEPT ![q][i] = IF fails THEN Broken ELSE Done(1)]
  /\ client' = IF fails THEN client ELSE [client EXCEPT ![Home(q)].tags = TRUE, ![Home(q)].mu = Nobody]
  /\ UNCHANGED <<day, number, left, cacheFile, query, asked>>

TagsArrive(q, i, fails) ==
  /\ lookup[q][i].pc = "sent" /\ query[q].source = "tags"
  /\ lookup' = [lookup EXCEPT ![q][i] = IF fails THEN Broken ELSE Done(1)]
  /\ client' = [client EXCEPT ![Home(q)].tags = ~fails, ![Home(q)].mu = Nobody]
  /\ UNCHANGED <<day, number, left, cacheFile, query, asked>>

-----------------------------------------------------------------------------
(* sceneFilter: an error stops the lookups that have not begun.             *)
Settled(q) == \A i \in query[q].ids :
                \/ lookup[q][i].pc = "done"
                \/ lookup[q][i].pc = "queued" /\ Breaks(q)

(* A slip: failed lookups are skipped like ids of nobody. *)
OutcomeOfKnown(q, modifier) ==
  IF \E i \in query[q].ids : lookup[q][i].pc = "done" /\ lookup[q][i].number # 0 THEN "filtered" ELSE "empty"

Outcome(q, modifier) ==
  LET known == {i \in query[q].ids : lookup[q][i].pc = "done" /\ lookup[q][i].number # 0}
  IN IF Breaks(q) THEN "error"
     ELSE IF known = {} \/ (modifier = "INCLUDES_ALL" /\ known # query[q].ids) THEN "empty"
     ELSE "filtered"

SceneFilter(q, modifier) ==
  /\ query[q].pc = "filtering" /\ Settled(q)
  /\ query' = [query EXCEPT ![q] = [session |-> Home(q),
                 pc |-> IF Outcome(q, modifier) = "filtered" THEN "filtered" ELSE "saving"]]
  /\ lookup' = [lookup EXCEPT ![q] = [i \in Ident |-> NoLookup]]
  /\ UNCHANGED <<day, number, left, cacheFile, client, asked>>

(* list: a scene of the page may name a performer by its site profile.      *)
SendList(q) ==
  /\ query[q].pc = "filtered" /\ InFlight(Home(q)) < Slots
  /\ query' = [query EXCEPT ![q].pc = "listing"]
  /\ UNCHANGED <<day, number, left, cacheFile, client, lookup, asked>>

ListArrives(q, i) ==
  /\ query[q].pc = "listing"
  /\ query' = [query EXCEPT ![q] = IF i = "none" THEN [pc |-> "saving", session |-> Home(q)]
                                   ELSE [pc |-> "listed", session |-> Home(q), id |-> i, number |-> number[i]]]
  /\ UNCHANGED <<day, number, left, cacheFile, client, lookup, asked>>

(* rememberIdentity: what a row tells takes the place of what was looked    *)
(* up, a failure included, but not of a lookup under way.                   *)
RememberIdentity(q) ==
  /\ query[q].pc = "listed" /\ Free(Home(q))
  /\ LET i == query[q].id
         k == <<IF i \in SiteIdent THEN "performer-sites" ELSE "performers", i>>
     IN client' = IF ~There(k, query[q].number) \/ Details(Home(q))[k] = Loading THEN client
                  ELSE [client EXCEPT ![Home(q)].details[k] = Ready(query[q].number)]
  /\ query' = [query EXCEPT ![q] = [pc |-> "saving", session |-> Home(q)]]
  /\ UNCHANGED <<day, number, left, cacheFile, lookup, asked>>

(* Slips: the file is marked with the day it is written; it keeps misses.   *)
SavedToday(s, k) ==
  LET e == Details(s)[k]
  IN IF e.state = "ready" /\ ~e.failed /\ There(k, e.number) THEN [e EXCEPT !.day = day] ELSE NoEntry

SavedMisses(s, k) ==
  IF Details(s)[k].state = "ready" /\ ~Details(s)[k].failed THEN Details(s)[k] ELSE NoEntry

(* saveCache: the file of whoever renames last; only what is there.         *)
Saved(s, k) ==
  LET e == Details(s)[k]
  IN IF e.state = "ready" /\ ~e.failed /\ There(k, e.number) THEN e ELSE NoEntry

SaveCache(q) ==
  /\ query[q].pc = "saving" /\ Free(Home(q))
  /\ cacheFile' = [k \in Key |-> Saved(Home(q), k)]
  /\ query' = [query EXCEPT ![q] = NoQuery]
  /\ UNCHANGED <<day, number, left, client, lookup, asked>>

-----------------------------------------------------------------------------
SessionEnds(s) ==
  /\ client[s] # NoClient
  /\ client' = [client EXCEPT ![s] = NoClient]
  /\ query' = [q \in Query |-> IF q \in QueriesOf(s) THEN NoQuery ELSE query[q]]
  /\ lookup' = [q \in Query |-> IF q \in QueriesOf(s) THEN [i \in Ident |-> NoLookup] ELSE lookup[q]]
  /\ UNCHANGED <<day, number, left, cacheFile, asked>>

(* A query is over within the day, a process (the daemon) need not be.      *)
NextDay ==
  /\ day < LastDay /\ \A q \in Query : query[q] = NoQuery
  /\ day' = day + 1
  /\ UNCHANGED <<number, left, cacheFile, client, query, lookup, asked>>

Renumbered(i) ==
  /\ left[i] = 0 /\ Cardinality({j \in Ident : left[j] # 0}) < MaxMerges
  /\ number' = [number EXCEPT ![i] = @ + 1]
  /\ left' = [left EXCEPT ![i] = day]
  /\ UNCHANGED <<day, cacheFile, client, query, lookup, asked>>

NextIdentities ==
  \/ \E q \in Query, s \in Session, source \in {"performers", "tags"}, ids \in SUBSET Ident \ {{}} :
       BeginQuery(q, s, source, ids)
  \/ \E q \in Query, i \in Ident : LookUp(q, i) \/ Detail(q, i) \/ Send(q, i) \/ ReadTags(q, i)
  \/ \E q \in Query, i \in Ident, fails \in BOOLEAN : TagsArrive(q, i, fails)
  \/ \E q \in Query, i \in Ident : Answer(q, i, Failed)
  \/ \E q \in Query, i \in Ident, k \in Key : Answer(q, i, Answered(k))
  \/ \E q \in Query, modifier \in {"INCLUDES", "INCLUDES_ALL"} : SceneFilter(q, modifier)
  \/ \E q \in Query : SendList(q) \/ RememberIdentity(q) \/ SaveCache(q)
  \/ \E q \in Query, i \in Ident \cup {"none"} : ListArrives(q, i)
  \/ \E s \in Session : SessionEnds(s)
  \/ NextDay
  \/ \E i \in Ident : Renumbered(i)

SpecIdentities == InitIdentities /\ [][NextIdentities]_identityVars

-----------------------------------------------------------------------------
(* get: a request takes the next free second, after a Retry-After if the    *)
(* client was told one, and is repeated when it comes too soon all the same. *)
InitPace ==
  /\ paceClock = 1 /\ retryAfter = 0 /\ nextRequest = 0
  /\ request = [c \in Call |-> [pc |-> "new", start |-> 0, attempt |-> 0]]
  /\ starts = {}

Latest(times) == CHOOSE t \in times : \A u \in times : u <= t
StartOf == Latest({paceClock, retryAfter, nextRequest})

(* A slip: what is scheduled ahead is forgotten. *)
ScheduleFromNow(c) ==
  /\ request[c].pc = "new" /\ StartOf <= LastSecond
  /\ request' = [request EXCEPT ![c].pc = "sleeping", ![c].start = StartOf]
  /\ nextRequest' = paceClock + RequestInterval
  /\ starts' = starts \cup {<<c, request[c].attempt, StartOf>>}
  /\ UNCHANGED <<paceClock, retryAfter>>

Schedule(c) ==
  /\ request[c].pc = "new" /\ StartOf <= LastSecond
  /\ request' = [request EXCEPT ![c].pc = "sleeping", ![c].start = StartOf]
  /\ nextRequest' = StartOf + RequestInterval
  /\ starts' = starts \cup {<<c, request[c].attempt, StartOf>>}
  /\ UNCHANGED <<paceClock, retryAfter>>

Issue(c) ==
  /\ request[c].pc = "sleeping" /\ paceClock >= request[c].start
  /\ request' = [request EXCEPT ![c].pc = "sent"]
  /\ UNCHANGED <<paceClock, retryAfter, nextRequest, starts>>

(* 429: the last one told counts, for what is scheduled after it. *)
TooMany(c, wait) ==
  /\ request[c].pc = "sent" /\ request[c].attempt + 1 < MaxAttempts
  /\ retryAfter' = paceClock + wait
  /\ request' = [request EXCEPT ![c].pc = "new", ![c].attempt = @ + 1]
  /\ UNCHANGED <<paceClock, nextRequest, starts>>

Returns(c) ==
  /\ request[c].pc = "sent"
  /\ request' = [request EXCEPT ![c].pc = "returned"]
  /\ UNCHANGED <<paceClock, retryAfter, nextRequest, starts>>

PaceTicks ==
  /\ paceClock < LastSecond
  /\ paceClock' = paceClock + 1
  /\ UNCHANGED <<retryAfter, nextRequest, request, starts>>

NextPace ==
  \/ \E c \in Call : Schedule(c) \/ Issue(c) \/ Returns(c)
  \/ \E c \in Call, wait \in 0..2 : TooMany(c, wait)
  \/ PaceTicks

SpecPace == InitPace /\ [][NextPace]_paceVars

-----------------------------------------------------------------------------
(* What a process or the file believes of an id was so on the day it is     *)
(* marked with, and that day is less than a week before the process began,  *)
(* however often it was loaded and saved since; that an id is nobody's is   *)
(* never passed on to another process.                                      *)
WasSo(k, e) == e.number = (IF Own(k) THEN number[k[2]] ELSE 0) \/ (Own(k) /\ left[k[2]] >= e.day)

IdentitiesAreRecent ==
  /\ \A s \in Session : client[s] # NoClient =>
       \A k \in {j \in Key : Details(s)[j].state = "ready" /\ ~Details(s)[j].failed} :
         LET e == Details(s)[k]
         IN /\ WasSo(k, e)
            /\ client[s].since - e.day < KeepFor
  /\ \A k \in Key : cacheFile[k] # NoEntry => WasSo(k, cacheFile[k]) /\ There(k, cacheFile[k].number)

(* Lookups that wait for one another, for the tags and for a free request   *)
(* never wait in a circle, nor for an answer nobody is getting.             *)
NobodyWaitsForever ==
  \A s \in Session : QueriesOf(s) # {} =>
    \E q \in QueriesOf(s) :
      \/ query[q].pc = "filtering" /\ Settled(q)
      \/ query[q].pc = "filtered" /\ InFlight(s) < Slots
      \/ query[q].pc = "listing"
      \/ query[q].pc \in {"listed", "saving"} /\ Free(s)
      \/ \E i \in Ident :
           \/ lookup[q][i].pc \in {"queued", "detail"} /\ Free(s)
           \/ lookup[q][i].pc = "getting" /\ InFlight(s) < Slots
           \/ lookup[q][i].pc = "sent"

(* A filter that is used rests on the answers for all its ids: a failed or  *)
(* skipped lookup fails the query, it never widens it.                      *)
FiltersAreWhole ==
  \A q \in Query : query[q].pc = "filtering" /\ Settled(q) =>
    \/ \A i \in query[q].ids : lookup[q][i].pc = "done" /\ ~lookup[q][i].failed
    \/ \A modifier \in {"INCLUDES", "INCLUDES_ALL"} : Outcome(q, modifier) = "error"

(* Requests keep a second between them, repeated ones included. *)
RequestsArePaced ==
  \A a, b \in starts : a # b => a[3] - b[3] >= RequestInterval \/ b[3] - a[3] >= RequestInterval
=============================================================================
