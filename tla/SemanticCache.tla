--------------------------- MODULE SemanticCache ---------------------------
(***************************************************************************)
(* internal/cache/cache.go over its two stores: concurrent Lookup and      *)
(* Store calls, with embedding and waiting for the lock or the database    *)
(* between the moment a call reads the clock and the moment it sees or     *)
(* changes the entries.  memory_store.go keeps a bounded list, which dies  *)
(* with the process; pgvector_store.go a table, which does not.            *)
(*                                                                         *)
(* A prompt stands for its embedding; how alike two prompts are is a       *)
(* constant, in percent.  CreatedAt orders evictions and expiry.           *)
(***************************************************************************)
EXTENDS Integers, SequencesExt

CONSTANTS
    Clients,      \* the concurrent callers
    Prompts,      \* what they ask
    Similarity,   \* the cosine of two embeddings, in percent
    Blank,        \* the prompts that embed to the zero vector
    Threshold,    \* SimilarityThreshold, in percent
    TTL,          \* cfg.TTL in ticks
    MaxSize,      \* MemoryStore.maxSize
    MaxTime,      \* bound of the model: the last tick
    MaxStores,    \* bound of the model: calls of Store
    MaxRestarts   \* bound of the model: restarts of the gateway

ASSUME SimilarityAssumption ==
    /\ Similarity \in [Prompts \X Prompts -> -100..100]
    /\ Blank \subseteq Prompts
ASSUME KnobsAssumption == /\ Threshold \in 1..100
                          /\ TTL \in Nat
                          /\ MaxSize \in Nat \ {0}
ASSUME BoundsAssumption == {MaxTime, MaxStores, MaxRestarts} \subseteq Nat

VARIABLES
    kind,      \* cfg.Cache.Store: "memory" or "pgvector"
    now,       \* the clock
    entries,   \* MemoryStore.entries
    rows,      \* the table velo_cache; equal rows are one here
    dropped,   \* CreatedAt of the newest entry Put dropped, -1 if none: history
    point,     \* where each client is
    prompt,    \* what its call is about, or its last one if that was answered
    began,     \* when that call began: history
    stamp,     \* freshUntil of its Lookup, or CreatedAt of its Store
    answer,    \* what its Lookup returned, if that was its last call
    stores, restarts   \* counters for the bounds

callVars  == <<prompt, began, stamp, answer>>
storeVars == <<kind, entries, dropped, rows, restarts>>
vars      == <<now, storeVars, point, callVars, stores>>

Entry == [prompt : Prompts, created : 0..MaxTime]

None == <<>>

Init ==
    /\ kind \in {"memory", "pgvector"}
    /\ now = 0
    /\ entries = <<>>
    /\ rows = {}
    /\ dropped = -1
    /\ point = [c \in Clients |-> "idle"]
    /\ prompt = [c \in Clients |-> None]
    /\ began = [c \in Clients |-> 0]
    /\ stamp = [c \in Clients |-> 0]
    /\ answer = [c \in Clients |-> None]
    /\ stores = 0 /\ restarts = 0

Goes(c, from, to) == point[c] = from /\ point' = [point EXCEPT ![c] = to]

\* A call begins.
Calls(c, p, t) ==
    /\ prompt' = [prompt EXCEPT ![c] = p]
    /\ began' = [began EXCEPT ![c] = now]
    /\ stamp' = [stamp EXCEPT ![c] = t]
    /\ answer' = [answer EXCEPT ![c] = None]

\* A call at one of the points returns e.  What it was about matters no more
\* if it has no answer.
Returns(c, points, e) ==
    /\ point[c] \in points
    /\ point' = [point EXCEPT ![c] = "idle"]
    /\ answer' = [answer EXCEPT ![c] = e]
    /\ stamp' = [stamp EXCEPT ![c] = 0]
    /\ prompt' = IF e = None THEN [prompt EXCEPT ![c] = None] ELSE prompt
    /\ began' = IF e = None THEN [began EXCEPT ![c] = 0] ELSE began

-----------------------------------------------------------------------------
(* Cache.Lookup.                                                           *)

Lookup(c) ==
    /\ Goes(c, "idle", "embed")
    /\ \E p \in Prompts : Calls(c, p, 0)
    /\ UNCHANGED <<now, storeVars, stores>>

\* The prompt is embedded: freshUntil is TTL ago.
Embedded(c) ==
    /\ Goes(c, "embed", "scan")
    /\ stamp' = [stamp EXCEPT ![c] = now - TTL]
    /\ UNCHANGED <<now, storeVars, prompt, began, answer, stores>>

\* Mutation: Nearest scans expired entries as well.
AlwaysFresh(e, t) == TRUE

Fresh(e, t) == e.created >= t

\* Mutation: every match above the best one's threshold replaces it.
LastMatch(best, e, c) ==
    LET sim == Similarity[prompt[c], e.prompt]
    IN  IF Fresh(e, stamp[c]) /\ sim >= Threshold
        THEN [sim |-> sim, entry |-> e] ELSE best

\* One round of Nearest's loop.
Closer(best, e, c) ==
    LET sim == Similarity[prompt[c], e.prompt]
    IN  IF Fresh(e, stamp[c]) /\ sim > best.sim
        THEN [sim |-> sim, entry |-> e] ELSE best

\* MemoryStore.Nearest under the read lock.
Nearest(c) ==
    /\ kind = "memory"
    /\ LET best == FoldLeft(LAMBDA b, e : Closer(b, e, c),
                            [sim |-> -100, entry |-> None], entries)
       IN  Returns(c, {"scan"}, IF best.sim < Threshold THEN None ELSE best.entry)
    /\ UNCHANGED <<now, storeVars, stores>>

\* Which row the query may select, if any: by a scan of the table the nearest
\* fresh one, where a distance to or from a zero vector is NaN and comes last;
\* by the ivfflat index, which holds no zero vectors, the nearest of the lists
\* it looks at, which may be any.
Selected(c) ==
    LET fresh == {e \in rows : Fresh(e, stamp[c])}
        whole == {e \in fresh : e.prompt \notin Blank}
    IN  IF prompt[c] \in Blank \/ whole = {} THEN fresh ELSE whole

Comparable(c, e) == {prompt[c], e.prompt} \cap Blank = {}

\* Not "sim < threshold", which is false of NaN.
NotBelow(c, e) ==
    Comparable(c, e) => Similarity[prompt[c], e.prompt] >= Threshold

\* PgvectorStore.Nearest.
Query(c) ==
    /\ kind = "pgvector"
    /\ point[c] = "scan"
    /\ \/ Returns(c, {"scan"}, None)
       \/ \E e \in Selected(c) : NotBelow(c, e) /\ Returns(c, {"scan"}, e)
    /\ UNCHANGED <<now, storeVars, stores>>

-----------------------------------------------------------------------------
(* Cache.Store.                                                            *)

\* CreatedAt is set before the prompt is embedded.
Store(c) ==
    /\ stores < MaxStores
    /\ Goes(c, "idle", "put")
    /\ \E p \in Prompts : Calls(c, p, now)
    /\ stores' = stores + 1
    /\ UNCHANGED <<now, storeVars>>

\* What a stable sort, newest first, puts before entry i, and the place of it.
Before(s, i) ==
    {k \in DOMAIN s : \/ s[k].created > s[i].created
                      \/ s[k].created = s[i].created /\ k < i}

Place(s, i) == 1 + Cardinality(Before(s, i))

SortedByAge(s) ==
    [p \in DOMAIN s |-> s[CHOOSE i \in DOMAIN s : Place(s, i) = p]]

\* Mutation: nothing is dropped before the list is one longer than allowed.
TrimLate(s) ==
    IF Len(s) > MaxSize + 1 THEN SubSeq(SortedByAge(s), 1, MaxSize) ELSE s

\* Mutation: the first in the list is dropped, whenever it was created.
TrimFront(s) == IF Len(s) > MaxSize THEN Tail(s) ELSE s

Trim(s) == IF Len(s) > MaxSize THEN SubSeq(SortedByAge(s), 1, MaxSize) ELSE s

Number(s, n) == Cardinality({i \in DOMAIN s : s[i].created = n})

\* The newest of what was dropped so far and of what is in s but not in t.
Newest(s, t) ==
    Max({dropped} \cup
        {n \in {e.created : e \in Range(s)} : Number(s, n) > Number(t, n)})

NewEntry(c) == [prompt |-> prompt[c], created |-> stamp[c]]

\* MemoryStore.Put under the lock.
Put(c) ==
    /\ kind = "memory"
    /\ Returns(c, {"put"}, None)
    /\ LET all == Append(entries, NewEntry(c))
       IN  /\ entries' = Trim(all)
           /\ dropped' = Newest(all, Trim(all))
    /\ UNCHANGED <<now, kind, rows, restarts, stores>>

\* PgvectorStore.Put, whether its reply arrives or not.
Insert(c) ==
    /\ kind = "pgvector"
    /\ Returns(c, {"put"}, None)
    /\ rows' = rows \cup {NewEntry(c)}
    /\ UNCHANGED <<now, kind, entries, dropped, restarts, stores>>

\* The embedder fails, or the database: Lookup and Store return the error.
Fails(c) ==
    /\ Returns(c, {"embed", "put"} \cup (IF kind = "memory" THEN {} ELSE {"scan"}), None)
    /\ UNCHANGED <<now, storeVars, stores>>

\* The gateway ends, with its calls and its memory, and is started again.
Restart ==
    /\ restarts < MaxRestarts
    /\ restarts' = restarts + 1
    /\ entries' = <<>>
    /\ dropped' = -1
    /\ point' = [c \in Clients |-> "idle"]
    /\ prompt' = [c \in Clients |-> None]
    /\ began' = [c \in Clients |-> 0]
    /\ stamp' = [c \in Clients |-> 0]
    /\ answer' = [c \in Clients |-> None]
    /\ UNCHANGED <<now, kind, rows, stores>>

Tick ==
    /\ now < MaxTime
    /\ now' = now + 1
    /\ UNCHANGED <<storeVars, point, callVars, stores>>

Next ==
    \/ Tick
    \/ Restart
    \/ \E c \in Clients :
          \/ Lookup(c) \/ Embedded(c) \/ Nearest(c) \/ Query(c)
          \/ Store(c) \/ Put(c) \/ Insert(c)
          \/ Fails(c)

Spec == Init /\ [][Next]_vars

-----------------------------------------------------------------------------

\* With the bound of the list: it never holds more than MaxSize entries.
TypeOK ==
    /\ kind \in {"memory", "pgvector"}
    /\ now \in 0..MaxTime
    /\ rows \subseteq Entry
    /\ entries \in Seq(Entry) /\ Len(entries) <= MaxSize
    /\ dropped \in -1..MaxTime
    /\ point \in [Clients -> {"idle", "embed", "scan", "put"}]
    /\ prompt \in [Clients -> Prompts \cup {None}]
    /\ began \in [Clients -> 0..MaxTime]
    /\ stamp \in [Clients -> -TTL..MaxTime]
    /\ \A c \in Clients : answer[c] = None \/ answer[c] \in Entry
    /\ stores \in 0..MaxStores
    /\ restarts \in 0..MaxRestarts

\* "Keep the most recent maxSize entries": entries arrive in another order than
\* they were created in, and still no dropped entry is newer than a kept one,
\* and none is dropped while there is room.
KeepsMostRecent ==
    /\ \A e \in Range(entries) : e.created >= dropped
    /\ dropped >= 0 => Len(entries) = MaxSize

\* What a Lookup serves was younger than the TTL at some time during the call,
\* however long it was embedding or waiting for the lock or the database, and
\* whether it was stored by this process or one before it.
ServedFresh ==
    \A c \in Clients :
        answer[c] # None => answer[c].created + TTL >= began[c]

\* cache.go: "If the best match is above SimilarityThreshold and not expired, the
\* stored completion is returned".  What a Lookup serves is as near as that.
ServedAlike ==
    \A c \in Clients :
        answer[c] # None => Similarity[prompt[c], answer[c].prompt] >= Threshold

Matches(c) ==
    {e \in Range(entries) : /\ e.created >= stamp[c]
                            /\ Similarity[prompt[c], e.prompt] >= Threshold}

\* The memory store returns a match that no other is nearer than, and nothing
\* only if nothing in the list matches: its one pass over an unordered list finds
\* the nearest neighbour.
FindsNearest ==
    [][\A c \in Clients :
          kind = "memory" /\ point[c] = "scan" /\ point'[c] = "idle"
                /\ restarts' = restarts =>
              IF Matches(c) = {} THEN answer'[c] = None
              ELSE /\ answer'[c] \in Matches(c)
                   /\ \A e \in Matches(c) :
                         Similarity[prompt[c], e.prompt]
                             <= Similarity[prompt[c], answer'[c].prompt]]_vars
=============================================================================
