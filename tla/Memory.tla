------------------------------- MODULE Memory -------------------------------
(***************************************************************************)
(* The hybrid memory of ruflo and the self-learning loop that keeps the    *)
(* findings of past rounds in it.  A memory goes to the structured store   *)
(* and, when it has an embedding, to the vector store: two awaited writes  *)
(* with other calls in between.                                            *)
(***************************************************************************)
EXTENDS Integers, FiniteSets

CONSTANTS
  MemoryId,
  Owner,           \* agents that memories belong to
  Learning,        \* the owner "self-learning-loop"
  NoMemory,        \* undefined
  similarity,      \* [MemoryId -> Nat]: to the searched embedding, all different:
                   \* the rank after ties are broken (by insertion) counts
  domainOf,        \* [MemoryId -> domain of the finding stored there]
  severityOf,      \* [MemoryId -> "critical", "high", "medium" or "low"]
  MemoryCall,
  MaxMemoryOps,    \* bound on the calls started
  K                \* how many hits a search asks for

MemoryRecord == [owner : Owner, version : 0 .. MaxMemoryOps, embedded : BOOLEAN,
                 fixed : BOOLEAN]

ASSUME MemoryAssumption ==
  /\ Learning \in Owner /\ NoMemory \notin MemoryRecord
  /\ similarity \in [MemoryId -> Nat]
  /\ \A i, j \in MemoryId : similarity[i] = similarity[j] => i = j
  /\ K \in Nat \ {0} /\ MaxMemoryOps \in Nat

VARIABLES
  sqlite,      \* [MemoryId -> record or NoMemory]: SQLiteBackend.memories
  vector,      \* the same of AgentDBBackend
  memoryCall,  \* [MemoryCall -> record]
  memoryOps,   \* calls started so far
  mixed,       \* history: two calls have overlapped
  unembedded   \* history: ids written without an embedding since neither store had them

memoryVars == <<sqlite, vector, memoryCall, memoryOps, mixed, unembedded>>

MemoryOrNone == MemoryRecord \cup {NoMemory}

idle == [pc |-> "idle", id |-> NoMemory, memory |-> NoMemory]

MemoryTypeOK ==
  /\ sqlite \in [MemoryId -> MemoryOrNone]
  /\ vector \in [MemoryId -> MemoryOrNone]
  /\ memoryCall \in [MemoryCall -> [pc : {"idle", "storing", "embedding", "fetched", "updating"},
                                    id : MemoryId \cup {NoMemory}, memory : MemoryOrNone]]
  /\ memoryOps \in 0 .. MaxMemoryOps
  /\ mixed \in BOOLEAN
  /\ unembedded \subseteq MemoryId

------------------------------------------------------------------------------
(* The stores. *)

has(store, id) == store[id] # NoMemory
stored(store, id, m) == [store EXCEPT ![id] = m]

updated(store, id, m) == IF has(store, id) THEN [store EXCEPT ![id] = m] ELSE store
without(store, gone) == [id \in MemoryId |-> IF id \in gone THEN NoMemory ELSE store[id]]

startMemoryCall(c) ==
  /\ memoryCall[c].pc = "idle"
  /\ memoryOps < MaxMemoryOps
  /\ memoryOps' = memoryOps + 1
  /\ mixed' = (mixed \/ \E d \in MemoryCall : memoryCall[d].pc # "idle")

\* HybridBackend.store and update up to the await between the stores; a memory
\* without an embedding is written to the first store only.
writeFirst(c, id, m, pc, first) ==
  /\ sqlite' = first
  /\ memoryCall' = [memoryCall EXCEPT ![c] =
                      IF m.embedded THEN [pc |-> pc, id |-> id, memory |-> m] ELSE idle]
  /\ unembedded' = IF m.embedded THEN unembedded ELSE unembedded \cup {id}

Store(c, id, owner, embedded) ==
  /\ startMemoryCall(c)
  /\ writeFirst(c, id, [owner |-> owner, version |-> memoryOps', embedded |-> embedded,
                        fixed |-> FALSE],
                "storing", stored(sqlite, id, [owner |-> owner, version |-> memoryOps',
                                               embedded |-> embedded, fixed |-> FALSE]))
  /\ UNCHANGED vector

Update(c, id, embedded) ==
  LET m == [sqlite[id] EXCEPT !.version = memoryOps', !.embedded = embedded]
  IN /\ startMemoryCall(c)
     /\ has(sqlite, id)
     /\ writeFirst(c, id, m, "updating", updated(sqlite, id, m))
     /\ UNCHANGED vector

\* Mutant: the second store keeps what it has.
WriteSecondOnce(c) ==
  LET rec == memoryCall[c]
  IN /\ rec.pc \in {"storing", "updating"}
     /\ vector' = IF rec.pc = "storing" /\ ~has(vector, rec.id)
                  THEN stored(vector, rec.id, rec.memory) ELSE vector
     /\ memoryCall' = [memoryCall EXCEPT ![c] = idle]
     /\ UNCHANGED <<sqlite, memoryOps, mixed, unembedded>>

WriteSecond(c) ==
  LET rec == memoryCall[c]
  IN /\ rec.pc \in {"storing", "updating"}
     /\ vector' = IF rec.pc = "storing" THEN stored(vector, rec.id, rec.memory)
                  ELSE updated(vector, rec.id, rec.memory)
     /\ memoryCall' = [memoryCall EXCEPT ![c] = idle]
     /\ UNCHANGED <<sqlite, memoryOps, mixed, unembedded>>

\* delete, clearAgent and close reach both stores before anything else runs, each
\* store by its own copy of a memory.
removeBoth(fromSqlite, fromVector) ==
  /\ sqlite' = without(sqlite, fromSqlite)
  /\ vector' = without(vector, fromVector)
  /\ unembedded' = {id \in unembedded : has(sqlite', id) \/ has(vector', id)}
  /\ UNCHANGED memoryCall

ownedIn(store, owner) == {id \in MemoryId : has(store, id) /\ store[id].owner = owner}

Delete(c, id) == startMemoryCall(c) /\ removeBoth({id}, {id})

ClearAgent(c, owner) ==
  startMemoryCall(c) /\ removeBoth(ownedIn(sqlite, owner), ownedIn(vector, owner))

Close(c) == startMemoryCall(c) /\ removeBoth(MemoryId, MemoryId)

------------------------------------------------------------------------------
(* The learning loop. *)

\* recordRoundFindings, one finding: it is embedded, which the router of
\* providers always manages, if only with zeros, and then stored.
RecordFinding(c, id) ==
  /\ startMemoryCall(c)
  /\ memoryCall' = [memoryCall EXCEPT ![c] =
       [pc |-> "embedding", id |-> id,
        memory |-> [owner |-> Learning, version |-> memoryOps', embedded |-> TRUE,
                    fixed |-> FALSE]]]
  /\ UNCHANGED <<sqlite, vector, unembedded>>

FindingEmbedded(c) ==
  LET rec == memoryCall[c]
  IN /\ rec.pc = "embedding"
     /\ writeFirst(c, rec.id, rec.memory, "storing", stored(sqlite, rec.id, rec.memory))
     /\ UNCHANGED <<vector, memoryOps, mixed>>

\* markFixed reads the memory, and after that updates it with what it read.
MarkFixed(c, id) ==
  /\ startMemoryCall(c)
  /\ memoryCall' = [memoryCall EXCEPT ![c] =
                      IF has(sqlite, id) THEN [pc |-> "fetched", id |-> id,
                                               memory |-> [sqlite[id] EXCEPT !.fixed = TRUE]]
                      ELSE idle]
  /\ UNCHANGED <<sqlite, vector, unembedded>>

FixedFetched(c) ==
  LET rec == memoryCall[c]
  IN /\ rec.pc = "fetched"
     /\ writeFirst(c, rec.id, rec.memory, "updating", updated(sqlite, rec.id, rec.memory))
     /\ UNCHANGED <<vector, memoryOps, mixed>>

findings == ownedIn(sqlite, Learning)

\* generateLearningReport of one domain.  Weights are doubled: the code's count
\* 1.5 for an unfixed finding and 0.5 for any.
domainReport(d, fixed) ==
  LET in == {id \in findings : domainOf[id] = d}
      unfixed == in \ fixed
      critical == {id \in in : severityOf[id] = "critical"}
      high == {id \in in : severityOf[id] = "high"}
  IN [findings |-> Cardinality(in),
      unfixed |-> Cardinality(unfixed),
      regressionRisk |-> in # unfixed,
      weight |-> 8 * Cardinality(critical) + 4 * Cardinality(high)
                 + 3 * Cardinality(unfixed) + Cardinality(in),
      priority |-> IF critical # {} \/ Cardinality(unfixed) > 2 THEN "high"
                   ELSE IF in = {} THEN "low" ELSE "medium"]

------------------------------------------------------------------------------
(* Searching. *)

\* vectorSearch: the k most similar of what has an embedding.
best(ids, k) == {i \in ids : Cardinality({j \in ids : similarity[j] > similarity[i]}) < k}
vectorSearch(k) == best({id \in MemoryId : has(vector, id)}, k)

\* hybridSearch of an owner's memories: twice as many as asked for are fetched,
\* filtered by the query on the vector store's copies, and cut.
hybridSearch(owner, k) ==
  best({id \in vectorSearch(2 * k) : vector[id].owner = owner}, k)

------------------------------------------------------------------------------
MemoryInit ==
  /\ sqlite = [id \in MemoryId |-> NoMemory]
  /\ vector = [id \in MemoryId |-> NoMemory]
  /\ memoryCall = [c \in MemoryCall |-> idle]
  /\ memoryOps = 0
  /\ mixed = FALSE
  /\ unembedded = {}

MemoryNext ==
  \E c \in MemoryCall :
    \/ \E id \in MemoryId :
         \/ \E owner \in Owner, embedded \in BOOLEAN : Store(c, id, owner, embedded)
         \/ \E embedded \in BOOLEAN : Update(c, id, embedded)
         \/ Delete(c, id) \/ RecordFinding(c, id) \/ MarkFixed(c, id)
    \/ \E owner \in Owner : ClearAgent(c, owner)
    \/ Close(c)
    \/ WriteSecond(c) \/ FindingEmbedded(c) \/ FixedFetched(c)

MemorySpec == MemoryInit /\ [][MemoryNext]_memoryVars

------------------------------------------------------------------------------
(* Properties. *)

quiet == ~mixed /\ \A c \in MemoryCall : memoryCall[c].pc = "idle"

\* While calls do not overlap, the two stores hold the same of every memory that
\* was written with its embedding each time, whatever was updated, fixed, deleted
\* or cleared.  One written without keeps its old vector copy, which a cleared
\* agent's memory may outlive (unembedded).
BackendsAgree == quiet => \A id \in MemoryId \ unembedded : sqlite[id] = vector[id]

\* A hybrid search misses nothing while twice the hits asked for cover the vector
\* store: it returns the k most similar of the owner's memories, found in the
\* other store, as many as there are.  Beyond that, others' memories crowd out
\* the owner's before the filter is applied.
SearchFinds ==
  quiet /\ unembedded = {} => \A owner \in Owner :
    LET own == ownedIn(sqlite, owner)
        hits == hybridSearch(owner, K)
    IN /\ hits \subseteq own
       /\ Cardinality({id \in MemoryId : has(vector, id)}) <= 2 * K => hits = best(own, K)

\* The report over the findings that are stored never raises a domain for a finding
\* that is fixed, nor forgets that it may come back.
FixLowers ==
  \A id \in findings :
    LET fixed == {f \in findings : sqlite[f].fixed}
        before == domainReport(domainOf[id], fixed \ {id})
        after == domainReport(domainOf[id], fixed \cup {id})
    IN /\ after.weight < before.weight /\ after.regressionRisk
       /\ after.priority = "high" => before.priority = "high"

\* The stores, a search in them and a report over them agree: the three above.
MemoryConsistent == BackendsAgree /\ SearchFinds /\ FixLowers
=============================================================================
