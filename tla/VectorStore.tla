---------------------------- MODULE VectorStore -----------------------------
(* The vector store (vector/) and the memory tools on it                   *)
(* (tools/builtin/memory.rs): the memories, the collections, and the       *)
(* embedder that makes the vectors.                                        *)
EXTENDS Integers, FiniteSets, Naturals, Sequences, SequencesExt

CONSTANTS
  Writer, Searcher,   \* calls: a writer's point is named for it
  limit,              \* of a search
  Accepted,           \* writers whose content is neither empty nor too long
  Wanted,              \* writers whose points pass the filters of the searches
  Adder, Creator, Deleter, Remover, \* calls
  Name, Dim,            \* collections, lengths of vectors
  DefaultDim,           \* VectorStoreConfig::embedding_dim, and of the embedder
  MaxMade,               \* bound on the collections made
    Thread,       \* callers of get_embedder
    Token,        \* words of more than one letter
    Texts,        \* of each thread: the words of its text
    HashOf,       \* of each word: three numbers of a hash
    dimension

VARIABLES
  MEMORY_VECTOR_STORE,  \* the store in the static, 0 for none
  storesMade,                 \* stores made so far
  memoryPoints,               \* of the collection "memories" of each store
  memoryAt,
  store,                \* the store a call works on
  vectors, texts,       \* the two lists of a search
  written,              \* what was written when a search began
  results,
  collections, \* the collection under each name, 0 for none
  collectionsMade,        \* collections made so far
  dim,         \* of each collection
  collectionPoints,      \* in each collection: the adders whose points are there
  vectorAt, name, col, \* of each call: step, name, collection in hand
  deleted,     \* collections taken out of their map
  removed,     \* points removed since they were added
  overtaken,    \* adders that met a creation or deletion while they created
    embeddersMade,      \* embedders made so far
    global,    \* EMBEDDER: the one it holds, 0 for none
    embedAt, mine,  \* each thread and the embedder it has
    vocab,     \* of each embedder: the indexes of words
    vector     \* what each thread got, scaled

-----------------------------------------------------------------------------
(* The memory tools (tools/builtin/memory.rs) on the store they share         *)
(* (vector/mod.rs), called at the same time: the store is made by the first   *)
(* call that finds none, a write embeds its text and inserts one point, a     *)
(* hybrid search takes two ranked lists under separate locks and looks the    *)
(* best points up again.  Scores are the index's business: any choice of them.*)

MemoryCall == Writer \cup Searcher


memoryVars == <<MEMORY_VECTOR_STORE, storesMade, memoryPoints, memoryAt, store, vectors, texts, written, results>>

Store == 1..Cardinality(MemoryCall)
Stage == {"idle", "absent", "ready", "text", "lookup", "ok", "error"}

MemoryTypeOK ==
  /\ MEMORY_VECTOR_STORE \in {0} \cup Store /\ storesMade \in {0} \cup Store
  /\ memoryPoints \in [Store -> SUBSET Writer]
  /\ memoryAt \in [MemoryCall -> Stage] /\ store \in [MemoryCall -> {0} \cup Store]
  /\ {vectors, texts, written, results} \subseteq [Searcher -> SUBSET Writer]

MemoryInit ==
  /\ MEMORY_VECTOR_STORE = 0 /\ storesMade = 0
  /\ memoryPoints = [s \in Store |-> {}]
  /\ memoryAt = [c \in MemoryCall |-> "idle"] /\ store = [c \in MemoryCall |-> 0]
  /\ vectors = [c \in Searcher |-> {}]
  /\ texts = vectors /\ written = vectors /\ results = vectors

MemoryGoes(c, stage) == memoryAt' = [memoryAt EXCEPT ![c] = stage]
Done == {w \in Writer : memoryAt[w] = "ok"}

\* The checks of MemoryWriteTool::execute, before it touches the store.
Reject(w) ==
  /\ memoryAt[w] = "idle" /\ w \notin Accepted /\ MemoryGoes(w, "error")
  /\ UNCHANGED <<MEMORY_VECTOR_STORE, storesMade, memoryPoints, store, vectors, texts, written, results>>

\* get_memory_store, under the read lock.
MemoryLook(c) ==
  /\ memoryAt[c] = "idle" /\ c \in Accepted \cup Searcher
  /\ IF MEMORY_VECTOR_STORE = 0
     THEN MemoryGoes(c, "absent") /\ UNCHANGED store
     ELSE MemoryGoes(c, "ready") /\ store' = [store EXCEPT ![c] = MEMORY_VECTOR_STORE]
  /\ written' = IF c \in Searcher THEN [written EXCEPT ![c] = Done] ELSE written
  /\ UNCHANGED <<MEMORY_VECTOR_STORE, storesMade, memoryPoints, vectors, texts, results>>

\* Mutant: the write lock is taken without another look.
StoreFoundAgain == FALSE

StoreFound == MEMORY_VECTOR_STORE # 0

\* get_memory_store, under the write lock: made with its collection, once.
MemoryMake(c) ==
  /\ memoryAt[c] = "absent" /\ MemoryGoes(c, "ready")
  /\ IF StoreFound
     THEN store' = [store EXCEPT ![c] = MEMORY_VECTOR_STORE]
          /\ UNCHANGED <<MEMORY_VECTOR_STORE, storesMade>>
     ELSE storesMade' = storesMade + 1 /\ MEMORY_VECTOR_STORE' = storesMade'
          /\ store' = [store EXCEPT ![c] = storesMade']
  /\ UNCHANGED <<memoryPoints, vectors, texts, written, results>>

\* VectorStore::upsert: the collection is there, every vector has its dimension.
Upsert(s, w) == memoryPoints' = [memoryPoints EXCEPT ![s] = @ \cup {w}]

\* MemoryWriteTool::execute, once it has the store: each write has an id of its own.
Write(w) ==
  /\ memoryAt[w] = "ready" /\ MemoryGoes(w, "ok") /\ Upsert(store[w], w)
  /\ UNCHANGED <<MEMORY_VECTOR_STORE, storesMade, store, vectors, texts, written, results>>

Best(S, n) == {T \in SUBSET S : Cardinality(T) = IF Cardinality(S) < n THEN Cardinality(S) ELSE n}

\* VectorStore::hybrid_search, asked for twice the limit, asks for twice that.
\* The keyword list holds the points that share a word with the query.
SearchVectors(c) ==
  /\ memoryAt[c] = "ready" /\ MemoryGoes(c, "text")
  /\ \E T \in Best(memoryPoints[store[c]], 4 * limit) : vectors' = [vectors EXCEPT ![c] = T]
  /\ UNCHANGED <<MEMORY_VECTOR_STORE, storesMade, memoryPoints, store, texts, written, results>>
\* "hybrid" false: one list, of twice the limit.
SearchPure(c) ==
  /\ memoryAt[c] = "ready" /\ MemoryGoes(c, "lookup")
  /\ \E T \in Best(memoryPoints[store[c]], 2 * limit) : vectors' = [vectors EXCEPT ![c] = T]
  /\ UNCHANGED <<MEMORY_VECTOR_STORE, storesMade, memoryPoints, store, texts, written, results>>
SearchTexts(c) ==
  /\ memoryAt[c] = "text" /\ MemoryGoes(c, "lookup")
  /\ \E T \in UNION {Best(S, 4 * limit) : S \in SUBSET memoryPoints[store[c]]} :
       texts' = [texts EXCEPT ![c] = T]
  /\ UNCHANGED <<MEMORY_VECTOR_STORE, storesMade, memoryPoints, store, vectors, written, results>>

\* Mutant: a point has to be in both lists.
CombinedOfBoth(c) == vectors[c] \cap texts[c]
Combined(c) == vectors[c] \cup texts[c]

\* The best of both lists that are still there; the filters; the first that
\* are left, up to the limit.
LookUp(c) ==
  /\ memoryAt[c] = "lookup" /\ MemoryGoes(c, "ok")
  /\ \E T \in Best(Combined(c), 2 * limit) :
       \E kept \in Best(T \cap memoryPoints[store[c]] \cap Wanted, limit) :
         results' = [results EXCEPT ![c] = kept]
  /\ UNCHANGED <<MEMORY_VECTOR_STORE, storesMade, memoryPoints, store, vectors, texts, written>>

MemoryNext ==
  \/ \E w \in Writer : Reject(w) \/ Write(w)
  \/ \E c \in MemoryCall : MemoryLook(c) \/ MemoryMake(c)
  \/ \E c \in Searcher : SearchVectors(c) \/ SearchPure(c) \/ SearchTexts(c) \/ LookUp(c)

-----------------------------------------------------------------------------
\* No memory is lost to the race for the first store, and a search that began
\* after a write returned finds what was written, unless it found as many as
\* it may return, or there are more memories than the two lists are cut at.
MemoriesFound ==
  /\ \A w \in Writer : memoryAt[w] = "ok" => w \in memoryPoints[MEMORY_VECTOR_STORE]
  /\ \A c \in Searcher : memoryAt[c] = "ok" =>
       /\ Cardinality(results[c]) <= limit
       /\ Cardinality(memoryPoints[store[c]]) <= 2 * limit /\ Cardinality(results[c]) < limit =>
            written[c] \cap Wanted \subseteq results[c]

-----------------------------------------------------------------------------
(* The named collections of a vector store (vector/mod.rs) under calls that   *)
(* run at the same time.  Each lookup and each change takes the lock of the   *)
(* map anew; a call that holds a collection goes on with it though its name   *)
(* may mean another by then.  The vector commands (cli/vector.rs) make the    *)
(* same calls, each command on a store of its own.                            *)

vectorVars == <<collections, collectionsMade, dim, collectionPoints, vectorAt, name, col, deleted, removed, overtaken>>
VectorCall == Adder \cup Creator \cup Deleter \cup Remover
Made == 1..MaxMade

VectorTypeOK ==
  /\ collections \in [Name -> 0..MaxMade] /\ collectionsMade \in 0..MaxMade
  /\ dim \in [Made -> Dim] /\ collectionPoints \in [Made -> SUBSET Adder]
  /\ vectorAt \in [VectorCall -> {"idle", "create", "fetch", "upsert", "point", "ok",
                      "exists", "not found", "bad dimension", "panicked"}]
  /\ name \in [VectorCall -> Name] /\ col \in [VectorCall -> 0..MaxMade]
  /\ deleted \subseteq Made /\ removed \subseteq Adder /\ overtaken \subseteq Adder

VectorInit ==
  /\ collections = [n \in Name |-> 0] /\ collectionsMade = 0
  /\ dim = [c \in Made |-> DefaultDim] /\ collectionPoints = [c \in Made |-> {}]
  /\ vectorAt = [c \in VectorCall |-> "idle"] /\ name = [c \in VectorCall |-> CHOOSE n \in Name : TRUE]
  /\ col = [c \in VectorCall |-> 0]
  /\ deleted = {} /\ removed = {} /\ overtaken = {}

VectorGoes(c, step) == vectorAt' = [vectorAt EXCEPT ![c] = step]
Found(c) == collections[name[c]]

\* Those who are creating the collection of that name.
Overtaken(n, c) ==
  overtaken \cup {w \in Adder : w # c /\ name[w] = n /\ vectorAt[w] \in {"create", "fetch"}}

Begin(c) ==
  /\ vectorAt[c] = "idle"
  /\ \E n \in Name :
       /\ name' = [name EXCEPT ![c] = n]
       /\ IF c \in Adder /\ collections[n] # 0 THEN VectorGoes(c, "upsert")
          ELSE VectorGoes(c, IF c \in Adder \cup Creator THEN "create" ELSE "fetch")
  /\ UNCHANGED <<collections, collectionsMade, dim, collectionPoints, col, deleted, removed, overtaken>>

Insert(c, d) ==
  /\ collectionsMade < MaxMade /\ collectionsMade' = collectionsMade + 1
  /\ collections' = [collections EXCEPT ![name[c]] = collectionsMade']
  /\ dim' = [dim EXCEPT ![collectionsMade'] = d]
  /\ overtaken' = Overtaken(name[c], c)
  /\ VectorGoes(c, IF c \in Adder THEN "fetch" ELSE "ok")

\* Mutant: the name is not looked up again under the write lock.
CreateOver(c, d) ==
  /\ vectorAt[c] = "create" /\ Insert(c, d)
  /\ UNCHANGED <<collectionPoints, name, col, deleted, removed>>

\* Under the write lock.
CreateCollection(c, d) ==
  /\ vectorAt[c] = "create"
  /\ IF Found(c) # 0
     THEN VectorGoes(c, "exists") /\ UNCHANGED <<collections, collectionsMade, dim, overtaken>>
     ELSE Insert(c, d)
  /\ UNCHANGED <<collectionPoints, name, col, deleted, removed>>

\* The lookup after the creation takes for granted that the name is there.
FetchCreated(c) ==
  /\ vectorAt[c] = "fetch" /\ c \in Adder
  /\ VectorGoes(c, IF Found(c) # 0 THEN "upsert" ELSE "panicked")
  /\ UNCHANGED <<collections, collectionsMade, dim, collectionPoints, name, col, deleted, removed, overtaken>>

\* upsert looks the collection up by its name once more and checks its length.
GetCollection(w) ==
  /\ vectorAt[w] = "upsert"
  /\ col' = [col EXCEPT ![w] = Found(w)]
  /\ IF Found(w) = 0 THEN VectorGoes(w, "not found")
     ELSE VectorGoes(w, IF dim[Found(w)] # DefaultDim THEN "bad dimension" ELSE "point")
  /\ UNCHANGED <<collections, collectionsMade, dim, collectionPoints, name, deleted, removed, overtaken>>

UpsertPoint(w) ==
  /\ vectorAt[w] = "point" /\ w \in Adder
  /\ collectionPoints' = [collectionPoints EXCEPT ![col[w]] = @ \cup {w}]
  /\ VectorGoes(w, "ok")
  /\ UNCHANGED <<collections, collectionsMade, dim, name, col, deleted, removed, overtaken>>

DeleteCollection(c) ==
  /\ vectorAt[c] = "fetch" /\ c \in Deleter
  /\ collections' = [collections EXCEPT ![name[c]] = 0]
  /\ deleted' = deleted \cup ({Found(c)} \ {0})
  /\ overtaken' = Overtaken(name[c], c)
  /\ VectorGoes(c, IF Found(c) # 0 THEN "ok" ELSE "not found")
  /\ UNCHANGED <<collectionsMade, dim, collectionPoints, name, col, removed>>

FetchForRemoval(c) ==
  /\ vectorAt[c] = "fetch" /\ c \in Remover
  /\ col' = [col EXCEPT ![c] = Found(c)]
  /\ VectorGoes(c, IF Found(c) = 0 THEN "not found" ELSE "point")
  /\ UNCHANGED <<collections, collectionsMade, dim, collectionPoints, name, deleted, removed, overtaken>>

\* Whether or not the point is there, the answer is that it was deleted.
DeletePoint(c) ==
  /\ vectorAt[c] = "point" /\ c \in Remover
  /\ \E w \in Adder :
       /\ collectionPoints' = [collectionPoints EXCEPT ![col[c]] = @ \ {w}]
       /\ removed' = removed \cup (collectionPoints[col[c]] \cap {w})
  /\ VectorGoes(c, "ok")
  /\ UNCHANGED <<collections, collectionsMade, dim, name, col, deleted, overtaken>>

VectorNext ==
  \/ \E c \in VectorCall : Begin(c)
  \/ \E c \in Adder : CreateCollection(c, DefaultDim) \/ FetchCreated(c)
                      \/ GetCollection(c) \/ UpsertPoint(c)
  \/ \E c \in Creator, d \in Dim : CreateCollection(c, d)
  \/ \E c \in Deleter : DeleteCollection(c)
  \/ \E c \in Remover : FetchForRemoval(c) \/ DeletePoint(c)

-----------------------------------------------------------------------------
\* A point that was added is in the collection its name stands for, unless it
\* was removed or the collection deleted: two calls that create one collection
\* never replace each other's (vector/mod.rs:177).
PointsKept ==
  \A w \in Adder : vectorAt[w] = "ok" =>
    \/ col[w] \in deleted \/ w \in removed
    \/ w \in collectionPoints[Found(w)] /\ dim[Found(w)] = DefaultDim

\* Getting or creating a collection fails, or takes the process down
\* (vector/mod.rs:209), only when somebody created or deleted it meanwhile.
CreationFailsOnlyIfRaced ==
  \A w \in Adder : vectorAt[w] \in {"exists", "panicked"} => w \in overtaken

-----------------------------------------------------------------------------
(***************************************************************************)
(* The process-wide embedder (vector/embeddings.rs): made by the first     *)
(* thread that asks for it, with a second look under the write lock, and   *)
(* shared; each text adds its words to a vocabulary and becomes a vector.  *)
(***************************************************************************)

embedVars == <<embeddersMade, global, embedAt, mine, vocab, vector>>

Instance == 1..Cardinality(Thread)
Error == <<>>

EmbedTypeOK ==
    /\ embeddersMade \in 0..Cardinality(Thread) /\ global \in 0..embeddersMade
    /\ embedAt \in [Thread -> {"look", "make", "vocabulary", "project", "done"}]
    /\ mine \in [Thread -> 0..embeddersMade]
    /\ \A e \in Instance : DOMAIN vocab[e] \subseteq Token
    /\ \A t \in Thread : Len(vector[t]) \in {0, dimension}

EmbedInit ==
    /\ embeddersMade = 0 /\ global = 0
    /\ embedAt = [t \in Thread |-> "look"] /\ mine = [t \in Thread |-> 0]
    /\ vocab = [e \in Instance |-> <<>>]
    /\ vector = [t \in Thread |-> Error]

-----------------------------------------------------------------------------
\* get_embedder under the read lock.
EmbedLook(t) ==
    /\ embedAt[t] = "look"
    /\ mine' = [mine EXCEPT ![t] = global]
    /\ embedAt' = [embedAt EXCEPT ![t] = IF global = 0 THEN "make" ELSE "vocabulary"]
    /\ UNCHANGED <<embeddersMade, global, vocab, vector>>

\* Mutant: no second look.
MakeAlways(t) ==
    /\ embedAt[t] = "make"
    /\ embeddersMade' = embeddersMade + 1 /\ global' = embeddersMade'
    /\ mine' = [mine EXCEPT ![t] = global']
    /\ embedAt' = [embedAt EXCEPT ![t] = "vocabulary"]
    /\ UNCHANGED <<vocab, vector>>

\* The same under the write lock, made only if there is still none.
EmbedMake(t) ==
    /\ embedAt[t] = "make"
    /\ IF global = 0 THEN embeddersMade' = embeddersMade + 1 /\ global' = embeddersMade' ELSE UNCHANGED <<embeddersMade, global>>
    /\ mine' = [mine EXCEPT ![t] = global']
    /\ embedAt' = [embedAt EXCEPT ![t] = "vocabulary"]
    /\ UNCHANGED <<vocab, vector>>

\* Mutant: the next index is read once for the whole text.
NumberedAtOnce(known, words) ==
    [w \in DOMAIN known \cup Range(words) |->
        IF w \in DOMAIN known THEN known[w] ELSE Cardinality(DOMAIN known)]

\* or_insert of each word in turn, with the size the vocabulary has by then.
Numbered(known, words) ==
    LET new == SelectSeq(words, LAMBDA w : w \notin DOMAIN known)
        First(w) == CHOOSE i \in 1..Len(new) : new[i] = w /\ \A j \in 1..(i - 1) : new[j] # w
    IN  [w \in DOMAIN known \cup Range(words) |->
            IF w \in DOMAIN known THEN known[w]
            ELSE Cardinality(DOMAIN known)
                     + Cardinality({new[j] : j \in 1..(First(w) - 1)})]

\* embed_simple: an empty text is an error; the words are numbered, the write
\* lock held over all of them.
AddToVocabulary(t) ==
    /\ embedAt[t] = "vocabulary"
    /\ IF Texts[t] = <<>>
       THEN embedAt' = [embedAt EXCEPT ![t] = "done"] /\ UNCHANGED vocab
       ELSE /\ vocab' = [vocab EXCEPT ![mine[t]] = Numbered(@, Texts[t])]
            /\ embedAt' = [embedAt EXCEPT ![t] = "project"]
    /\ UNCHANGED <<embeddersMade, global, mine, vector>>

Count(w, words) == Len(SelectSeq(words, LAMBDA v : v = w))

\* Mutant: a word counts where it stands first.
Weighted(w, words) == Len(words) + 1 - (CHOOSE i \in 1..Len(words) : words[i] = w
                                          /\ \A j \in 1..(i - 1) : words[j] # w)

\* Half, and another half by how often the word comes, times twice the most.
Weight(w, words) ==
    LET counts == {Count(v, words) : v \in Range(words)}
    IN  (CHOOSE m \in counts : \A n \in counts : n <= m) + Count(w, words)

\* Each word is thrown onto three places, a half and a quarter of it onto the
\* second and the third, with a sign from the hash.  The length is not made 1.
Projected(words) ==
    LET Share(w, k) == (IF (HashOf[w][k] \div dimension) % 2 = 0 THEN 1 ELSE -1)
                           * Weight(w, words) * (IF k = 1 THEN 4 ELSE IF k = 2 THEN 2 ELSE 1)
        Landing(i) == {p \in Range(words) \X (1..3) : HashOf[p[1]][p[2]] % dimension = i - 1}
    IN  [i \in 1..dimension |->
            FoldLeft(LAMBDA sum, p : sum + Share(p[1], p[2]), 0, SetToSeq(Landing(i)))]

Project(t) ==
    /\ embedAt[t] = "project"
    /\ vector' = [vector EXCEPT ![t] = Projected(Texts[t])]
    /\ embedAt' = [embedAt EXCEPT ![t] = "done"]
    /\ UNCHANGED <<embeddersMade, global, mine, vocab>>

EmbedNext == \E t \in Thread : EmbedLook(t) \/ EmbedMake(t) \/ AddToVocabulary(t) \/ Project(t)

-----------------------------------------------------------------------------
\* Properties.

\* There is one embedder, however many threads ask for it first, and its words
\* are numbered without gaps or doubles.
OneVocabulary ==
    /\ embeddersMade <= 1
    /\ \A e \in Instance :
        /\ {vocab[e][w] : w \in DOMAIN vocab[e]} = 0..(Cardinality(DOMAIN vocab[e]) - 1)
        /\ \A t \in Thread : mine[t] = e /\ embedAt[t] = "project" => Range(Texts[t]) \subseteq DOMAIN vocab[e]

\* The vector of a text tells how often its words come and not in what order:
\* texts that are permutations of each other are found alike.
VectorOfBag ==
    \A t, u \in Thread :
        embedAt[t] = "done" /\ embedAt[u] = "done"
            /\ (\A w \in Token : Count(w, Texts[t]) = Count(w, Texts[u])) =>
                vector[t] = vector[u]

-----------------------------------------------------------------------------
\* The parts share no state and move one at a time.
vars == <<memoryVars, vectorVars, embedVars>>

Init == MemoryInit /\ VectorInit /\ EmbedInit

TypeOK == MemoryTypeOK /\ VectorTypeOK /\ EmbedTypeOK

Next ==
    \/ MemoryNext /\ UNCHANGED <<vectorVars, embedVars>>
    \/ VectorNext /\ UNCHANGED <<memoryVars, embedVars>>
    \/ EmbedNext /\ UNCHANGED <<memoryVars, vectorVars>>

Spec == Init /\ [][Next]_vars
=============================================================================
