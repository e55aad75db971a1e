--------------------------- MODULE KnowledgeBase ---------------------------
(***************************************************************************)
(* The knowledge store (knowledge/): chunks in one SQLite table, and with  *)
(* embeddings a side table of vectors.  A write commits the chunk, embeds  *)
(* it and commits the vector; a search takes the keyword ranking, embeds   *)
(* the query, takes the vector ranking, fuses the two and fetches what     *)
(* only the vectors found.  The server does one of them at a time (they    *)
(* hold its event loop); another process on the same file, the eval        *)
(* runner, deletes chunks in between, and deleting leaves vectors behind.  *)
(* A breaker keeps a failing embedding service out of the way.             *)
(*                                                                         *)
(* A text is what keyword search tells apart: a query matches the texts    *)
(* Alike to it, and Alike facts are near-duplicates (Jaccard >= 0.85).     *)
(* Rankings are any order: neither bm25 nor cosine is modelled.            *)
(***************************************************************************)
EXTENDS Integers, Sequences, FiniteSets, FiniteSetsExt, SequencesExt

CONSTANTS Texts, Alike,
          Namespaces,  \* owners a harvest stores facts for
          VectorK,     \* how much of each ranking is fused
          Threshold, Cooldown,
          FactLimit,   \* how many recent facts a new one is compared with
          MaxId,       \* bound: chunks ever written
          MaxTime,     \* bound: the clock
          Null

KnowledgeAssumption ==
  /\ {VectorK, Threshold, Cooldown, FactLimit} \subseteq Nat \ {0}
  /\ {MaxId, MaxTime} \subseteq Nat
  /\ \A t \in Texts : <<t, t>> \in Alike

Domains == {"general", "fact"}
RrfK == 60

VARIABLES hybrid,   \* which store was built: with an embedding function, or keywords only
          chunks,   \* id -> chunk
          last,     \* the largest id ever given (AUTOINCREMENT)
          vectors,  \* the ids in chunk_vectors
          breaker,  \* failures in a row, and the time until which it is open
          failed,   \* times of the calls that failed since one succeeded, latest first
          now,
          op        \* what the server is doing

vars == <<hybrid, chunks, last, vectors, breaker, failed, now, op>>

Chunk == [text: Texts, domain: Domains, ns: Namespaces \cup {Null}]
Idle == [kind |-> "idle"]
Closed == [fails |-> 0, until |-> 0]

Init == /\ hybrid \in BOOLEAN
        /\ chunks = << >> /\ last = 0 /\ vectors = {} /\ now = 0
        /\ breaker = Closed /\ failed = << >> /\ op = Idle

Matching(q, domain) ==
  {i \in DOMAIN chunks : /\ <<q, chunks[i].text>> \in Alike
                         /\ domain # Null => chunks[i].domain = domain}
First(s, n) == SubSeq(s, 1, Min({n, Len(s)}))
Rankings(S, n) == {First(r, n) : r \in SetToSeqs(S)}

(***************************************************************************)
(* The circuit breaker around the embedding function.                      *)
(***************************************************************************)
BreakerOpen == now < breaker.until

\* Mutation: only the failure that reaches the threshold opens the breaker.
RecordFailureBug ==
  breaker' = [fails |-> breaker.fails + 1,
              until |-> IF breaker.fails + 1 = Threshold THEN now + Cooldown
                        ELSE breaker.until]

RecordFailure ==
  breaker' = [fails |-> breaker.fails + 1,
              until |-> IF breaker.fails + 1 >= Threshold THEN now + Cooldown
                        ELSE breaker.until]

(* Embed(v): one call; v says whether a vector came of it. *)
Embed(v) ==
  IF ~hybrid \/ BreakerOpen THEN v = FALSE /\ UNCHANGED <<breaker, failed>>
  ELSE \/ v = TRUE /\ breaker' = Closed /\ failed' = << >>
       \/ v = FALSE /\ RecordFailure /\ failed' = <<now>> \o failed

(***************************************************************************)
(* Writes.  next is what the server does once the vector is stored.        *)
(***************************************************************************)
Insert(text, domain, ns, next) ==
  /\ last < MaxId
  /\ last' = last + 1
  /\ chunks' = [i \in DOMAIN chunks \cup {last + 1} |->
                  IF i = last + 1 THEN [text |-> text, domain |-> domain, ns |-> ns] ELSE chunks[i]]
  /\ op' = IF hybrid THEN [kind |-> "embed", id |-> last + 1, next |-> next] ELSE next
  /\ UNCHANGED <<hybrid, vectors, breaker, failed, now>>

AddChunk(text) == op = Idle /\ Insert(text, "general", Null, Idle)

EmbedChunk ==
  /\ op.kind = "embed"
  /\ \E v \in BOOLEAN : /\ Embed(v)
                        /\ op' = IF v THEN [op EXCEPT !.kind = "store"] ELSE op.next
  /\ UNCHANGED <<hybrid, chunks, last, vectors, now>>

StoreVector == /\ op.kind = "store"
               /\ vectors' = vectors \cup {op.id}
               /\ op' = op.next
               /\ UNCHANGED <<hybrid, chunks, last, breaker, failed, now>>

(***************************************************************************)
(* The facts of a harvested conversation: those near a recent fact of the  *)
(* namespace, or of this batch, are skipped.  Without a namespace the      *)
(* recent facts are those of every namespace.                              *)
(***************************************************************************)
Recent(ns) ==
  LET mine == {i \in DOMAIN chunks : chunks[i].domain = "fact" /\ (ns = Null \/ chunks[i].ns = ns)}
  IN {chunks[i].text : i \in {j \in mine : Cardinality({k \in mine : k > j}) < FactLimit}}

Consolidate(ns, facts) ==
  /\ op = Idle /\ facts # << >>
  /\ op' = [kind |-> "facts", ns |-> ns, facts |-> facts, known |-> Recent(ns)]
  /\ UNCHANGED <<hybrid, chunks, last, vectors, breaker, failed, now>>

Known(fact) == \E t \in op.known : <<fact, t>> \in Alike

NextFact ==
  /\ op.kind = "facts" /\ op.facts # << >>
  /\ LET fact == Head(op.facts)
         rest == [op EXCEPT !.facts = Tail(@)]
     IN \/ /\ Known(fact) /\ op' = rest
           /\ UNCHANGED <<hybrid, chunks, last, vectors, breaker, failed, now>>
        \/ ~Known(fact) /\ Insert(fact, "fact", op.ns, [rest EXCEPT !.known = @ \cup {fact}])

FactsDone == /\ op.kind = "facts" /\ op.facts = << >> /\ op' = Idle
             /\ UNCHANGED <<hybrid, chunks, last, vectors, breaker, failed, now>>

(***************************************************************************)
(* Search.                                                                 *)
(***************************************************************************)
Answer(ids) == [kind |-> "answer", ids |-> ids, k |-> op.k, base |-> op.base]

SearchBase(q, k, domain) ==
  /\ op = Idle
  /\ \E base \in Rankings(Matching(q, domain), VectorK) :
       op' = [kind |-> "search", k |-> k, domain |-> domain, base |-> base]
  /\ UNCHANGED <<hybrid, chunks, last, vectors, breaker, failed, now>>

(* With a domain the vectors are joined to the chunks; without, they are not. *)
VectorSearch(domain) ==
  Rankings(IF domain = Null THEN vectors
           ELSE {i \in vectors \cap DOMAIN chunks : chunks[i].domain = domain}, VectorK)

PlaceIn(ranking, id) == CHOOSE i \in DOMAIN ranking : ranking[i] = id
Share(ranking, id) ==
  IF id \in ToSet(ranking) THEN 1000000 \div (RrfK - 1 + PlaceIn(ranking, id)) ELSE 0

(* Reciprocal Rank Fusion; sorted() is stable, and the keyword ranking was *)
(* entered first.                                                          *)
Fused(base, found) ==
  LET ids == ToSet(base) \cup ToSet(found)
      Score(x) == Share(base, x) + Share(found, x)
      Entry(x) == IF x \in ToSet(base) THEN PlaceIn(base, x) ELSE Len(base) + PlaceIn(found, x)
      Before(y, x) == Score(y) > Score(x) \/ (Score(y) = Score(x) /\ Entry(y) < Entry(x))
  IN [n \in 1..Cardinality(ids) |->
        CHOOSE x \in ids : Cardinality({y \in ids : Before(y, x)}) = n - 1]

SearchFuse ==
  /\ op.kind = "search"
  /\ \E v \in BOOLEAN :
       /\ Embed(v)
       /\ \E found \in VectorSearch(op.domain) :
            op' = IF ~v \/ found = << >> THEN Answer(First(op.base, op.k))
                  ELSE [kind |-> "hydrate", k |-> op.k, base |-> op.base,
                        todo |-> First(Fused(op.base, found), op.k), ids |-> << >>]
  /\ UNCHANGED <<hybrid, chunks, last, vectors, now>>

(* A hit of the keyword search is at hand; any other is read, and left out *)
(* when it is gone.                                                        *)
Hydrate ==
  /\ op.kind = "hydrate"
  /\ IF op.todo = << >> THEN op' = Answer(op.ids)
     ELSE LET id == Head(op.todo)
              got == id \in ToSet(op.base) \/ id \in DOMAIN chunks
          IN op' = [op EXCEPT !.todo = Tail(@), !.ids = IF got THEN Append(@, id) ELSE @]
  /\ UNCHANGED <<hybrid, chunks, last, vectors, breaker, failed, now>>

Deliver == op.kind = "answer" /\ op' = Idle
           /\ UNCHANGED <<hybrid, chunks, last, vectors, breaker, failed, now>>

(***************************************************************************)
(* The world.                                                              *)
(***************************************************************************)
(* The eval runner: by content, by heading, by id. *)
Delete(dead) == /\ dead # {} /\ dead \subseteq DOMAIN chunks
                /\ chunks' = [i \in DOMAIN chunks \ dead |-> chunks[i]]
                /\ UNCHANGED <<hybrid, last, vectors, breaker, failed, now, op>>

Restart == /\ op # Idle /\ op' = Idle /\ breaker' = Closed /\ failed' = << >>
           /\ UNCHANGED <<hybrid, chunks, last, vectors, now>>

Tick == now < MaxTime /\ now' = now + 1
        /\ UNCHANGED <<hybrid, chunks, last, vectors, breaker, failed, op>>

Next ==
  \/ \E t \in Texts : AddChunk(t)
  \/ EmbedChunk \/ StoreVector
  \/ \E ns \in Namespaces \cup {Null}, facts \in [1..2 -> Texts] : Consolidate(ns, facts)
  \/ NextFact \/ FactsDone
  \/ \E q \in Texts, k \in 1..2, d \in {Null, "general"} : SearchBase(q, k, d)
  \/ SearchFuse \/ Hydrate \/ Deliver
  \/ \E dead \in SUBSET DOMAIN chunks : Delete(dead)
  \/ Restart \/ Tick

Spec == Init /\ [][Next]_vars

(***************************************************************************)
(* Properties                                                              *)
(***************************************************************************)
(* Chunks, vectors and the breaker have their types. *)
TypeOK ==
  /\ DOMAIN chunks \subseteq 1..last /\ last \in 0..MaxId
  /\ \A i \in DOMAIN chunks : chunks[i] \in Chunk
  /\ vectors \subseteq 1..last
  /\ breaker.fails \in Nat /\ breaker.until \in 0..(MaxTime + Cooldown)

(* "An embedding outage degrades quality, never availability", and neither *)
(* do the vectors of deleted chunks: a search that had keyword hits gives  *)
(* an answer, and the first thing in it is one of those hits.              *)
HitsSurvive ==
  op.kind = "answer" /\ op.base # << >> => op.ids # << >> /\ op.ids[1] \in ToSet(op.base)

(* Two facts of one namespace that are near-duplicates are never stored    *)
(* within FactLimit chunks of each other, be they from one batch or from   *)
(* two, with crashes and deletions in between.                             *)
FactsDistinct ==
  \A i, j \in DOMAIN chunks :
    /\ i < j /\ j - i <= FactLimit
    /\ chunks[i].domain = "fact" /\ chunks[j].domain = "fact" /\ chunks[i].ns = chunks[j].ns
    => <<chunks[j].text, chunks[i].text>> \notin Alike

(* While the embedding service is down, any stretch shorter than the       *)
(* cooldown sees at most Threshold calls that fail, however long the       *)
(* outage lasts.                                                           *)
OutageBounded == Len(failed) > Threshold => failed[1] >= failed[1 + Threshold] + Cooldown

(* Nothing keyword search finds is lost to vectors, no fact is kept twice,  *)
(* and an outage is not hammered.                                           *)
KnowledgeSound == HitsSurvive /\ FactsDistinct /\ OutageBounded

(* Not so: "top-k chunks matching query", a search whose keyword ranking alone     *)
(* could fill k places returns k results.                                  *)
TopK == op.kind = "answer" /\ Len(op.base) >= op.k => Len(op.ids) = op.k
=============================================================================
