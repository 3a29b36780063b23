------------------------------ MODULE Knowledge ------------------------------
(***************************************************************************)
(* The knowledge base: POST /knowledge/ingest-text splits a text into      *)
(* chunks and stores them (app/rag/ingestion.py, app/rag/store.py,         *)
(* knowledge_repo.py); a run searches them (app/rag/retriever.py).  Each   *)
(* request has a thread.  An id of a chunk is a hash of its source and its *)
(* place in the text: here it is that pair.  The content of a chunk is the *)
(* set of its words.                                                       *)
(***************************************************************************)
EXTENDS Naturals, Sequences, FiniteSets, Functions

CONSTANTS
  Ingests,      \* requests to ingest a text
  Sources,      \* (tenant, source id)
  TenantOf,     \* TenantOf[s]: the tenant of source s
  Texts,        \* texts, cut into chunks
  Queries,      \* sets of words to search for
  Limit,        \* citations of a search
  Window,       \* rows the table gives a search
  NoChunk       \* there is no such row

VARIABLES
  stored,       \* there is a table; otherwise chunks are appended to a list
  chunks,       \* the chunks, in the order of their insertion
  document,     \* document[i]: source and text of i
  ingest,       \* ingest[i]: where i is; "refused" and "lost" ones raised
  loaded,       \* loaded[i]: the rows as the transaction of i selected them
  since,        \* since[i]: the requests that had been answered when i began (history)
  reply         \* the search that was made last, and what it found (history)

knowledgeVars == <<stored, chunks, document, ingest, loaded, since, reply>>

(* The members of a finite set, each after those that come before it. *)
Ordered(S, before(_, _)) ==
  [k \in 1..Cardinality(S) |-> CHOOSE n \in S : Cardinality({m \in S : before(m, n)}) = k - 1]

Chunk(source, k, content, at) == [source |-> source, index |-> k, content |-> content, at |-> at]
Documents == [source : Sources, text : Texts]

ASSUME KnowledgeAssumption ==
  /\ Limit \in Nat /\ Window \in Nat /\ NoChunk \notin Documents
  /\ \A text \in Texts : text \in Seq({words \in Range(text) : IsFiniteSet(words)})

AnsweredTo == {i \in Ingests : ingest[i] \in {"done", "refused", "lost"}}
Clock    == IF chunks = <<>> THEN 0 ELSE chunks[Len(chunks)].at   \* the last insertion

(* The row of a chunk: at most one, by the unique key of the table. *)
RowsFor(source, k) == {c \in Range(chunks) : c.source = source /\ c.index = k}
Content(source, k) ==
  IF RowsFor(source, k) = {} THEN NoChunk ELSE (CHOOSE c \in RowsFor(source, k) : TRUE).content

KnowledgeInit ==
  /\ stored \in BOOLEAN /\ chunks = <<>>
  /\ document = [i \in Ingests |-> NoChunk] /\ ingest = [i \in Ingests |-> "new"]
  /\ loaded = [i \in Ingests |-> <<>>] /\ since = [i \in Ingests |-> {}]
  /\ reply = NoChunk

(* A text arrives.  Without a table its chunks join the list; with one the  *)
(* rows of its chunks are selected first.                                   *)
Ingest(i) ==
  /\ ingest[i] = "new"
  /\ since' = [since EXCEPT ![i] = AnsweredTo]
  /\ \E doc \in Documents :
       /\ document' = [document EXCEPT ![i] = doc]
       /\ IF stored /\ doc.text # <<>>
          THEN /\ loaded' = [loaded EXCEPT ![i] = [k \in DOMAIN doc.text |-> Content(doc.source, k)]]
               /\ ingest' = [ingest EXCEPT ![i] = "loaded"]
               /\ UNCHANGED chunks
          ELSE /\ chunks' = chunks \o [k \in DOMAIN doc.text |->
                                         Chunk(doc.source, k, doc.text[k], Clock + 1)]
               /\ ingest' = [ingest EXCEPT ![i] = "done"]
               /\ UNCHANGED loaded
  /\ reply' = NoChunk /\ UNCHANGED stored

(* The chunks of i as its transaction leaves them: a row it selected gets   *)
(* the new content if that differs from the selected one, a chunk it did    *)
(* not find becomes a row.                                                  *)
Upserted(i) ==
  LET text == document[i].text
      isMine(c) == c.source = document[i].source /\ c.index \in DOMAIN text
      new(c)  == IF isMine(c) /\ loaded[i][c.index] # text[c.index]
                 THEN [c EXCEPT !.content = text[c.index]] ELSE c
      missing == Ordered({k \in DOMAIN text : loaded[i][k] = NoChunk}, <)
  IN [n \in DOMAIN chunks |-> new(chunks[n])]
     \o [n \in DOMAIN missing |-> Chunk(document[i].source, missing[n], text[missing[n]], Clock + 1)]

(* A row inserted in the meantime breaks the unique key, and the whole      *)
(* transaction with it.                                                     *)
Conflict(i) ==
  \E k \in DOMAIN document[i].text :
    loaded[i][k] = NoChunk /\ RowsFor(document[i].source, k) # {}

CommitsRowByRow(i) ==                          \* mutant: every chunk is committed on its own
  /\ ingest[i] = "loaded"
  /\ IF Conflict(i)
     THEN /\ ingest' = [ingest EXCEPT ![i] = "refused"]
          /\ chunks' = [n \in DOMAIN chunks |->
                IF chunks[n].source = document[i].source /\ chunks[n].index \in DOMAIN document[i].text
                THEN [chunks[n] EXCEPT !.content = document[i].text[chunks[n].index]] ELSE chunks[n]]
     ELSE ingest' = [ingest EXCEPT ![i] = "done"] /\ chunks' = Upserted(i)
  /\ reply' = NoChunk /\ UNCHANGED <<stored, document, loaded, since>>
CommitsFirstOnly(i) ==                         \* mutant: rows that exist are left as they are
  /\ ingest[i] = "loaded"
  /\ IF Conflict(i)
     THEN ingest' = [ingest EXCEPT ![i] = "refused"] /\ UNCHANGED chunks
     ELSE /\ ingest' = [ingest EXCEPT ![i] = "done"]
          /\ chunks' = chunks \o SubSeq(Upserted(i), Len(chunks) + 1, Len(Upserted(i)))
  /\ reply' = NoChunk /\ UNCHANGED <<stored, document, loaded, since>>
(* The commit.  When it was made the call may still raise, because the      *)
(* acknowledgement of the database is lost.                                 *)
Commit(i) ==
  /\ ingest[i] = "loaded"
  /\ IF Conflict(i)
     THEN ingest' = [ingest EXCEPT ![i] = "refused"] /\ UNCHANGED chunks
     ELSE /\ \E end \in {"done", "lost"} : ingest' = [ingest EXCEPT ![i] = end]
          /\ chunks' = Upserted(i)
  /\ reply' = NoChunk /\ UNCHANGED <<stored, document, loaded, since>>

(* The connection is lost before the commit is made: nothing of the         *)
(* transaction remains.                                                     *)
Abort(i) ==
  /\ ingest[i] = "loaded"
  /\ ingest' = [ingest EXCEPT ![i] = "lost"]
  /\ reply' = NoChunk /\ UNCHANGED <<stored, chunks, document, loaded, since>>
------------------------------------------------------------------------------
Score(c, query) == Cardinality(query \cap c.content)

(* _rank: without words the first candidates, otherwise those with a word   *)
(* of the query, best first, ties in the order of the candidates.           *)
RankTruncated(candidates, query) ==            \* mutant: cut first, then scored
  LET first == SubSeq(candidates, 1, IF Len(candidates) < Limit THEN Len(candidates) ELSE Limit)
  IN SelectSeq(first, LAMBDA c : query = {} \/ Score(c, query) > 0)
Rank(candidates, query) ==
  LET hits == {n \in DOMAIN candidates : query = {} \/ Score(candidates[n], query) > 0}
      better(m, n) == \/ Score(candidates[m], query) > Score(candidates[n], query)
                      \/ Score(candidates[m], query) = Score(candidates[n], query) /\ m < n
      ranked == Ordered(hits, better)
  IN [k \in 1..(IF Len(ranked) < Limit THEN Len(ranked) ELSE Limit) |-> candidates[ranked[k]]]

(* The chunks a search of a tenant ranks: its whole list, or its newest     *)
(* rows, where rows of one moment come in any order.                        *)
Candidates(tenant) ==
  LET own  == {n \in DOMAIN chunks : TenantOf[chunks[n].source] = tenant}
      list == Ordered(own, <)
      size == IF Cardinality(own) < Window THEN Cardinality(own) ELSE Window
      newestFirst == {o \in Injection(1..size, own) :
                        /\ \A m, n \in 1..size : m < n => chunks[o[m]].at >= chunks[o[n]].at
                        /\ \A m \in 1..size, n \in own \ Range(o) : chunks[o[m]].at >= chunks[n].at}
  IN IF ~stored THEN {[n \in DOMAIN list |-> chunks[list[n]]]}
     ELSE {[n \in 1..size |-> chunks[o[n]]] : o \in newestFirst}

Search(tenant, query) ==
  /\ \E candidates \in Candidates(tenant) :
       reply' = [tenant |-> tenant, query |-> query, found |-> Rank(candidates, query)]
  /\ UNCHANGED <<stored, chunks, document, ingest, loaded, since>>

KnowledgeNext ==
  \/ \E i \in Ingests : Ingest(i) \/ Commit(i) \/ Abort(i)
  \/ \E source \in Sources, query \in Queries : Search(TenantOf[source], query)

KnowledgeSpec == KnowledgeInit /\ [][KnowledgeNext]_knowledgeVars
------------------------------------------------------------------------------
(* The text of i is there: each of its chunks is stored with its words, or  *)
(* with those that a text stored since i began has for it.                  *)
Whole(i) ==
  \A k \in DOMAIN document[i].text :
    \E c \in RowsFor(document[i].source, k),
       w \in {i} \cup {j \in Ingests \ since[i] : ingest[j] \in {"done", "lost"}} :
      /\ document[w].source = document[i].source
      /\ k \in DOMAIN document[w].text /\ c.content = document[w].text[k]

(* What a client was told was accepted is in the knowledge base.  Two texts *)
(* of one source that are ingested at once may be mixed, chunk by chunk.    *)
AckedTextStays == \A i \in Ingests : ingest[i] = "done" => Whole(i)

(* A text is stored in one piece or not at all, also when the client got an *)
(* error and cannot know which: every chunk is of a text that is there, and *)
(* none is of a text that broke the unique key (knowledge_repo.py:29-49).   *)
StoredInOnePiece ==
  \A c \in Range(chunks) :
    \E i \in {j \in Ingests : ingest[j] \in {"done", "lost"}} :
      /\ Whole(i)
      /\ document[i].source = c.source /\ c.index \in DOMAIN document[i].text
      /\ c.content = document[i].text[c.index]

(* A search finds every chunk of the tenant that has a word of the query,   *)
(* unless Limit others are as good, or Window rows of the tenant are as     *)
(* new: an update does not make a row new again (knowledge_repo.py:47).     *)
FoundUnlessCrowded ==
  [][reply' \notin {reply, NoChunk} =>
       LET own == {n \in DOMAIN chunks : TenantOf[chunks[n].source] = reply'.tenant} IN
       \A n \in own : Score(chunks[n], reply'.query) > 0 =>
         \/ \E m \in DOMAIN reply'.found : reply'.found[m] = chunks[n]
         \/ /\ Len(reply'.found) = Limit
            /\ \A m \in DOMAIN reply'.found :
                 Score(reply'.found[m], reply'.query) >= Score(chunks[n], reply'.query)
         \/ /\ stored
            /\ Cardinality({m \in own \ {n} : chunks[m].at >= chunks[n].at}) >= Window]_knowledgeVars
==============================================================================
