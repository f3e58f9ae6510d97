--------------------------- MODULE KnowledgeBase ----------------------------
(***************************************************************************)
(* The knowledge base of one project: the tools of the agents              *)
(* (worker-claude/src/sdk/knowledge_tools.py), the service behind them     *)
(* (worker_shared/knowledge/service.py) and its tables (store.py, db.py).  *)
(* Sessions of one project use it at the same time.  A tool reads, awaits  *)
(* the embedding of its text, and writes in one transaction; what it read  *)
(* may be gone by then.  Foreign keys are declared, and not enforced.      *)
(***************************************************************************)
EXTENDS Naturals, FiniteSets

CONSTANTS
  Tools,    \* calls of tools under way at a time
  Texts,    \* contents; each is its own embedding
  MaxDocs,  \* bounds the ids handed out
  None

VARIABLES
  docs,     \* knowledge_documents: the content of each id, or None
  chunks,   \* knowledge_chunks: whose texts are stored under each id
  handed,   \* the sequence of AUTOINCREMENT
  tool      \* calls of the tools

vars == <<docs, chunks, handed, tool>>
Ids  == 1 .. MaxDocs
Free == [op |-> "none"]

Init ==
  /\ docs = [d \in Ids |-> None] /\ chunks = [d \in Ids |-> {}]
  /\ handed = 0 /\ tool = [t \in Tools |-> Free]

Stored(x) == \E d \in Ids : docs[d] = x
\* Chunks are found through the document they belong to.
Found == {f \in Ids \X Texts : docs[f[1]] # None /\ f[2] \in chunks[f[1]]}

\* Variant: ids are those of a plain INTEGER PRIMARY KEY.
NextIdReused == 1 + Cardinality({d \in Ids : \E e \in Ids : e >= d /\ docs[e] # None})
NextId == handed + 1
-----------------------------------------------------------------------------
\* save: nothing of the same content; then its text is embedded.
Save(t, x) ==
  /\ tool[t] = Free /\ ~ Stored(x)
  /\ tool' = [tool EXCEPT ![t] = [op |-> "search", x |-> x]]
  /\ UNCHANGED <<docs, chunks, handed>>

\* search_chunks: nothing of nearly the same meaning; its chunks are embedded.
SearchChunks(t) ==
  /\ tool[t].op = "search"
  /\ tool' = [tool EXCEPT ![t] = IF \E f \in Found : f[2] = @.x THEN Free
                                 ELSE [op |-> "insert", x |-> @.x]]
  /\ UNCHANGED <<docs, chunks, handed>>

InsertDocument(t) ==
  /\ tool[t].op = "insert" /\ NextId \in Ids
  /\ docs' = [docs EXCEPT ![NextId] = tool[t].x]
  /\ chunks' = [chunks EXCEPT ![NextId] = @ \cup {tool[t].x}]
  /\ handed' = NextId /\ tool' = [tool EXCEPT ![t] = Free]

\* update: the document is there; its new text is embedded.
Update(t, d, x) ==
  /\ tool[t] = Free /\ docs[d] # None
  /\ tool' = [tool EXCEPT ![t] = [op |-> "replace", d |-> d, x |-> x]]
  /\ UNCHANGED <<docs, chunks, handed>>

\* The chunks are written whether the document is still there or not.
ReplaceChunks(t) ==
  /\ tool[t].op = "replace" /\ tool' = [tool EXCEPT ![t] = Free]
  /\ LET d == tool[t].d IN
       /\ docs' = [docs EXCEPT ![d] = IF @ = None THEN None ELSE tool[t].x]
       /\ chunks' = [chunks EXCEPT ![d] = {tool[t].x}]
  /\ UNCHANGED handed

\* The document, if it is still there, and whatever chunks have its id.
DeleteDocument(d) ==
  /\ docs' = [docs EXCEPT ![d] = None] /\ chunks' = [chunks EXCEPT ![d] = {}]
  /\ UNCHANGED <<handed, tool>>

Next ==
  \/ \E t \in Tools :
       \/ SearchChunks(t) \/ InsertDocument(t) \/ ReplaceChunks(t)
       \/ \E x \in Texts : Save(t, x) \/ \E d \in Ids : Update(t, d, x)
  \/ \E d \in Ids : DeleteDocument(d)

Spec == Init /\ [][Next]_vars
-----------------------------------------------------------------------------
\* What a search finds is what the document says, and every document is found,
\* however updates, deletes and saves of several sessions overlap: chunks left
\* behind by an update of a document deleted meanwhile never turn up in another.
FoundIsSaid == Found = {f \in Ids \X Texts : docs[f[1]] = f[2]}
=============================================================================
