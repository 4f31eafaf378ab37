-------------------------- MODULE CorpusPreparation --------------------------
(***************************************************************************)
(* How the regulation corpus comes to be: the offline steps that classify  *)
(* the document chunk by chunk (classification/mabhas_classify.py), give   *)
(* each clause a situating context (rag/contextualize.py), load the index  *)
(* (rag/rag_index.py) and build the regulation graph                       *)
(* (rag/build_regulation_graph.py, its main).  Each is a command that an   *)
(* operator runs, that calls a model which may fail, and that may be       *)
(* killed; what it leaves in its output file is all the next run knows.    *)
(***************************************************************************)
EXTENDS RegulationGraph

CONSTANTS
  Chunks,            \* what the model answers for each chunk when it answers:
                     \* a sequence of clauses; [complete |-> FALSE] in a clause
                     \* that misses a required field
  Scopes,            \* the occupancy scopes an ingest may be run with
  MaxRuns,           \* bound: runs of the classifier, runs of the contextualizer
  MaxFailures        \* bound: chunks and clauses the model gives no answer for

VARIABLES
  file,              \* mabhas_clauses.json: [state, clauses]
  classifier,        \* [chunk, clauses, runs]: chunk 0 when it is not running
  contexts,          \* mabhas_clauses_contextual.json: [state, clauses, ids,
                     \* runs], the clauses its last run read and the ids of
                     \* those that have a context
  failures,          \* calls without an answer so far
  rows,              \* the mabhas_clauses table: article id -> row
  graph              \* regulation_graph.graphml, or NoGraph

\* What the model may answer about a document, which has a chunk at least.
AllClauses == UNION {ToSet(Chunks[i]) : i \in DOMAIN Chunks}
ASSUME ChunksAssumption ==
  /\ Chunks \in Seq(Seq(AllClauses)) /\ Chunks # <<>>
  /\ \A c \in AllClauses : /\ c.id \in ArticleIds /\ IsFiniteSet(c.occ)
                           /\ c.ents \in Seq(ToSet(c.ents))
                           /\ c.cites \in Seq(ToSet(c.cites))

prepVars == <<file, classifier, contexts, failures, rows, graph>>

NoGraph == [clauses |-> <<>>, occ |-> <<>>, edges |-> {}]
Idle == 0
Running == classifier.chunk # Idle

PrepInit ==
  /\ file = [state |-> "absent", clauses |-> <<>>]
  /\ classifier = [chunk |-> Idle, clauses |-> <<>>, runs |-> 0]
  /\ contexts = [state |-> "absent", clauses |-> <<>>, ids |-> {}, runs |-> 0]
  /\ failures = 0
  /\ rows = <<>>
  /\ graph = NoGraph

IdsOf(clauses) == {clauses[i].id : i \in DOMAIN clauses}

(***************************************************************************)
(* Classification                                                          *)
(***************************************************************************)
\* load_existing: what an earlier run saved; a torn file ends the run at once.
ClassifyStart ==
  /\ ~Running /\ classifier.runs < MaxRuns
  /\ file.state # "torn"
  /\ classifier' = [chunk |-> 1, clauses |-> file.clauses, runs |-> classifier.runs + 1]
  /\ UNCHANGED <<file, contexts, failures, rows, graph>>

\* The clauses of an answer that are complete and were not seen before, the
\* first of those that share an id.
Adopt(answer, known) ==
  LET complete == Keep(answer, LAMBDA c : c.complete /\ c.id \notin IdsOf(known))
  IN known \o At(complete, {i \in DOMAIN complete :
                  \A j \in 1 .. i - 1 : complete[j].id # complete[i].id})

NextChunk == IF classifier.chunk = Len(Chunks) THEN Idle ELSE classifier.chunk + 1

\* One chunk: answered, adopted and saved before the next one starts.
ClassifyChunk ==
  /\ Running
  /\ LET all == Adopt(Chunks[classifier.chunk], classifier.clauses)
     IN /\ file' = [state |-> "whole", clauses |-> all]
        /\ classifier' = [classifier EXCEPT !.chunk = NextChunk, !.clauses = all]
  /\ UNCHANGED <<contexts, failures, rows, graph>>

\* No attempt is answered, or the answer holds no JSON array: nothing is saved.
ChunkFails ==
  /\ Running /\ failures < MaxFailures
  /\ failures' = failures + 1
  /\ classifier' = [classifier EXCEPT !.chunk = NextChunk]
  /\ UNCHANGED <<file, contexts, rows, graph>>

\* The run is killed between two chunks, or inside save, which truncates
\* the file before it writes it.
ClassifierKilled ==
  /\ Running
  /\ classifier' = [classifier EXCEPT !.chunk = Idle, !.clauses = <<>>]
  /\ file' \in {file, [state |-> "torn", clauses |-> <<>>]}
  /\ UNCHANGED <<contexts, failures, rows, graph>>

(***************************************************************************)
(* Contextualization                                                       *)
(***************************************************************************)
Contextualized_LimitFirst(clauses, existing, limit, failed) ==    \* mutant: the
  LET eligible == Ingestable(clauses)                                \* limit cuts
  IN IdsOf(Take(eligible, limit)) \ (failed \ existing)

\* The clauses of process_clauses that get a context in this run: those
\* that have one keep it, the first `limit` others are put to the model.
Contextualized(clauses, existing, limit, failed) ==
  LET eligible == Ingestable(clauses)
      called   == Keep(eligible, LAMBDA c : c.id \notin existing)
  IN (existing \cap IdsOf(eligible)) \cup (IdsOf(Take(called, limit)) \ failed)

\* A run that resumes from its own output; a torn output ends the run at
\* once unless it is told to ignore it (--no-resume), and then it has no
\* context to resume.  Ignoring a whole one, which drops its contexts on
\* request, is left out.  A clause whose two attempts fail is left without
\* a context; the file is written at the end.
Contextualize ==
  /\ ~Running /\ file.state = "whole" /\ contexts.runs < MaxRuns
  /\ \E limit \in {1, Len(file.clauses)} :
       \E failed \in {{}} \cup {{file.clauses[i].id} : i \in DOMAIN file.clauses} :
         /\ failures + Cardinality(failed) <= MaxFailures
         /\ contexts' = [state |-> "whole", clauses |-> file.clauses,
                         ids  |-> Contextualized(file.clauses, contexts.ids, limit, failed),
                         runs |-> contexts.runs + 1]
         /\ failures' = failures + Cardinality(failed)
  /\ UNCHANGED <<file, classifier, rows, graph>>

\* The run is killed among its calls, which saves nothing, or inside the one
\* write at its end, which truncates the file before it writes it: every
\* context of this run and of the runs before it is gone.
ContextualizerKilled ==
  /\ ~Running /\ file.state = "whole" /\ contexts.runs < MaxRuns
  /\ contexts' \in {[contexts EXCEPT !.runs = @ + 1],
                    [state |-> "torn", clauses |-> <<>>, ids |-> {}, runs |-> contexts.runs + 1]}
  /\ UNCHANGED <<file, classifier, failures, rows, graph>>

(***************************************************************************)
(* The index and the graph                                                 *)
(***************************************************************************)
InScope(c, scope) == c.skip = "none" /\ c.occ \cap scope # {}

\* _validate: two clauses of one part may not share an article id.
Valid(clauses) ==
  \A i, j \in DOMAIN clauses :
    <<clauses[i].part, clauses[i].id>> = <<clauses[j].part, clauses[j].id>> => i = j

\* What the readers of the corpus take by default: the contextual file when
\* there is one, torn or whole (the builder's main, resolve_clauses_file).
PreferredClauses == IF contexts.state = "absent" THEN file.clauses ELSE contexts.clauses
PreferredReadable == file.state = "whole" /\ contexts.state # "torn"
Inputs == {file.clauses} \cup {clauses \in {PreferredClauses} : PreferredReadable}

\* One transaction: a row for each clause in scope of the file given is
\* written over the one it has; rows of other clauses stay.
Ingest ==
  /\ ~Running /\ file.state = "whole"
  /\ \E scope \in Scopes, input \in Inputs :
       LET kept == Keep(input, LAMBDA c : InScope(c, scope))
           clause(id) == CHOOSE c \in ToSet(kept) : c.id = id
           row(id) == [id |-> id, part |-> clause(id).part, rule |-> clause(id).rule]
       IN /\ Valid(input) /\ kept # <<>>
          /\ rows' = [id \in IdsOf(kept) \cup DOMAIN rows |->
                        IF id \in IdsOf(kept) THEN row(id) ELSE rows[id]]
  /\ UNCHANGED <<file, classifier, contexts, failures, graph>>

\* From the file it takes by default, or from the one it is given.
BuildGraph ==
  /\ ~Running /\ file.state = "whole"
  /\ \E input \in Inputs : graph' = build_graph(input)
  /\ UNCHANGED <<file, classifier, contexts, failures, rows>>

Prepare == \/ ClassifyStart \/ ClassifyChunk \/ ChunkFails \/ ClassifierKilled
           \/ Contextualize \/ ContextualizerKilled \/ Ingest \/ BuildGraph

(***************************************************************************)
(* Properties                                                              *)
(***************************************************************************)
\* A restart of the classifier or of the contextualizer builds on what
\* the runs before it saved, unless a kill tore the file: a step that
\* leaves the clauses file readable takes no clause from it, and one that
\* leaves the contextual file readable, however many calls of a run fail,
\* whatever its limit and wherever among its calls it is killed, drops no
\* context that an earlier run paid for.  A kill inside a write is excepted
\* because the code loses everything there: both commands truncate their
\* file first (mabhas_classify.py's save, contextualize.py 246), although
\* the latter's docstring calls it "safe to re-run after an interruption".
WorkIsKept ==
  [][/\ file'.state # "torn" => IsPrefix(file.clauses, file'.clauses)
     /\ contexts'.state # "torn" => contexts.ids \subseteq contexts'.ids]_prepVars

\* The scope of an ingest does not bound the index: the rows of an earlier
\* scope stay in it (rag_index.py upserts and never deletes).
IndexIsInScope ==
  \E scope \in Scopes :
    \A i \in DOMAIN file.clauses :
      file.clauses[i].id \in DOMAIN rows => InScope(file.clauses[i], scope)
=============================================================================
