--------------------------- MODULE KnowledgeBases ---------------------------
(***************************************************************************)
(* Knowledge bases of a project and their documents.  The base keeps two   *)
(* counters, document_count and total_characters, which every upload and   *)
(* every deletion reads first and writes back last: with the parsing of a  *)
(* PDF in between, another request may have written them.  A document is   *)
(* its text; Size(t) is the number of characters of t, and two documents   *)
(* have the same content hash when they have the same text.                *)
(***************************************************************************)
EXTENDS Accounts, Functions

CONSTANTS Bases, Documents, Texts, Size(_), MaxCharacters, FirstBase

VARIABLES bases,     \* base -> NoRow, Gone or [project, count, chars, writes]; writes is history:
                     \* how many uploads and deletions have been committed to the base
          documents  \* document -> NoRow, Gone or [base, text]

knowledgeVars == <<bases, documents>>

\* The rows of both tables, a new base and a document.
BaseRows == [project : Projects, count : Nat, chars : Nat, writes : Nat]
DocumentRows == [base : Bases, text : Texts]
BaseRow(p) == [project |-> p, count |-> 0, chars |-> 0, writes |-> 0]
DocumentRow(b, t) == [base |-> b, text |-> t]

ASSUME KnowledgeAssumption ==
  /\ FirstBase \in Bases /\ IsFiniteSet(Documents) /\ MaxCharacters \in Nat
  /\ \A t \in Texts : Size(t) \in Nat
  /\ {NoRow, Gone} \cap (BaseRows \cup DocumentRows) = {}

DocumentsOf(b) == {d \in Documents : Live(documents, d) /\ documents[d].base = b}

Characters(b) == SumFunctionOnSet([d \in DocumentsOf(b) |-> Size(documents[d].text)], DocumentsOf(b))

\* get_by_content_hash
SameContent(b, t) == {d \in DocumentsOf(b) : documents[d].text = t}

\* Mutant: the document alone has to fit.
FitsAlone(chars, t) == Size(t) <= MaxCharacters

\* _check_size_limit
Fits(chars, t) == chars + Size(t) <= MaxCharacters

\* get_combined_content: what an agent node may inject into its prompt.
Readable(b) == Characters(b) <= MaxCharacters

MinusDownToZero(a, b) == IF a >= b THEN a - b ELSE 0

KnowledgeInit ==
  /\ bases = [b \in Bases |-> IF b = FirstBase
                              THEN BaseRow(CHOOSE p \in FirstProjects : TRUE)
                              ELSE NoRow]
  /\ documents = [d \in Documents |-> NoRow]

\* The base exists and the caller may work in its project.
Reaches(c, b) == Live(bases, b) /\ Authorized(c, bases[b].project)

CreateBase(c, p) ==
  /\ AtOnce /\ Authorized(c, p) /\ FreshIn(bases) # {}
  /\ bases' = [bases EXCEPT ![Fresh(bases)] = BaseRow(p)]
  /\ UNCHANGED documents

\* delete_knowledge_base: the documents go with the base.
DeleteBase(c, b) ==
  /\ AtOnce /\ Reaches(c, b)
  /\ bases' = [bases EXCEPT ![b] = Gone]
  /\ documents' = [d \in Documents |-> IF d \in DocumentsOf(b) THEN Gone ELSE documents[d]]

\* An upload reads the base; its counters are not read again in this transaction.
BeginUpload(s, c, b, t) ==
  /\ Reaches(c, b)
  /\ Begin(s, [op |-> "upload", base |-> b, text |-> t, seen |-> bases[b]])
  /\ UNCHANGED knowledgeVars

\* After the text is there: the limit against the counters read, the hash against the table.
CheckUpload(s) ==
  /\ Doing(s, "upload")
  /\ Fits(request[s].seen.chars, request[s].text)
  /\ SameContent(request[s].base, request[s].text) = {}
  /\ request' = [request EXCEPT ![s].op = "store"]
  /\ UNCHANGED <<started, torn, knowledgeVars>>

\* 422 (no text, time-out of the parser, no room), 409 (same content) or, when the content
\* is there twice, the error of scalar_one_or_none.
UploadRefused(s) ==
  /\ Doing(s, "upload")
  /\ Finish(s, {})
  /\ UNCHANGED knowledgeVars

\* SQLAlchemy sends a column only if it differs from what was loaded.
Column(now, read, new) == IF new = read THEN now ELSE new

\* An upload or a deletion writes the base back.
WriteBack(b, seen, count, chars) ==
  bases' = [bases EXCEPT ![b] = [project |-> @.project,
                                 count |-> Column(@.count, seen.count, count),
                                 chars |-> Column(@.chars, seen.chars, chars),
                                 writes |-> @.writes + 1]]

\* The document, and the counters read at the beginning plus this document.
FinishUpload(s) ==
  LET r == request[s] IN
  /\ Doing(s, "store") /\ Live(bases, r.base) /\ FreshIn(documents) # {}
  /\ documents' = [documents EXCEPT ![Fresh(documents)] = DocumentRow(r.base, r.text)]
  /\ WriteBack(r.base, r.seen, r.seen.count + 1, r.seen.chars + Size(r.text))
  /\ Finish(s, IF bases[r.base] = r.seen THEN {} ELSE {r.base})

BeginDeleteDocument(s, c, d) ==
  /\ Live(documents, d)
  /\ Reaches(c, documents[d].base)
  /\ Begin(s, [op |-> "drop", base |-> documents[d].base, doc |-> d, text |-> documents[d].text,
               seen |-> bases[documents[d].base]])
  /\ UNCHANGED knowledgeVars

\* Deleting a document that is already gone deletes no row and still lowers the counters.
FinishDeleteDocument(s) ==
  LET r == request[s] IN
  /\ Doing(s, "drop") /\ Live(bases, r.base)
  /\ documents' = [documents EXCEPT ![r.doc] = Gone]
  /\ WriteBack(r.base, r.seen, MinusDownToZero(r.seen.count, 1),
               MinusDownToZero(r.seen.chars, Size(r.text)))
  /\ Finish(s, IF bases[r.base] = r.seen /\ Live(documents, r.doc) THEN {} ELSE {r.base})

\* The base is gone: the insert fails on its foreign key, the update on its row count.
BaseWasDeleted(s) ==
  /\ Doing(s, "store") \/ Doing(s, "drop")
  /\ ~Live(bases, request[s].base)
  /\ Finish(s, {})
  /\ UNCHANGED knowledgeVars

\* What deleting project p takes with it.
DropBasesOf(p) ==
  LET gone == {b \in Bases : Live(bases, b) /\ bases[b].project = p} IN
  /\ bases' = [b \in Bases |-> IF b \in gone THEN Gone ELSE bases[b]]
  /\ documents' = [d \in Documents |-> IF \E b \in gone : d \in DocumentsOf(b) THEN Gone
                                       ELSE documents[d]]

KnowledgeNext ==
  \/ \E s \in Sessions :
       \/ CheckUpload(s) \/ UploadRefused(s) \/ FinishUpload(s)
       \/ FinishDeleteDocument(s) \/ BaseWasDeleted(s)
       \/ \E c \in Callers, b \in Bases, t \in Texts : BeginUpload(s, c, b, t)
       \/ \E c \in Callers, d \in Documents : BeginDeleteDocument(s, c, d)
  \/ \E c \in Callers : (\E p \in Projects : CreateBase(c, p)) \/ (\E b \in Bases : DeleteBase(c, b))

-----------------------------------------------------------------------------
\* The counters of a base say what is in it, the base stays within the limit that
\* lets an agent read it, and no text is stored twice - unless a request wrote the base
\* over a stale read.  (upload_document_*, delete_document: counters read first, written last)
CountersTellTheDocuments ==
  \A b \in Bases : Live(bases, b) /\ b \notin torn =>
    /\ bases[b].count = Cardinality(DocumentsOf(b))
    /\ bases[b].chars = Characters(b)
    /\ Readable(b)
    /\ \A d, e \in DocumentsOf(b) : documents[d].text = documents[e].text => d = e
=============================================================================
