------------------------------ MODULE Research ------------------------------
(***************************************************************************)
(* Stage 0 of planning: an agent that chooses its own searches             *)
(* (workflows/plan_outline.py, research), over a collection that may be    *)
(* ingested anew meanwhile and over a web that may lie or be down          *)
(* (retrieval/tools.py, retrieval/web/).  The calls of one step run at     *)
(* once and share the attempt's ledger.  What the agent returns is         *)
(* filtered by provenance; the whole attempt is retried with a new ledger. *)
(*                                                                         *)
(* The agent may call what it likes, and claim anything of any id.  A web  *)
(* address is a member of Url, and a page is there for those in Pages.     *)
(***************************************************************************)
EXTENDS Naturals, Sequences, FiniteSets, Corpus

CONSTANTS
  MaxAttempts,     \* RETRY_POLICY.max_attempts
  MaxSteps,        \* MAX_RESEARCH_STEPS
  MaxWebSearches,  \* MAX_WEB_SEARCHES, when the web is on
  Width,           \* bound: calls of one step
  MaxRows,         \* bound: results of one web search
  MaxClaims,       \* facts of one answer
  Url, Pages,      \* addresses, and those with a page behind them
  Files,           \* the files the corpus may be made of
  MaxIngests,      \* bound: ingestions during the run
  NoLedger,        \* see Provenance
  NoGrounding      \* research has not returned

ASSUME MaxAttemptsAssumption == MaxAttempts \in Nat \ {0}
ASSUME MaxStepsAssumption == MaxSteps \in Nat \ {0}
ASSUME WidthAssumption == Width \in Nat \ {0} /\ MaxRows \in Nat /\ MaxClaims \in Nat
ASSUME PagesAssumption == Pages \subseteq Url
ASSUME IngestsAssumption == MaxIngests \in Nat
ASSUME FilesAssumption ==
  /\ IsFiniteSet(Files)
  /\ \A file \in Files : /\ file.stem \in Nat \ {0}
                         /\ file.pieces \in Seq({file.pieces[i] : i \in DOMAIN file.pieces})

VARIABLES
  keys,        \* the settings that matter here, fixed for the run
  phase,       \* where the research task is
  attempt,     \* failed attempts of it
  steps,       \* tool steps the agent has taken in this attempt
  calls,       \* the calls of the step under way
  ledger,      \* this attempt's sources in the order accepted, or NoLedger
  shown,       \* history: what the agent was shown in this attempt, by id
  searched,    \* history: web searches of this attempt
  grounding,   \* what research returned
  corpus,      \* the chunks table
  rows,        \* history: the rows the table has held in this attempt, by id
  ingests      \* how often it was rebuilt

run == <<phase, attempt, steps, calls, ledger, shown, searched, grounding>>
table == <<corpus, rows, ingests>>
vars == <<keys, run, table>>

\* Web ids have a stem of their own, which no file has.
WebId == {0} \X Nat

Prov == INSTANCE Provenance

-----------------------------------------------------------------------------

\* web: MAX_WEB_SEARCHES is above zero; verify: VERIFY_WEB_CLAIMS; and whether
\* the providers have their keys.
Keys == [web : BOOLEAN, verify : BOOLEAN, primary : BOOLEAN, fallback : BOOLEAN,
         fetcher : BOOLEAN]

NoWeb == [web |-> FALSE, verify |-> FALSE, primary |-> FALSE, fallback |-> FALSE,
          fetcher |-> FALSE]

Slot == 1..Width
Result == [url : Url, structural : BOOLEAN]

Idle == [at |-> "idle"]
Done == [at |-> "done"]
Asking == [at |-> "asking"]
FallingBack == [at |-> "falling_back"]
Embedding == [at |-> "embedding"]
Checking(results) == IF results = <<>> THEN Done ELSE [at |-> "checking", results |-> results]
Reading(ranked) == [at |-> "reading", ranked |-> ranked]

NoCalls == [i \in Slot |-> Idle]

Responses(urls, structural) ==
  UNION {[1..n -> [url : urls, structural : {structural}]] : n \in 0..MaxRows}

RowsOf(chunks) == {<<id, chunks[id]>> : id \in DOMAIN chunks}

Init ==
  /\ keys \in Keys
  /\ keys.web \/ keys = NoWeb
  /\ phase = "build"
  /\ attempt = 0
  /\ steps = 0
  /\ calls = NoCalls
  /\ ledger = NoLedger
  /\ shown = {}
  /\ searched = 0
  /\ grounding = NoGrounding
  /\ \E files \in SUBSET Files :
       /\ ~Malformed(files)
       /\ corpus = LoadCorpus(files)
       /\ rows = RowsOf(corpus)
  /\ ingests = 0

\* A mutant: attempts share a ledger.
LedgerOfAttempt_Kept == IF ledger # NoLedger THEN ledger ELSE IF keys.web THEN <<>> ELSE NoLedger

LedgerOfAttempt == IF keys.web THEN <<>> ELSE NoLedger

\* build_research_context: a store and a ledger of this attempt's own.
BuildContext ==
  /\ phase = "build"
  /\ phase' = "think"
  /\ steps' = 0
  /\ calls' = NoCalls
  /\ ledger' = LedgerOfAttempt
  /\ shown' = {}
  /\ searched' = 0
  /\ rows' = RowsOf(corpus)
  /\ UNCHANGED <<keys, attempt, grounding, corpus, ingests>>

\* A mutant: the count of attempts is lost.
AttemptFails_ForgetsAttempts ==
  /\ attempt' = attempt
  /\ phase' = "build"
  /\ calls' = NoCalls
  /\ UNCHANGED <<keys, steps, ledger, shown, searched, grounding, table>>

\* The task raises.  What is under way in other calls is lost with it.
AttemptFails ==
  /\ attempt' = (attempt + 1) % MaxAttempts
  /\ phase' = IF attempt + 1 < MaxAttempts THEN "build" ELSE "failed"
  /\ calls' = NoCalls
  /\ UNCHANGED <<keys, steps, ledger, shown, searched, grounding, table>>

\* A missing setting, or a step limit that raises: RETRY_POLICY lets go.
FailsAtOnce ==
  /\ phase' = "failed"
  /\ attempt' = 0
  /\ calls' = NoCalls
  /\ UNCHANGED <<keys, steps, ledger, shown, searched, grounding, table>>

CannotBuild == phase = "build" /\ FailsAtOnce

-----------------------------------------------------------------------------
(* The agent.                                                              *)

\* search_web is not built without a ledger.
Tools == IF ledger = NoLedger THEN {"facts"} ELSE {"facts", "web"}

Webs(wanted) == Cardinality({i \in DOMAIN wanted : wanted[i] = "web"})

CallTools(wanted) ==
  /\ phase = "think"
  /\ steps < MaxSteps
  /\ phase' = "tools"
  /\ steps' = steps + 1
  /\ calls' = [i \in Slot |-> IF i \notin DOMAIN wanted THEN Idle
                              ELSE IF wanted[i] = "web" THEN Asking ELSE Embedding]
  /\ searched' = searched + Webs(wanted)
  /\ UNCHANGED <<keys, attempt, ledger, shown, grounding, table>>

StepEnds ==
  /\ phase = "tools"
  /\ \A i \in Slot : calls[i] \in {Idle, Done}
  /\ phase' = "think"
  /\ calls' = NoCalls
  /\ UNCHANGED <<keys, attempt, steps, ledger, shown, searched, grounding, table>>

\* The record a citation is looked up in.
Sources ==
  IF ledger = NoLedger THEN NoLedger
  ELSE [id \in {<<0, n>> : n \in DOMAIN ledger} |->
          [source |-> ledger[id[2]].url, verified |-> ledger[id[2]].verified]]

Return(facts) ==
  /\ grounding' = facts
  /\ phase' = "returned"
  /\ attempt' = 0
  /\ UNCHANGED <<keys, steps, calls, ledger, shown, searched, table>>

\* The structured answer; what nothing vouches for is dropped.
Answer(claims) ==
  /\ phase = "think"
  /\ Return(Prov!DropUnprovenanced(claims, corpus, Sources))

\* The step limit: no structured answer is an empty one.
OutOfSteps ==
  /\ phase = "think" /\ steps = MaxSteps
  /\ Return({}) \/ FailsAtOnce

ModelFails == phase = "think" /\ AttemptFails

-----------------------------------------------------------------------------
(* search_web.                                                             *)

Now(i, call) ==
  /\ calls' = [calls EXCEPT ![i] = call]
  /\ UNCHANGED <<keys, phase, attempt, steps, searched, grounding, table>>

\* The primary provider is a model: it may name any address.  An empty answer
\* is an answer.
Found(i, results) ==
  /\ calls[i] = Asking
  /\ keys.primary
  /\ Now(i, Checking(results))
  /\ UNCHANGED <<ledger, shown>>

\* The fallback is asked only when the primary raises.
PrimaryFails(i) ==
  /\ calls[i] = Asking
  /\ IF keys.fallback THEN Now(i, FallingBack) /\ UNCHANGED <<ledger, shown>>
     ELSE IF keys.primary THEN AttemptFails
     ELSE FailsAtOnce

\* Addresses of a search API are those of pages.
FoundByFallback(i, results) ==
  /\ calls[i] = FallingBack
  /\ Now(i, Checking(results))
  /\ UNCHANGED <<ledger, shown>>

\* The first error is the one raised, and a missing key is never retried.
FallbackFails(i) ==
  /\ calls[i] = FallingBack
  /\ IF keys.primary THEN AttemptFails ELSE FailsAtOnce

\* A mutant: with no fetcher, any address will do.
Evidence_AnyAddress(result, page, quoted) ==
  CASE ~keys.verify -> "none"
    [] keys.verify /\ ~keys.fetcher -> "search_api"
    [] OTHER -> IF page /\ quoted THEN "fetched" ELSE "dropped"

\* verify_result: page, it could be read; quoted, the judge says it supports
\* the claim and copied a sentence that is on it.
Evidence(result, page, quoted) ==
  CASE ~keys.verify -> "none"
    [] keys.verify /\ ~keys.fetcher ->
         IF result.structural THEN "search_api" ELSE "dropped"
    [] OTHER -> IF page /\ quoted THEN "fetched" ELSE "dropped"

WebIdFor(ordinal) == <<0, ordinal + 1>>

\* fetch_page: an address without a page behind it cannot be read.
CanBeRead(result) == result.url \in Pages

\* One result after another; an id is minted when its check is over.
CheckResult(i, page, quoted) ==
  /\ calls[i].at = "checking"
  /\ LET result == Head(calls[i].results)
         evidence == Evidence(result, page, quoted) IN
     /\ page => CanBeRead(result)
     /\ Now(i, Checking(Tail(calls[i].results)))
     /\ IF evidence = "dropped" THEN UNCHANGED <<ledger, shown>>
        ELSE /\ ledger' = Append(ledger, [url |-> result.url, evidence |-> evidence,
                                          verified |-> evidence # "none"])
             /\ shown' = shown \cup {[id |-> WebIdFor(Len(ledger)), source |-> result.url]}

\* The judge is a model call, and nothing catches what it raises.
JudgeFails(i) ==
  /\ calls[i].at = "checking"
  /\ keys.verify /\ keys.fetcher
  /\ AttemptFails

-----------------------------------------------------------------------------
(* search_facts: two statements, and an ingestion may fall between them.   *)

\* By meaning every row has a rank, by words only those that match.
ByMeaning(ids) == {r \in Rankings(ids) : Ranked(r) = ids}
ByWords(ids) == Rankings(ids)

\* What a search may return, with the rows it was over.
SearchResults ==
  UNION {{<<ids, Fused(vec, kw)>> : vec \in ByMeaning(ids), kw \in ByWords(ids)} :
           ids \in SUBSET UNION {ChunkIds(file) : file \in Files}}

RankChunks(i) ==
  /\ calls[i] = Embedding
  /\ \E search \in SearchResults :
       search[1] = DOMAIN corpus /\ Now(i, Reading(search[2]))
  /\ UNCHANGED <<ledger, shown>>

Hit(id, row) == [id |-> id, source |-> row.source, text |-> row.text]

\* A mutant: the rows found are taken one by one as those ranked.
Hits_ByPosition(ranked) ==
  LET stored(id) == id \in DOMAIN corpus
      left == SelectSeq(ranked, stored) IN
  {Hit(ranked[k], corpus[left[k]]) : k \in DOMAIN left}

\* The rows found, by their ids; one that has gone since it was ranked is
\* passed over.
Hits(ranked) == {Hit(id, corpus[id]) : id \in Ranked(ranked) \cap DOMAIN corpus}

ReadChunks(i) ==
  /\ calls[i].at = "reading"
  /\ Now(i, Done)
  /\ shown' = shown \cup Hits(calls[i].ranked)
  /\ UNCHANGED ledger

\* A hosted embedder, or the database, is down.
SearchFails(i) ==
  /\ calls[i] = Embedding \/ calls[i].at = "reading"
  /\ AttemptFails

-----------------------------------------------------------------------------

\* scripts/ingest_knowledge.py, run by somebody else: a malformed file, an
\* embedder that fails or a database that refuses leave the table as it was.
Ingest(files) ==
  /\ ingests < MaxIngests
  /\ ~Malformed(files)
  /\ corpus' = LoadCorpus(files)
  /\ rows' = rows \cup RowsOf(corpus')
  /\ ingests' = ingests + 1
  /\ UNCHANGED <<keys, run>>

\* Ids the agent was shown and ids it was not, with a source that is none.
Claims ==
  LET ids == DOMAIN corpus \cup {s.id : s \in shown}
               \cup (IF ledger = NoLedger THEN {} ELSE {<<0, n>> : n \in 1..(Len(ledger) + 1)}) IN
  {claims \in SUBSET [cites : ids, source : {0}] : Cardinality(claims) <= MaxClaims}

Step ==
  \/ BuildContext \/ CannotBuild \/ StepEnds \/ OutOfSteps \/ ModelFails
  \/ \E n \in Slot : \E wanted \in [1..n -> Tools] : CallTools(wanted)
  \/ \E claims \in Claims : Answer(claims)
  \/ \E i \in Slot :
       \/ \E results \in Responses(Url, FALSE) : Found(i, results)
       \/ \E results \in Responses(Pages, TRUE) : FoundByFallback(i, results)
       \/ PrimaryFails(i) \/ FallbackFails(i) \/ JudgeFails(i)
       \/ \E page, quoted \in BOOLEAN : CheckResult(i, page, quoted)
       \/ RankChunks(i) \/ ReadChunks(i) \/ SearchFails(i)

Over == phase \in {"returned", "failed"}

Next ==
  \/ Step
  \/ ~Over /\ \E files \in SUBSET Files : Ingest(files)

\* Providers answer or time out, and the agent's steps are limited.
Spec == Init /\ [][Next]_vars /\ WF_vars(Step)

-----------------------------------------------------------------------------
(* Properties.                                                             *)

\* Every variable stays in its type, and an attempt's ledger is there exactly
\* when the web is on.
TypeOK ==
  /\ keys \in Keys
  /\ phase \in {"build", "think", "tools", "returned", "failed"}
  /\ attempt \in 0..(MaxAttempts - 1)
  /\ steps \in 0..MaxSteps
  /\ DOMAIN calls = Slot
  /\ \A i \in Slot :
       calls[i].at = "checking" => calls[i].results \in Seq(Result) \ {<<>>}
  /\ ledger # NoLedger =>
       /\ keys.web
       /\ ledger \in Seq([url : Url, verified : BOOLEAN,
                          evidence : {"none", "fetched", "search_api"}])
  /\ searched \in Nat
  /\ RowsOf(corpus) \subseteq rows
  /\ ingests \in 0..MaxIngests

WebFacts == IF grounding = NoGrounding THEN {} ELSE {f \in grounding : f.cites \in WebId}
ChunkFacts == IF grounding = NoGrounding THEN {} ELSE {f \in grounding : f.cites \notin WebId}

\* A web citation leads to the page the agent was shown under that id, in the
\* attempt that returned: searches of one step that share a ledger do not mix
\* up their ids, and an id of an earlier attempt leads nowhere.
WebFactsWereShown ==
  \A f \in WebFacts : [id |-> f.cites, source |-> f.source] \in shown

\* verify.py: an outage may degrade the guarantee, it may not remove it.  No
\* book is grounded in an address without a page, whatever the search model
\* asserts and whichever service is down; with verification off, in none.
NoInventedPage ==
  \A f \in WebFacts :
    /\ f.source \in Pages
    /\ keys.verify
    /\ keys.fetcher => ledger[f.cites[2]].evidence = "fetched"

Held(id) == {r[2] : r \in {row \in rows : row[1] = id}}

\* The collection may be ingested anew between the ranking of a search, the
\* reading of its rows and the look-up of a citation, and ids numbered anew may
\* name other chunks.  Yet what the agent was shown under an id is the text of
\* one row together with its own source, and that row stood under that id in
\* this attempt; and a citation has the source of such a row.  So the source
\* can be another than was shown only when an ingestion of this very attempt
\* put another row under the id (chunks.py: append rather than insert).
CitationsAreRows ==
  /\ \A s \in shown :
       s.id \notin WebId => \E row \in Held(s.id) : row.text = s.text /\ row.source = s.source
  /\ \A f \in ChunkFacts :
       /\ \E row \in Held(f.cites) : row.source = f.source
       /\ \A s \in shown :
            s.id = f.cites /\ s.source # f.source => \E q, r \in Held(f.cites) : q # r

Before(ranking, c, d) ==
  \E i, j \in DOMAIN ranking : i < j /\ ranking[i] = c /\ ranking[j] = d

\* What both halves of a search prefer, fusion prefers: a chunk ahead of
\* another by meaning, and not behind it by words, is returned before it.
FusionRespectsBoth ==
  (phase = "build" /\ attempt = 0) =>
    \A vec \in ByMeaning(DOMAIN corpus), kw \in ByWords(DOMAIN corpus) :
      LET ranked == Fused(vec, kw) IN
      /\ Len(ranked) <= TopK
      /\ \A c, d \in DOMAIN corpus :
           /\ Before(vec, c, d)
           /\ d \in Ranked(kw) => Before(kw, c, d)
           /\ d \in Ranked(ranked)
           => Before(ranked, c, d)

\* Research ends: with facts, with none, or by failing, which planning survives.
Terminates == <>Over

\* config.py: "How many web searches research may run."
SearchesWithinBudget == searched <= MaxWebSearches
=============================================================================
