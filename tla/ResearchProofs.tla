---------------------------- MODULE ResearchProofs ----------------------------
(***************************************************************************)
(* Proofs about Research, for any collection, any addresses and any        *)
(* limits: what a book is grounded in was found, checked and on record.    *)
(*                                                                         *)
(* The agent is free to claim anything, so nothing is said about claims.   *)
(* What is inductive is the record: every entry of the attempt's ledger    *)
(* was shown under the id its place gives it, and was let in on the        *)
(* evidence that the settings call for; every row of the table, and every  *)
(* chunk that was shown, is among the rows it has held.  Provenance then   *)
(* looks each claim up in a record that is sound.                          *)
(***************************************************************************)
EXTENDS Research, FiniteSetTheorems, WellFoundedInduction, TLAPS

Entry == [url : Url, verified : BOOLEAN, evidence : {"none", "fetched", "search_api"}]

\* A call of search_web is there only with the web on, and what it has found
\* names a page wherever it comes from a search API.
CallInv(i) ==
  /\ calls[i].at \in {"asking", "falling_back", "checking"} => keys.web
  /\ calls[i].at = "checking" =>
       /\ calls[i].results \in Seq(Result) /\ calls[i].results # <<>>
       /\ \A k \in DOMAIN calls[i].results :
            calls[i].results[k].structural => calls[i].results[k].url \in Pages

\* An entry was shown under its id, and verified by what the settings ask for.
EntryInv(n) ==
  /\ [id |-> <<0, n>>, source |-> ledger[n].url] \in shown
  /\ ledger[n].verified =>
       /\ keys.verify /\ ledger[n].url \in Pages
       /\ keys.fetcher => ledger[n].evidence = "fetched"

LedgerInv ==
  /\ ~ keys.web => ledger = NoLedger
  /\ keys.web /\ phase \in {"think", "tools", "returned"} =>
       /\ ledger \in Seq(Entry)
       /\ \A n \in DOMAIN ledger : EntryInv(n)

\* A chunk that was shown was a row of the table, whole.
ShownInv(s) ==
  s.id \notin WebId => \E row \in Held(s.id) : row.text = s.text /\ row.source = s.source

\* Where a fact of the grounding comes from.
FactInv(f) ==
  IF f.cites \in WebId
    THEN /\ keys.web /\ f.cites[2] \in DOMAIN ledger
         /\ f.cites = <<0, f.cites[2]>>
         /\ f.source = ledger[f.cites[2]].url /\ ledger[f.cites[2]].verified
    ELSE \E row \in Held(f.cites) : row.source = f.source

IInv ==
  /\ keys \in Keys
  /\ phase \in {"build", "think", "tools", "returned", "failed"}
  /\ calls = [i \in Slot |-> calls[i]]
  /\ phase # "tools" => calls = NoCalls
  /\ \A i \in Slot : CallInv(i)
  /\ LedgerInv
  /\ RowsOf(corpus) \subseteq rows
  /\ \A s \in shown : ShownInv(s)
  /\ phase # "returned" => grounding = NoGrounding
  /\ phase = "returned" => \A f \in grounding : FactInv(f)

-----------------------------------------------------------------------------
(* Steps of the search.                                                    *)

\* A step inside the tools: one call changes, and the record may grow.
LEMMA CallSteps ==
  ASSUME IInv, phase = "tools", NEW i \in Slot, NEW c, Now(i, c),
         CallInv(i)', LedgerInv', \A s \in shown' : ShownInv(s)'
  PROVE  IInv'
<1>1. /\ calls' = [calls EXCEPT ![i] = c]
      /\ UNCHANGED <<keys, phase, attempt, steps, searched, grounding, table>>
  BY DEF Now
<1>2. calls' = [k \in Slot |-> calls'[k]] /\ \A k \in Slot \ {i} : calls'[k] = calls[k]
  BY <1>1 DEF IInv
<1>3. \A k \in Slot : CallInv(k)'
  <2> SUFFICES ASSUME NEW k \in Slot, k # i PROVE CallInv(k)'
    OBVIOUS
  <2> QED
    BY <1>1, <1>2 DEF IInv, CallInv
<1>4. RowsOf(corpus)' \subseteq rows'
  BY <1>1 DEF IInv, RowsOf, table
<1> QED
  BY <1>1, <1>2, <1>3, <1>4 DEF IInv, table

\* What ends an attempt leaves no call behind, and returns nothing.
LEMMA Endings ==
  ASSUME IInv, phase # "returned", AttemptFails \/ FailsAtOnce
  PROVE  IInv'
<1>1. /\ phase' \in {"build", "failed"} /\ calls' = NoCalls
      /\ UNCHANGED <<keys, steps, ledger, shown, searched, grounding, table>>
  BY DEF AttemptFails, FailsAtOnce
<1>2. \A i \in Slot : CallInv(i)'
  BY <1>1 DEF CallInv, NoCalls, Idle
<1>3. LedgerInv' /\ RowsOf(corpus)' \subseteq rows' /\ calls' = [i \in Slot |-> calls'[i]]
  BY <1>1 DEF IInv, LedgerInv, RowsOf, table, NoCalls
<1>4. \A s \in shown' : ShownInv(s)'
  BY <1>1 DEF IInv, ShownInv, table, Held
<1> QED
  BY <1>1, <1>2, <1>3, <1>4 DEF IInv

\* A call that is under way is of a step under way.
LEMMA UnderWay ==
  ASSUME IInv, NEW i \in Slot, calls[i].at # "idle"
  PROVE  phase = "tools"
BY DEF IInv, NoCalls, Idle

\* A call that moves on without finding anything out.
LEMMA QuietCall ==
  ASSUME IInv, NEW i \in Slot, phase = "tools", NEW c, Now(i, c), UNCHANGED <<ledger, shown>>,
         CallInv(i)'
  PROVE  IInv'
<1>1. UNCHANGED <<keys, phase, ledger, shown, rows>>
  BY DEF Now, table
<1>2. LedgerInv' /\ \A s \in shown' : ShownInv(s)'
  BY <1>1 DEF IInv, LedgerInv, EntryInv, ShownInv, Held
<1> QED
  BY <1>2, CallSteps

LEMMA FoundKeeps ==
  ASSUME IInv, NEW i \in Slot,
         \/ \E results \in Responses(Url, FALSE) : Found(i, results)
         \/ \E results \in Responses(Pages, TRUE) : FoundByFallback(i, results)
  PROVE  IInv'
<1>1. PICK results : /\ \/ results \in Responses(Url, FALSE) /\ Found(i, results)
                        \/ results \in Responses(Pages, TRUE) /\ FoundByFallback(i, results)
  OBVIOUS
<1>2. /\ calls[i].at \in {"asking", "falling_back"} /\ phase = "tools"
      /\ Now(i, Checking(results)) /\ UNCHANGED <<ledger, shown>>
  <2>1. /\ calls[i] = Asking \/ calls[i] = FallingBack
        /\ Now(i, Checking(results)) /\ UNCHANGED <<ledger, shown>>
    BY <1>1 DEF Found, FoundByFallback
  <2>2. calls[i].at \in {"asking", "falling_back"}
    BY <2>1 DEF Asking, FallingBack
  <2>3. phase = "tools"
    BY <2>2, UnderWay
  <2> QED
    BY <2>1, <2>2, <2>3
<1>3. /\ results \in Seq(Result)
      /\ \A k \in DOMAIN results : results[k].structural => results[k].url \in Pages
  <2>1. ASSUME NEW urls \in SUBSET Url, NEW structural \in BOOLEAN,
               structural => urls \subseteq Pages, results \in Responses(urls, structural)
        PROVE  /\ results \in Seq(Result)
               /\ \A k \in DOMAIN results : results[k].structural => results[k].url \in Pages
    <3>1. PICK n \in 0..MaxRows : results \in [1..n -> [url : urls, structural : {structural}]]
      BY <2>1 DEF Responses
    <3>2. n \in Nat
      BY <3>1, WidthAssumption
    <3>3. \A k \in 1..n : results[k] \in Result /\ (results[k].structural => results[k].url \in Pages)
      BY <2>1, <3>1 DEF Result
    <3> QED
      BY <3>1, <3>2, <3>3
  <2> QED
    BY <1>1, <2>1, PagesAssumption
<1>4. CallInv(i)'
  <2>1. calls'[i] = Checking(results) /\ keys' = keys
    BY <1>2 DEF Now, IInv
  <2>2. keys.web
    BY <1>2 DEF IInv, CallInv
  <2>3. CASE results = <<>>
    BY <2>1, <2>2, <2>3 DEF CallInv, Checking, Done
  <2>4. CASE results # <<>>
    <3>1. calls'[i].at = "checking" /\ calls'[i].results = results
      BY <2>1, <2>4 DEF Checking
    <3> QED
      BY <1>3, <2>1, <2>2, <2>4, <3>1 DEF CallInv
  <2> QED
    BY <2>3, <2>4
<1> QED
  BY <1>2, <1>4, QuietCall

LEMMA EvidenceMeans ==
  ASSUME keys \in Keys, NEW result, NEW page \in BOOLEAN, NEW quoted \in BOOLEAN,
         Evidence(result, page, quoted) # "dropped"
  PROVE  /\ Evidence(result, page, quoted) \in {"none", "fetched", "search_api"}
         /\ Evidence(result, page, quoted) # "none" =>
              /\ keys.verify
              /\ keys.fetcher => Evidence(result, page, quoted) = "fetched" /\ page
              /\ page \/ result.structural = TRUE
<1>1. keys.verify \in BOOLEAN /\ keys.fetcher \in BOOLEAN
  BY DEF Keys
<1>2. CASE ~keys.verify
  BY <1>2 DEF Evidence
<1>3. CASE keys.verify /\ ~keys.fetcher
  BY <1>3 DEF Evidence
<1>4. CASE keys.verify /\ keys.fetcher
  BY <1>4 DEF Evidence
<1> QED
  BY <1>1, <1>2, <1>3, <1>4

LEMMA CheckResultKeeps ==
  ASSUME IInv, NEW i \in Slot, NEW page \in BOOLEAN, NEW quoted \in BOOLEAN,
         CheckResult(i, page, quoted)
  PROVE  IInv'
<1> DEFINE results == calls[i].results
           result == Head(results)
           evidence == Evidence(result, page, quoted)
           entry == [url |-> result.url, evidence |-> evidence, verified |-> evidence # "none"]
           here == [id |-> WebIdFor(Len(ledger)), source |-> result.url]
<1>1. calls[i].at = "checking" /\ phase = "tools"
  BY UnderWay DEF CheckResult
<1>2. /\ keys \in Keys /\ keys.web /\ results \in Seq(Result) /\ results # <<>>
      /\ \A k \in DOMAIN results : results[k].structural => results[k].url \in Pages
  BY <1>1 DEF IInv, CallInv
<1>3. /\ result \in Result /\ (result.structural => result.url \in Pages)
      /\ Tail(results) \in Seq(Result)
      /\ \A k \in DOMAIN Tail(results) :
           Tail(results)[k].structural => Tail(results)[k].url \in Pages
  <2>1. Len(results) \in Nat \ {0} /\ result = results[1]
    BY <1>2
  <2>2. result \in Result /\ (result.structural => result.url \in Pages)
    BY <1>2, <2>1
  <2>3. /\ Tail(results) \in Seq(Result)
        /\ DOMAIN Tail(results) = 1..(Len(results) - 1)
        /\ \A k \in 1..(Len(results) - 1) : Tail(results)[k] = results[k + 1]
    BY <1>2, <2>1
  <2>4. \A k \in 1..(Len(results) - 1) : k + 1 \in DOMAIN results
    BY <1>2, <2>1
  <2> QED
    BY <1>2, <2>2, <2>3, <2>4
<1>4. /\ page => result.url \in Pages
      /\ Now(i, Checking(Tail(results)))
      /\ \/ evidence = "dropped" /\ UNCHANGED <<ledger, shown>>
         \/ evidence # "dropped" /\ ledger' = Append(ledger, entry) /\ shown' = shown \cup {here}
  BY DEF CheckResult, CanBeRead
<1>5. CallInv(i)'
  <2>1. calls'[i] = Checking(Tail(results)) /\ keys' = keys
    BY <1>4 DEF Now, IInv
  <2>2. CASE Tail(results) = <<>>
    BY <1>2, <2>1, <2>2 DEF CallInv, Checking, Done
  <2>3. CASE Tail(results) # <<>>
    <3>1. calls'[i].at = "checking" /\ calls'[i].results = Tail(results)
      BY <2>1, <2>3 DEF Checking
    <3> QED
      BY <1>2, <1>3, <2>1, <2>3, <3>1 DEF CallInv
  <2> QED
    BY <2>2, <2>3
<1>6. CASE evidence = "dropped"
  BY <1>1, <1>4, <1>5, <1>6, QuietCall
<1>7. CASE evidence # "dropped"
  <2>1. /\ evidence \in {"none", "fetched", "search_api"}
        /\ evidence # "none" => /\ keys.verify
                                /\ keys.fetcher => evidence = "fetched"
                                /\ page \/ result.structural = TRUE
    BY <1>2, <1>7, EvidenceMeans
  <2> HIDE DEF evidence
  <2>2. entry \in Entry
    BY <1>3, <2>1 DEF Entry, Result
  <2>3. /\ entry.url = result.url
        /\ entry.verified =>
             /\ keys.verify /\ entry.url \in Pages
             /\ keys.fetcher => entry.evidence = "fetched"
    BY <1>3, <1>4, <2>1
  <2>4. ledger \in Seq(Entry) /\ \A n \in DOMAIN ledger : EntryInv(n)
    BY <1>1, <1>2 DEF IInv, LedgerInv
  <2>5. here.id = <<0, Len(ledger) + 1>> /\ here.source = entry.url
    BY DEF WebIdFor
  <2> HIDE DEF entry
  <2>6. /\ ledger' = Append(ledger, entry) /\ shown' = shown \cup {here}
        /\ UNCHANGED <<keys, phase, rows>>
    BY <1>4, <1>7 DEF Now, table
  <2>7. here = [id |-> <<0, Len(ledger) + 1>>, source |-> entry.url]
    BY <2>5
  <2> HIDE DEF here
  <2>8. /\ ledger' \in Seq(Entry) /\ Len(ledger) \in Nat
        /\ DOMAIN ledger' = 1..(Len(ledger) + 1) /\ DOMAIN ledger = 1..Len(ledger)
        /\ ledger'[Len(ledger) + 1] = entry
        /\ \A n \in 1..Len(ledger) : ledger'[n] = ledger[n]
    BY <2>2, <2>4, <2>6
  <2>9. ASSUME NEW n \in DOMAIN ledger' PROVE EntryInv(n)'
    <3>1. CASE n = Len(ledger) + 1
      BY <2>3, <2>6, <2>7, <2>8, <3>1 DEF EntryInv
    <3>2. CASE n \in DOMAIN ledger
      BY <2>4, <2>6, <2>8, <3>2 DEF EntryInv
    <3> QED
      BY <2>8, <3>1, <3>2
  <2>10. LedgerInv'
    BY <1>2, <2>6, <2>8, <2>9 DEF LedgerInv
  <2>11. here.id \in WebId
    BY <2>5, <2>8 DEF WebId
  <2>12. \A s \in shown' : ShownInv(s)'
    BY <2>6, <2>11 DEF IInv, ShownInv, Held
  <2> QED
    BY <1>1, <1>4, <1>5, <2>10, <2>12, CallSteps
<1> QED
  BY <1>6, <1>7

LEMMA SearchFactsKeeps ==
  ASSUME IInv, NEW i \in Slot, RankChunks(i) \/ ReadChunks(i)
  PROVE  IInv'
<1>1. CASE RankChunks(i)
  <2>1. PICK search \in SearchResults : Now(i, Reading(search[2]))
    BY <1>1 DEF RankChunks
  <2>2. phase = "tools" /\ UNCHANGED <<ledger, shown>>
    BY <1>1, UnderWay DEF RankChunks, Embedding
  <2>3. calls'[i].at = "reading"
    BY <2>1 DEF Now, IInv, Reading
  <2>4. CallInv(i)'
    BY <2>3 DEF CallInv
  <2> QED
    BY <2>1, <2>2, <2>4, QuietCall
<1>2. CASE ReadChunks(i)
  <2>1. phase = "tools" /\ Now(i, Done) /\ UNCHANGED <<keys, phase, ledger, rows, corpus>>
    BY <1>2, UnderWay DEF ReadChunks, Now, table
  <2>2. calls'[i].at = "done"
    BY <2>1 DEF Now, IInv, Done
  <2>3. CallInv(i)'
    BY <2>2 DEF CallInv
  <2>4. /\ shown \subseteq shown'
        /\ \A s \in shown' \ shown : \E id \in DOMAIN corpus : s = Hit(id, corpus[id])
    BY <1>2 DEF ReadChunks, Hits
  <2>5. LedgerInv'
    BY <2>1, <2>4 DEF IInv, LedgerInv, EntryInv
  <2>6. ASSUME NEW s \in shown' PROVE ShownInv(s)'
    <3>1. CASE s \in shown
      BY <2>1, <3>1 DEF IInv, ShownInv, Held
    <3>2. CASE s \notin shown
      <4>1. PICK id \in DOMAIN corpus : s = Hit(id, corpus[id])
        BY <2>4, <3>2
      <4>2. <<id, corpus[id]>> \in rows
        BY DEF IInv, RowsOf
      <4>3. corpus[id] \in Held(id)
        BY <4>2 DEF Held
      <4>4. s.id = id /\ s.text = corpus[id].text /\ s.source = corpus[id].source
        BY <4>1 DEF Hit
      <4>5. Held(s.id)' = Held(s.id)
        BY <2>1 DEF Held
      <4> QED
        BY <4>3, <4>4, <4>5 DEF ShownInv
    <3> QED
      BY <3>1, <3>2
  <2> QED
    BY <2>1, <2>3, <2>5, <2>6, CallSteps
<1> QED
  BY <1>1, <1>2

LEMMA FailuresKeep ==
  ASSUME IInv, NEW i \in Slot,
         PrimaryFails(i) \/ FallbackFails(i) \/ JudgeFails(i) \/ SearchFails(i)
  PROVE  IInv'
<1>1. calls[i].at # "idle"
  BY DEF PrimaryFails, FallbackFails, JudgeFails, SearchFails, Asking, FallingBack, Embedding
<1>2. phase = "tools"
  BY <1>1, UnderWay
<1>3. CASE AttemptFails \/ FailsAtOnce
  BY <1>2, <1>3, Endings
<1>4. CASE calls[i] = Asking /\ Now(i, FallingBack) /\ UNCHANGED <<ledger, shown>>
  <2>1. keys.web /\ calls'[i].at = "falling_back" /\ keys' = keys
    BY <1>4 DEF IInv, CallInv, Now, Asking, FallingBack
  <2>2. CallInv(i)'
    BY <2>1 DEF CallInv
  <2> QED
    BY <1>2, <1>4, <2>2, QuietCall
<1> QED
  BY <1>3, <1>4 DEF PrimaryFails, FallbackFails, JudgeFails, SearchFails

-----------------------------------------------------------------------------
(* The attempt, the answer and the table.                                  *)

LEMMA BuildContextKeeps ==
  ASSUME IInv, BuildContext
  PROVE  IInv'
<1>1. /\ phase = "build" /\ phase' = "think" /\ calls' = NoCalls /\ shown' = {}
      /\ ledger' = LedgerOfAttempt /\ rows' = RowsOf(corpus)
      /\ UNCHANGED <<keys, grounding, corpus>>
  BY DEF BuildContext
<1>2. LedgerInv'
  <2>1. CASE keys.web
    <3>1. ledger' = <<>>
      BY <1>1, <2>1 DEF LedgerOfAttempt
    <3>2. ledger' \in Seq(Entry) /\ DOMAIN ledger' = {}
      BY <3>1
    <3> QED
      BY <1>1, <2>1, <3>2 DEF LedgerInv
  <2>2. CASE ~ keys.web
    BY <1>1, <2>2 DEF LedgerInv, LedgerOfAttempt
  <2> QED
    BY <2>1, <2>2
<1>3. \A i \in Slot : CallInv(i)'
  BY <1>1 DEF CallInv, NoCalls, Idle
<1>4. RowsOf(corpus)' \subseteq rows' /\ calls' = [i \in Slot |-> calls'[i]]
  BY <1>1 DEF IInv, RowsOf, NoCalls
<1> QED
  BY <1>1, <1>2, <1>3, <1>4 DEF IInv

LEMMA CallToolsKeeps ==
  ASSUME IInv, NEW n \in Slot, NEW wanted \in [1..n -> Tools], CallTools(wanted)
  PROVE  IInv'
<1>1. /\ phase = "think" /\ phase' = "tools"
      /\ UNCHANGED <<keys, ledger, shown, grounding, corpus, rows>>
      /\ calls' = [i \in Slot |-> IF i \notin DOMAIN wanted THEN Idle
                                  ELSE IF wanted[i] = "web" THEN Asking ELSE Embedding]
  BY DEF CallTools, table
<1>2. ASSUME NEW i \in Slot PROVE CallInv(i)'
  <2>1. CASE i \in DOMAIN wanted /\ wanted[i] = "web"
    <3>1. "web" \in Tools
      BY <2>1
    <3>2. ledger # NoLedger
      BY <3>1 DEF Tools
    <3>3. keys.web
      BY <3>2 DEF IInv, LedgerInv
    <3>4. calls'[i].at = "asking"
      BY <1>1, <2>1 DEF Asking
    <3> QED
      BY <1>1, <3>3, <3>4 DEF CallInv
  <2>2. CASE ~ (i \in DOMAIN wanted /\ wanted[i] = "web")
    <3>1. calls'[i].at \in {"idle", "embedding"}
      BY <1>1, <2>2 DEF Idle, Embedding
    <3> QED
      BY <3>1 DEF CallInv
  <2> QED
    BY <2>1, <2>2
<1>3. LedgerInv' /\ RowsOf(corpus)' \subseteq rows' /\ calls' = [i \in Slot |-> calls'[i]]
  BY <1>1 DEF IInv, LedgerInv, EntryInv, RowsOf
<1>4. \A s \in shown' : ShownInv(s)'
  BY <1>1 DEF IInv, ShownInv, Held
<1> QED
  BY <1>1, <1>2, <1>3, <1>4 DEF IInv

LEMMA StepEndsKeeps ==
  ASSUME IInv, StepEnds
  PROVE  IInv'
<1>1. /\ phase = "tools" /\ phase' = "think" /\ calls' = NoCalls
      /\ UNCHANGED <<keys, ledger, shown, grounding, corpus, rows>>
  BY DEF StepEnds, table
<1>2. LedgerInv' /\ RowsOf(corpus)' \subseteq rows' /\ calls' = [i \in Slot |-> calls'[i]]
  BY <1>1 DEF IInv, LedgerInv, EntryInv, RowsOf, NoCalls
<1>3. (\A i \in Slot : CallInv(i)') /\ (\A s \in shown' : ShownInv(s)')
  BY <1>1 DEF IInv, ShownInv, CallInv, NoCalls, Idle, Held
<1> QED
  BY <1>1, <1>2, <1>3 DEF IInv

\* What an attempt hands back is in order when each fact is.
LEMMA ReturnKeeps ==
  ASSUME IInv, phase = "think", NEW facts, Return(facts), \A f \in facts : FactInv(f)
  PROVE  IInv'
<1>1. /\ phase' = "returned" /\ grounding' = facts
      /\ UNCHANGED <<keys, calls, ledger, shown, corpus, rows>>
  BY DEF Return, table
<1>2. LedgerInv' /\ RowsOf(corpus)' \subseteq rows'
  BY <1>1 DEF IInv, LedgerInv, EntryInv, RowsOf
<1>3. (\A i \in Slot : CallInv(i)') /\ (\A s \in shown' : ShownInv(s)')
  BY <1>1 DEF IInv, ShownInv, CallInv, Held
<1>4. \A f \in facts : FactInv(f)'
  BY <1>1 DEF FactInv, Held
<1> QED
  BY <1>1, <1>2, <1>3, <1>4 DEF IInv

LEMMA AnswerKeeps ==
  ASSUME IInv, NEW claims \in Claims, Answer(claims)
  PROVE  IInv'
<1> DEFINE facts == Prov!DropUnprovenanced(claims, corpus, Sources)
<1>1. phase = "think" /\ Return(facts)
  BY DEF Answer
<1>2. ASSUME NEW f \in facts PROVE FactInv(f)
  <2>1. PICK claim \in claims :
          /\ Prov!Vouched(claim, corpus, Sources)
          /\ f = [claim EXCEPT !.source = Prov!SourceOnRecord(claim, corpus, Sources)]
    BY DEF Prov!DropUnprovenanced
  <2>2. PICK ids : claims \in SUBSET [cites : ids, source : {0}]
    BY DEF Claims
  <2>3. /\ f.cites = claim.cites
        /\ f.source = Prov!SourceOnRecord(claim, corpus, Sources)
    BY <2>1, <2>2
  <2>4. CASE claim.cites \in WebId
    <3>1. Prov!VouchedByWeb(claim, Sources)
      BY <2>1, <2>4 DEF Prov!Vouched
    <3>2. Sources # NoLedger /\ claim.cites \in DOMAIN Sources /\ Sources[claim.cites].verified
      BY <3>1 DEF Prov!VouchedByWeb
    <3>3. ledger # NoLedger
      BY <3>2 DEF Sources
    <3>4. PICK n \in DOMAIN ledger : claim.cites = <<0, n>>
      BY <3>2, <3>3 DEF Sources
    <3>5. /\ Sources[claim.cites].source = ledger[n].url
          /\ Sources[claim.cites].verified = ledger[n].verified
          /\ claim.cites[2] = n
      BY <3>3, <3>4 DEF Sources
    <3>6. f.source = ledger[n].url
      BY <2>3, <2>4, <3>5 DEF Prov!SourceOnRecord
    <3>7. keys.web
      BY <3>3 DEF IInv, LedgerInv
    <3> QED
      BY <2>3, <2>4, <3>2, <3>4, <3>5, <3>6, <3>7 DEF FactInv
  <2>5. CASE claim.cites \notin WebId
    <3>1. claim.cites \in DOMAIN corpus
      BY <2>1, <2>5 DEF Prov!Vouched, Prov!VouchedByStore
    <3>2. f.source = corpus[claim.cites].source
      BY <2>3, <2>5 DEF Prov!SourceOnRecord
    <3>3. <<claim.cites, corpus[claim.cites]>> \in rows
      BY <3>1 DEF IInv, RowsOf
    <3>4. corpus[claim.cites] \in Held(claim.cites)
      BY <3>3 DEF Held
    <3> QED
      BY <2>3, <2>5, <3>2, <3>4 DEF FactInv
  <2> QED
    BY <2>4, <2>5
<1> HIDE DEF facts
<1> QED
  BY <1>1, <1>2, ReturnKeeps

LEMMA IngestKeeps ==
  ASSUME IInv, NEW files \in SUBSET Files, Ingest(files)
  PROVE  IInv'
<1>1. /\ UNCHANGED <<keys, phase, calls, ledger, shown, grounding>>
      /\ rows' = rows \cup RowsOf(corpus')
  BY DEF Ingest, run
<1>2. LedgerInv' /\ RowsOf(corpus)' \subseteq rows'
  BY <1>1 DEF IInv, LedgerInv, EntryInv, RowsOf
<1>3. (\A i \in Slot : CallInv(i)') /\ (\A s \in shown' : ShownInv(s)')
  BY <1>1 DEF IInv, ShownInv, CallInv, Held
<1>4. \A f : FactInv(f) => FactInv(f)'
  BY <1>1 DEF FactInv, Held
<1> QED
  BY <1>1, <1>2, <1>3, <1>4 DEF IInv

LEMMA InitEstablishes == Init => IInv
<1> SUFFICES ASSUME Init PROVE IInv
  OBVIOUS
<1>1. \A i \in Slot : CallInv(i)
  BY DEF Init, CallInv, NoCalls, Idle
<1>2. LedgerInv /\ calls = [i \in Slot |-> calls[i]]
  BY DEF Init, LedgerInv, NoCalls
<1> QED
  BY <1>1, <1>2 DEF Init, IInv

LEMMA NextKeeps == IInv /\ [Next]_vars => IInv'
<1> SUFFICES ASSUME IInv, [Next]_vars PROVE IInv'
  OBVIOUS
<1>1. CASE UNCHANGED vars
  <2>1. UNCHANGED <<keys, phase, calls, ledger, shown, grounding, corpus, rows>>
    BY <1>1 DEF vars, run, table
  <2>2. LedgerInv' /\ RowsOf(corpus)' \subseteq rows'
    BY <2>1 DEF IInv, LedgerInv, EntryInv, RowsOf
  <2>3. (\A i \in Slot : CallInv(i)') /\ (\A s \in shown' : ShownInv(s)')
    BY <2>1 DEF IInv, ShownInv, CallInv, Held
  <2>4. \A f : FactInv(f) => FactInv(f)'
    BY <2>1 DEF FactInv, Held
  <2> QED
    BY <2>1, <2>2, <2>3, <2>4 DEF IInv
<1>2. CASE CannotBuild \/ ModelFails
  BY <1>2, Endings DEF CannotBuild, ModelFails
<1>3. CASE OutOfSteps
  BY <1>3, Endings, ReturnKeeps DEF OutOfSteps
<1>4. CASE Step
  BY <1>2, <1>3, <1>4, BuildContextKeeps, StepEndsKeeps, CallToolsKeeps, AnswerKeeps, FoundKeeps,
     FailuresKeep, CheckResultKeeps, SearchFactsKeeps DEF Step
<1> QED
  BY <1>1, <1>4, IngestKeeps DEF Next

\* The inductive invariant holds of every research task, whatever its providers
\* answer and whatever is ingested meanwhile.
THEOREM Invariance == Spec => []IInv
BY InitEstablishes, NextKeeps, PTL DEF Spec

\* Whatever the agent claims, a web fact of the grounding has the source that
\* was shown under its id in the attempt that returned it.
THEOREM WebFactsShown == Spec => []WebFactsWereShown
<1>1. ASSUME IInv, NEW f \in WebFacts PROVE [id |-> f.cites, source |-> f.source] \in shown
  <2>1. phase = "returned" /\ FactInv(f) /\ f.cites \in WebId
    BY <1>1 DEF WebFacts, IInv
  <2>2. EntryInv(f.cites[2])
    BY <1>1, <2>1 DEF FactInv, IInv, LedgerInv
  <2> QED
    BY <2>1, <2>2 DEF FactInv, EntryInv
<1>2. IInv => WebFactsWereShown
  BY <1>1 DEF WebFactsWereShown
<1> QED
  BY <1>2, Invariance, PTL

\* No outage, setting or assertion of the search model lets an address without
\* a page into the grounding.
THEOREM PagesAreReal == Spec => []NoInventedPage
<1>1. ASSUME IInv, NEW f \in WebFacts
      PROVE  /\ f.source \in Pages /\ keys.verify
             /\ keys.fetcher => ledger[f.cites[2]].evidence = "fetched"
  <2>1. phase = "returned" /\ FactInv(f) /\ f.cites \in WebId
    BY <1>1 DEF WebFacts, IInv
  <2>2. EntryInv(f.cites[2])
    BY <1>1, <2>1 DEF FactInv, IInv, LedgerInv
  <2> QED
    BY <2>1, <2>2 DEF FactInv, EntryInv
<1>2. IInv => NoInventedPage
  BY <1>1 DEF NoInventedPage
<1> QED
  BY <1>2, Invariance, PTL

\* Whenever the collection is ingested anew, and whatever source a file's front
\* matter then names, the agent was shown whole rows that stood under their ids
\* in its attempt, and a citation carries the source of such a row.
THEOREM CitationsHold == Spec => []CitationsAreRows
<1>1. ASSUME IInv, NEW f \in ChunkFacts
      PROVE  /\ \E row \in Held(f.cites) : row.source = f.source
             /\ \A s \in shown :
                  s.id = f.cites /\ s.source # f.source => \E q, r \in Held(f.cites) : q # r
  <2>1. FactInv(f) /\ f.cites \notin WebId
    BY <1>1 DEF ChunkFacts, IInv
  <2>2. PICK q \in Held(f.cites) : q.source = f.source
    BY <2>1 DEF FactInv
  <2>3. ASSUME NEW s \in shown, s.id = f.cites, s.source # f.source
        PROVE  \E r \in Held(f.cites) : q # r
    <3>1. PICK r \in Held(f.cites) : r.source = s.source
      BY <1>1, <2>1, <2>3 DEF IInv, ShownInv
    <3> QED
      BY <2>2, <2>3, <3>1
  <2> QED
    BY <2>2, <2>3
<1>2. IInv => CitationsAreRows
  BY <1>1 DEF CitationsAreRows, IInv, ShownInv
<1> QED
  BY <1>2, Invariance, PTL

-----------------------------------------------------------------------------
(* Types and limits.                                                       *)

Limits ==
  /\ attempt \in 0..(MaxAttempts - 1)
  /\ steps \in 0..MaxSteps
  /\ ledger # NoLedger => ledger \in Seq(Entry)
  /\ searched \in Nat
  /\ ingests \in 0..MaxIngests

LEMMA LimitsKeep == IInv /\ IInv' /\ Limits /\ [Next]_vars => Limits'
<1> SUFFICES ASSUME IInv, IInv', Limits, [Next]_vars PROVE Limits'
  OBVIOUS
<1> USE MaxAttemptsAssumption, MaxStepsAssumption, IngestsAssumption DEF Limits, table
<1>1. CASE AttemptFails \/ FailsAtOnce
  BY <1>1 DEF AttemptFails, FailsAtOnce
<1>2. CASE BuildContext
  <2>1. ledger' # NoLedger => ledger' = <<>>
    BY <1>2 DEF BuildContext, LedgerOfAttempt
  <2>2. <<>> \in Seq(Entry)
    OBVIOUS
  <2>3. ledger' # NoLedger => ledger' \in Seq(Entry)
    BY <2>1, <2>2
  <2>4. steps' = 0 /\ searched' = 0 /\ UNCHANGED <<attempt, ingests>>
    BY <1>2 DEF BuildContext
  <2> QED
    BY <2>3, <2>4
<1>3. ASSUME NEW n \in Slot, NEW wanted \in [1..n -> Tools], CallTools(wanted) PROVE Limits'
  <2>1. n \in Nat
    BY WidthAssumption DEF Slot
  <2>2. IsFiniteSet(1..n)
    BY <2>1, FS_Interval
  <2>3. Webs(wanted) \in Nat
    <3>1. {i \in DOMAIN wanted : wanted[i] = "web"} \subseteq 1..n
      OBVIOUS
    <3> QED
      BY <2>2, <3>1, FS_Subset, FS_CardinalityType DEF Webs
  <2> QED
    BY <1>3, <2>3 DEF CallTools
<1>4. CASE UNCHANGED <<attempt, steps, ledger, searched, table>>
  BY <1>4
<1>5. ASSUME NEW facts, Return(facts) PROVE Limits'
  BY <1>5 DEF Return
<1>6. ASSUME NEW i \in Slot, NEW page \in BOOLEAN, NEW quoted \in BOOLEAN,
             CheckResult(i, page, quoted)
      PROVE  Limits'
  <2>1. UNCHANGED <<attempt, steps, searched, table, keys, phase>>
    BY <1>6 DEF CheckResult, Now
  <2>2. phase = "tools" /\ keys.web
    BY <1>6, UnderWay DEF CheckResult, IInv, CallInv
  <2>3. ledger' \in Seq(Entry)
    BY <2>1, <2>2 DEF IInv, LedgerInv
  <2> QED
    BY <2>1, <2>3
<1>7. ASSUME NEW i \in Slot,
             \/ \E results : Found(i, results) \/ FoundByFallback(i, results)
             \/ PrimaryFails(i) \/ FallbackFails(i) \/ JudgeFails(i)
             \/ RankChunks(i) \/ ReadChunks(i) \/ SearchFails(i)
      PROVE  Limits'
  BY <1>1, <1>4, <1>7 DEF Found, FoundByFallback, PrimaryFails, FallbackFails, JudgeFails,
     RankChunks, ReadChunks, SearchFails, Now
<1>8. CASE Step
  BY <1>1, <1>2, <1>3, <1>4, <1>5, <1>6, <1>7, <1>8
     DEF Step, CannotBuild, StepEnds, OutOfSteps, ModelFails, Answer
<1>9. ASSUME NEW files, Ingest(files) PROVE Limits'
  BY <1>9 DEF Ingest, run
<1> QED
  BY <1>4, <1>8, <1>9 DEF Next, vars, run

\* The counters of the retries and of the agent's steps stay in their limits.
THEOREM TypeCorrect == Spec => []TypeOK
<1>1. Init => Limits
  BY MaxAttemptsAssumption, MaxStepsAssumption, IngestsAssumption DEF Init, Limits
<1>2. ASSUME IInv, Limits PROVE TypeOK
  <2>1. \A i \in Slot : calls[i].at = "checking" => calls[i].results \in Seq(Result) \ {<<>>}
    BY <1>2 DEF IInv, CallInv
  <2>2. ledger # NoLedger => keys.web /\ ledger \in Seq(Entry)
    BY <1>2 DEF IInv, LedgerInv, Limits
  <2> QED
    BY <1>2, <2>1, <2>2 DEF IInv, Limits, TypeOK, Entry
<1>3. IInv /\ Limits => TypeOK
  BY <1>2
<1> QED
  BY <1>1, <1>3, LimitsKeep, Invariance, PTL DEF Spec

-----------------------------------------------------------------------------
(* Fusion.  A search returns its rows in the order of their scores, and    *)
(* what both of its rankings prefer scores more.                           *)

\* A ranking: every chunk at most once.
OneToOne(ranking, ids) ==
  \E m \in Nat : /\ ranking \in [1..m -> ids]
                 /\ \A i, j \in 1..m : ranking[i] = ranking[j] => i = j

Fraction == [num : Nat, den : Nat \ {0}]

\* The parts of Fused, by name.
Pool(vec, kw) == Ranked(vec) \cup Ranked(kw)
Place(vec, kw, c) == 1 + Cardinality({d \in Pool(vec, kw) : Ahead(vec, kw, d, c)})
Merged(vec, kw) ==
  [i \in 1..Cardinality(Pool(vec, kw)) |-> CHOOSE c \in Pool(vec, kw) : Place(vec, kw, c) = i]

-----------------------------------------------------------------------------
(* Fractions.                                                              *)

LEMMA Scaling ==
  ASSUME NEW a \in Nat, NEW b \in Nat, NEW x \in Nat
  PROVE  /\ a * x \in Nat
         /\ a >= b => a * x >= b * x
         /\ a > b /\ x # 0 => a * x > b * x
         /\ a * x > b * x => a > b
         /\ a * x = b * x /\ x # 0 => a = b
<1>1. a * x \in Nat
  OBVIOUS
<1>2. ASSUME NEW m \in Nat, NEW n \in Nat, m > n, x # 0 PROVE m * x > n * x
  <2>1. PICK k \in Nat \ {0} : m = n + k
    <3>1. m - n \in Nat \ {0} /\ m = n + (m - n)
      BY <1>2
    <3> QED
      BY <3>1
  <2>2. m * x = n * x + k * x
    BY <2>1
  <2>3. k * x > 0
    BY <1>2
  <2> QED
    BY <2>2, <2>3
<1>3. a > b /\ x # 0 => a * x > b * x
  BY <1>2
<1>4. b > a /\ x # 0 => b * x > a * x
  BY <1>2
<1>5. x = 0 => a * x = 0 /\ b * x = 0
  OBVIOUS
<1>6. PICK m \in Nat, n \in Nat : m = a * x /\ n = b * x
  OBVIOUS
<1> QED
  BY <1>3, <1>4, <1>5, <1>6

LEMMA FractionOrder ==
  ASSUME NEW a \in Nat, NEW b \in Nat \ {0}, NEW c \in Nat, NEW d \in Nat \ {0},
         NEW e \in Nat, NEW f \in Nat \ {0}
  PROVE  /\ a * d > c * b /\ c * f >= e * d => a * f > e * b
         /\ a * d >= c * b /\ c * f > e * d => a * f > e * b
         /\ a * d = c * b /\ c * f = e * d => a * f = e * b
<1>1. /\ (a * d) * f = (a * f) * d /\ (c * b) * f = (c * f) * b
      /\ (e * d) * b = (e * b) * d
  OBVIOUS
<1>2. PICK p \in Nat, q \in Nat, r \in Nat, s \in Nat, t \in Nat, u \in Nat :
        p = a * d /\ q = c * b /\ r = c * f /\ s = e * d /\ t = a * f /\ u = e * b
  OBVIOUS
<1>3. p * f = t * d /\ q * f = r * b /\ s * b = u * d
  BY <1>1, <1>2
<1>4. /\ p > q => p * f > q * f
      /\ p >= q => p * f >= q * f
      /\ r > s => r * b > s * b
      /\ r >= s => r * b >= s * b
      /\ t * d > u * d => t > u
      /\ t * d = u * d => t = u
  BY Scaling
<1>5. PICK v \in Nat, w \in Nat, x \in Nat, y \in Nat :
        v = p * f /\ w = q * f /\ x = s * b /\ y = u * d
  OBVIOUS
<1>6. /\ p > q => v > w
      /\ p >= q => v >= w
      /\ r > s => w > x
      /\ r >= s => w >= x
      /\ v > x => t > u
      /\ v = x => t = u
      /\ p = q => v = w
      /\ r = s => w = x
  BY <1>3, <1>4, <1>5
<1> QED
  BY <1>2, <1>6

LEMMA SumsOfFractions ==
  ASSUME NEW a \in Nat, NEW b \in Nat \ {0}, NEW c \in Nat, NEW d \in Nat \ {0},
         NEW e \in Nat, NEW f \in Nat \ {0}, NEW g \in Nat, NEW h \in Nat \ {0},
         a * d >= c * b, e * h >= g * f, a * d > c * b \/ e * h > g * f
  PROVE  (a * f + e * b) * (d * h) > (c * h + g * d) * (b * f)
<1>1. /\ (a * f + e * b) * (d * h) = (a * d) * (f * h) + (e * h) * (b * d)
      /\ (c * h + g * d) * (b * f) = (c * b) * (f * h) + (g * f) * (b * d)
  OBVIOUS
<1>2. PICK x \in Nat \ {0}, y \in Nat \ {0} : x = f * h /\ y = b * d
  <2>1. f * h \in Nat \ {0} /\ b * d \in Nat \ {0}
    OBVIOUS
  <2> QED
    BY <2>1
<1>3. PICK p \in Nat, q \in Nat, r \in Nat, s \in Nat :
        p = a * d /\ q = c * b /\ r = e * h /\ s = g * f
  OBVIOUS
<1>4. /\ p >= q /\ r >= s /\ (p > q \/ r > s)
  BY <1>3
<1>5. /\ p > q => p * x > q * x
      /\ p >= q => p * x >= q * x
      /\ r > s => r * y > s * y
      /\ r >= s => r * y >= s * y
  BY Scaling
<1>6. PICK i \in Nat, j \in Nat, k \in Nat, l \in Nat :
        i = p * x /\ j = q * x /\ k = r * y /\ l = s * y
  OBVIOUS
<1>7. i + k > j + l
  BY <1>4, <1>5, <1>6
<1> QED
  BY <1>1, <1>2, <1>3, <1>6, <1>7

-----------------------------------------------------------------------------
(* Rankings, and what is left of one that is cut short.                    *)

LEMMA FirstOfRanking ==
  ASSUME NEW ids, NEW ranking, OneToOne(ranking, ids), NEW n \in Nat
  PROVE  /\ OneToOne(AtMostFirst(n, ranking), ids)
         /\ Len(AtMostFirst(n, ranking)) <= n
         /\ Ranked(AtMostFirst(n, ranking)) \subseteq Ranked(ranking)
         /\ \A c, d : Before(ranking, c, d) /\ d \in Ranked(AtMostFirst(n, ranking))
                        => Before(AtMostFirst(n, ranking), c, d)
<1>1. PICK m \in Nat : /\ ranking \in [1..m -> ids]
                       /\ \A i, j \in 1..m : ranking[i] = ranking[j] => i = j
  BY DEF OneToOne
<1>2. ranking \in Seq(ids) /\ Len(ranking) = m
  BY <1>1
<1> DEFINE k == IF n < m THEN n ELSE m
           first == AtMostFirst(n, ranking)
<1>3. k \in Nat /\ k <= n /\ k <= m
  OBVIOUS
<1>4. first = SubSeq(ranking, 1, k)
  BY <1>2 DEF AtMostFirst
<1>5. first \in [1..k -> ids] /\ Len(first) = k /\ \A i \in 1..k : first[i] = ranking[i]
  <2> HIDE DEF k
  <2>1. first \in Seq(ids) /\ Len(first) = k /\ \A i \in 1..k : first[i] = ranking[i]
    BY <1>2, <1>3, <1>4
  <2>2. DOMAIN first = 1..k
    BY <2>1, <1>3
  <2> QED
    BY <2>1, <2>2
<1> HIDE DEF first, k
<1>6. 1..k \subseteq 1..m /\ DOMAIN first = 1..k /\ DOMAIN ranking = 1..m
  BY <1>1, <1>3, <1>5
<1>7. OneToOne(first, ids)
  BY <1>1, <1>3, <1>5, <1>6 DEF OneToOne
<1>8. Ranked(first) \subseteq Ranked(ranking)
  BY <1>5, <1>6 DEF Ranked
<1>9. ASSUME NEW c, NEW d, Before(ranking, c, d), d \in Ranked(first) PROVE Before(first, c, d)
  <2>1. PICK i \in 1..m, j \in 1..m : i < j /\ ranking[i] = c /\ ranking[j] = d
    BY <1>6, <1>9 DEF Before
  <2>2. PICK l \in 1..k : first[l] = d
    BY <1>6, <1>9 DEF Ranked
  <2>3. l = j
    BY <1>1, <1>5, <1>6, <2>1, <2>2
  <2>4. i \in 1..k
    BY <1>3, <2>1, <2>2, <2>3
  <2> QED
    BY <1>5, <1>6, <2>1, <2>2, <2>3, <2>4 DEF Before
<1> QED
  BY <1>3, <1>5, <1>7, <1>8, <1>9 DEF first

LEMMA VoteIsFraction ==
  ASSUME NEW ids, NEW ranking, OneToOne(ranking, ids), NEW c
  PROVE  Vote(ranking, c) \in Fraction
<1>1. PICK m \in Nat : ranking \in [1..m -> ids]
  BY DEF OneToOne
<1>2. CASE c \in Ranked(ranking)
  <2>1. RankIn(ranking, c) \in 1..m
    BY <1>1, <1>2 DEF Ranked, RankIn
  <2>2. RRF_K + RankIn(ranking, c) \in Nat \ {0}
    BY <1>1, <2>1, RrfAssumption
  <2> QED
    BY <1>2, <2>2 DEF Vote, Fraction
<1>3. CASE c \notin Ranked(ranking)
  BY <1>3 DEF Vote, Fraction
<1> QED
  BY <1>2, <1>3

\* The chunk that is ahead in a ranking gets more from it, and one that is not
\* in it gets no more than any other.
LEMMA EarlierVotesMore ==
  ASSUME NEW ids, NEW ranking, OneToOne(ranking, ids), NEW c, NEW d,
         d \in Ranked(ranking) => Before(ranking, c, d)
  PROVE  LET p == Vote(ranking, c)
             q == Vote(ranking, d) IN
         /\ p.num * q.den >= q.num * p.den
         /\ d \in Ranked(ranking) => p.num * q.den > q.num * p.den
<1>1. PICK m \in Nat : /\ ranking \in [1..m -> ids]
                       /\ \A i, j \in 1..m : ranking[i] = ranking[j] => i = j
  BY DEF OneToOne
<1>2. CASE d \in Ranked(ranking)
  <2>1. PICK i \in 1..m, j \in 1..m : i < j /\ ranking[i] = c /\ ranking[j] = d
    BY <1>1, <1>2 DEF Before
  <2>2. c \in Ranked(ranking) /\ RankIn(ranking, c) = i /\ RankIn(ranking, d) = j
    BY <1>1, <2>1 DEF Ranked, RankIn
  <2>3. /\ Vote(ranking, c) = [num |-> 1, den |-> RRF_K + i]
        /\ Vote(ranking, d) = [num |-> 1, den |-> RRF_K + j]
    BY <1>2, <2>2 DEF Vote
  <2>4. RRF_K + i \in Nat /\ RRF_K + j \in Nat /\ RRF_K + j > RRF_K + i
    BY <1>1, <2>1, RrfAssumption
  <2> QED
    BY <2>3, <2>4
<1>3. CASE d \notin Ranked(ranking)
  <2>1. Vote(ranking, d) = [num |-> 0, den |-> 1]
    BY <1>3 DEF Vote
  <2>2. Vote(ranking, c).num \in Nat /\ Vote(ranking, c).den \in Nat
    BY VoteIsFraction DEF Fraction
  <2> QED
    BY <1>3, <2>1, <2>2
<1> QED
  BY <1>2, <1>3

-----------------------------------------------------------------------------
(* The fused ranking.                                                      *)

LEMMA ScoreIsFraction ==
  ASSUME NEW ids, NEW vec, NEW kw, OneToOne(vec, ids), OneToOne(kw, ids), NEW c
  PROVE  Score(vec, kw, c) \in Fraction
<1>1. Vote(vec, c) \in Fraction /\ Vote(kw, c) \in Fraction
  BY VoteIsFraction
<1>2. \A p, q \in Fraction : Plus(p, q) \in Fraction
  <2> SUFFICES ASSUME NEW p \in Fraction, NEW q \in Fraction PROVE Plus(p, q) \in Fraction
    OBVIOUS
  <2>1. p.num \in Nat /\ q.num \in Nat /\ p.den \in Nat \ {0} /\ q.den \in Nat \ {0}
    BY DEF Fraction
  <2>2. p.num * q.den \in Nat /\ q.num * p.den \in Nat /\ p.den * q.den \in Nat \ {0}
    BY <2>1
  <2>3. p.num * q.den + q.num * p.den \in Nat
    BY <2>2
  <2> QED
    BY <2>2, <2>3 DEF Plus, Fraction
<1> QED
  BY <1>1, <1>2 DEF Score

\* The order of the fused ranking is a strict one, and total: scores that are
\* equal leave it to the ids.
LEMMA AheadIsOrder ==
  ASSUME NEW ids \in SUBSET (Nat \X Nat), NEW vec, NEW kw,
         OneToOne(vec, ids), OneToOne(kw, ids),
         NEW c \in ids, NEW d \in ids, NEW e \in ids
  PROVE  /\ ~ Ahead(vec, kw, c, c)
         /\ Ahead(vec, kw, c, d) /\ Ahead(vec, kw, d, e) => Ahead(vec, kw, c, e)
         /\ c # d => Ahead(vec, kw, c, d) \/ Ahead(vec, kw, d, c)
<1>1. /\ c[1] \in Nat /\ c[2] \in Nat /\ d[1] \in Nat /\ d[2] \in Nat /\ e[1] \in Nat /\ e[2] \in Nat
      /\ c = <<c[1], c[2]>> /\ d = <<d[1], d[2]>>
  OBVIOUS
<1>2. PICK pn \in Nat, pd \in Nat \ {0}, qn \in Nat, qd \in Nat \ {0}, rn \in Nat, rd \in Nat \ {0} :
        /\ pn = Score(vec, kw, c).num /\ pd = Score(vec, kw, c).den
        /\ qn = Score(vec, kw, d).num /\ qd = Score(vec, kw, d).den
        /\ rn = Score(vec, kw, e).num /\ rd = Score(vec, kw, e).den
  <2>1. \A x : Score(vec, kw, x).num \in Nat /\ Score(vec, kw, x).den \in Nat \ {0}
    BY ScoreIsFraction DEF Fraction
  <2> QED
    BY <2>1
<1>3. PICK pq \in Nat, qp \in Nat : pq = pn * qd /\ qp = qn * pd
  OBVIOUS
<1>4. PICK qr \in Nat, rq \in Nat, pr \in Nat, rp \in Nat, pp \in Nat :
        qr = qn * rd /\ rq = rn * qd /\ pr = pn * rd /\ rp = rn * pd /\ pp = pn * pd
  OBVIOUS
<1>5. /\ pq > qp /\ qr >= rq => pr > rp
      /\ pq >= qp /\ qr > rq => pr > rp
      /\ pq = qp /\ qr = rq => pr = rp
  BY <1>3, <1>4, FractionOrder
<1>6. /\ Ahead(vec, kw, c, c) <=> pp > pp \/ (pp = pp /\ (c[1] < c[1] \/ (c[1] = c[1] /\ c[2] < c[2])))
      /\ Ahead(vec, kw, c, d) <=> pq > qp \/ (pq = qp /\ (c[1] < d[1] \/ (c[1] = d[1] /\ c[2] < d[2])))
      /\ Ahead(vec, kw, d, c) <=> qp > pq \/ (qp = pq /\ (d[1] < c[1] \/ (d[1] = c[1] /\ d[2] < c[2])))
      /\ Ahead(vec, kw, d, e) <=> qr > rq \/ (qr = rq /\ (d[1] < e[1] \/ (d[1] = e[1] /\ d[2] < e[2])))
      /\ Ahead(vec, kw, c, e) <=> pr > rp \/ (pr = rp /\ (c[1] < e[1] \/ (c[1] = e[1] /\ c[2] < e[2])))
  BY <1>2, <1>3, <1>4 DEF Ahead
<1>7. ~ Ahead(vec, kw, c, c)
  BY <1>1, <1>6
<1>8. Ahead(vec, kw, c, d) /\ Ahead(vec, kw, d, e) => Ahead(vec, kw, c, e)
  BY <1>1, <1>5, <1>6
<1>9. c # d => Ahead(vec, kw, c, d) \/ Ahead(vec, kw, d, c)
  BY <1>1, <1>6
<1> QED
  BY <1>7, <1>8, <1>9

\* What both rankings prefer is ahead.
LEMMA PreferredIsAhead ==
  ASSUME NEW ids, NEW vec, NEW kw, OneToOne(vec, ids), OneToOne(kw, ids), NEW c, NEW d,
         d \in Ranked(vec) => Before(vec, c, d), d \in Ranked(kw) => Before(kw, c, d),
         d \in Pool(vec, kw)
  PROVE  Ahead(vec, kw, c, d)
<1>1. PICK p \in Fraction, q \in Fraction, r \in Fraction, s \in Fraction :
        /\ p = Vote(vec, c) /\ q = Vote(vec, d) /\ r = Vote(kw, c) /\ s = Vote(kw, d)
  BY VoteIsFraction
<1>2. /\ p.num \in Nat /\ q.num \in Nat /\ r.num \in Nat /\ s.num \in Nat
      /\ p.den \in Nat \ {0} /\ q.den \in Nat \ {0} /\ r.den \in Nat \ {0} /\ s.den \in Nat \ {0}
  BY DEF Fraction
<1>3. p.num * q.den >= q.num * p.den /\ (d \in Ranked(vec) => p.num * q.den > q.num * p.den)
  BY <1>1, EarlierVotesMore
<1>4. r.num * s.den >= s.num * r.den /\ (d \in Ranked(kw) => r.num * s.den > s.num * r.den)
  BY <1>1, EarlierVotesMore
<1>5. (p.num * r.den + r.num * p.den) * (q.den * s.den)
        > (q.num * s.den + s.num * q.den) * (p.den * r.den)
  <2>1. p.num * q.den > q.num * p.den \/ r.num * s.den > s.num * r.den
    BY <1>3, <1>4 DEF Pool
  <2> QED
    BY <1>2, <1>3, <1>4, <2>1, SumsOfFractions
<1>6. /\ Score(vec, kw, c) = [num |-> p.num * r.den + r.num * p.den, den |-> p.den * r.den]
      /\ Score(vec, kw, d) = [num |-> q.num * s.den + s.num * q.den, den |-> q.den * s.den]
  BY <1>1 DEF Score, Plus
<1> QED
  BY <1>5, <1>6 DEF Ahead

LEMMA PoolIsFinite ==
  ASSUME NEW ids, IsFiniteSet(ids), NEW vec, NEW kw, OneToOne(vec, ids), OneToOne(kw, ids)
  PROVE  /\ Pool(vec, kw) \subseteq ids /\ IsFiniteSet(Pool(vec, kw))
         /\ Cardinality(Pool(vec, kw)) \in Nat
<1>1. Ranked(vec) \subseteq ids /\ Ranked(kw) \subseteq ids
  BY DEF OneToOne, Ranked
<1>2. Pool(vec, kw) \in SUBSET ids
  BY <1>1 DEF Pool
<1> QED
  BY <1>2, FS_Subset, FS_CardinalityType

\* Places follow the order, and every place is taken once.
LEMMA PlacesFollowOrder ==
  ASSUME NEW ids \in SUBSET (Nat \X Nat), IsFiniteSet(ids), NEW vec, NEW kw,
         OneToOne(vec, ids), OneToOne(kw, ids)
  PROVE  LET size == Cardinality(Pool(vec, kw)) IN
         /\ \A c \in Pool(vec, kw) : Place(vec, kw, c) \in 1..size
         /\ \A c, d \in Pool(vec, kw) :
              Ahead(vec, kw, c, d) => Place(vec, kw, c) < Place(vec, kw, d)
         /\ \A c, d \in Pool(vec, kw) : Place(vec, kw, c) = Place(vec, kw, d) => c = d
         /\ \A i \in 1..size : \E c \in Pool(vec, kw) : Place(vec, kw, c) = i
<1> DEFINE pool == Pool(vec, kw)
           size == Cardinality(pool)
           earlier(c) == {d \in pool : Ahead(vec, kw, d, c)}
           place == [c \in pool |-> Place(vec, kw, c)]
<1>1. pool \subseteq ids /\ IsFiniteSet(pool) /\ size \in Nat
  BY PoolIsFinite
<1>2. ASSUME NEW c \in pool
      PROVE  /\ IsFiniteSet(earlier(c)) /\ Cardinality(earlier(c)) \in Nat
             /\ c \notin earlier(c) /\ Cardinality(earlier(c)) < size
             /\ Place(vec, kw, c) = 1 + Cardinality(earlier(c))
  <2>1. earlier(c) \in SUBSET pool
    OBVIOUS
  <2>2. c \notin earlier(c)
    BY <1>1, AheadIsOrder
  <2>3. /\ IsFiniteSet(earlier(c)) /\ Cardinality(earlier(c)) \in Nat
        /\ Cardinality(earlier(c)) <= size
        /\ Cardinality(earlier(c)) # size
    <3> HIDE DEF pool, earlier
    <3> QED
      BY <1>1, <2>1, <2>2, FS_Subset, FS_CardinalityType
  <2> QED
    BY <1>1, <2>2, <2>3 DEF Place
<1>3. ASSUME NEW c \in pool, NEW d \in pool, Ahead(vec, kw, c, d)
      PROVE  Place(vec, kw, c) < Place(vec, kw, d)
  <2>1. earlier(c) \in SUBSET earlier(d) /\ c \in earlier(d) /\ c \notin earlier(c)
    <3>1. \A e \in pool : Ahead(vec, kw, e, c) => Ahead(vec, kw, e, d)
      BY <1>1, <1>3, AheadIsOrder
    <3> QED
      BY <1>2, <1>3, <3>1
  <2>2. Cardinality(earlier(c)) <= Cardinality(earlier(d)) /\ Cardinality(earlier(c)) # Cardinality(earlier(d))
    <3>1. IsFiniteSet(earlier(d))
      BY <1>2
    <3> HIDE DEF earlier
    <3> QED
      BY <2>1, <3>1, FS_Subset
  <2>3. Cardinality(earlier(c)) \in Nat /\ Cardinality(earlier(d)) \in Nat
    BY <1>2
  <2>4. Place(vec, kw, c) = 1 + Cardinality(earlier(c)) /\ Place(vec, kw, d) = 1 + Cardinality(earlier(d))
    BY <1>2
  <2> HIDE DEF earlier
  <2> QED
    BY <2>2, <2>3, <2>4
<1>4. \A c \in pool : Place(vec, kw, c) \in 1..size
  <2> SUFFICES ASSUME NEW c \in pool PROVE Place(vec, kw, c) \in 1..size
    OBVIOUS
  <2>1. PICK n \in Nat : n = Cardinality(earlier(c)) /\ n < size /\ Place(vec, kw, c) = 1 + n
    BY <1>2
  <2> HIDE DEF size
  <2> QED
    BY <1>1, <2>1
<1>5. ASSUME NEW c \in pool, NEW d \in pool, Place(vec, kw, c) = Place(vec, kw, d) PROVE c = d
  <2>1. Place(vec, kw, c) \in Nat
    BY <1>1, <1>4
  <2>2. ~ Ahead(vec, kw, c, d) /\ ~ Ahead(vec, kw, d, c)
    BY <1>3, <1>5, <2>1
  <2> QED
    BY <1>1, <2>2, AheadIsOrder
<1>6. \A i \in 1..size : \E c \in pool : Place(vec, kw, c) = i
  <2>1. place \in Injection(pool, 1..size)
    <3>1. place \in [pool -> 1..size]
      BY <1>4
    <3>2. \A c, d \in pool : place[c] = place[d] => c = d
      BY <1>5
    <3> HIDE DEF place
    <3> QED
      BY <3>1, <3>2 DEF Injection, IsInjective
  <2>2. IsFiniteSet(1..size) /\ Cardinality(1..size) = size
    BY <1>1, FS_Interval
  <2>3. place \in Surjection(pool, 1..size)
    <3> HIDE DEF place, pool
    <3> QED
      BY <2>1, <2>2, FS_Injection
  <2> HIDE DEF size
  <2> QED
    BY <2>3 DEF Surjection
<1> QED
  BY <1>3, <1>4, <1>5, <1>6

LEMMA MergedKeepsOrder ==
  ASSUME NEW ids \in SUBSET (Nat \X Nat), IsFiniteSet(ids), NEW vec, NEW kw,
         OneToOne(vec, ids), OneToOne(kw, ids)
  PROVE  /\ OneToOne(Merged(vec, kw), ids)
         /\ Ranked(Merged(vec, kw)) \subseteq Pool(vec, kw)
         /\ \A c, d \in Pool(vec, kw) : Ahead(vec, kw, c, d) => Before(Merged(vec, kw), c, d)
<1> DEFINE pool == Pool(vec, kw)
           size == Cardinality(pool)
           merged == Merged(vec, kw)
<1>1. pool \subseteq ids /\ size \in Nat
  BY PoolIsFinite
<1>2. /\ \A c \in pool : Place(vec, kw, c) \in 1..size
      /\ \A c, d \in pool : Ahead(vec, kw, c, d) => Place(vec, kw, c) < Place(vec, kw, d)
      /\ \A c, d \in pool : Place(vec, kw, c) = Place(vec, kw, d) => c = d
      /\ \A i \in 1..size : \E c \in pool : Place(vec, kw, c) = i
  BY PlacesFollowOrder
<1>3. merged = [i \in 1..size |-> CHOOSE c \in pool : Place(vec, kw, c) = i]
  BY DEF Merged
<1> HIDE DEF pool, size, merged
<1>4. \A i \in 1..size : merged[i] \in pool /\ Place(vec, kw, merged[i]) = i
  BY <1>2, <1>3
<1>5. \A c \in pool : merged[Place(vec, kw, c)] = c
  BY <1>2, <1>4
<1>6. DOMAIN merged = 1..size /\ merged \in [1..size -> ids]
  BY <1>1, <1>3, <1>4
<1>7. OneToOne(merged, ids)
  <2>1. \A i, j \in 1..size : merged[i] = merged[j] => i = j
    BY <1>4
  <2> QED
    BY <1>1, <1>6, <2>1 DEF OneToOne
<1>8. Ranked(merged) \subseteq pool
  BY <1>4, <1>6 DEF Ranked
<1>9. ASSUME NEW c \in pool, NEW d \in pool, Ahead(vec, kw, c, d) PROVE Before(merged, c, d)
  BY <1>2, <1>5, <1>6, <1>9 DEF Before
<1> QED
  BY <1>7, <1>8, <1>9 DEF pool, merged

\* A search over a table, whatever its two rankings.
LEMMA FusedRespectsBoth ==
  ASSUME NEW ids \in SUBSET (Nat \X Nat), IsFiniteSet(ids), NEW byMeaning, NEW byWords,
         OneToOne(byMeaning, ids), OneToOne(byWords, ids)
  PROVE  /\ Len(Fused(byMeaning, byWords)) <= TopK
         /\ \A c, d : /\ Before(byMeaning, c, d)
                      /\ d \in Ranked(byWords) => Before(byWords, c, d)
                      /\ d \in Ranked(Fused(byMeaning, byWords))
                      => Before(Fused(byMeaning, byWords), c, d)
<1> DEFINE vec == AtMostFirst(Candidates, byMeaning)
           kw == AtMostFirst(Candidates, byWords)
           merged == Merged(vec, kw)
<1>1. Candidates \in Nat /\ TopK \in Nat
  BY SearchAssumption
<1>2. OneToOne(vec, ids) /\ OneToOne(kw, ids)
  BY <1>1, FirstOfRanking
<1>3. Fused(byMeaning, byWords) = AtMostFirst(TopK, merged)
  BY DEF Fused, Merged, Pool, Place
<1>4. /\ \A c, d : Before(byMeaning, c, d) /\ d \in Ranked(vec) => Before(vec, c, d)
      /\ \A c, d : Before(byWords, c, d) /\ d \in Ranked(kw) => Before(kw, c, d)
      /\ Ranked(kw) \subseteq Ranked(byWords)
  BY <1>1, FirstOfRanking
<1> HIDE DEF vec, kw
<1>5. /\ OneToOne(merged, ids) /\ Ranked(merged) \subseteq Pool(vec, kw)
      /\ \A c, d \in Pool(vec, kw) : Ahead(vec, kw, c, d) => Before(merged, c, d)
  BY <1>2, MergedKeepsOrder
<1> HIDE DEF merged
<1>6. /\ Len(AtMostFirst(TopK, merged)) <= TopK
      /\ Ranked(AtMostFirst(TopK, merged)) \subseteq Ranked(merged)
      /\ \A c, d : Before(merged, c, d) /\ d \in Ranked(AtMostFirst(TopK, merged))
                     => Before(AtMostFirst(TopK, merged), c, d)
  BY <1>1, <1>5, FirstOfRanking
<1>7. ASSUME NEW c, NEW d, Before(byMeaning, c, d),
             d \in Ranked(byWords) => Before(byWords, c, d),
             d \in Ranked(AtMostFirst(TopK, merged))
      PROVE  Before(AtMostFirst(TopK, merged), c, d)
  <2>1. d \in Pool(vec, kw)
    BY <1>5, <1>6, <1>7
  <2>2. /\ d \in Ranked(vec) => Before(vec, c, d)
        /\ d \in Ranked(kw) => Before(kw, c, d)
    BY <1>4, <1>7
  <2>3. c \in Pool(vec, kw)
    BY <2>1, <2>2 DEF Pool, Before, Ranked
  <2>4. Ahead(vec, kw, c, d)
    BY <1>2, <2>1, <2>2, PreferredIsAhead
  <2> QED
    BY <1>5, <1>6, <1>7, <2>1, <2>3, <2>4
<1> QED
  BY <1>3, <1>6, <1>7

-----------------------------------------------------------------------------
(* The ids of a table, by induction on the pieces of a file.               *)

LEMMA LeastNatural ==
  ASSUME NEW S \in SUBSET Nat, S # {}
  PROVE  \E n \in S : \A m \in S : ~ (m < n)
<1>1. PICK n \in S : \A m \in S : ~ (<<m, n>> \in OpToRel(<, Nat))
  BY NatLessThanWellFounded, WFMin
<1>2. ASSUME NEW m \in S, m < n PROVE <<m, n>> \in OpToRel(<, Nat)
  BY <1>2, Zenon DEF OpToRel
<1> QED
  BY <1>1, <1>2

LEMMA InductiveSetIsNat ==
  ASSUME NEW S \in SUBSET Nat, 0 \in S, \A n \in S : n + 1 \in S
  PROVE  S = Nat
<1>1. CASE Nat \ S = {}
  BY <1>1
<1>2. CASE Nat \ S # {}
  <2>1. PICK n \in Nat \ S : \A m \in Nat \ S : ~ (m < n)
    BY <1>2, LeastNatural
  <2>2. n - 1 \in Nat /\ n - 1 < n
    BY <2>1
  <2>3. (n - 1) + 1 \in S
    BY <2>1, <2>2
  <2> QED
    BY <2>1, <2>3
<1> QED
  BY <1>1, <1>2

\* The recursion of Texts, up to the n-th piece.
UpTo(upTo, n, pieces) ==
  upTo = [i \in 0..n |->
            IF i = 0 THEN <<>>
            ELSE IF pieces[i] = Blank THEN upTo[i - 1] ELSE Append(upTo[i - 1], pieces[i])]

LEMMA UpToExists ==
  ASSUME NEW pieces
  PROVE  \A n \in Nat : \E upTo : UpTo(upTo, n, pieces)
<1> DEFINE S == {n \in Nat : \E upTo : UpTo(upTo, n, pieces)}
<1>1. 0 \in S
  <2>1. UpTo([i \in 0..0 |-> <<>>], 0, pieces)
    BY DEF UpTo
  <2> QED
    BY <2>1
<1>2. ASSUME NEW n \in S PROVE n + 1 \in S
  <2>1. PICK f : UpTo(f, n, pieces)
    OBVIOUS
  <2> DEFINE last == IF pieces[n + 1] = Blank THEN f[n] ELSE Append(f[n], pieces[n + 1])
             g == [i \in 0..(n + 1) |-> IF i = n + 1 THEN last ELSE f[i]]
             h == [i \in 0..(n + 1) |->
                    IF i = 0 THEN <<>>
                    ELSE IF pieces[i] = Blank THEN g[i - 1] ELSE Append(g[i - 1], pieces[i])]
  <2>2. ASSUME NEW i \in 0..(n + 1) PROVE g[i] = h[i]
    <3>1. CASE i = n + 1
      BY <3>1
    <3>2. CASE i # n + 1
      <4>1. i \in 0..n /\ (i # 0 => i - 1 \in 0..n /\ i - 1 \in 0..(n + 1) /\ i - 1 # n + 1)
        BY <3>2
      <4>2. g[i] = f[i] /\ (i # 0 => g[i - 1] = f[i - 1])
        BY <3>2, <4>1
      <4>3. f[i] = IF i = 0 THEN <<>>
                   ELSE IF pieces[i] = Blank THEN f[i - 1] ELSE Append(f[i - 1], pieces[i])
        BY <2>1, <4>1 DEF UpTo
      <4> HIDE DEF g
      <4> QED
        BY <4>2, <4>3
    <3> QED
      BY <3>1, <3>2
  <2>3. g = h
    BY <2>2
  <2>4. UpTo(g, n + 1, pieces)
    <3> HIDE DEF g
    <3> QED
      BY <2>3 DEF UpTo
  <2> QED
    BY <2>4
<1>3. S = Nat
  <2> HIDE DEF S
  <2>1. S \in SUBSET Nat
    BY DEF S
  <2> QED
    BY <1>1, <1>2, <2>1, InductiveSetIsNat
<1> QED
  BY <1>3

LEMMA TextsAreNumbered ==
  ASSUME NEW file \in Files
  PROVE  \E k \in Nat : DOMAIN Texts(file) = 1..k
<1> DEFINE pieces == file.pieces
           some == {pieces[i] : i \in DOMAIN pieces}
           f == CHOOSE upTo : UpTo(upTo, Len(pieces), pieces)
<1>1. pieces \in Seq(some) /\ Len(pieces) \in Nat /\ \A i \in 1..Len(pieces) : pieces[i] \in some
  <2>1. pieces \in Seq(some)
    BY FilesAssumption
  <2> HIDE DEF pieces
  <2> QED
    BY <2>1
<1>2. UpTo(f, Len(pieces), pieces)
  <2>1. \E upTo : UpTo(upTo, Len(pieces), pieces)
    BY <1>1, UpToExists
  <2> QED
    BY <2>1
<1>3. Texts(file) = f[Len(pieces)]
  BY DEF Texts, UpTo
<1> HIDE DEF f, some, pieces
<1> DEFINE S == {n \in Nat : n <= Len(pieces) => f[n] \in Seq(some)}
<1>4. 0 \in S
  BY <1>1, <1>2 DEF UpTo
<1>5. ASSUME NEW n \in S PROVE n + 1 \in S
  <2>1. SUFFICES ASSUME n + 1 <= Len(pieces) PROVE f[n + 1] \in Seq(some)
    OBVIOUS
  <2>2. f[n] \in Seq(some) /\ n + 1 \in 1..Len(pieces) /\ pieces[n + 1] \in some
    BY <1>1, <2>1
  <2>3. f[n + 1] = IF pieces[n + 1] = Blank THEN f[n] ELSE Append(f[n], pieces[n + 1])
    <3>1. n + 1 \in 0..Len(pieces) /\ n + 1 # 0 /\ (n + 1) - 1 = n
      BY <1>1, <2>1
    <3> QED
      BY <1>2, <3>1 DEF UpTo
  <2> QED
    BY <2>2, <2>3
<1>6. S = Nat
  <2> HIDE DEF S
  <2>1. S \in SUBSET Nat
    BY DEF S
  <2> QED
    BY <1>4, <1>5, <2>1, InductiveSetIsNat
<1>7. Texts(file) \in Seq(some)
  BY <1>1, <1>3, <1>6
<1>8. DOMAIN Texts(file) = 1..Len(Texts(file)) /\ Len(Texts(file)) \in Nat
  BY <1>7
<1> QED
  BY <1>8

LEMMA IdsOfCorpus ==
  ASSUME NEW files \in SUBSET Files
  PROVE  /\ DOMAIN LoadCorpus(files) \in SUBSET (Nat \X Nat)
         /\ IsFiniteSet(DOMAIN LoadCorpus(files))
<1> DEFINE sets == {ChunkIds(file) : file \in files}
<1>1. ASSUME NEW file \in files
      PROVE  ChunkIds(file) \subseteq Nat \X Nat /\ IsFiniteSet(ChunkIds(file))
  <2>1. PICK k \in Nat : DOMAIN Texts(file) = 1..k
    BY TextsAreNumbered
  <2>2. file.stem \in Nat
    BY FilesAssumption
  <2>3. IsFiniteSet({file.stem} \X (1..k))
    <3>1. IsFiniteSet({file.stem})
      BY FS_Singleton
    <3>2. IsFiniteSet(1..k)
      BY FS_Interval
    <3> QED
      BY <3>1, <3>2, FS_Product
  <2>4. ChunkIds(file) = {file.stem} \X (1..k)
    BY <2>1 DEF ChunkIds
  <2> QED
    BY <2>2, <2>3, <2>4
<1>2. IsFiniteSet(sets)
  <2>1. IsFiniteSet(files)
    BY FilesAssumption, FS_Subset
  <2> DEFINE idsOf == [file \in files |-> ChunkIds(file)]
  <2>2. idsOf \in Surjection(files, sets)
    BY DEF Surjection
  <2> HIDE DEF idsOf, sets
  <2> QED
    BY <2>1, <2>2, FS_Surjection
<1>3. \A T \in sets : IsFiniteSet(T) /\ T \subseteq Nat \X Nat
  BY <1>1
<1>4. DOMAIN LoadCorpus(files) = UNION sets
  BY DEF LoadCorpus
<1> HIDE DEF sets
<1>5. IsFiniteSet(UNION sets)
  BY <1>2, <1>3, FS_UNION
<1> QED
  BY <1>3, <1>4, <1>5

-----------------------------------------------------------------------------

\* The table holds a whole collection, whatever was ingested.
Loaded == \E files \in SUBSET Files : corpus = LoadCorpus(files)

LEMMA TableStaysLoaded == Loaded /\ [Next]_vars => Loaded'
<1> SUFFICES ASSUME Loaded, [Next]_vars PROVE Loaded'
  OBVIOUS
<1>1. CASE UNCHANGED corpus
  BY <1>1 DEF Loaded
<1>2. ASSUME NEW files \in SUBSET Files, Ingest(files) PROVE Loaded'
  BY <1>2 DEF Loaded, Ingest
<1>3. CASE Step
  <2>1. UNCHANGED corpus
    BY <1>3 DEF Step, BuildContext, CannotBuild, StepEnds, OutOfSteps, ModelFails, CallTools, Answer,
       Return, Found, FoundByFallback, PrimaryFails, FallbackFails, JudgeFails, CheckResult,
       RankChunks, ReadChunks, SearchFails, Now, AttemptFails, FailsAtOnce, table
  <2> QED
    BY <1>1, <2>1
<1>4. CASE UNCHANGED vars
  BY <1>1, <1>4 DEF vars, table
<1> QED
  BY <1>2, <1>3, <1>4 DEF Next

\* Whatever collection is searched and however its two rankings fall out, a
\* search returns what both of them prefer first.
THEOREM FusionIsFair == Spec => []FusionRespectsBoth
<1>1. Init => Loaded
  BY DEF Init, Loaded
<1>2. ASSUME Loaded PROVE FusionRespectsBoth
  <2> DEFINE ids == DOMAIN corpus
  <2>1. ids \in SUBSET (Nat \X Nat) /\ IsFiniteSet(ids) /\ Cardinality(ids) \in Nat
    BY <1>2, IdsOfCorpus, FS_CardinalityType DEF Loaded
  <2> HIDE DEF ids
  <2>2. ASSUME NEW ranking \in Rankings(ids) PROVE OneToOne(ranking, ids)
    <3>1. PICK n \in 0..Cardinality(ids) :
            ranking \in {r \in [1..n -> ids] : \A i, j \in 1..n : r[i] = r[j] => i = j}
      BY <2>2 DEF Rankings
    <3>2. n \in Nat /\ ranking \in [1..n -> ids] /\ \A i, j \in 1..n : ranking[i] = ranking[j] => i = j
      BY <2>1, <3>1
    <3> QED
      BY <3>2, Zenon DEF OneToOne
  <2>3. ASSUME NEW vec \in ByMeaning(ids), NEW kw \in ByWords(ids)
        PROVE  /\ Len(Fused(vec, kw)) <= TopK
               /\ \A c, d \in ids : /\ Before(vec, c, d)
                                    /\ d \in Ranked(kw) => Before(kw, c, d)
                                    /\ d \in Ranked(Fused(vec, kw))
                                    => Before(Fused(vec, kw), c, d)
    <3>1. OneToOne(vec, ids) /\ OneToOne(kw, ids)
      BY <2>2 DEF ByMeaning, ByWords
    <3> QED
      BY <2>1, <3>1, FusedRespectsBoth
  <2> QED
    BY <2>3 DEF FusionRespectsBoth, ids
<1>3. Loaded => FusionRespectsBoth
  BY <1>2
<1> QED
  BY <1>1, <1>3, TableStaysLoaded, PTL DEF Spec
=============================================================================
