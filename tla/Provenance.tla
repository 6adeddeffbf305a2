----------------------------- MODULE Provenance -----------------------------
(***************************************************************************)
(* Which facts a book may be grounded in (retrieval/provenance.py).        *)
(*                                                                         *)
(* A fact cites an id and asserts a source.  The id is looked up, in the   *)
(* chunk store or in the run's web ledger, and the asserted source is      *)
(* overwritten from what was found: a model cannot name its own source.    *)
(*                                                                         *)
(*   fact    [cites, source]                                               *)
(*   store   a function from the ids of stored chunks to [kind, source]    *)
(*   ledger  NoLedger, or a function from ids to [verified, source]        *)
(*                                                                         *)
(* Web ids are told from chunk ids by their prefix; here, by membership in *)
(* the constant WebId.                                                     *)
(***************************************************************************)
CONSTANTS
  WebId,      \* the ids that start with "web:"
  NoLedger    \* the web tool is off, or the run that searched is over

\* A mutant: a page that was recorded need not have been checked.
VouchedByWeb_Unchecked(fact, ledger) ==
  ledger # NoLedger /\ fact.cites \in DOMAIN ledger

\* The record that vouches for a fact, when there is one.
VouchedByWeb(fact, ledger) ==
  /\ ledger # NoLedger
  /\ fact.cites \in DOMAIN ledger
  /\ ledger[fact.cites].verified

VouchedByStore(fact, store) ==
  /\ fact.cites \in DOMAIN store
  /\ store[fact.cites].kind = "fact"

Vouched(fact, store, ledger) ==
  IF fact.cites \in WebId THEN VouchedByWeb(fact, ledger)
                          ELSE VouchedByStore(fact, store)

\* A mutant: the claimed source is kept.
SourceOnRecord_AsClaimed(fact, store, ledger) == fact.source

\* The source on record, which replaces the one the fact asserts.
SourceOnRecord(fact, store, ledger) ==
  IF fact.cites \in WebId THEN ledger[fact.cites].source
                          ELSE store[fact.cites].source

DropUnprovenanced(facts, store, ledger) ==
  { [fact EXCEPT !.source = SourceOnRecord(fact, store, ledger)] :
      fact \in {f \in facts : Vouched(f, store, ledger)} }
=============================================================================
