-------------------------- MODULE MCOutlineWorkflow --------------------------
(***************************************************************************)
(* A small instance of OutlineWorkflow: one character with two looks, two  *)
(* claims (a fact of the corpus under a forged source and a web page), and *)
(* a ledger that has checked the page or has not, or never had it.         *)
(***************************************************************************)
EXTENDS OutlineWorkflow

CONSTANTS fact, web, corpus, url, forged

MCStore == [id \in {fact} |-> [kind |-> "fact", source |-> corpus]]

MCFacts == {[cites |-> fact, source |-> forged], [cites |-> web, source |-> forged]}

MCWebId == {web}

MCLedgers == {[id \in {} |-> fact]} \cup
             {[id \in {web} |-> [verified |-> v, source |-> url]] : v \in BOOLEAN}

MCUnasked ==
  {[grounding |-> NoGrounding, conflicts |-> {}],
   [grounding |-> {[cites |-> fact, source |-> forged]},
    conflicts |-> {[subject |-> "kit", stored |-> "never", new |-> "never"]}]}
=============================================================================
