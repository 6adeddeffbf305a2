--------------------------- MODULE MCStoryWorkflow ---------------------------
(***************************************************************************)
(* A small instance of StoryWorkflow: two pages, two rewrites, critics     *)
(* that return at most one finding (the counted one comes on top, so a     *)
(* draft scores 0 to 2), and a caller whose grounding may cite a fact, a   *)
(* craft note, a chunk the corpus lacks and a web page.                    *)
(***************************************************************************)
EXTENDS StoryWorkflow

CONSTANTS fact, craft, unknown, web, corpus, forged

MCStore == [id \in {fact, craft} |->
              [kind |-> IF id = fact THEN "fact" ELSE "craft", source |-> corpus]]

MCFacts == {[cites |-> fact, source |-> forged], [cites |-> craft, source |-> corpus],
            [cites |-> unknown, source |-> forged], [cites |-> web, source |-> forged]}

MCWebId == {web}
=============================================================================
