---------------------------- MODULE ClientSession ----------------------------
(***************************************************************************)
(* The terminal client (mcp/client/): a model that plays an MCP client is  *)
(* given what a person types, and may answer, say nothing, or ask for      *)
(* tools, for a limited number of turns (session.py, send; repl.py).       *)
(* Without --execute the expensive tools are looked at and not run: the    *)
(* turn ends, so that the model is never told a stand-in result.           *)
(*                                                                         *)
(* The server's other clients call it meanwhile.  Of the history, what is  *)
(* kept is which of the calls in it have no ToolMessage: providers refuse  *)
(* a history in which a call was left unanswered.                          *)
(***************************************************************************)
EXTENDS ChildMemory

CONSTANTS
  Repl,            \* the caller that is this client
  MaxToolTurns,    \* MAX_TOOL_TURNS
  MaxEmptyRetries, \* _MAX_EMPTY_RETRIES
  InspectOnly,     \* INSPECT_ONLY
  MaxBatch,        \* bound: calls of one reply
  MaxLines         \* bound: lines a person types

ASSUME ReplAssumption == Repl \in Caller
ASSUME TurnsAssumption == MaxToolTurns \in Nat \ {0} /\ MaxEmptyRetries \in Nat
ASSUME BatchAssumption == MaxBatch \in Nat \ {0} /\ MaxLines \in Nat

VARIABLES
  execute,    \* --execute
  at,         \* where the client is
  lines,      \* lines typed
  turn,       \* turns of the model in this send
  nudges,     \* times it was nudged in this send
  batch,      \* the calls of its last reply
  ran,        \* how many of them were run
  open,       \* calls of the history without an answer
  said        \* what the send returned

client == <<execute, at, lines, turn, nudges, batch, ran, open, said>>
vars == <<server, client>>

Said == {"nothing_yet", "text", "said_nothing", "withheld", "stopped", "raised"}

Batches == UNION {[1..n -> Tool] : n \in 1..MaxBatch}

Init ==
  /\ ServerInit
  /\ execute \in BOOLEAN
  /\ at = "prompt"
  /\ lines = 0 /\ turn = 0 /\ nudges = 0
  /\ batch = <<>> /\ ran = 0
  /\ open = {}
  /\ said = "nothing_yet"

\* A person types; the message joins the history.  An empty line, a listing or
\* a command that is not one goes nowhere, and /prompt/ sends like a message.
Type ==
  /\ at = "prompt"
  /\ lines < MaxLines
  /\ lines' = lines + 1
  /\ at' = "model" /\ said' = "nothing_yet"
  /\ UNCHANGED <<server, execute, turn, nudges, batch, ran, open>>

Quit ==
  /\ at = "prompt"
  /\ at' = "quit" /\ said' = "nothing_yet"
  /\ UNCHANGED <<server, execute, lines, turn, nudges, batch, ran, open>>

Returns(what) ==
  /\ at' = "prompt" /\ said' = what
  /\ turn' = 0 /\ nudges' = 0 /\ batch' = <<>> /\ ran' = 0

\* What ainvoke raises ends the send, and the REPL prompts again.  A provider
\* may refuse a history with an open call, and no other.
ModelRaises ==
  /\ at = "model"
  /\ Returns("raised")
  /\ UNCHANGED <<server, execute, lines, open>>

ReplyText ==
  /\ at = "model"
  /\ Returns("text")
  /\ UNCHANGED <<server, execute, lines, open>>

\* A mutant: only nudges use the turns up.
NextTurn_ToolsAreFree(nudged) ==
  IF turn + nudged = MaxToolTurns THEN Returns("stopped")
  ELSE /\ at' = "model" /\ turn' = turn + nudged /\ nudges' = nudges + nudged
       /\ batch' = <<>> /\ ran' = 0
       /\ UNCHANGED said

\* The loop goes round, or was used up.
NextTurn(nudged) ==
  IF turn + 1 = MaxToolTurns THEN Returns("stopped")
  ELSE /\ at' = "model" /\ turn' = turn + 1 /\ nudges' = nudges + nudged
       /\ batch' = <<>> /\ ran' = 0
       /\ UNCHANGED said

\* Neither text nor a call: one nudge, and then the client says so.
ReplyNothing ==
  /\ at = "model"
  /\ IF nudges < MaxEmptyRetries THEN NextTurn(1) ELSE Returns("said_nothing")
  /\ UNCHANGED <<server, execute, lines, open>>

\* A mutant: the turn is ended only when all of it is to be withheld.
Withheld_All(asked) == ~execute /\ \A i \in DOMAIN asked : asked[i] \in InspectOnly

Withheld(asked) == ~execute /\ \E i \in DOMAIN asked : asked[i] \in InspectOnly

\* Calls are appended to the history with the reply; one that is withheld ends
\* the turn for all of them.
ReplyCalls(asked) ==
  /\ at = "model"
  /\ open' = open \cup {<<lines, turn, i>> : i \in DOMAIN asked}
  /\ IF Withheld(asked) THEN Returns("withheld")
     ELSE /\ at' = "execute" /\ batch' = asked /\ ran' = 0
          /\ UNCHANGED <<turn, nudges, said>>
  /\ UNCHANGED <<server, execute, lines>>

\* Every call in its order, whatever it was for.
CallTool(child) ==
  /\ at = "execute"
  /\ ran < Len(batch)
  /\ Begin(Repl, batch[ran + 1], child)
  /\ at' = "waiting"
  /\ UNCHANGED <<execute, lines, turn, nudges, batch, ran, open, said>>

\* A call the server refuses before it is one: bad arguments.
CallRefused ==
  /\ at = "execute"
  /\ ran < Len(batch)
  /\ ran' = ran + 1
  /\ open' = open \ {<<lines, turn, ran + 1>>}
  /\ UNCHANGED <<server, execute, at, lines, turn, nudges, batch, said>>

\* A mutant: only a result is put back, not an error.
Answered_ResultsOnly ==
  IF call[Repl].outcome = "ok" THEN open \ {<<lines, turn, ran + 1>>} ELSE open

Answered == open \ {<<lines, turn, ran + 1>>}

\* _record: an answer or an error becomes the call's ToolMessage.
RecordCall ==
  /\ at = "waiting"
  /\ call[Repl].at = "answered"
  /\ at' = "execute"
  /\ ran' = ran + 1
  /\ open' = Answered
  /\ UNCHANGED <<server, execute, lines, turn, nudges, batch, said>>

BatchDone ==
  /\ at = "execute"
  /\ ran = Len(batch)
  /\ NextTurn(0)
  /\ UNCHANGED <<server, execute, lines, open>>

\* Another client's call.
OtherCalls(c, tool, child) ==
  /\ c # Repl
  /\ Begin(c, tool, child)
  /\ UNCHANGED client

Step ==
  \/ ModelRaises \/ ReplyText \/ ReplyNothing
  \/ \E asked \in Batches : ReplyCalls(asked)
  \/ \E child \in Scope : CallTool(child)
  \/ CallRefused \/ RecordCall \/ BatchDone

Next ==
  \/ Type \/ Quit
  \/ Step
  \/ \E c \in Caller : Serve(c) /\ UNCHANGED client
  \/ \E c \in Caller, tool \in Tool, child \in Scope : OtherCalls(c, tool, child)

\* The model answers or raises, and the server answers every call; nobody has
\* to type.
Spec ==
  /\ Init /\ [][Next]_vars
  /\ WF_vars(Step)
  /\ WF_vars(Serve(Repl) /\ UNCHANGED client)

-----------------------------------------------------------------------------
(* Properties.                                                             *)

\* Every variable stays in its type.
TypeOK ==
  /\ ServerTypeOK
  /\ execute \in BOOLEAN
  /\ at \in {"prompt", "model", "execute", "waiting", "quit"}
  /\ lines \in 0..MaxLines /\ turn \in 0..MaxToolTurns
  /\ nudges \in 0..MaxEmptyRetries
  /\ batch \in Batches \cup {<<>>} /\ ran \in 0..Len(batch)
  /\ open \subseteq (1..MaxLines) \X (0..MaxToolTurns) \X (1..MaxBatch)
  /\ said \in Said

\* With --execute the model is never handed a history with an unanswered call,
\* whether calls fail, are refused or end the turns: no conversation dies of a
\* bad call.  Without it, only withheld turns leave calls open.
HistoryIsAnswered ==
  at = "model" => \A o \in open : ~execute /\ o[1] < lines

\* Inspecting spends nothing: without --execute this client starts no
\* expensive call, and nothing that was asked for beside one.
InspectingSpendsNothing ==
  (~execute /\ at \in {"execute", "waiting"}) =>
    \A i \in DOMAIN batch : batch[i] \notin InspectOnly

\* Every message comes back to the prompt, though the model may call tools,
\* fail or keep silent without end.
SendReturns == at # "prompt" ~> at \in {"prompt", "quit"}
=============================================================================
