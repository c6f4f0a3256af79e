----------------------------- MODULE AgentTurn ------------------------------
(***************************************************************************)
(* The turns of one session: Runner.run_async (runners.py), the loop of    *)
(* the LLM agent it runs (agents/_llm_agent.py), the execution of the tool *)
(* calls of a model answer (agents/core/_tools_processor.py) and what is   *)
(* done to the session when the turn is cancelled or exceeds a limit       *)
(* (cancel/_session_utils.py).                                             *)
(*                                                                         *)
(* The subject is the pairing of function calls with function responses in *)
(* session.events: the next model request is built from them.  An action   *)
(* runs from one yield or await of the agent to the next; the event it     *)
(* yields is appended by the runner before the agent is resumed.  The turn *)
(* may be marked as cancelled, or abandoned (the consumer closes the       *)
(* generator, or its task is cancelled), between any two actions.          *)
(*                                                                         *)
(* Left out: text (only whether there is unsaved partial text), branches,  *)
(* callbacks, code execution, max_iterations (it counts the same           *)
(* iterations as max_llm_calls), the windows and the summaries of the      *)
(* session (SessionObject).  A tool that fails is taken to have requested  *)
(* nothing (no transfer, no skip_summarization).                           *)
(***************************************************************************)
EXTENDS Naturals, Sequences

CONSTANTS
    Agents,     \* the agents of the tree, by name
    Root,       \* the runner's agent
    Unknown,    \* a transfer target that find_agent does not find
    NoAgent,    \* transfer_to_agent is None
    Configs,    \* deployments: see ConfigOK
    NumTurns,   \* bound: turns of the session
    NumCalls,   \* bound: function calls the models issue in all
    MaxBatch    \* bound: function calls in one model answer

\* A deployment: the tools that exist, how they are run, the run limits (0:
\* none).  toolsetsFail: listing the tools of a toolset may raise.
Tools == {"plain", "long_running", "progress"}
ConfigOK(c) ==
    /\ c.tools \subseteq Tools
    /\ c.toolsetsFail \in BOOLEAN
    /\ c.parallel \in BOOLEAN
    /\ c.maxLlmCalls \in Nat
    /\ c.maxToolCalls \in Nat

ASSUME TurnAssumption ==
    /\ Root \in Agents
    /\ {Unknown, NoAgent} \cap Agents = {} /\ Unknown # NoAgent
    /\ \A c \in Configs : ConfigOK(c)
    /\ NumTurns \in Nat /\ NumCalls \in Nat /\ MaxBatch \in Nat

VARIABLES
    conf,      \* the deployment (never changes)
    session,   \* session.events
    turn,      \* number of the current or latest turn: its invocation_id
    outcome,   \* how the latest turn ended, "none" while it runs
    pc,        \* where the generator of the running agent is suspended
    running,   \* current_agent: whose generator the runner is iterating
    agent,     \* invocation_context.agent: the one to iterate next
    requested, \* transfer_requested in run_async
    text,      \* temp_text_parts is not empty
    marked,    \* cancel_run was called for this turn
    todo,      \* calls of the batch still to be executed, in order
    transfer,  \* event_actions.transfer_to_agent, one object for all agents
    skip,      \* event_actions.skip_summarization, the same object
    ending,    \* any_skip_summarization of the batch
    llmCalls, toolCalls,  \* _observed_run_limits of the agent's context
    nextCall,  \* next function call id
    late       \* history variable: tool events stored since the mark

vars == <<conf, session, turn, outcome, pc, running, agent, requested, text,
          marked, todo, transfer, skip, ending, llmCalls, toolCalls, nextCall, late>>
loopVars == <<running, agent, requested, transfer, skip, ending, llmCalls, toolCalls>>

CallIds == 1..NumCalls
Targets == Agents \cup {Unknown}
Event == [turn: 1..NumTurns, calls: SUBSET CallIds, answers: SUBSET CallIds,
          kind: {"user", "model", "tool", "error", "partial_text", "notice"}]

TypeOK ==
    /\ conf \in Configs
    /\ session \in Seq(Event)
    /\ turn \in 0..NumTurns
    /\ outcome \in {"none", "done", "cancelled", "limit", "abandoned",
                   "no_target"}
    /\ pc \in {"idle", "top", "model", "said", "answered", "tools", "ran", "ended"}
    /\ {running, agent} \subseteq Agents
    /\ transfer \in Targets \cup {NoAgent}
    /\ {requested, text, marked, skip, ending} \subseteq BOOLEAN
    /\ todo \in Seq([id: CallIds, tool: Tools])
    /\ llmCalls \in Nat /\ toolCalls \in Nat
    /\ nextCall \in 1..(NumCalls + 1)
    /\ late \in Nat

Init ==
    /\ conf \in Configs
    /\ session = <<>> /\ turn = 0 /\ outcome = "none" /\ pc = "idle"
    /\ running = Root /\ agent = Root /\ requested = FALSE /\ text = FALSE /\ marked = FALSE
    /\ todo = <<>> /\ transfer = NoAgent /\ skip = FALSE /\ ending = FALSE
    /\ llmCalls = 0 /\ toolCalls = 0 /\ nextCall = 1 /\ late = 0

-----------------------------------------------------------------------------
\* The pairing of calls and answers in a session.
CallsOf(s) == UNION {s[i].calls : i \in DOMAIN s}
AnswersOf(s) == UNION {s[i].answers : i \in DOMAIN s}
Open(s) == CallsOf(s) \ AnswersOf(s)
TurnCalls(s, t) == UNION {s[i].calls : i \in {k \in DOMAIN s : s[k].turn = t}}
TurnAnswers(s, t) == UNION {s[i].answers : i \in {k \in DOMAIN s : s[k].turn = t}}
OpenIn(s, t) == TurnCalls(s, t) \ TurnAnswers(s, t)
Ids(q) == {q[i].id : i \in DOMAIN q}

Ev(kind, calls, answers) ==
    [turn |-> turn, calls |-> calls, answers |-> answers, kind |-> kind]
Plain(kind) == Ev(kind, {}, {})

\* Mutant of WithoutOpenCalls: calls are removed, answered or not.
WithoutAnyCalls(s, ts) ==
    [i \in DOMAIN s |->
        IF s[i].turn \in ts THEN [s[i] EXCEPT !.calls = {}] ELSE s[i]]

\* Mutant of WithoutOpenCalls: only the latest turn is cleaned.
WithoutOwnOpenCalls(s, ts) ==
    [i \in DOMAIN s |->
        IF s[i].turn = turn THEN [s[i] EXCEPT !.calls = @ \ Open(s)] ELSE s[i]]

\* cleanup_incomplete_function_calls: the events of the turns ts lose the
\* calls that no event of the session answers.
WithoutOpenCalls(s, ts) ==
    [i \in DOMAIN s |->
        IF s[i].turn \in ts THEN [s[i] EXCEPT !.calls = @ \ Open(s)] ELSE s[i]]

-----------------------------------------------------------------------------
\* run_async up to the loop: a new context, no partial text, the user message
\* appended, the run registered with a clear cancellation flag.
BeginTurn ==
    /\ pc = "idle" /\ turn < NumTurns
    /\ turn' = turn + 1
    /\ session' = Append(session, [Plain("user") EXCEPT !.turn = turn + 1])
    /\ outcome' = "none" /\ pc' = "top" /\ running' = Root /\ agent' = Root
    /\ requested' = FALSE /\ text' = FALSE /\ marked' = FALSE /\ late' = 0
    /\ todo' = <<>> /\ transfer' = NoAgent /\ skip' = FALSE /\ ending' = FALSE
    /\ llmCalls' = 0 /\ toolCalls' = 0
    /\ UNCHANGED <<conf, nextCall>>

\* A caller of cancel_run_async marks the turn.
Mark ==
    /\ pc # "idle" /\ ~marked
    /\ marked' = TRUE
    /\ UNCHANGED <<conf, session, turn, outcome, pc, loopVars, text, todo,
                   nextCall, late>>

EndTurn(how, s) ==
    /\ pc' = "idle" /\ outcome' = how /\ session' = s
    /\ marked' = FALSE /\ todo' = <<>> /\ text' = FALSE
    /\ UNCHANGED <<conf, turn, loopVars, nextCall, late>>

\* GeneratorExit at a yield, asyncio.CancelledError at an await, or another
\* exception: only the finally clause (cleanup_run) runs, the session stays.
Abandon == pc # "idle" /\ EndTurn("abandoned", session)

\* Mutant of LimitReached: the exception is only re-raised.
LimitReachedRaises == EndTurn("limit", session)

\* RunLimitException: the calls of this invocation are cleaned, the session
\* is saved, the exception goes to the caller.
LimitReached == EndTurn("limit", WithoutOpenCalls(session, {turn}))

\* RunCancelledException at a checkpoint.  With partial text pending the text
\* is appended and nothing else is done; without, the open calls of the WHOLE
\* session are removed and a notice is appended.
AtCheckpoint == pc \in {"top", "said", "answered", "ran"}
Cancelled ==
    /\ AtCheckpoint /\ marked
    /\ EndTurn("cancelled",
          IF text
          THEN Append(session, Plain("partial_text"))
          ELSE Append(WithoutOpenCalls(session, 1..turn), Plain("notice")))

-----------------------------------------------------------------------------
\* The iteration starts: limits, build_request, the model call.
CallModel ==
    /\ pc = "top" /\ ~marked
    /\ IF conf.maxLlmCalls > 0 /\ llmCalls + 1 > conf.maxLlmCalls
       THEN LimitReached
       ELSE /\ pc' = "model" /\ llmCalls' = llmCalls + 1
            /\ UNCHANGED <<conf, session, turn, outcome, running, agent, requested,
                           text, marked, todo, transfer, skip, ending, toolCalls,
                           nextCall, late>>

\* A partial event of the model, then a checkpoint.
Say ==
    /\ pc = "model"
    /\ pc' = "said" /\ text' = TRUE
    /\ UNCHANGED <<conf, session, turn, outcome, loopVars, marked, todo,
                   nextCall, late>>

\* Mutant of SayMore: no checkpoint after a partial event.
SayMoreUnchecked ==
    /\ pc = "said"
    /\ pc' = "model"
    /\ UNCHANGED <<conf, session, turn, outcome, loopVars, text, marked, todo,
                   nextCall, late>>

SayMore ==
    /\ pc = "said" /\ ~marked
    /\ pc' = "model"
    /\ UNCHANGED <<conf, session, turn, outcome, loopVars, text, marked, todo,
                   nextCall, late>>

\* The complete answer of the model with its function calls, numbered in the
\* order they will be executed: the progress-streaming tools after all others.
Answer ==
    \E tools \in UNION {[1..n -> conf.tools] : n \in 0..MaxBatch} :
        LET calls == [i \in 1..Len(tools) |->
                        [id |-> nextCall + i - 1, tool |-> tools[i]]]
        IN
        /\ pc = "model"
        /\ \A i, k \in DOMAIN tools :
              i < k /\ tools[i] = "progress" => tools[k] = "progress"
        /\ nextCall + Len(tools) <= NumCalls + 1
        /\ pc' = "answered" /\ text' = FALSE
        /\ session' = Append(session, Ev("model", Ids(calls), {}))
        /\ todo' = calls
        /\ nextCall' = nextCall + Len(tools)
        /\ UNCHANGED <<conf, turn, outcome, loopVars, marked, late>>

\* An error event ends the agent; partial text stays pending.
FailWithEvent ==
    /\ pc' = "ended" /\ todo' = <<>>
    /\ session' = Append(session, Plain("error"))
    /\ UNCHANGED <<conf, turn, outcome, loopVars, text, marked, nextCall, late>>

\* The request cannot be built, or the model fails.
ModelFails ==
    /\ pc = "model" \/ (pc = "top" /\ ~marked)
    /\ FailWithEvent

FinalAnswer ==
    /\ pc = "answered" /\ ~marked /\ todo = <<>>
    /\ pc' = "ended"
    /\ UNCHANGED <<conf, session, turn, outcome, loopVars, text, marked, todo,
                   nextCall, late>>

-----------------------------------------------------------------------------
\* The batch starts: the limit counts all of its calls at once, the tools are
\* looked up (an exception there becomes an error event).
StartTools ==
    /\ pc = "answered" /\ ~marked /\ todo # <<>>
    /\ IF conf.maxToolCalls > 0 /\ toolCalls + Len(todo) > conf.maxToolCalls
       THEN LimitReached
       ELSE \/ /\ pc' = "tools" /\ ending' = FALSE
               /\ toolCalls' = toolCalls + Len(todo)
               /\ UNCHANGED <<conf, session, turn, outcome, running, agent,
                              requested, text, marked, todo, transfer, skip,
                              llmCalls, nextCall, late>>
            \/ conf.toolsetsFail /\ FailWithEvent

\* The calls that are executed before the next event, the first n to be done:
\* one, or with parallel_tool_calls all those that are not progress-streaming.
IsGroup(n) ==
    IF conf.parallel /\ Head(todo).tool # "progress"
    THEN \A i \in DOMAIN todo : i <= n <=> todo[i].tool # "progress"
    ELSE n = 1

\* A tool event with the answers of the next n calls is appended; it carries
\* whatever event_actions holds by now, except when a single call failed.
\* target, skips: what these tools asked for.  The runner then handles a
\* transfer (to an agent nobody finds: an error event, and run_async returns,
\* calls left or not); after the answer of a long-running tool the agent returns.
ToolEvent(n, failed, target, skips) ==
    LET done == SubSeq(todo, 1, n)
        stored == Append(session, Ev("tool", {}, Ids(done)))
        carried == CASE failed             -> NoAgent
                     [] target # NoAgent   -> target
                     [] OTHER              -> transfer
    IN
    IF carried = Unknown
    THEN EndTurn("no_target", Append(stored, Plain("error")))
    ELSE /\ transfer' = IF target = NoAgent THEN transfer ELSE target
         /\ skip' = (skip \/ skips)
         /\ ending' = (ending \/ (~failed /\ skip'))
         /\ text' = (text /\ failed)
         /\ todo' = SubSeq(todo, n + 1, Len(todo))
         /\ pc' = IF \E i \in 1..n : todo[i].tool = "long_running"
                  THEN "ended" ELSE "ran"
         /\ late' = late + (IF marked THEN 1 ELSE 0)
         /\ requested' = (requested \/ carried # NoAgent)
         /\ agent' = IF carried \in {NoAgent, running} THEN agent ELSE carried
         /\ session' = IF carried = running
                       THEN Append(stored, Plain("notice")) ELSE stored
         /\ UNCHANGED <<conf, turn, outcome, running, marked, llmCalls,
                        toolCalls, nextCall>>

RunTools ==
    /\ pc = "tools"
    /\ \E n \in 1..Len(todo) :
          /\ IsGroup(n)
          /\ \/ n = 1 /\ ToolEvent(n, TRUE, NoAgent, FALSE)
             \/ \E target \in Targets \cup {NoAgent}, skips \in BOOLEAN :
                    ToolEvent(n, FALSE, target, skips)

\* An agent run by the tool exceeds a limit: the exception passes through,
\* the answers of the group's other calls are lost.
ToolLimit == pc = "tools" /\ LimitReached

\* A progress-streaming tool yields: a partial event with text.
Progress ==
    /\ pc = "tools" /\ Head(todo).tool = "progress"
    /\ pc' = "ran" /\ text' = TRUE
    /\ UNCHANGED <<conf, session, turn, outcome, loopVars, marked, todo,
                   nextCall, late>>

\* Mutant of NextTool: a transfer ends the agent before its batch is done.
NextToolStopsAtTransfer ==
    /\ pc = "ran" /\ ~marked /\ todo # <<>>
    /\ pc' = IF transfer = NoAgent THEN "tools" ELSE "ended"
    /\ UNCHANGED <<conf, session, turn, outcome, loopVars, text, marked, todo,
                   nextCall, late>>

NextTool ==
    /\ pc = "ran" /\ ~marked /\ todo # <<>>
    /\ pc' = "tools"
    /\ UNCHANGED <<conf, session, turn, outcome, loopVars, text, marked, todo,
                   nextCall, late>>

\* After the last tool event: a transfer (the action is cleared) or
\* skip_summarization (or set_model_response, which ends it the same way) ends
\* the agent, otherwise the model is called again.
BatchDone ==
    /\ pc = "ran" /\ ~marked /\ todo = <<>>
    /\ pc' = IF transfer # NoAgent \/ ending THEN "ended" ELSE "top"
    /\ transfer' = NoAgent
    /\ UNCHANGED <<conf, session, turn, outcome, running, agent, requested, text,
                   marked, todo, skip, ending, llmCalls, toolCalls, nextCall,
                   late>>

\* Mutant of HandOver: the next agent is taken from the transfer action.
HandOverToAction ==
    /\ pc = "ended" /\ requested
    /\ pc' = "top" /\ running' = transfer /\ requested' = FALSE
    /\ llmCalls' = 0 /\ toolCalls' = 0 /\ todo' = <<>>
    /\ UNCHANGED <<conf, session, turn, outcome, agent, text, marked, transfer,
                   skip, ending, nextCall, late>>

\* The agent's generator is exhausted: run the transfer target in a context
\* of its own, or end the turn (post-turn work is not part of this module).
HandOver ==
    /\ pc = "ended" /\ requested
    /\ pc' = "top" /\ running' = agent /\ requested' = FALSE
    /\ llmCalls' = 0 /\ toolCalls' = 0 /\ todo' = <<>>
    /\ UNCHANGED <<conf, session, turn, outcome, agent, text, marked, transfer,
                   skip, ending, nextCall, late>>

Finish == pc = "ended" /\ ~requested /\ EndTurn("done", session)

-----------------------------------------------------------------------------
AgentStep ==
    \/ Cancelled \/ CallModel \/ Say \/ SayMore \/ Answer \/ ModelFails
    \/ FinalAnswer \/ StartTools \/ RunTools \/ ToolLimit \/ Progress
    \/ NextTool \/ BatchDone \/ HandOver \/ Finish

Next == BeginTurn \/ Mark \/ Abandon \/ AgentStep

Spec == Init /\ [][Next]_vars

\* The event loop keeps running the turn; models and tools return or yield.
FairSpec == Spec /\ WF_vars(AgentStep)

-----------------------------------------------------------------------------
\* A turn cancelled while no partial text was pending leaves no call of the
\* session unanswered, those of earlier turns included
\* (cleanup_incomplete_function_calls without an invocation id).
NoticeClosesSession ==
    (outcome = "cancelled" /\ session[Len(session)].kind = "notice")
    => Open(session) = {}

\* A turn stopped by a run limit leaves none of its own calls unanswered.
LimitClosesTurn == outcome = "limit" => OpenIn(session, turn) = {}

\* Once a turn is marked at most one more tool event is stored.
OneToolAfterMark == late <= 1

\* Without long-running tools (the agent returns before it clears the action):
\* a pending transfer action always has the runner's hand-over to go with it,
\* so no agent ends for the transfer of another.
TransferHandsOver ==
    ("long_running" \notin conf.tools /\ pc # "idle")
    => (transfer # NoAgent => requested)

\* A turn that is stopped from outside leaves the session such that the next
\* one can begin on it: no call open, and no tools run after the mark; and an
\* agent that stops for a transfer stops for its own.
StopsCleanly ==
    NoticeClosesSession /\ LimitClosesTurn /\ OneToolAfterMark /\ TransferHandsOver

\* Nothing the turns do, cleanup included, leaves an answer without its call
\* before it, and no call is answered twice.
AnswerFollowsCall ==
    \A i \in DOMAIN session : \A id \in session[i].answers :
        /\ \E k \in 1..(i - 1) : id \in session[k].calls
        /\ \A k \in DOMAIN session : id \in session[k].answers => k = i

\* A tool event ends no batch early when there are no long-running tools, and
\* no toolset fails: then each request of a turn reaches the model with every
\* call the turn has issued answered, and a turn that ends by itself leaves
\* nothing unanswered, through transfers, limits and failures of tools.
CutsShort == "long_running" \in conf.tools \/ conf.toolsetsFail
ModelSeesAnswers ==
    (~CutsShort /\ (pc = "model" \/ outcome = "done"))
    => OpenIn(session, turn) = {}

\* Calls and answers of the session stay paired, and the model sees the pairs.
CallsAreAnswered == AnswerFollowsCall /\ ModelSeesAnswers

\* A marked turn ends, whatever the model and the tools do.
MarkedTurnEnds == marked ~> pc = "idle"

\* cancel/_session_utils.py: after a cancellation "incomplete calls should be
\* removed from the session to maintain consistency for subsequent
\* conversations".
CancelLeavesNoOpenCall == outcome = "cancelled" => Open(session) = {}
=============================================================================
