----------------------------- MODULE ChatAgent -----------------------------
(***************************************************************************)
(* run_agent of hiterm-gui/src/ai_chat_engine: the background thread that  *)
(* answers one question.  It calls the model in rounds, runs the tools the *)
(* model asks for, and reports through an mpsc channel.  A mutating tool   *)
(* waits, ten minutes at most, on a rendezvous channel for the user.       *)
(*                                                                         *)
(* Every question is a stream with a thread, a channel and a cancel flag   *)
(* of its own; a cancelled thread lives on until it notices.  Prompts,     *)
(* compaction and summarization change only what is sent to the model and  *)
(* are left out.  The reader of the channels is module AiChat.             *)
(***************************************************************************)
EXTENDS Naturals, Sequences

CONSTANTS
  MaxStreams,   \* bound: questions asked
  MaxRounds,    \* MAX_AGENT_ROUNDS
  MaxTokens,    \* bound: chunks of text per round
  MaxTools      \* bound: tool calls per round

ASSUME AgentAssumption ==
  /\ MaxStreams \in Nat /\ MaxRounds \in Nat \ {0}
  /\ MaxTokens \in Nat /\ MaxTools \in Nat \ {0}

Streams == 1..MaxStreams

VARIABLES
  agent,     \* what each thread is doing
  chan,      \* the messages in each channel
  tokenRx,   \* the stream whose receiver the overlay holds, 0 if none
  cancelled, \* the streams whose cancel flag is set
  hist       \* history: what was asked, approved, run and shown

agentVars == <<agent, chan, tokenRx, cancelled, hist>>

AgentState == {"none", "round", "model", "tools", "waiting", "approved", "rejected", "free",
               "exec", "exited"}

(* A StreamMsg; n is the round of a token and the number of a request. *)
Msg(type, n) == [type |-> type, n |-> n]
StreamMsg == [type : {"start", "token", "toolStart", "toolDone", "toolFailed", "approval",
                      "done", "err"}, n : Nat]

AgentTypeOK ==
  /\ agent \in [Streams -> [at : AgentState, tools : BOOLEAN, round : 0..MaxRounds,
                            said : 0..(MaxTokens + 1), calls : 0..MaxTools, asked : Nat]]
  /\ chan \in [Streams -> Seq(StreamMsg)]
  /\ tokenRx \in 0..MaxStreams
  /\ cancelled \subseteq Streams

AgentInit ==
  /\ agent = [s \in Streams |-> [at |-> "none", tools |-> FALSE, round |-> 0, said |-> 0,
                                 calls |-> 0, asked |-> 0]]
  /\ chan = [s \in Streams |-> <<>>]
  /\ tokenRx = 0
  /\ cancelled = {}
  /\ hist = [btw |-> {}, sent |-> {}, yes |-> {}, ran |-> {}]

-----------------------------------------------------------------------------
(* tx.send: lost without a trace once the receiver is gone. *)
Send(s, ms) == chan' = IF tokenRx = s THEN [chan EXCEPT ![s] = @ \o ms] ELSE chan

At(s, state) == agent[s].at = state
GoTo(s, state) == agent' = [agent EXCEPT ![s].at = state]
NextCall(s) == agent' = [agent EXCEPT ![s].at = "tools", ![s].calls = @ - 1]

(* Mutant: one round too many. *)
StartRoundOffByOne(s) ==
  /\ At(s, "round")
  /\ s \notin cancelled
  /\ agent[s].round <= MaxRounds
  /\ agent' = [agent EXCEPT ![s].at = "model", ![s].said = 0]
  /\ UNCHANGED <<chan, tokenRx, cancelled, hist>>

(* The top of the round loop. *)
StartRound(s) ==
  /\ At(s, "round")
  /\ s \notin cancelled
  /\ agent[s].round < MaxRounds
  /\ agent' = [agent EXCEPT ![s].at = "model", ![s].said = 0]
  /\ UNCHANGED <<chan, tokenRx, cancelled, hist>>

(* Out of the loop: no round is left, or the flag was seen at its top. *)
HitRoundLimit(s) ==
  /\ At(s, "round")
  /\ s \in cancelled \/ agent[s].round = MaxRounds
  /\ Send(s, <<Msg("err", 0), Msg("done", 0)>>)
  /\ GoTo(s, "exited")
  /\ UNCHANGED <<tokenRx, cancelled, hist>>

(* chat_step calls back: the first text or reasoning of the round opens a  *)
(* message, text is sent on.  said counts both.                            *)
ModelSpeaks(s) ==
  /\ At(s, "model")
  /\ agent[s].said <= MaxTokens
  /\ agent' = [agent EXCEPT ![s].said = @ + 1]
  /\ LET first == agent[s].said = 0 IN
     /\ Send(s, <<Msg(IF first THEN "start" ELSE "token", agent[s].round)>>)
     /\ hist' = IF first THEN hist ELSE [hist EXCEPT !.sent = @ \cup {<<s, agent[s].round>>}]
  /\ UNCHANGED <<tokenRx, cancelled>>

(* A round without tool calls is the answer; an error ends the stream too. *)
ModelEnds(s, last) ==
  /\ At(s, "model")
  /\ Send(s, <<Msg(last, 0)>>)
  /\ GoTo(s, "exited")
  /\ UNCHANGED <<tokenRx, cancelled, hist>>

(* run_agent runs whatever calls the model's answer has.  That a model     *)
(* that was offered no tools calls none is an assumption on the answer.    *)
ModelCallsTools(s, n) ==
  /\ At(s, "model")
  /\ agent[s].tools
  /\ agent' = [agent EXCEPT ![s].at = "tools", ![s].calls = n]
  /\ UNCHANGED <<chan, tokenRx, cancelled, hist>>

(* The end of the tool loop: no call is left, or the flag was seen. *)
EndRound(s) ==
  /\ At(s, "tools")
  /\ agent[s].calls = 0 \/ s \in cancelled
  /\ agent' = [agent EXCEPT ![s].at = "round", ![s].calls = 0, ![s].round = @ + 1]
  /\ UNCHANGED <<chan, tokenRx, cancelled, hist>>

(* Mutant: the flag is not looked at between the calls. *)
TakesCallAnyway(s) == At(s, "tools") /\ agent[s].calls > 0

TakesCall(s) == At(s, "tools") /\ agent[s].calls > 0 /\ s \notin cancelled

BadArguments(s) ==
  /\ TakesCall(s)
  /\ Send(s, <<Msg("toolFailed", 0)>>)
  /\ NextCall(s)
  /\ UNCHANGED <<tokenRx, cancelled, hist>>

CallWithoutApproval(s) ==
  /\ TakesCall(s)
  /\ GoTo(s, "free")
  /\ UNCHANGED <<chan, tokenRx, cancelled, hist>>

AskApproval(s) ==
  /\ TakesCall(s)
  /\ Send(s, <<Msg("approval", agent[s].asked + 1)>>)
  /\ agent' = [agent EXCEPT ![s].at = "waiting", ![s].asked = @ + 1]
  /\ UNCHANGED <<tokenRx, cancelled, hist>>

(* Mutant: any end of the wait counts as a yes. *)
ApprovalEndsApproves(s) ==
  /\ At(s, "waiting")
  /\ Send(s, <<Msg("toolFailed", 0)>>)
  /\ GoTo(s, "approved")
  /\ UNCHANGED <<tokenRx, cancelled, hist>>

(* Mutant: the wait has no timeout, only a dropped prompt ends it. *)
ApprovalEndsOnlyIfLost(s) ==
  /\ At(s, "waiting")
  /\ tokenRx # s
  /\ Send(s, <<Msg("toolFailed", 0)>>)
  /\ GoTo(s, "rejected")
  /\ UNCHANGED <<tokenRx, cancelled, hist>>

(* recv_timeout fails: the ten minutes are over, or the sender was dropped *)
(* with the prompt or with the channel that held it.                       *)
ApprovalEnds(s) ==
  /\ At(s, "waiting")
  /\ Send(s, <<Msg("toolFailed", 0)>>)
  /\ GoTo(s, "rejected")
  /\ UNCHANGED <<tokenRx, cancelled, hist>>

CallRejected(s) ==
  /\ At(s, "rejected")
  /\ Send(s, <<Msg("toolFailed", 0)>>)
  /\ NextCall(s)
  /\ UNCHANGED <<tokenRx, cancelled, hist>>

StartTool(s) ==
  /\ At(s, "approved") \/ At(s, "free")
  /\ Send(s, <<Msg("toolStart", 0)>>)
  /\ GoTo(s, "exec")
  /\ hist' = [hist EXCEPT !.ran = IF At(s, "approved") THEN @ \cup {<<s, agent[s].asked>>} ELSE @]
  /\ UNCHANGED <<tokenRx, cancelled>>

FinishTool(s, outcome) ==
  /\ At(s, "exec")
  /\ Send(s, <<Msg(outcome, 0)>>)
  /\ NextCall(s)
  /\ UNCHANGED <<tokenRx, cancelled, hist>>

(* A panic in a tool ends the thread; its sender is dropped. *)
Panic(s) ==
  /\ At(s, "exec")
  /\ GoTo(s, "exited")
  /\ UNCHANGED <<chan, tokenRx, cancelled, hist>>

AgentStep(s) ==
  \/ StartRound(s) \/ HitRoundLimit(s)
  \/ ModelSpeaks(s)
  \/ \E last \in {"done", "err"} : ModelEnds(s, last)
  \/ \E n \in 1..MaxTools : ModelCallsTools(s, n)
  \/ EndRound(s) \/ BadArguments(s) \/ CallWithoutApproval(s)
  \/ AskApproval(s) \/ ApprovalEnds(s) \/ CallRejected(s)
  \/ StartTool(s)
  \/ \E outcome \in {"toolDone", "toolFailed"} : FinishTool(s, outcome)
  \/ Panic(s)
=============================================================================
