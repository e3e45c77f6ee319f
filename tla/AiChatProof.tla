----------------------------- MODULE AiChatProof -----------------------------
(***************************************************************************)
(* What AiChat and its agents keep for any number of streams, rounds, tool *)
(* calls and rows.                                                         *)
(*                                                                         *)
(* IInv, the first part, is about the threads and what the overlay waits   *)
(* for: only approved tools run, a cancelled stream is never approved, the *)
(* spinner tells the truth.  ChatIsGood, the second, is about the rows and *)
(* the text on its way to them: it is in order, it stays in its stream, an *)
(* aside is not saved, an answer is complete.  RowsAreBounded, the last,   *)
(* counts the rows to come.                                                *)
(***************************************************************************)
EXTENDS AiChat, FiniteSetTheorems, TLAPS

RoundNumber == 0..MaxRounds
Said == 0..(MaxTokens + 1)
CallsLeft == 0..MaxTools

AgentRecord ==
  [at : AgentState, tools : BOOLEAN, round : RoundNumber, said : Said, calls : CallsLeft, asked : Nat]

InCall == {"waiting", "approved", "rejected", "free", "exec"}

(* A thread in a round has rounds left, in a call it has the call to count *)
(* off, and approved it has the user's yes to its last request.            *)
GoodAgent(s, a) ==
  /\ a \in AgentRecord
  /\ a.at \in InCall \cup {"model", "tools"} => a.round < MaxRounds
  /\ a.at \in InCall => a.calls > 0
  /\ a.at = "approved" => <<s, a.asked>> \in hist.yes

AgentsAreGood ==
  /\ agent \in [Streams -> AgentRecord]
  /\ \A s \in Streams : GoodAgent(s, agent[s])

HistoryIsGood ==
  /\ DOMAIN hist = {"btw", "sent", "yes", "ran"}
  /\ ApprovedOnly

(* The rows are left out: nothing below depends on them. *)
AppShape ==
  /\ DOMAIN app = {"at", "cur", "streaming", "transient", "nextCtx", "ended", "queue", "msgs",
                   "approval", "disk"}
  /\ app.cur \in 0..MaxStreams
  /\ app.streaming \in BOOLEAN
  /\ app.queue \in Seq(Streams \X Nat)
  /\ app.approval \in {NoPrompt} \cup (Streams \X Nat)

(* An end is noticed when the receiver goes, and shown when the buffer is  *)
(* empty.                                                                  *)
EndsInOrder ==
  /\ app.ended # "no" => tokenRx = 0
  /\ app.at = "finalize" => app.ended # "no" /\ app.queue = <<>>
  /\ app.streaming => app.cur # 0

(* Neither the receiver held nor the prompt shown belongs to a cancelled   *)
(* stream, and only what was asked is cancelled.                           *)
CancelledIsLeft ==
  /\ cancelled \subseteq 1..app.cur
  /\ tokenRx \notin cancelled
  /\ app.approval[1] \notin cancelled

IInv ==
  /\ AgentsAreGood
  /\ HistoryIsGood
  /\ chan \in [Streams -> Seq(StreamMsg)]
  /\ tokenRx \in 0..MaxStreams
  /\ AppShape
  /\ StreamingIsLive
  /\ EndsInOrder
  /\ CancelledIsLeft

-----------------------------------------------------------------------------
LEMMA InitIInv == Init => IInv
<1> SUFFICES ASSUME Init PROVE IInv
  OBVIOUS
<1> DEFINE a == [at |-> "none", tools |-> FALSE, round |-> 0, said |-> 0, calls |-> 0, asked |-> 0]
<1>1. a \in AgentRecord /\ a.at = "none"
  BY AgentAssumption DEF AgentRecord, AgentState, RoundNumber, Said, CallsLeft
<1>2. agent = [s \in Streams |-> a] /\ chan = [s \in Streams |-> <<>>] /\ tokenRx = 0
      /\ cancelled = {} /\ hist = [btw |-> {}, sent |-> {}, yes |-> {}, ran |-> {}]
  BY DEF Init, AgentInit
<1> HIDE DEF a
<1>3. AgentsAreGood
  BY <1>1, <1>2 DEF AgentsAreGood, GoodAgent, InCall
<1>4. HistoryIsGood /\ chan \in [Streams -> Seq(StreamMsg)] /\ tokenRx \in 0..MaxStreams
  BY <1>2, AgentAssumption DEF HistoryIsGood, ApprovedOnly
<1>5. AppShape /\ StreamingIsLive /\ EndsInOrder /\ CancelledIsLeft
  BY <1>2, AgentAssumption DEF Init, AppShape, StreamingIsLive, EndsInOrder, CancelledIsLeft
<1> QED BY <1>3, <1>4, <1>5 DEF IInv

-----------------------------------------------------------------------------
(* Steps of an agent: the others and the overlay keep what they have. *)
LEMMA OneAgent ==
  ASSUME IInv, NEW s \in Streams, NEW a, GoodAgent(s, a)', agent' = [agent EXCEPT ![s] = a],
         hist.yes \subseteq hist'.yes
  PROVE  AgentsAreGood'
<1>1. a \in AgentRecord
  BY DEF GoodAgent
<1>2. agent' \in [Streams -> AgentRecord]
  BY <1>1 DEF IInv, AgentsAreGood
<1>3. ASSUME NEW r \in Streams PROVE GoodAgent(r, agent[r])'
  <2>1. CASE r = s
    BY <2>1 DEF IInv, AgentsAreGood
  <2>2. CASE r # s
    <3>1. agent'[r] = agent[r] /\ GoodAgent(r, agent[r])
      BY <2>2 DEF IInv, AgentsAreGood
    <3> QED BY <3>1 DEF GoodAgent
  <2> QED BY <2>1, <2>2
<1> QED BY <1>2, <1>3 DEF AgentsAreGood

LEMMA AgentInHand ==
  ASSUME IInv, NEW s \in Streams
  PROVE  /\ agent[s] \in AgentRecord /\ GoodAgent(s, agent[s])
         /\ DOMAIN agent = Streams
BY DEF IInv, AgentsAreGood

LEMMA MsgType ==
  /\ \A n \in Nat : \A type \in {"start", "token", "toolStart", "toolDone", "toolFailed", "approval",
                               "done", "err"} : <<Msg(type, n)>> \in Seq(StreamMsg)
  /\ <<Msg("err", 0), Msg("done", 0)>> \in Seq(StreamMsg)
BY DEF Msg, StreamMsg

LEMMA SendKeepsTypes ==
  ASSUME IInv, NEW s \in Streams, NEW ms \in Seq(StreamMsg), Send(s, ms)
  PROVE  chan' \in [Streams -> Seq(StreamMsg)]
BY DEF IInv, Send

LEMMA OverlayIsSame ==
  ASSUME IInv, UNCHANGED <<tokenRx, cancelled, app>>
  PROVE  /\ tokenRx' \in 0..MaxStreams /\ AppShape' /\ StreamingIsLive' /\ EndsInOrder' /\ CancelledIsLeft'
BY DEF IInv, AppShape, StreamingIsLive, EndsInOrder, CancelledIsLeft

(* Steps that add nothing to the history. *)
LEMMA AgentMoves ==
  ASSUME IInv, NEW s \in Streams, NEW a, GoodAgent(s, a), agent' = [agent EXCEPT ![s] = a],
         chan' \in [Streams -> Seq(StreamMsg)], UNCHANGED <<hist, tokenRx, cancelled, app>>
  PROVE  IInv'
<1>1. GoodAgent(s, a)'
  BY DEF GoodAgent
<1>2. AgentsAreGood'
  BY <1>1, OneAgent
<1>3. HistoryIsGood'
  BY DEF IInv, HistoryIsGood, ApprovedOnly
<1> QED BY <1>2, <1>3, OverlayIsSame DEF IInv

LEMMA RoundIInv ==
  ASSUME IInv, NEW s \in Streams, StartRound(s) \/ HitRoundLimit(s) \/ EndRound(s), UNCHANGED app
  PROVE  IInv'
<1>0. agent[s] \in AgentRecord /\ GoodAgent(s, agent[s]) /\ DOMAIN agent = Streams
      /\ chan \in [Streams -> Seq(StreamMsg)]
  BY AgentInHand DEF IInv
<1>1. CASE StartRound(s)
  <2> DEFINE a == [agent[s] EXCEPT !.at = "model", !.said = 0]
  <2>1. agent' = [agent EXCEPT ![s] = a] /\ agent[s].at = "round" /\ agent[s].round < MaxRounds
        /\ UNCHANGED <<chan, hist, tokenRx, cancelled, app>>
    BY <1>1 DEF StartRound, At
  <2>2. GoodAgent(s, a)
    <3>0. 0 \in Said /\ "model" \in AgentState
      BY AgentAssumption DEF Said, AgentState
    <3>1. a \in AgentRecord
      BY <1>0, <3>0 DEF AgentRecord
    <3>2. a.at = "model" /\ a.round = agent[s].round
      BY <1>0 DEF AgentRecord
    <3> HIDE DEF a
    <3> QED BY <1>0, <2>1, <3>1, <3>2 DEF GoodAgent, InCall
  <2> HIDE DEF a
  <2> QED BY <1>0, <2>1, <2>2, AgentMoves
<1>2. CASE HitRoundLimit(s)
  <2> DEFINE a == [agent[s] EXCEPT !.at = "exited"]
  <2>1. agent' = [agent EXCEPT ![s] = a] /\ UNCHANGED <<hist, tokenRx, cancelled, app>>
        /\ chan' \in [Streams -> Seq(StreamMsg)]
    BY <1>2, MsgType, SendKeepsTypes DEF HitRoundLimit, GoTo
  <2>2. GoodAgent(s, a)
    BY <1>0 DEF GoodAgent, AgentRecord, AgentState, InCall
  <2> HIDE DEF a
  <2> QED BY <2>1, <2>2, AgentMoves
<1>3. CASE EndRound(s)
  <2> DEFINE a == [agent[s] EXCEPT !.at = "round", !.calls = 0, !.round = @ + 1]
  <2>1. agent' = [agent EXCEPT ![s] = a] /\ agent[s].at = "tools"
        /\ UNCHANGED <<chan, hist, tokenRx, cancelled, app>>
    BY <1>3 DEF EndRound, At
  <2>2. GoodAgent(s, a)
    <3>0. 0 \in CallsLeft /\ agent[s].round + 1 \in RoundNumber /\ "round" \in AgentState
      <4>1. agent[s].round \in RoundNumber /\ agent[s].round < MaxRounds
        BY <1>0, <2>1 DEF AgentRecord, GoodAgent
      <4> QED BY <4>1, AgentAssumption DEF CallsLeft, RoundNumber, AgentState
    <3>1. a \in AgentRecord
      BY <1>0, <3>0 DEF AgentRecord
    <3>2. a.at = "round"
      BY <1>0 DEF AgentRecord
    <3> HIDE DEF a
    <3> QED BY <1>0, <2>1, <3>1, <3>2 DEF GoodAgent, InCall
  <2> HIDE DEF a
  <2> QED BY <1>0, <2>1, <2>2, AgentMoves
<1> QED BY <1>1, <1>2, <1>3

LEMMA ModelIInv ==
  ASSUME IInv, NEW s \in Streams, UNCHANGED app,
         \/ ModelSpeaks(s)
         \/ \E last \in {"done", "err"} : ModelEnds(s, last)
         \/ \E n \in 1..MaxTools : ModelCallsTools(s, n)
  PROVE  IInv'
<1>0. agent[s] \in AgentRecord /\ GoodAgent(s, agent[s]) /\ DOMAIN agent = Streams
      /\ chan \in [Streams -> Seq(StreamMsg)] /\ HistoryIsGood
  BY AgentInHand DEF IInv
<1>1. CASE ModelSpeaks(s)
  <2> DEFINE a == [agent[s] EXCEPT !.said = @ + 1]
             type == IF agent[s].said = 0 THEN "start" ELSE "token"
  <2>1. agent' = [agent EXCEPT ![s] = a] /\ agent[s].at = "model" /\ agent[s].said <= MaxTokens
        /\ Send(s, <<Msg(type, agent[s].round)>>) /\ UNCHANGED <<tokenRx, cancelled, app>>
    BY <1>1 DEF ModelSpeaks, At
  <2>2. chan' \in [Streams -> Seq(StreamMsg)]
    <3>1. agent[s].round \in Nat
      BY <1>0, AgentAssumption DEF AgentRecord, RoundNumber
    <3>2. <<Msg(type, agent[s].round)>> \in Seq(StreamMsg)
      BY <3>1, MsgType
    <3> QED BY <2>1, <3>2, SendKeepsTypes
  <2>3. DOMAIN hist' = DOMAIN hist /\ hist'.yes = hist.yes /\ hist'.ran = hist.ran
    BY <1>0, <1>1 DEF ModelSpeaks, HistoryIsGood
  <2>4. GoodAgent(s, a)
    <3>0. agent[s].said + 1 \in Said
      <4>1. agent[s].said \in Said
        BY <1>0 DEF AgentRecord
      <4> QED BY <2>1, <4>1, AgentAssumption DEF Said
    <3>1. a \in AgentRecord
      BY <1>0, <3>0 DEF AgentRecord
    <3>2. a.at = "model" /\ a.round = agent[s].round
      BY <1>0, <2>1 DEF AgentRecord
    <3> HIDE DEF a
    <3> QED BY <1>0, <2>1, <3>1, <3>2 DEF GoodAgent, InCall
  <2> PICK b : b = a
    OBVIOUS
  <2>5. AgentsAreGood'
    <3>1. GoodAgent(s, b)'
      BY <2>3, <2>4 DEF GoodAgent
    <3> HIDE DEF a
    <3> QED BY <2>1, <2>3, <3>1, OneAgent
  <2>6. HistoryIsGood'
    BY <1>0, <2>3 DEF HistoryIsGood, ApprovedOnly
  <2> QED BY <2>1, <2>2, <2>5, <2>6, OverlayIsSame DEF IInv
<1>2. ASSUME NEW last \in {"done", "err"}, ModelEnds(s, last) PROVE IInv'
  <2> DEFINE a == [agent[s] EXCEPT !.at = "exited"]
  <2>1. agent' = [agent EXCEPT ![s] = a] /\ UNCHANGED <<hist, tokenRx, cancelled, app>>
        /\ Send(s, <<Msg(last, 0)>>)
    BY <1>2 DEF ModelEnds, GoTo
  <2>2. chan' \in [Streams -> Seq(StreamMsg)]
    BY <2>1, MsgType, SendKeepsTypes
  <2>3. GoodAgent(s, a)
    BY <1>0 DEF GoodAgent, AgentRecord, AgentState, InCall
  <2> HIDE DEF a
  <2> QED BY <2>1, <2>2, <2>3, AgentMoves
<1>3. ASSUME NEW n \in 1..MaxTools, ModelCallsTools(s, n) PROVE IInv'
  <2> DEFINE a == [agent[s] EXCEPT !.at = "tools", !.calls = n]
  <2>1. agent' = [agent EXCEPT ![s] = a] /\ agent[s].at = "model"
        /\ UNCHANGED <<chan, hist, tokenRx, cancelled, app>>
    BY <1>3 DEF ModelCallsTools, At
  <2>2. GoodAgent(s, a)
    <3>0. n \in CallsLeft /\ "tools" \in AgentState
      BY AgentAssumption DEF CallsLeft, AgentState
    <3>1. a \in AgentRecord
      BY <1>0, <3>0 DEF AgentRecord
    <3>2. a.at = "tools" /\ a.round = agent[s].round
      BY <1>0 DEF AgentRecord
    <3> HIDE DEF a
    <3> QED BY <1>0, <2>1, <3>1, <3>2 DEF GoodAgent, InCall
  <2> HIDE DEF a
  <2> QED BY <1>0, <2>1, <2>2, AgentMoves
<1> QED BY <1>1, <1>2, <1>3

(* Calls of tools.  One that is asked for, refused or over changes no      *)
(* history; the next one asked for has a number of its own.                *)
LEMMA NextCallIsGood ==
  ASSUME IInv, NEW s \in Streams, agent[s].calls > 0,
         agent[s].at \in InCall \cup {"tools"}, NextCall(s), UNCHANGED <<hist, tokenRx, cancelled, app>>,
         chan' \in [Streams -> Seq(StreamMsg)]
  PROVE  IInv'
<1> DEFINE a == [agent[s] EXCEPT !.at = "tools", !.calls = @ - 1]
<1>0. agent[s] \in AgentRecord /\ GoodAgent(s, agent[s])
  BY AgentInHand
<1>1. agent' = [agent EXCEPT ![s] = a]
  BY DEF NextCall
<1>2. GoodAgent(s, a)
  <2>0. agent[s].calls - 1 \in CallsLeft /\ "tools" \in AgentState
    <3>1. agent[s].calls \in CallsLeft
      BY <1>0 DEF AgentRecord
    <3> QED BY <3>1, AgentAssumption DEF CallsLeft, AgentState
  <2>1. a \in AgentRecord
    BY <1>0, <2>0 DEF AgentRecord
  <2>2. a.at = "tools" /\ a.round = agent[s].round
    BY <1>0 DEF AgentRecord
  <2> HIDE DEF a
  <2> QED BY <1>0, <2>1, <2>2 DEF GoodAgent, InCall
<1> HIDE DEF a
<1> QED BY <1>1, <1>2, AgentMoves

LEMMA CallIInv ==
  ASSUME IInv, NEW s \in Streams, UNCHANGED app,
         \/ BadArguments(s) \/ CallWithoutApproval(s) \/ ApprovalEnds(s) \/ CallRejected(s)
         \/ \E outcome \in {"toolDone", "toolFailed"} : FinishTool(s, outcome)
         \/ Panic(s)
  PROVE  IInv'
<1>0. agent[s] \in AgentRecord /\ GoodAgent(s, agent[s]) /\ DOMAIN agent = Streams
      /\ chan \in [Streams -> Seq(StreamMsg)]
  BY AgentInHand DEF IInv
<1>1. CASE BadArguments(s)
  <2>1. chan' \in [Streams -> Seq(StreamMsg)]
    BY <1>1, MsgType, SendKeepsTypes DEF BadArguments
  <2> QED BY <1>1, <2>1, NextCallIsGood DEF BadArguments, TakesCall, At
<1>2. CASE CallRejected(s)
  <2>1. chan' \in [Streams -> Seq(StreamMsg)]
    BY <1>2, MsgType, SendKeepsTypes DEF CallRejected
  <2>2. agent[s].calls > 0 /\ agent[s].at \in InCall
    BY <1>0, <1>2 DEF CallRejected, At, GoodAgent, InCall
  <2> QED BY <1>2, <2>1, <2>2, NextCallIsGood DEF CallRejected
<1>3. ASSUME NEW outcome \in {"toolDone", "toolFailed"}, FinishTool(s, outcome) PROVE IInv'
  <2>1. chan' \in [Streams -> Seq(StreamMsg)]
    BY <1>3, MsgType, SendKeepsTypes DEF FinishTool
  <2>2. agent[s].calls > 0 /\ agent[s].at \in InCall
    BY <1>0, <1>3 DEF FinishTool, At, GoodAgent, InCall
  <2> QED BY <1>3, <2>1, <2>2, NextCallIsGood DEF FinishTool
<1>4. ASSUME NEW state \in {"free", "rejected", "exited"}, GoTo(s, state),
             agent[s].at \in InCall \cup {"tools"}, agent[s].calls > 0,
             chan' \in [Streams -> Seq(StreamMsg)], UNCHANGED <<hist, tokenRx, cancelled>>
      PROVE  IInv'
  <2> DEFINE a == [agent[s] EXCEPT !.at = state]
  <2>1. agent' = [agent EXCEPT ![s] = a]
    BY <1>4 DEF GoTo
  <2>2. GoodAgent(s, a)
    <3>0. state \in AgentState
      BY DEF AgentState
    <3>1. a \in AgentRecord
      BY <1>0, <3>0 DEF AgentRecord
    <3>2. a.at = state /\ a.round = agent[s].round /\ a.calls = agent[s].calls
      BY <1>0 DEF AgentRecord
    <3> HIDE DEF a
    <3> QED BY <1>0, <1>4, <3>1, <3>2 DEF GoodAgent, InCall
  <2> HIDE DEF a
  <2> QED BY <1>4, <2>1, <2>2, AgentMoves
<1>5. CASE CallWithoutApproval(s)
  BY <1>0, <1>4, <1>5 DEF CallWithoutApproval, TakesCall, At
<1>6. CASE ApprovalEnds(s)
  <2>1. chan' \in [Streams -> Seq(StreamMsg)]
    BY <1>6, MsgType, SendKeepsTypes DEF ApprovalEnds
  <2>2. agent[s].calls > 0 /\ agent[s].at \in InCall
    BY <1>0, <1>6 DEF ApprovalEnds, At, GoodAgent, InCall
  <2> QED BY <1>4, <1>6, <2>1, <2>2 DEF ApprovalEnds
<1>7. CASE Panic(s)
  <2>1. agent[s].calls > 0 /\ agent[s].at \in InCall
    BY <1>0, <1>7 DEF Panic, At, GoodAgent, InCall
  <2> QED BY <1>0, <1>4, <1>7, <2>1 DEF Panic
<1> QED BY <1>1, <1>2, <1>3, <1>5, <1>6, <1>7

LEMMA AskApprovalIInv == ASSUME IInv, NEW s \in Streams, AskApproval(s), UNCHANGED app PROVE IInv'
<1> DEFINE a == [agent[s] EXCEPT !.at = "waiting", !.asked = @ + 1]
<1>0. agent[s] \in AgentRecord /\ GoodAgent(s, agent[s]) /\ agent[s].asked \in Nat
  BY AgentInHand DEF AgentRecord
<1>1. /\ agent' = [agent EXCEPT ![s] = a] /\ agent[s].at = "tools" /\ agent[s].calls > 0
      /\ Send(s, <<Msg("approval", agent[s].asked + 1)>>) /\ UNCHANGED <<hist, tokenRx, cancelled, app>>
  BY DEF AskApproval, TakesCall, At
<1>2. chan' \in [Streams -> Seq(StreamMsg)]
  <2>1. agent[s].asked + 1 \in Nat
    BY <1>0
  <2>2. <<Msg("approval", agent[s].asked + 1)>> \in Seq(StreamMsg)
    BY <2>1, MsgType
  <2> QED BY <1>1, <2>2, SendKeepsTypes
<1>3. GoodAgent(s, a)
  <2>1. agent[s].asked + 1 \in Nat /\ "waiting" \in AgentState
    BY <1>0 DEF AgentState
  <2>2. a \in AgentRecord
    BY <1>0, <2>1 DEF AgentRecord
  <2>3. a.at = "waiting" /\ a.round = agent[s].round /\ a.calls = agent[s].calls
    BY <1>0 DEF AgentRecord
  <2> HIDE DEF a
  <2> QED BY <1>0, <1>1, <2>2, <2>3 DEF GoodAgent, InCall
<1> HIDE DEF a
<1> QED BY <1>1, <1>2, <1>3, AgentMoves

(* The tool that runs is the one the approved thread had asked for. *)
LEMMA StartToolIInv == ASSUME IInv, NEW s \in Streams, StartTool(s), UNCHANGED app PROVE IInv'
<1> DEFINE a == [agent[s] EXCEPT !.at = "exec"]
<1>0. agent[s] \in AgentRecord /\ GoodAgent(s, agent[s]) /\ HistoryIsGood
  BY AgentInHand DEF IInv
<1>1. agent' = [agent EXCEPT ![s] = a] /\ agent[s].at \in {"approved", "free"}
      /\ Send(s, <<Msg("toolStart", 0)>>) /\ UNCHANGED <<tokenRx, cancelled, app>>
  BY DEF StartTool, At, GoTo
<1>2. chan' \in [Streams -> Seq(StreamMsg)]
  BY <1>1, MsgType, SendKeepsTypes
<1>3. /\ DOMAIN hist' = DOMAIN hist /\ hist'.yes = hist.yes
      /\ hist'.ran = IF agent[s].at = "approved" THEN hist.ran \cup {<<s, agent[s].asked>>} ELSE hist.ran
  BY <1>0 DEF StartTool, At, HistoryIsGood
<1>4. HistoryIsGood'
  BY <1>0, <1>3 DEF HistoryIsGood, ApprovedOnly, GoodAgent
<1>5. GoodAgent(s, a)
  <2>0. "exec" \in AgentState
    BY DEF AgentState
  <2>1. a \in AgentRecord
    BY <1>0, <2>0 DEF AgentRecord
  <2>2. a.at = "exec" /\ a.round = agent[s].round /\ a.calls = agent[s].calls
    BY <1>0 DEF AgentRecord
  <2> HIDE DEF a
  <2> QED BY <1>0, <1>1, <2>1, <2>2 DEF GoodAgent, InCall
<1> PICK b : b = a
  OBVIOUS
<1>6. GoodAgent(s, b)'
  BY <1>3, <1>5 DEF GoodAgent
<1> HIDE DEF a
<1>7. AgentsAreGood'
  BY <1>1, <1>3, <1>6, OneAgent
<1> QED BY <1>1, <1>2, <1>4, <1>7, OverlayIsSame DEF IInv

LEMMA AgentStepIInv == ASSUME IInv, NEW s \in Streams, Agent(s) PROVE IInv'
BY RoundIInv, ModelIInv, CallIInv, AskApprovalIInv, StartToolIInv DEF Agent, AgentStep

-----------------------------------------------------------------------------
(* Steps of the overlay. *)
OverlayIsGood ==
  tokenRx \in 0..MaxStreams /\ AppShape /\ StreamingIsLive /\ EndsInOrder /\ CancelledIsLeft

LEMMA AgentsAreSame == ASSUME IInv, UNCHANGED <<agent, hist>> PROVE AgentsAreGood' /\ HistoryIsGood'
BY DEF IInv, AgentsAreGood, GoodAgent, HistoryIsGood, ApprovedOnly

LEMMA OverlayMoves ==
  ASSUME IInv, UNCHANGED <<agent, hist>>, chan' \in [Streams -> Seq(StreamMsg)], OverlayIsGood'
  PROVE  IInv'
BY AgentsAreSame DEF IInv, OverlayIsGood

LEMMA PopKeepsTypes ==
  ASSUME IInv, NEW type, Incoming(type), Pop
  PROVE  /\ tokenRx \in Streams /\ Head(chan[tokenRx]).n \in Nat
         /\ chan' \in [Streams -> Seq(StreamMsg)]
<1>1. tokenRx \in Streams /\ chan[tokenRx] \in Seq(StreamMsg) /\ chan[tokenRx] # <<>>
  BY AgentAssumption DEF IInv, Incoming, Streams
<1>2. Head(chan[tokenRx]) \in StreamMsg /\ Tail(chan[tokenRx]) \in Seq(StreamMsg)
  BY <1>1
<1>3. Head(chan[tokenRx]).n \in Nat
  BY <1>2 DEF StreamMsg
<1> QED BY <1>1, <1>2, <1>3 DEF IInv, Pop

LEMMA DropKeepsTypes ==
  ASSUME IInv, DropReceiver PROVE chan' \in [Streams -> Seq(StreamMsg)] /\ tokenRx' = 0
<1>1. chan \in [Streams -> Seq(StreamMsg)] /\ <<>> \in Seq(StreamMsg)
  BY DEF IInv
<1> QED BY <1>1 DEF DropReceiver

(* A message that ends nothing. *)
LEMMA DrainIsGood ==
  ASSUME IInv, tokenRx \in Streams, UNCHANGED <<tokenRx, cancelled>>, DOMAIN app' = DOMAIN app,
         app'.at \in {"drain", "release"}, app'.cur = app.cur, app'.streaming = app.streaming,
         app'.ended = app.ended, app'.queue \in Seq(Streams \X Nat),
         app'.approval = app.approval \/ \E n \in Nat : app'.approval = <<tokenRx, n>>
  PROVE  OverlayIsGood'
<1>1. app.streaming /\ tokenRx # 0
  BY DEF IInv, StreamingIsLive, Streams
<1>2. AppShape'
  <2>1. app.approval \in {NoPrompt} \cup (Streams \X Nat)
    BY DEF IInv, AppShape
  <2>2. \A n \in Nat : <<tokenRx, n>> \in Streams \X Nat
    OBVIOUS
  <2>3. app'.approval \in {NoPrompt} \cup (Streams \X Nat)
    BY <2>1, <2>2
  <2> QED BY <2>3 DEF IInv, AppShape
<1>3. StreamingIsLive' /\ EndsInOrder'
  BY <1>1 DEF IInv, StreamingIsLive, EndsInOrder
<1>4. CancelledIsLeft'
  <2>1. app'.approval[1] \in {app.approval[1], tokenRx}
    OBVIOUS
  <2> QED BY <2>1 DEF IInv, CancelledIsLeft
<1> QED BY <1>2, <1>3, <1>4 DEF OverlayIsGood, IInv

LEMMA DrainIInv ==
  ASSUME IInv,
         \/ DrainStart \/ DrainToken \/ DrainToolStart \/ DrainApproval
         \/ \E type \in {"toolDone", "toolFailed"} : DrainToolEnd(type)
  PROVE  IInv'
<1>0. DOMAIN app = {"at", "cur", "streaming", "transient", "nextCtx", "ended", "queue", "msgs",
                    "approval", "disk"}
      /\ app.queue \in Seq(Streams \X Nat)
  BY DEF IInv, AppShape
<1>1. CASE DrainStart
  <2>1. tokenRx \in Streams /\ chan' \in [Streams -> Seq(StreamMsg)]
    BY <1>1, PopKeepsTypes DEF DrainStart
  <2> QED BY <1>0, <1>1, <2>1, DrainIsGood, OverlayMoves DEF DrainStart
<1>2. CASE DrainToken
  <2>1. tokenRx \in Streams /\ chan' \in [Streams -> Seq(StreamMsg)] /\ Head(chan[tokenRx]).n \in Nat
    BY <1>2, PopKeepsTypes DEF DrainToken
  <2>2. Append(app.queue, <<tokenRx, Head(chan[tokenRx]).n>>) \in Seq(Streams \X Nat)
    BY <1>0, <2>1
  <2> QED BY <1>0, <1>2, <2>1, <2>2, DrainIsGood, OverlayMoves DEF DrainToken
<1>3. CASE DrainToolStart
  <2>1. tokenRx \in Streams /\ chan' \in [Streams -> Seq(StreamMsg)]
    BY <1>3, PopKeepsTypes DEF DrainToolStart
  <2> QED BY <1>0, <1>3, <2>1, DrainIsGood, OverlayMoves DEF DrainToolStart
<1>4. CASE DrainApproval
  <2>1. tokenRx \in Streams /\ chan' \in [Streams -> Seq(StreamMsg)] /\ Head(chan[tokenRx]).n \in Nat
    BY <1>4, PopKeepsTypes DEF DrainApproval
  <2> QED BY <1>0, <1>4, <2>1, DrainIsGood, OverlayMoves DEF DrainApproval
<1>5. ASSUME NEW type \in {"toolDone", "toolFailed"}, DrainToolEnd(type) PROVE IInv'
  <2>1. tokenRx \in Streams /\ chan' \in [Streams -> Seq(StreamMsg)]
    BY <1>5, PopKeepsTypes DEF DrainToolEnd
  <2>2. PICK rows : app' = [app EXCEPT !.at = "drain", !.msgs = rows]
    BY <1>5 DEF DrainToolEnd
  <2> QED BY <1>0, <1>5, <2>1, <2>2, DrainIsGood, OverlayMoves DEF DrainToolEnd
<1> QED BY <1>1, <1>2, <1>3, <1>4, <1>5

(* The end of a stream: the receiver goes, the text in the buffer stays. *)
LEMMA EndIInv ==
  ASSUME IInv, (\E type \in {"done", "err"} : DrainEnd(type)) \/ DrainDisconnected
  PROVE  IInv'
<1>1. PICK type \in {"done", "err"} : app' = [app EXCEPT !.ended = type, !.at = "release"]
  BY DEF DrainEnd, DrainDisconnected
<1>2. tokenRx # 0 /\ DropReceiver /\ UNCHANGED <<agent, cancelled, hist>>
  BY DEF DrainEnd, DrainDisconnected, Incoming
<1>3. tokenRx' = 0 /\ chan' \in [Streams -> Seq(StreamMsg)]
  BY <1>2, DropKeepsTypes
<1>4. DOMAIN app' = DOMAIN app /\ app'.at = "release" /\ app'.ended = type /\ app'.cur = app.cur
      /\ app'.streaming = app.streaming /\ app'.queue = app.queue /\ app'.approval = app.approval
  BY <1>1 DEF IInv, AppShape
<1>5. AppShape' /\ StreamingIsLive' /\ EndsInOrder'
  BY <1>2, <1>3, <1>4 DEF IInv, AppShape, StreamingIsLive, EndsInOrder
<1>6. CancelledIsLeft'
  <2>1. 0 \notin cancelled
    BY DEF IInv, CancelledIsLeft, AppShape
  <2> QED BY <1>2, <1>3, <1>4, <2>1 DEF IInv, CancelledIsLeft
<1>7. OverlayIsGood'
  BY <1>3, <1>5, <1>6, AgentAssumption DEF OverlayIsGood
<1> QED BY <1>2, <1>3, <1>7, OverlayMoves

(* Steps that leave the stream as it is. *)
LEMMA SameStream ==
  ASSUME IInv, UNCHANGED agentVars, DOMAIN app' = DOMAIN app, app'.cur = app.cur,
         app'.streaming = app.streaming, app'.ended = app.ended, app'.approval = app.approval,
         app'.queue \in Seq(Streams \X Nat), app.queue = <<>> => app'.queue = <<>>,
         app'.at = "finalize" => app.ended # "no" /\ app'.queue = <<>>
  PROVE  IInv'
<1>1. AppShape' /\ StreamingIsLive' /\ EndsInOrder' /\ CancelledIsLeft'
  BY DEF IInv, AppShape, StreamingIsLive, EndsInOrder, CancelledIsLeft, agentVars
<1>2. OverlayIsGood'
  BY <1>1 DEF IInv, OverlayIsGood, agentVars
<1> QED BY <1>2, OverlayMoves DEF IInv, agentVars

LEMMA DrainEmptyIInv == ASSUME IInv, DrainEmpty PROVE IInv'
BY SameStream DEF DrainEmpty, IInv, AppShape

LEMMA ReleaseIInv == ASSUME IInv, NEW k \in 0..Len(app.queue), Release(k) PROVE IInv'
<1> DEFINE left == SubSeq(app.queue, k + 1, Len(app.queue))
<1>0. app.queue \in Seq(Streams \X Nat) /\ Len(app.queue) \in Nat
  BY DEF IInv, AppShape
<1>1. left \in Seq(Streams \X Nat) /\ (k = Len(app.queue) => left = <<>>)
  BY <1>0
<1>2. app.queue = <<>> => left = <<>>
  BY <1>0
<1> HIDE DEF left
<1>3. PICK rows : app' = [app EXCEPT !.at = AfterRelease(k), !.queue = left, !.msgs = rows]
  BY DEF Release, left
<1>4. DOMAIN app' = DOMAIN app /\ app'.at = AfterRelease(k) /\ app'.queue = left /\ app'.cur = app.cur
      /\ app'.streaming = app.streaming /\ app'.ended = app.ended /\ app'.approval = app.approval
  BY <1>3 DEF IInv, AppShape
<1>5. UNCHANGED agentVars
  BY DEF Release
<1>6. AfterRelease(k) = "finalize" => app.ended # "no" /\ left = <<>>
  BY <1>1 DEF AfterRelease
<1> QED BY <1>1, <1>2, <1>4, <1>5, <1>6, SameStream

LEMMA FinalizeIInv == ASSUME IInv, FinalizeErr \/ FinalizeDone PROVE IInv'
<1>1. PICK rows : Settle(rows)
  BY DEF FinalizeErr, FinalizeDone
<1>2. app.at = "finalize" /\ UNCHANGED agentVars
  BY DEF FinalizeErr, FinalizeDone
<1>3. DOMAIN app' = DOMAIN app /\ app'.at = "input" /\ app'.queue = app.queue /\ app'.cur = app.cur
      /\ app'.streaming = FALSE /\ app'.ended = "no" /\ app'.approval = app.approval
  BY <1>1 DEF Settle, IInv, AppShape
<1>4. tokenRx = 0 /\ app.queue = <<>>
  BY <1>2 DEF IInv, EndsInOrder
<1>5. AppShape' /\ StreamingIsLive' /\ EndsInOrder' /\ CancelledIsLeft'
  BY <1>2, <1>3, <1>4 DEF IInv, AppShape, StreamingIsLive, EndsInOrder, CancelledIsLeft, agentVars
<1>6. OverlayIsGood'
  BY <1>2, <1>5 DEF IInv, OverlayIsGood, agentVars
<1> QED BY <1>2, <1>6, OverlayMoves DEF IInv, agentVars

-----------------------------------------------------------------------------
(* Keys. *)
LEMMA NobodyIsNotCancelled == ASSUME IInv PROVE 0 \notin cancelled
BY DEF IInv, CancelledIsLeft, AppShape

(* The answer reaches the agent only if it still waits for this request. *)
LEMMA AnswerPromptIInv == ASSUME IInv, NEW yes \in BOOLEAN, AnswerPrompt(yes) PROVE IInv'
<1> PICK p : p = app.approval
  OBVIOUS
<1>1. PICK s \in Streams, n \in Nat : p = <<s, n>>
  BY DEF IInv, AppShape, AnswerPrompt
<1>2. /\ app' = [app EXCEPT !.approval = NoPrompt, !.at = "drain"]
      /\ IF agent[s].at = "waiting" /\ agent[s].asked = n
           THEN GoTo(s, IF yes THEN "approved" ELSE "rejected")
           ELSE UNCHANGED agent
      /\ hist' = IF yes THEN [hist EXCEPT !.yes = @ \cup {p}] ELSE hist
      /\ UNCHANGED <<chan, tokenRx, cancelled>>
  BY <1>1 DEF AnswerPrompt
<1>3. /\ DOMAIN hist' = DOMAIN hist /\ hist'.ran = hist.ran
      /\ hist'.yes = IF yes THEN hist.yes \cup {p} ELSE hist.yes
  BY <1>2 DEF IInv, HistoryIsGood
<1>4. HistoryIsGood'
  BY <1>3 DEF IInv, HistoryIsGood, ApprovedOnly
<1>5. AgentsAreGood'
  <2>0. agent[s] \in AgentRecord /\ GoodAgent(s, agent[s])
    BY AgentInHand
  <2>1. CASE agent[s].at = "waiting" /\ agent[s].asked = n
    <3> PICK state : state = IF yes THEN "approved" ELSE "rejected"
      OBVIOUS
    <3> PICK a : a = [agent[s] EXCEPT !.at = state]
      OBVIOUS
    <3>0. state \in AgentState
      BY DEF AgentState
    <3>1. a \in AgentRecord
      BY <2>0, <3>0 DEF AgentRecord
    <3>2. a.at = state /\ a.round = agent[s].round /\ a.calls = agent[s].calls /\ a.asked = n
      BY <2>0, <2>1 DEF AgentRecord
    <3>3. state = "approved" => <<s, n>> \in hist'.yes
      BY <1>1, <1>3
    <3>4. GoodAgent(s, a)'
      BY <2>0, <2>1, <3>1, <3>2, <3>3 DEF GoodAgent, InCall
    <3>5. agent' = [agent EXCEPT ![s] = a]
      BY <1>2, <2>1 DEF GoTo
    <3> QED BY <1>3, <3>4, <3>5, OneAgent
  <2>2. CASE ~(agent[s].at = "waiting" /\ agent[s].asked = n)
    <3>1. agent' = [agent EXCEPT ![s] = agent[s]] /\ UNCHANGED agent
      BY <1>2, <2>2 DEF IInv, AgentsAreGood
    <3> QED BY <1>3, <3>1 DEF IInv, AgentsAreGood, GoodAgent
  <2> QED BY <2>1, <2>2
<1>6. DOMAIN app' = DOMAIN app /\ app'.at = "drain" /\ app'.ended = app.ended /\ app'.cur = app.cur
      /\ app'.streaming = app.streaming /\ app'.queue = app.queue /\ app'.approval = NoPrompt
  BY <1>2 DEF IInv, AppShape
<1>7. AppShape' /\ StreamingIsLive' /\ EndsInOrder'
  BY <1>2, <1>6 DEF IInv, AppShape, StreamingIsLive, EndsInOrder
<1>8. CancelledIsLeft'
  BY <1>2, <1>6, NobodyIsNotCancelled DEF IInv, CancelledIsLeft, NoPrompt
<1> QED BY <1>2, <1>4, <1>5, <1>7, <1>8 DEF IInv

(* The stream is over for the overlay, and cancelled or not. *)
LEMMA StreamLeft ==
  ASSUME IInv, UNCHANGED agent, AgentsAreGood', HistoryIsGood', chan' \in [Streams -> Seq(StreamMsg)],
         tokenRx' = 0, cancelled' \subseteq 1..app.cur,
         DOMAIN app' = DOMAIN app, app'.at # "finalize", app'.cur = app.cur, app'.streaming = FALSE,
         app'.ended = "no", app'.queue = <<>>, app'.approval = NoPrompt
  PROVE  IInv'
<1>1. AppShape'
  <2>1. app'.queue \in Seq(Streams \X Nat) /\ app'.approval \in {NoPrompt} \cup (Streams \X Nat)
    OBVIOUS
  <2>2. DOMAIN app' = DOMAIN app /\ app'.cur = app.cur /\ app'.streaming \in BOOLEAN
    OBVIOUS
  <2> QED BY <2>1, <2>2 DEF IInv, AppShape
<1>2. StreamingIsLive' /\ EndsInOrder'
  BY DEF StreamingIsLive, EndsInOrder
<1>3. CancelledIsLeft'
  <2>1. 0 \notin cancelled'
    BY DEF IInv, AppShape
  <2> QED BY <2>1 DEF CancelledIsLeft, NoPrompt
<1> QED BY <1>1, <1>2, <1>3, AgentAssumption DEF IInv

LEMMA CurIsAsked ==
  ASSUME IInv, app.streaming \/ app.queue # <<>>
  PROVE  app.streaming /\ cancelled \cup {app.cur} \subseteq 1..app.cur
<1>1. app.streaming
  BY DEF IInv, StreamingIsLive
<1>2. app.cur \in 1..app.cur
  BY <1>1 DEF IInv, AppShape, EndsInOrder
<1> QED BY <1>1, <1>2 DEF IInv, CancelledIsLeft

LEMMA CancelIInv == ASSUME IInv, Cancel PROVE IInv'
<1>1. app' = Cancelled /\ DropReceiver /\ cancelled' = cancelled \cup {app.cur}
      /\ app.approval = NoPrompt /\ UNCHANGED <<agent, hist>>
  BY DEF Cancel, KeyAccepted
<1>2. cancelled' \subseteq 1..app.cur
  BY <1>1, CurIsAsked DEF Cancel
<1>3. DOMAIN app' = DOMAIN app /\ app'.at = "drain" /\ app'.cur = app.cur /\ app'.streaming = FALSE
      /\ app'.ended = "no" /\ app'.queue = <<>> /\ app'.approval = NoPrompt
  BY <1>1 DEF Cancelled, IInv, AppShape
<1> QED BY <1>1, <1>2, <1>3, DropKeepsTypes, AgentsAreSame, StreamLeft

LEMMA InterruptedFields ==
  ASSUME IInv
  PROVE  /\ DOMAIN Interrupted = DOMAIN app /\ Interrupted.at = "drain" /\ Interrupted.cur = app.cur
         /\ Interrupted.approval = app.approval
         /\ app.streaming => Interrupted.streaming = FALSE /\ Interrupted.ended = "no"
                             /\ Interrupted.queue = <<>>
         /\ ~app.streaming => Interrupted.streaming = app.streaming /\ Interrupted.ended = app.ended
                              /\ Interrupted.queue = app.queue
BY DEF Interrupted, Cancelled, IInv, AppShape

LEMMA InterruptsOnlyAsked ==
  ASSUME IInv, Interrupts PROVE cancelled' \subseteq 1..app.cur
BY CurIsAsked DEF Interrupts, IInv, CancelledIsLeft

(* A new question: its stream takes the place of the one before. *)
LEMMA AskedIInv ==
  ASSUME IInv, NEW s \in Streams, NEW offered \in BOOLEAN, s = app.cur + 1, StartStream(s, offered),
         app.approval = NoPrompt, DOMAIN hist' = DOMAIN hist, hist'.yes = hist.yes, hist'.ran = hist.ran,
         DOMAIN app' = DOMAIN app, app'.at = "drain", app'.cur = s, app'.streaming = TRUE,
         app'.ended = "no", app'.queue = <<>>, app'.approval = NoPrompt
  PROVE  IInv'
<1>1. AgentsAreGood'
  <2>0. agent[s] \in AgentRecord /\ GoodAgent(s, agent[s])
    BY AgentInHand
  <2> PICK a : a = [agent[s] EXCEPT !.at = "round", !.tools = offered]
    OBVIOUS
  <2>1. "round" \in AgentState
    BY DEF AgentState
  <2>2. a \in AgentRecord /\ a.at = "round"
    BY <2>0, <2>1 DEF AgentRecord
  <2>3. GoodAgent(s, a)'
    BY <2>2 DEF GoodAgent, InCall
  <2>4. agent' = [agent EXCEPT ![s] = a]
    BY DEF StartStream
  <2> QED BY <2>3, <2>4, OneAgent
<1>2. HistoryIsGood'
  BY DEF IInv, HistoryIsGood, ApprovedOnly
<1>3. chan' \in [Streams -> Seq(StreamMsg)]
  <2>1. chan \in [Streams -> Seq(StreamMsg)] /\ <<>> \in Seq(StreamMsg)
    BY DEF IInv
  <2> QED BY <2>1 DEF StartStream
<1>4. tokenRx' = s /\ s \in 1..MaxStreams /\ app.cur \in Nat
  BY DEF StartStream, Streams, IInv, AppShape
<1>5. AppShape'
  <2>1. app'.queue \in Seq(Streams \X Nat) /\ app'.approval \in {NoPrompt} \cup (Streams \X Nat)
    OBVIOUS
  <2>2. app'.cur \in 0..MaxStreams
    <3>1. s \in 0..MaxStreams
      BY <1>4, AgentAssumption
    <3> QED BY <3>1
  <2>3. app'.streaming \in BOOLEAN
    OBVIOUS
  <2> QED BY <2>1, <2>2, <2>3 DEF IInv, AppShape
<1>6. StreamingIsLive' /\ EndsInOrder'
  BY <1>4 DEF StreamingIsLive, EndsInOrder
<1>7. CancelledIsLeft'
  <2>1. cancelled' \subseteq 1..app.cur
    BY InterruptsOnlyAsked DEF StartStream
  <2>2. cancelled' \subseteq 1..s /\ s \notin cancelled' /\ 0 \notin cancelled'
    BY <1>4, <2>1
  <2> QED BY <1>4, <2>2 DEF CancelledIsLeft, NoPrompt
<1> QED BY <1>1, <1>2, <1>3, <1>4, <1>5, <1>6, <1>7, AgentAssumption DEF IInv

LEMMA AskIInv == ASSUME IInv, Ask \/ AskAside PROVE IInv'
<1> PICK s : s = app.cur + 1
  OBVIOUS
<1>0. DOMAIN Interrupted = DOMAIN app /\ Interrupted.at = "drain" /\ Interrupted.approval = app.approval
  BY InterruptedFields
<1>1. CASE Ask
  <2>1. s \in Streams /\ StartStream(s, ~app.transient) /\ app.approval = NoPrompt /\ UNCHANGED hist
        /\ app' = [Interrupted EXCEPT !.cur = s, !.streaming = TRUE, !.queue = <<>>, !.ended = "no",
             !.msgs = Append(Trimmed(@), NewRow("user", s, TRUE, FALSE))]
    BY <1>1 DEF Ask, KeyAccepted
  <2>2. DOMAIN app' = DOMAIN app /\ app'.at = "drain" /\ app'.cur = s /\ app'.streaming = TRUE
        /\ app'.ended = "no" /\ app'.queue = <<>> /\ app'.approval = NoPrompt
    BY <1>0, <2>1 DEF IInv, AppShape
  <2>3. (~app.transient) \in BOOLEAN
    OBVIOUS
  <2> QED BY <2>1, <2>2, <2>3, AskedIInv
<1>2. CASE AskAside
  <2>1. s \in Streams /\ StartStream(s, FALSE) /\ app.approval = NoPrompt
        /\ hist' = [hist EXCEPT !.btw = @ \cup {s}]
        /\ app' = [Interrupted EXCEPT !.cur = s, !.streaming = TRUE, !.queue = <<>>, !.ended = "no",
             !.transient = TRUE, !.nextCtx = TRUE, !.msgs = Append(@, NewRow("user", s, TRUE, TRUE))]
    BY <1>2 DEF AskAside, KeyAccepted
  <2>2. DOMAIN app' = DOMAIN app /\ app'.at = "drain" /\ app'.cur = s /\ app'.streaming = TRUE
        /\ app'.ended = "no" /\ app'.queue = <<>> /\ app'.approval = NoPrompt
    BY <1>0, <2>1 DEF IInv, AppShape
  <2>3. DOMAIN hist' = DOMAIN hist /\ hist'.yes = hist.yes /\ hist'.ran = hist.ran
    BY <2>1 DEF IInv, HistoryIsGood
  <2> QED BY <2>1, <2>2, <2>3, AskedIInv
<1> QED BY <1>1, <1>2

(* The rows change, and the stream is stopped if there is one. *)
LEMMA StoppedIInv ==
  ASSUME IInv, StopStream, app.approval = NoPrompt, UNCHANGED hist,
         DOMAIN app' = DOMAIN app, app'.at = Interrupted.at, app'.cur = Interrupted.cur,
         app'.streaming = Interrupted.streaming, app'.ended = Interrupted.ended,
         app'.queue = Interrupted.queue, app'.approval = Interrupted.approval
  PROVE  IInv'
<1>0. app.streaming \in BOOLEAN /\ app.queue \in Seq(Streams \X Nat)
  BY DEF IInv, AppShape
<1>1. CASE app.streaming
  <2>1. app'.at = "drain" /\ app'.cur = app.cur /\ app'.streaming = FALSE /\ app'.ended = "no"
        /\ app'.queue = <<>> /\ app'.approval = NoPrompt
    BY <1>1, InterruptedFields
  <2>2. cancelled' \subseteq 1..app.cur /\ DropReceiver /\ UNCHANGED agent
    BY <1>1, InterruptsOnlyAsked DEF StopStream
  <2> QED BY <2>1, <2>2, DropKeepsTypes, AgentsAreSame, StreamLeft
<1>2. CASE ~app.streaming
  <2>1. app'.at = "drain" /\ app'.cur = app.cur /\ app'.streaming = app.streaming
        /\ app'.ended = app.ended /\ app'.queue = app.queue /\ app'.approval = app.approval
    BY <1>2, InterruptedFields
  <2>2. UNCHANGED agentVars
    BY <1>2 DEF StopStream, Interrupts, agentVars
  <2> QED BY <1>0, <2>1, <2>2, SameStream
<1> QED BY <1>1, <1>2

LEMMA SwitchIInv ==
  ASSUME IInv, (\E rows \in Targets : SwitchConversation(rows)) \/ ClearConversation
  PROVE  IInv'
<1>0. DOMAIN Interrupted = {"at", "cur", "streaming", "transient", "nextCtx", "ended", "queue", "msgs",
                            "approval", "disk"}
      /\ DOMAIN Interrupted = DOMAIN app
  BY InterruptedFields DEF IInv, AppShape
<1>1. StopStream /\ app.approval = NoPrompt /\ UNCHANGED hist
  BY DEF SwitchConversation, ClearConversation, KeyAccepted
<1>2. \/ app' = Interrupted
      \/ \E rows : app' = [Interrupted EXCEPT !.msgs = rows, !.disk = rows]
      \/ app' = [Interrupted EXCEPT !.msgs = <<>>]
  BY DEF SwitchConversation, ClearConversation
<1> DEFINE SameFields ==
      DOMAIN app' = DOMAIN app /\ app'.at = Interrupted.at /\ app'.cur = Interrupted.cur
      /\ app'.streaming = Interrupted.streaming /\ app'.ended = Interrupted.ended
      /\ app'.queue = Interrupted.queue /\ app'.approval = Interrupted.approval
<1>3. SameFields
  <2>1. CASE app' = Interrupted
    BY <1>0, <2>1
  <2>2. ASSUME NEW rows, app' = [Interrupted EXCEPT !.msgs = rows, !.disk = rows] PROVE SameFields
    BY <1>0, <2>2
  <2>3. CASE app' = [Interrupted EXCEPT !.msgs = <<>>]
    BY <1>0, <2>3
  <2> QED BY <1>2, <2>1, <2>2, <2>3
<1> QED BY <1>1, <1>3, StoppedIInv

LEMMA CloseIInv == ASSUME IInv, Quit \/ PaneGone PROVE IInv'
<1>1. PICK saved : Close(saved)
  BY DEF Quit, PaneGone
<1>2. DOMAIN app' = DOMAIN app /\ app'.at = "closed" /\ app'.cur = app.cur /\ app'.streaming = FALSE
      /\ app'.ended = "no" /\ app'.queue = <<>> /\ app'.approval = NoPrompt
  BY <1>1 DEF Close, IInv, AppShape
<1>3. DropReceiver /\ UNCHANGED <<agent, cancelled, hist>> /\ cancelled' \subseteq 1..app.cur
  BY <1>1 DEF Close, IInv, CancelledIsLeft
<1> QED BY <1>2, <1>3, DropKeepsTypes, AgentsAreSame, StreamLeft

LEMMA NextIInv == IInv /\ [Next]_vars => IInv'
<1> SUFFICES ASSUME IInv, [Next]_vars PROVE IInv'
  OBVIOUS
<1>1. CASE UNCHANGED vars
  <2>1. UNCHANGED <<agent, chan, tokenRx, cancelled, hist, app>>
    BY <1>1 DEF vars, agentVars
  <2> QED BY <2>1, AgentsAreSame, OverlayIsSame DEF IInv
<1>2. CASE Loop
  BY <1>2, DrainIInv, EndIInv, DrainEmptyIInv, ReleaseIInv, FinalizeIInv DEF Loop
<1>3. CASE Key
  BY <1>3, AnswerPromptIInv, CancelIInv, AskIInv, SwitchIInv, CloseIInv DEF Key
<1>4. CASE \E s \in Streams : Agent(s)
  BY <1>4, AgentStepIInv
<1> QED BY <1>1, <1>2, <1>3, <1>4 DEF Next

(* The agents' rounds and calls, the prompt, the flags of the stream and   *)
(* the history fit together at every step.                                 *)
THEOREM ChatInvariant == Spec => []IInv
<1>1. Init => IInv
  BY InitIInv
<1>2. IInv /\ [Next]_vars => IInv'
  BY NextIInv
<1> QED BY <1>1, <1>2, PTL DEF Spec

(* A mutating tool runs only after the user's yes to its own request       *)
(* (run_agent's wait for approval, handle_key's answer).                   *)
THEOREM ChatRunsApprovedOnly == Spec => []ApprovedOnly
<1>1. IInv => ApprovedOnly
  BY DEF IInv, HistoryIsGood
<1> QED BY <1>1, ChatInvariant, PTL

(* The streaming indicator tells the truth (submit, cancel_stream,         *)
(* drain_tokens).                                                          *)
THEOREM ChatStreamingIsLive == Spec => []StreamingIsLive
<1>1. IInv => StreamingIsLive
  BY DEF IInv
<1> QED BY <1>1, ChatInvariant, PTL

-----------------------------------------------------------------------------
LEMMA OnlyAnswersApprove ==
  ASSUME IInv, [Next]_vars, hist'.yes # hist.yes
  PROVE  \E yes \in BOOLEAN : AnswerPrompt(yes)
<1>0. DOMAIN hist = {"btw", "sent", "yes", "ran"}
  BY DEF IInv, HistoryIsGood
<1>1. CASE UNCHANGED vars
  BY <1>1 DEF vars, agentVars
<1>2. CASE Loop
  BY <1>2 DEF Loop, DrainStart, DrainToken, DrainToolStart, DrainApproval, DrainToolEnd, DrainEnd,
     DrainDisconnected, DrainEmpty, Release, FinalizeErr, FinalizeDone, agentVars
<1>3. CASE Key
  <2>1. AskAside => hist'.yes = hist.yes
    BY <1>0 DEF AskAside
  <2>2. Cancel \/ Ask \/ (\E rows \in Targets : SwitchConversation(rows)) \/ ClearConversation => UNCHANGED hist
    BY DEF Cancel, Ask, SwitchConversation, ClearConversation
  <2>3. Quit \/ PaneGone => UNCHANGED hist
    BY DEF Quit, PaneGone, Close
  <2> QED BY <1>3, <2>1, <2>2, <2>3 DEF Key
<1>4. ASSUME NEW s \in Streams, Agent(s) PROVE hist'.yes = hist.yes
  <2>1. ModelSpeaks(s) => hist'.yes = hist.yes
    BY <1>0 DEF ModelSpeaks
  <2>2. StartTool(s) => hist'.yes = hist.yes
    BY <1>0 DEF StartTool
  <2> QED BY <1>4, <2>1, <2>2 DEF Agent, AgentStep, StartRound, HitRoundLimit, ModelEnds, ModelCallsTools,
        EndRound, BadArguments, CallWithoutApproval, AskApproval, ApprovalEnds, CallRejected,
        FinishTool, Panic
<1> QED BY <1>1, <1>2, <1>3, <1>4 DEF Next

(* No key approves a request of a stream that was cancelled (cancel_stream *)
(* and submit leave no prompt and no message that would open one).         *)
THEOREM ChatCancelsForGood == Spec => CancelledIsNeverApproved
<1>1. ASSUME IInv, [Next]_vars
      PROVE  \A p \in hist'.yes \ hist.yes : p[1] \notin cancelled
  <2> SUFFICES ASSUME NEW p \in hist'.yes \ hist.yes PROVE p[1] \notin cancelled
    OBVIOUS
  <2>1. PICK yes \in BOOLEAN : AnswerPrompt(yes)
    BY <1>1, OnlyAnswersApprove
  <2>2. p = app.approval
    <3>1. DOMAIN hist = {"btw", "sent", "yes", "ran"}
      BY <1>1 DEF IInv, HistoryIsGood
    <3>2. hist'.yes = IF yes THEN hist.yes \cup {app.approval} ELSE hist.yes
      BY <2>1, <3>1 DEF AnswerPrompt
    <3> QED BY <3>2
  <2> QED BY <1>1, <2>2 DEF IInv, CancelledIsLeft
<1>2. IInv /\ [Next]_vars => [\A p \in hist'.yes \ hist.yes : p[1] \notin cancelled]_vars
  BY <1>1
<1> QED BY <1>2, ChatInvariant, PTL DEF Spec, CancelledIsNeverApproved

-----------------------------------------------------------------------------
(* A cancelled thread between two calls never gets to another one. *)
Stopped(s) == s \in cancelled /\ agent[s].at \in {"round", "model", "tools", "rejected", "exited"}

LEMMA OthersStay ==
  ASSUME IInv, NEW s \in Streams, NEW r \in Streams, r # s, AgentStep(r)
  PROVE  agent'[s] = agent[s] /\ cancelled' = cancelled
BY DEF IInv, AgentsAreGood, AgentStep, StartRound, HitRoundLimit, ModelSpeaks, ModelEnds, ModelCallsTools,
   EndRound, BadArguments, CallWithoutApproval, AskApproval, ApprovalEnds, CallRejected, StartTool,
   FinishTool, Panic, GoTo, NextCall

LEMMA StoppedStays == ASSUME IInv, NEW s \in Streams, Stopped(s), [Next]_vars PROVE Stopped(s)'
<1>0. agent[s] \in AgentRecord /\ DOMAIN agent = Streams /\ agent \in [Streams -> AgentRecord]
  BY AgentInHand DEF IInv, AgentsAreGood
<1>1. CASE UNCHANGED vars
  BY <1>1 DEF vars, agentVars, Stopped
<1>2. CASE Loop
  BY <1>2 DEF Stopped, Loop, DrainStart, DrainToken, DrainToolStart, DrainApproval, DrainToolEnd, DrainEnd,
     DrainDisconnected, DrainEmpty, Release, FinalizeErr, FinalizeDone, agentVars
<1>3. CASE Key
  <2>1. cancelled \subseteq cancelled'
    BY <1>3 DEF Key, AnswerPrompt, Cancel, Ask, AskAside, SwitchConversation, ClearConversation, Quit,
       PaneGone, Close, StartStream, StopStream, Interrupts
  <2>2. ASSUME NEW yes \in BOOLEAN, AnswerPrompt(yes) PROVE agent'[s] = agent[s]
    <3> PICK r : r = app.approval[1]
      OBVIOUS
    <3>1. agent' = agent \/ (agent[r].at = "waiting" /\ \E state : GoTo(r, state))
      BY <2>2 DEF AnswerPrompt
    <3>2. agent[s].at # "waiting"
      BY DEF Stopped
    <3> QED BY <1>0, <3>1, <3>2 DEF GoTo
  <2>3. ASSUME NEW r \in Streams, NEW offered, StartStream(r, offered)
        PROVE  agent'[s] = agent[s] \/ agent'[s].at = "round"
    BY <1>0, <2>3 DEF StartStream, AgentRecord
  <2>4. Ask \/ AskAside => \E r \in Streams : \E offered : StartStream(r, offered)
    BY DEF Ask, AskAside
  <2>5. Cancel \/ (\E rows \in Targets : SwitchConversation(rows)) \/ ClearConversation \/ Quit \/ PaneGone
        => UNCHANGED agent
    BY DEF Cancel, SwitchConversation, ClearConversation, Quit, PaneGone, Close, StopStream
  <2>6. agent'[s] = agent[s] \/ agent'[s].at = "round"
    BY <1>3, <2>2, <2>3, <2>4, <2>5 DEF Key
  <2> QED BY <2>1, <2>6 DEF Stopped
<1>4. ASSUME NEW r \in Streams, Agent(r) PROVE Stopped(s)'
  <2>1. CASE r # s
    BY <1>4, <2>1, OthersStay DEF Agent, Stopped
  <2>2. CASE r = s
    <3>1. cancelled' = cancelled /\ s \in cancelled
      BY <1>4, <2>2 DEF Stopped, Agent, AgentStep, StartRound, HitRoundLimit, ModelSpeaks, ModelEnds,
         ModelCallsTools, EndRound, BadArguments, CallWithoutApproval, AskApproval, ApprovalEnds,
         CallRejected, StartTool, FinishTool, Panic
    <3>2. \/ HitRoundLimit(s) \/ ModelSpeaks(s) \/ EndRound(s) \/ CallRejected(s)
          \/ \E last \in {"done", "err"} : ModelEnds(s, last)
          \/ \E n \in 1..MaxTools : ModelCallsTools(s, n)
      BY <1>4, <2>2, <3>1 DEF Stopped, Agent, AgentStep, At, StartRound, BadArguments, CallWithoutApproval,
         AskApproval, TakesCall, ApprovalEnds, StartTool, FinishTool, Panic
    <3>3. agent'[s].at \in {"round", "model", "tools", "rejected", "exited"}
      BY <1>0, <3>2 DEF AgentRecord, HitRoundLimit, ModelSpeaks, EndRound, CallRejected, ModelEnds,
         ModelCallsTools, At, GoTo, NextCall
    <3> QED BY <3>1, <3>3 DEF Stopped
  <2> QED BY <2>1, <2>2
<1> QED BY <1>1, <1>2, <1>3, <1>4 DEF Next

(* Once a cancel found the thread between two calls, no tool runs for that *)
(* question any more (run_agent's loop over the calls).                    *)
THEOREM ChatStopsTools == Spec => CancelStopsTools
<1>1. SUFFICES ASSUME NEW s \in Streams
               PROVE  Spec => [](s \in cancelled /\ agent[s].at \in {"round", "model", "tools", "rejected"}
                                 => [](agent[s].at # "exec"))
  BY DEF CancelStopsTools
<1>2. s \in cancelled /\ agent[s].at \in {"round", "model", "tools", "rejected"} => Stopped(s)
  BY DEF Stopped
<1>3. IInv /\ Stopped(s) /\ [Next]_vars => Stopped(s)'
  BY StoppedStays
<1>4. Stopped(s) => agent[s].at # "exec"
  BY DEF Stopped
<1> QED BY <1>2, <1>3, <1>4, ChatInvariant, PTL DEF Spec

-----------------------------------------------------------------------------
(* The second part: the rows.                                              *)
(*                                                                         *)
(* Induction over data: a set of natural numbers has a smallest one, so a  *)
(* set that holds 0 and the successors of what it holds holds them all.    *)
LEMMA Smallest ==
  ASSUME NEW T, T \subseteq Nat, T # {}
  PROVE  \E m \in T : \A k \in T : m <= k
<1> DEFINE C == {T \cap 0..n : n \in T}
           R == StrictSubsetOrdering(Nat)
<1>1. C \subseteq FiniteSubsetsOf(Nat)
  <2>1. ASSUME NEW n \in T PROVE IsFiniteSet(T \cap 0..n)
    <3>1. IsFiniteSet(0..n)
      BY FS_Interval
    <3> QED BY <3>1, FS_Subset
  <2> QED BY <2>1 DEF FiniteSubsetsOf
<1>2. C # {}
  OBVIOUS
<1>3. IsWellFoundedOn(R, FiniteSubsetsOf(Nat))
  BY FS_StrictSubsetOrderingWellFounded
<1>4. PICK x \in C : \A y \in C : ~(<<y, x>> \in R)
  <2> HIDE DEF C, R
  <2> QED BY <1>1, <1>2, <1>3, WFMin
<1>5. PICK m \in T : x = T \cap 0..m
  OBVIOUS
<1>6. ASSUME NEW k \in T, k < m PROVE FALSE
  <2>1. T \cap 0..k \in C /\ T \cap 0..k \subseteq x /\ m \in x /\ m \notin T \cap 0..k
    BY <1>5, <1>6
  <2>2. <<T \cap 0..k, x>> \in R
    BY <2>1, <1>5 DEF StrictSubsetOrdering
  <2> QED BY <2>1, <2>2, <1>4
<1> QED BY <1>6

LEMMA InductionOnSet ==
  ASSUME NEW S, 0 \in S, \A n \in Nat : n \in S => n + 1 \in S
  PROVE  Nat \subseteq S
<1> SUFFICES ASSUME Nat \ S # {} PROVE FALSE
  OBVIOUS
<1>1. PICK m \in Nat \ S : \A k \in Nat \ S : m <= k
  BY Smallest
<1>2. m # 0 /\ m - 1 \in Nat /\ m - 1 \in S
  BY <1>1
<1>3. (m - 1) + 1 \in S
  BY <1>2
<1> QED BY <1>3

(* A finite set of positions has a last one. *)
LEMMA LastPosition ==
  ASSUME NEW n \in Nat, NEW I \in SUBSET (1..n), I # {}
  PROVE  Max(I) \in I /\ \A j \in I : Max(I) >= j
<1> DEFINE T == {n - i : i \in I}
<1>1. T \subseteq Nat /\ T # {}
  <2>1. \A i \in I : i \in Nat /\ n - i \in Nat
    OBVIOUS
  <2> QED BY <2>1
<1>2. PICK m \in T : \A k \in T : m <= k
  <2> HIDE DEF T
  <2> QED BY <1>1, Smallest
<1>3. PICK i \in I : m = n - i
  BY <1>2
<1>4. \A j \in I : i >= j
  <2> SUFFICES ASSUME NEW j \in I PROVE i >= j
    OBVIOUS
  <2>1. m <= n - j
    BY <1>2
  <2> QED BY <1>3, <2>1
<1> QED BY <1>3, <1>4 DEF Max

-----------------------------------------------------------------------------
(* The positions kept, one after the other: an increasing list of them all.*)
Lists(e, m, K) ==
  /\ m \in Nat /\ e \in [1..m -> K]
  /\ \A i, j \in 1..m : i < j => e[i] < e[j]
  /\ \A k \in K : \E j \in 1..m : e[j] = k

Picks(s, rows, e, m, K) == Lists(e, m, K) /\ s = [j \in 1..m |-> rows[e[j]]]

LEMMA KeptPrefix ==
  ASSUME NEW R, NEW rows \in Seq(R), NEW K,
         NEW f, f = [n \in 0..Len(rows) |->
                       IF n = 0 THEN <<>>
                       ELSE IF n \in K THEN Append(f[n - 1], rows[n]) ELSE f[n - 1]]
  PROVE  \A n \in 0..Len(rows) : \E m, e : Picks(f[n], rows, e, m, K \cap 1..n)
<1> DEFINE Good(n) == \E m, e : Picks(f[n], rows, e, m, K \cap 1..n)
           G == {n \in Nat : n <= Len(rows) => Good(n)}
<1>0. Len(rows) \in Nat
  OBVIOUS
<1>a. f[0] = <<>>
  BY <1>0
<1>b. ASSUME NEW n \in Nat, n + 1 <= Len(rows)
      PROVE  f[n + 1] = IF n + 1 \in K THEN Append(f[n], rows[n + 1]) ELSE f[n]
  <2>1. n + 1 \in 0..Len(rows) /\ n + 1 # 0 /\ (n + 1) - 1 = n
    BY <1>0, <1>b
  <2> QED BY <2>1
<1>1. 0 \in G
  <2>2. Picks(<<>>, rows, <<>>, 0, K \cap 1..0)
    BY DEF Lists, Picks
  <2>3. Good(0)
    BY <1>a, <2>2
  <2> HIDE DEF Good
  <2> QED BY <2>3
<1>2. ASSUME NEW n \in Nat, n \in G PROVE n + 1 \in G
  <2> SUFFICES ASSUME n + 1 <= Len(rows) PROVE Good(n + 1)
    <3> HIDE DEF Good
    <3> QED OBVIOUS
  <2>0. n <= Len(rows)
    BY <1>0
  <2>1. PICK m, e : Picks(f[n], rows, e, m, K \cap 1..n)
    BY <1>2, <2>0
  <2>5. Lists(e, m, K \cap 1..n) /\ f[n] = [j \in 1..m |-> rows[e[j]]]
    BY <2>1 DEF Picks
  <2>2. f[n + 1] = IF n + 1 \in K THEN Append(f[n], rows[n + 1]) ELSE f[n]
    BY <1>b
  <2>3. CASE n + 1 \notin K
    <3>1. K \cap 1..(n + 1) = K \cap 1..n
      BY <2>3
    <3> QED BY <2>1, <2>2, <2>3, <3>1
  <2>4. CASE n + 1 \in K
    <3> DEFINE d == [j \in 1..(m + 1) |-> IF j = m + 1 THEN n + 1 ELSE e[j]]
    <3>0. m \in Nat /\ e \in [1..m -> K \cap 1..n] /\ m + 1 \in 1..(m + 1)
      BY <2>5 DEF Lists
    <3>1. d \in [1..(m + 1) -> K \cap 1..(n + 1)]
      BY <2>4, <3>0
    <3>2. \A i, j \in 1..(m + 1) : i < j => d[i] < d[j]
      <4> SUFFICES ASSUME NEW i \in 1..(m + 1), NEW j \in 1..(m + 1), i < j PROVE d[i] < d[j]
        OBVIOUS
      <4>1. i \in 1..m /\ d[i] = e[i] /\ e[i] \in 1..n
        BY <3>0
      <4>2. CASE j = m + 1
        BY <4>1, <4>2
      <4>3. CASE j # m + 1
        BY <2>5, <3>0, <4>1, <4>3 DEF Lists
      <4> QED BY <4>2, <4>3
    <3>5. d[m + 1] = n + 1 /\ \A j \in 1..m : j \in 1..(m + 1) /\ d[j] = e[j]
      BY <3>0
    <3>3. \A k \in K \cap 1..(n + 1) : \E j \in 1..(m + 1) : d[j] = k
      <4> SUFFICES ASSUME NEW k \in K \cap 1..(n + 1) PROVE \E j \in 1..(m + 1) : d[j] = k
        OBVIOUS
      <4> HIDE DEF d
      <4>1. CASE k = n + 1
        BY <3>0, <3>5, <4>1
      <4>2. CASE k # n + 1
        <5>1. k \in K \cap 1..n
          BY <4>2
        <5>2. PICK j \in 1..m : e[j] = k
          BY <2>5, <5>1 DEF Lists
        <5> QED BY <3>5, <5>2
      <4> QED BY <4>1, <4>2
    <3>4. f[n + 1] = [j \in 1..(m + 1) |-> rows[d[j]]]
      <4> DEFINE g == [j \in 1..m |-> rows[e[j]]]
      <4>1. g \in Seq(R) /\ Len(g) = m /\ DOMAIN g = 1..m
        <5>1. \A j \in 1..m : e[j] \in 1..Len(rows)
          BY <1>0, <2>0, <3>0
        <5>2. \A j \in 1..m : rows[e[j]] \in R
          BY <5>1
        <5> QED BY <3>0, <5>2
      <4>2. f[n + 1] = Append(g, rows[n + 1])
        BY <2>2, <2>4, <2>5
      <4>4. rows[n + 1] \in R
        BY <1>0
      <4>3. \A j \in 1..m : g[j] = rows[e[j]]
        OBVIOUS
      <4> HIDE DEF d, g
      <4>5. DOMAIN Append(g, rows[n + 1]) = 1..(m + 1)
        BY <3>0, <4>1, <4>4
      <4>6. ASSUME NEW j \in 1..(m + 1) PROVE Append(g, rows[n + 1])[j] = rows[d[j]]
        <5>1. CASE j = m + 1
          BY <3>0, <3>5, <4>1, <4>4, <5>1
        <5>2. CASE j # m + 1
          <6>1. j \in 1..m
            BY <3>0, <5>2
          <6> QED BY <3>0, <3>5, <4>1, <4>3, <4>4, <6>1
        <5> QED BY <5>1, <5>2
      <4>7. Append(g, rows[n + 1]) = [j \in 1..(m + 1) |-> Append(g, rows[n + 1])[j]]
        BY <3>0, <4>1, <4>4, <4>5
      <4> QED BY <4>2, <4>6, <4>7
    <3>6. Lists(d, m + 1, K \cap 1..(n + 1))
      <4> HIDE DEF d
      <4> QED BY <3>0, <3>1, <3>2, <3>3 DEF Lists
    <3>7. Picks(f[n + 1], rows, d, m + 1, K \cap 1..(n + 1))
      BY <3>4, <3>6 DEF Picks
    <3> HIDE DEF d
    <3> QED BY <3>7
  <2> QED BY <2>3, <2>4
<1>3. Nat \subseteq G
  <2> HIDE DEF G
  <2> QED BY <1>1, <1>2, InductionOnSet
<1>4. \A n \in 0..Len(rows) : Good(n)
  <2> HIDE DEF Good
  <2> QED BY <1>0, <1>3
<1> QED BY <1>4

(* A function defined by recursion on the natural numbers exists. *)
Recursion(f, S, a, F) == f \in [Nat -> S] /\ f[0] = a /\ \A n \in Nat : f[n + 1] = F[n][f[n]]

LEMMA RecursionExists ==
  ASSUME NEW S, NEW a \in S, NEW F \in [Nat -> [S -> S]]
  PROVE  \E f : Recursion(f, S, a, F)
<1> DEFINE Upto(n, g) ==
             g \in [0..n -> S] /\ g[0] = a /\ \A i \in Nat : i + 1 <= n => g[i + 1] = F[i][g[i]]
           E == {n \in Nat : \E g : Upto(n, g)}
<1>1. Nat \subseteq E
  <2>1. 0 \in E
    <3>1. Upto(0, [i \in 0..0 |-> a])
      OBVIOUS
    <3> QED BY <3>1
  <2>2. ASSUME NEW n \in Nat, n \in E PROVE n + 1 \in E
    <3>1. PICK g : Upto(n, g)
      BY <2>2
    <3> DEFINE h == [i \in 0..(n+1) |-> IF i = n + 1 THEN F[n][g[n]] ELSE g[i]]
    <3>2. Upto(n + 1, h)
      <4>1. F[n][g[n]] \in S
        BY <3>1
      <4>2. h \in [0..(n+1) -> S]
        BY <3>1, <4>1
      <4>3. h[0] = a
        BY <3>1
      <4>4. ASSUME NEW i \in Nat, i + 1 <= n + 1 PROVE h[i+1] = F[i][h[i]]
        <5>1. CASE i = n
          <6>1. h[n + 1] = F[n][g[n]] /\ h[n] = g[n]
            OBVIOUS
          <6> QED BY <5>1, <6>1
        <5>2. CASE i # n
          <6>1. i + 1 <= n /\ i \in 0..n /\ i + 1 \in 0..n /\ i # n + 1 /\ i + 1 # n + 1
            BY <4>4, <5>2
          <6>2. h[i + 1] = g[i + 1] /\ h[i] = g[i]
            BY <6>1
          <6> QED BY <3>1, <6>1, <6>2
        <5> QED BY <5>1, <5>2
      <4> QED BY <4>2, <4>3, <4>4
    <3> HIDE DEF Upto
    <3> QED BY <3>2
  <2> HIDE DEF E
  <2> QED BY <2>1, <2>2, InductionOnSet
<1>2. ASSUME NEW m \in Nat, NEW g, NEW n \in Nat, NEW h, Upto(m, g), Upto(n, h)
      PROVE  \A i \in Nat : i <= m /\ i <= n => g[i] = h[i]
  <2> DEFINE I == {i \in Nat : i <= m /\ i <= n => g[i] = h[i]}
  <2>1. 0 \in I
    BY <1>2
  <2>2. ASSUME NEW i \in Nat, i \in I PROVE i + 1 \in I
    <3> SUFFICES ASSUME i + 1 <= m /\ i + 1 <= n PROVE g[i+1] = h[i+1]
      OBVIOUS
    <3>1. g[i] = h[i]
      BY <2>2
    <3> QED BY <1>2, <3>1
  <2>3. Nat \subseteq I
    <3> HIDE DEF I
    <3> QED BY <2>1, <2>2, InductionOnSet
  <2> QED BY <2>3
<1> DEFINE G == [n \in Nat |-> CHOOSE g : Upto(n, g)]
           f == [n \in Nat |-> G[n][n]]
<1>3. \A n \in Nat : Upto(n, G[n])
  <2> HIDE DEF Upto
  <2> QED BY <1>1
<1> HIDE DEF G
<1>4. f \in [Nat -> S] /\ f[0] = a
  BY <1>3
<1>6. ASSUME NEW n \in Nat PROVE f[n+1] = F[n][f[n]]
  <2>1. G[n+1][n+1] = F[n][G[n+1][n]]
    BY <1>3
  <2>2. G[n+1][n] = G[n][n]
    <3>1. Upto(n + 1, G[n + 1]) /\ Upto(n, G[n]) /\ n + 1 \in Nat /\ n <= n /\ n <= n + 1
      BY <1>3
    <3> HIDE DEF Upto
    <3> QED BY <1>2, <3>1
  <2> QED BY <2>1, <2>2
<1>7. Recursion(f, S, a, F)
  <2> HIDE DEF f
  <2> QED BY <1>4, <1>6 DEF Recursion
<1> QED BY <1>7

LEMMA KeptPicks ==
  ASSUME NEW R, NEW rows \in Seq(R), NEW K
  PROVE  \E m, e : Picks(Kept(rows, K), rows, e, m, K \cap DOMAIN rows)
<1> DEFINE L == Len(rows)
           Def(g) == [n \in 0..L |->
                        IF n = 0 THEN <<>>
                        ELSE IF n \in K THEN Append(g[n - 1], rows[n]) ELSE g[n - 1]]
           Step(n, s) == IF n + 1 \in K /\ n + 1 <= L THEN Append(s, rows[n + 1]) ELSE s
           F == [n \in Nat |-> [s \in Seq(R) |-> Step(n, s)]]
<1>1. F \in [Nat -> [Seq(R) -> Seq(R)]]
  OBVIOUS
<1>8. \A n \in Nat : \A s \in Seq(R) : F[n][s] = Step(n, s)
  OBVIOUS
<1>9. <<>> \in Seq(R)
  OBVIOUS
<1>2. PICK f : Recursion(f, Seq(R), <<>>, F)
  <2> HIDE DEF F
  <2> QED BY <1>1, <1>9, RecursionExists
<1> DEFINE g == [n \in 0..L |-> f[n]]
<1>3. g = Def(g)
  <2>1. ASSUME NEW n \in 0..L, n # 0
        PROVE  f[n] = IF n \in K THEN Append(f[n - 1], rows[n]) ELSE f[n - 1]
    <3>1. PICK k \in Nat : n = k + 1 /\ n - 1 = k /\ n <= L
      BY <2>1
    <3> HIDE DEF F, L
    <3>2. f[k + 1] = F[k][f[k]] /\ f[k] \in Seq(R)
      BY <1>2 DEF Recursion
    <3>3. f[k + 1] = IF k + 1 \in K /\ k + 1 <= L THEN Append(f[k], rows[k + 1]) ELSE f[k]
      BY <1>8, <3>2
    <3> QED BY <3>1, <3>3
  <2>2. \A n \in 0..L : n # 0 => n - 1 \in 0..L
    OBVIOUS
  <2> QED BY <1>2, <2>1, <2>2 DEF Recursion
<1> DEFINE c == CHOOSE h : h = Def(h)
<1>4. c = Def(c)
  <2> HIDE DEF g, Def
  <2> QED BY <1>3
<1>5. Kept(rows, K) = c[L]
  BY DEF Kept
<1>6. L \in 0..L /\ K \cap 1..L = K \cap DOMAIN rows
  OBVIOUS
<1>7. \A n \in 0..L : \E m, e : Picks(c[n], rows, e, m, K \cap 1..n)
  <2> HIDE DEF c
  <2> QED BY <1>4, KeptPrefix
<1> HIDE DEF c
<1> QED BY <1>5, <1>6, <1>7

-----------------------------------------------------------------------------
(* What a row may hold when cur is the current stream and btw the asides:  *)
(* a question is complete, an answer holds text of its own stream only,    *)
(* and what is said in an aside goes to marked rows.                       *)
IsOpen(row) == row.role # "tool" /\ ~row.complete

RowOK(row, cur, btw) ==
  /\ row.of <= cur
  /\ row.role = "user" => row.complete /\ row.by = {}
  /\ row.role = "text" => \A c \in row.by : c[1] = row.of
  /\ row.role = "text" /\ ~row.complete /\ row.of \in btw => row.ctx
  /\ row.role = "text" /\ ~row.ctx => \A c \in row.by : c[1] \in btw => c[2] = MaxRounds

(* The rows lie in the order of their streams. *)
GoodRows(rows, cur, btw) ==
  /\ rows \in Seq(Row)
  /\ \A i \in DOMAIN rows : RowOK(rows[i], cur, btw)
  /\ \A i, j \in DOMAIN rows : i < j => rows[i].of <= rows[j].of

LEMMA OpenTextIs ==
  ASSUME NEW rows \in Seq(Row)
  PROVE  /\ LastOpenText(rows) = 0 => \A i \in DOMAIN rows : ~IsOpen(rows[i])
         /\ LastOpenText(rows) # 0 =>
              /\ LastOpenText(rows) \in DOMAIN rows /\ IsOpen(rows[LastOpenText(rows)])
              /\ \A i \in DOMAIN rows : IsOpen(rows[i]) => i <= LastOpenText(rows)
<1> DEFINE I == {i \in 1..Len(rows) : rows[i].role # "tool" /\ ~rows[i].complete}
<1>1. LastOpenText(rows) = IF I # {} THEN Max(I) ELSE 0
  BY DEF LastOpenText, SelectLastInSeq
<1>2. Len(rows) \in Nat /\ DOMAIN rows = 1..Len(rows) /\ I \in SUBSET (1..Len(rows))
  OBVIOUS
<1>3. \A i \in DOMAIN rows : i \in I <=> IsOpen(rows[i])
  BY <1>2 DEF IsOpen
<1> HIDE DEF I
<1>4. I # {} => Max(I) \in I /\ \A j \in I : Max(I) >= j
  BY <1>2, LastPosition
<1>5. CASE I = {}
  BY <1>1, <1>3, <1>5
<1>6. CASE I # {}
  <2>1. LastOpenText(rows) \in I /\ LastOpenText(rows) # 0 /\ \A j \in I : LastOpenText(rows) >= j
    BY <1>1, <1>2, <1>4, <1>6
  <2>2. \A i \in DOMAIN rows : IsOpen(rows[i]) => i <= LastOpenText(rows)
    BY <1>2, <1>3, <2>1
  <2> QED BY <1>2, <1>3, <2>1, <2>2
<1> QED BY <1>5, <1>6

LEMMA OpenToolIs ==
  ASSUME NEW rows \in Seq(Row), LastOpenTool(rows) # 0
  PROVE  LastOpenTool(rows) \in DOMAIN rows /\ rows[LastOpenTool(rows)].role = "tool"
<1> DEFINE I == {i \in 1..Len(rows) : rows[i].role = "tool" /\ ~rows[i].complete}
<1>1. LastOpenTool(rows) = IF I # {} THEN Max(I) ELSE 0
  BY DEF LastOpenTool, SelectLastInSeq
<1>2. Len(rows) \in Nat /\ DOMAIN rows = 1..Len(rows) /\ I \in SUBSET (1..Len(rows))
  OBVIOUS
<1>3. \A i \in I : i \in DOMAIN rows /\ rows[i].role = "tool"
  BY <1>2
<1> HIDE DEF I
<1> QED BY <1>1, <1>2, <1>3, LastPosition

(* Rows appended, replaced, kept.  *)
LEMMA GoodAppend ==
  ASSUME NEW cur \in Nat, NEW btw, NEW rows, GoodRows(rows, cur, btw),
         NEW row \in Row, RowOK(row, cur, btw), row.of = cur
  PROVE  GoodRows(Append(rows, row), cur, btw)
<1> DEFINE new == Append(rows, row)
<1>1. rows \in Seq(Row) /\ Len(rows) \in Nat /\ DOMAIN rows = 1..Len(rows)
  BY DEF GoodRows
<1>2. new \in Seq(Row) /\ DOMAIN new = 1..(Len(rows) + 1)
  BY <1>1
<1>3. \A i \in DOMAIN new : (i \in DOMAIN rows /\ new[i] = rows[i]) \/ (i = Len(rows) + 1 /\ new[i] = row)
  BY <1>1
<1> HIDE DEF new
<1>4. \A i \in DOMAIN new : RowOK(new[i], cur, btw)
  BY <1>3 DEF GoodRows
<1>5. ASSUME NEW i \in DOMAIN new, NEW j \in DOMAIN new, i < j PROVE new[i].of <= new[j].of
  <2>1. i \in DOMAIN rows /\ new[i] = rows[i]
    BY <1>1, <1>2, <1>3, <1>5
  <2>2. CASE j \in DOMAIN rows /\ new[j] = rows[j]
    BY <1>5, <2>1, <2>2 DEF GoodRows
  <2>3. CASE new[j] = row
    BY <2>1, <2>3 DEF GoodRows, RowOK
  <2> QED BY <1>3, <2>2, <2>3
<1> QED BY <1>2, <1>4, <1>5 DEF GoodRows, new

LEMMA GoodUpdate ==
  ASSUME NEW cur, NEW btw, NEW rows, GoodRows(rows, cur, btw), NEW i \in DOMAIN rows,
         NEW row \in Row, RowOK(row, cur, btw), row.of = rows[i].of
  PROVE  GoodRows([rows EXCEPT ![i] = row], cur, btw)
<1> DEFINE new == [rows EXCEPT ![i] = row]
<1>1. rows \in Seq(Row) /\ DOMAIN new = DOMAIN rows /\ new \in Seq(Row)
  BY DEF GoodRows
<1>2. \A j \in DOMAIN rows : new[j] = IF j = i THEN row ELSE rows[j]
  BY <1>1
<1>3. \A j \in DOMAIN rows : new[j].of = rows[j].of
  BY <1>2
<1> HIDE DEF new
<1>4. \A j \in DOMAIN new : RowOK(new[j], cur, btw)
  BY <1>1, <1>2 DEF GoodRows
<1>5. \A j, k \in DOMAIN new : j < k => new[j].of <= new[k].of
  BY <1>1, <1>3 DEF GoodRows
<1> QED BY <1>1, <1>4, <1>5 DEF GoodRows, new

(* What is kept comes from the old rows, in their order, and nothing that  *)
(* is to be kept is lost.                                                  *)
LEMMA GoodKept ==
  ASSUME NEW cur, NEW btw, NEW rows, GoodRows(rows, cur, btw), NEW K
  PROVE  /\ GoodRows(Kept(rows, K), cur, btw)
         /\ \A i \in DOMAIN Kept(rows, K) : \E k \in K \cap DOMAIN rows : Kept(rows, K)[i] = rows[k]
         /\ \A k \in K \cap DOMAIN rows : \E i \in DOMAIN Kept(rows, K) : Kept(rows, K)[i] = rows[k]
<1> DEFINE new == Kept(rows, K)
<1>1. rows \in Seq(Row) /\ DOMAIN rows \subseteq Nat
  BY DEF GoodRows
<1>2. PICK m, e : Picks(new, rows, e, m, K \cap DOMAIN rows)
  BY <1>1, KeptPicks
<1> HIDE DEF new
<1>3. /\ m \in Nat /\ e \in [1..m -> K \cap DOMAIN rows] /\ new = [j \in 1..m |-> rows[e[j]]]
      /\ \A i, j \in 1..m : i < j => e[i] < e[j]
      /\ \A k \in K \cap DOMAIN rows : \E j \in 1..m : e[j] = k
  BY <1>2 DEF Picks, Lists
<1>4. DOMAIN new = 1..m /\ \A j \in 1..m : e[j] \in K \cap DOMAIN rows /\ new[j] = rows[e[j]]
  BY <1>3
<1>5. \A j \in 1..m : rows[e[j]] \in Row
  BY <1>1, <1>4
<1>6. new \in Seq(Row)
  BY <1>3, <1>5
<1>7. \A i \in DOMAIN new : RowOK(new[i], cur, btw)
  BY <1>4 DEF GoodRows
<1>8. \A i, j \in DOMAIN new : i < j => new[i].of <= new[j].of
  BY <1>3, <1>4 DEF GoodRows
<1>9. \A k \in K \cap DOMAIN rows : \E i \in DOMAIN new : new[i] = rows[k]
  BY <1>3, <1>4
<1> QED BY <1>4, <1>6, <1>7, <1>8, <1>9 DEF GoodRows, new

LEMMA GoodTrimmed ==
  ASSUME NEW cur, NEW btw, NEW rows, GoodRows(rows, cur, btw)
  PROVE  GoodRows(Trimmed(rows), cur, btw)
<1>1. rows \in Seq(Row) /\ Len(rows) \in Nat /\ DOMAIN rows = 1..Len(rows)
  BY DEF GoodRows
<1>2. CASE Len(rows) < MaxRows
  BY <1>2 DEF Trimmed
<1>3. CASE ~(Len(rows) < MaxRows)
  <2> DEFINE d == Len(rows) - MaxRows + 1
             new == SubSeq(rows, d + 1, Len(rows))
  <2>1. d \in Nat /\ d <= Len(rows) /\ Trimmed(rows) = new
    BY <1>1, <1>3, AiChatAssumption DEF Trimmed
  <2>2. new \in Seq(Row) /\ DOMAIN new = 1..(Len(rows) - d)
    BY <1>1, <2>1
  <2>3. \A i \in DOMAIN new : i + d \in DOMAIN rows /\ new[i] = rows[i + d]
    BY <1>1, <2>1
  <2> HIDE DEF new, d
  <2>4. \A i \in DOMAIN new : RowOK(new[i], cur, btw)
    BY <2>3 DEF GoodRows
  <2>5. ASSUME NEW i \in DOMAIN new, NEW j \in DOMAIN new, i < j PROVE new[i].of <= new[j].of
    <3>1. i + d < j + d
      BY <2>1, <2>2, <2>5, <1>1
    <3> QED BY <2>3, <3>1 DEF GoodRows
  <2> QED BY <2>1, <2>2, <2>4, <2>5 DEF GoodRows
<1> QED BY <1>2, <1>3

LEMMA GoodLater ==
  ASSUME NEW cur \in Nat, NEW btw, NEW rows, GoodRows(rows, cur, btw), btw \subseteq 1..cur
  PROVE  GoodRows(rows, cur + 1, btw) /\ GoodRows(rows, cur + 1, btw \cup {cur + 1})
<1>0. \A i \in DOMAIN rows : rows[i] \in Row
  BY DEF GoodRows
<1>1. ASSUME NEW i \in DOMAIN rows, NEW b, b \in {btw, btw \cup {cur + 1}}
      PROVE  RowOK(rows[i], cur + 1, b)
  <2>1. PICK row \in Row : row = rows[i]
    BY <1>0
  <2>2. RowOK(row, cur, btw)
    BY <2>1 DEF GoodRows
  <2>3. row.of \in 0..MaxStreams /\ row.of <= cur /\ row.of # cur + 1 /\ row.of <= cur + 1
    BY <2>2, AgentAssumption DEF RowOK, Row
  <2>4. row.role = "text" => \A c \in row.by : c[1] = row.of
    BY <2>2 DEF RowOK
  <2>5. row.role = "text" => \A c \in row.by : c[1] \in b => c[1] \in btw
    BY <1>1, <2>3, <2>4
  <2>6. row.of \in b => row.of \in btw
    BY <1>1, <2>3
  <2> QED BY <2>1, <2>2, <2>3, <2>5, <2>6 DEF RowOK
<1> QED BY <1>1 DEF GoodRows

-----------------------------------------------------------------------------
GoodSaved(rows, cur, btw) ==
  /\ rows \in Seq(Row)
  /\ \A i \in DOMAIN rows : \A c \in rows[i].by : c[1] <= cur /\ (c[1] \in btw => c[2] = MaxRounds)

(* The screen, the buffer and the file. *)
ScreenIsGood ==
  /\ app.at \in {"drain", "release", "finalize", "input", "closed"}
  /\ app.transient \in BOOLEAN /\ app.nextCtx \in BOOLEAN
  /\ app.ended \in {"no", "done", "err"}
  /\ hist.sent \subseteq Streams \X Nat /\ hist.btw \subseteq 1..app.cur
  /\ GoodRows(app.msgs, app.cur, hist.btw)
  /\ app.streaming => app.msgs # <<>> /\ app.msgs[Len(app.msgs)].of = app.cur
  /\ \A i \in DOMAIN app.queue : app.queue[i][1] = app.cur
  /\ GoodSaved(app.disk, app.cur, hist.btw)

Opened(rows, s) == \E i \in DOMAIN rows : IsOpen(rows[i]) /\ rows[i].of = s
Shown(rows, c) == \E i \in DOMAIN rows : rows[i].role = "text" /\ c \in rows[i].by

(* A thread that sent its end is gone, and no text follows the end. *)
EndsLast(c, a) ==
  \A j \in DOMAIN c : c[j].type \in {"done", "err"} =>
    /\ a.at = "exited"
    /\ \A k \in DOMAIN c : k > j => c[k].type # "token"

(* Text comes after a start: one in the channel, or one that was drained   *)
(* and opened a row.                                                       *)
StartsFirst(c, a, opened) ==
  /\ a.at = "model" /\ a.said > 0 => opened \/ \E i \in DOMAIN c : c[i].type = "start"
  /\ \A j \in DOMAIN c : c[j].type = "token" =>
       opened \/ \E i \in DOMAIN c : i < j /\ c[i].type = "start"

(* A thread that has said nothing yet. *)
Fresh(a) == a.at = "round" \/ (a.at = "model" /\ a.said = 0)

(* An aside has one start at most; until it is drained it is to be marked. *)
Marked(c, a, ctx) ==
  /\ Fresh(a) => ctx /\ \A i \in DOMAIN c : c[i].type # "start"
  /\ \A i \in DOMAIN c : c[i].type = "start" => ctx /\ \A j \in DOMAIN c : c[j].type = "start" => i = j

(* The threads and their channels. *)
ChannelsAreGood ==
  /\ \A s \in Streams :
       /\ s # tokenRx => chan[s] = <<>>
       /\ agent[s].at = "none" <=> s > app.cur
       /\ EndsLast(chan[s], agent[s])
  /\ app.ended = "done" => agent[app.cur].at = "exited"
  /\ app.queue # <<>> => Opened(app.msgs, app.cur)
  /\ tokenRx # 0 => StartsFirst(chan[tokenRx], agent[tokenRx], Opened(app.msgs, app.cur))
  /\ \A s \in hist.btw : ~agent[s].tools /\ agent[s].at \in {"round", "model", "exited"}
                         /\ agent[s].round = 0
  /\ tokenRx \in hist.btw => Marked(chan[tokenRx], agent[tokenRx], app.nextCtx)

(* What the model said in the current stream is on its way or on screen. *)
NothingIsLost ==
  /\ \A c \in hist.sent : c[1] <= app.cur
  /\ app.streaming /\ app.ended # "err" =>
       \A c \in hist.sent : c[1] = app.cur =>
         \/ tokenRx = app.cur /\ \E j \in DOMAIN chan[app.cur] : chan[app.cur][j] = Msg("token", c[2])
         \/ \E i \in DOMAIN app.queue : app.queue[i] = c
         \/ Shown(app.msgs, c)

ChatIsGood == ScreenIsGood /\ ChannelsAreGood /\ NothingIsLost

-----------------------------------------------------------------------------
LEMMA InitGood == Init => ChatIsGood
<1> SUFFICES ASSUME Init PROVE ChatIsGood
  OBVIOUS
<1>1. /\ agent = [s \in Streams |-> [at |-> "none", tools |-> FALSE, round |-> 0, said |-> 0,
                                     calls |-> 0, asked |-> 0]]
      /\ chan = [s \in Streams |-> <<>>] /\ tokenRx = 0
      /\ hist.btw = {} /\ hist.sent = {}
  BY DEF Init, AgentInit
<1>2. /\ app.at = "drain" /\ app.cur = 0 /\ app.streaming = FALSE /\ app.transient = FALSE
      /\ app.nextCtx = FALSE /\ app.ended = "no" /\ app.queue = <<>> /\ app.msgs = <<>> /\ app.disk = <<>>
  BY DEF Init
<1>3. ScreenIsGood
  <2>1. <<>> \in Seq(Row) /\ DOMAIN <<>> = {}
    OBVIOUS
  <2>2. GoodRows(<<>>, 0, {}) /\ GoodSaved(<<>>, 0, {})
    BY <2>1 DEF GoodRows, GoodSaved
  <2> QED BY <1>1, <1>2, <2>1, <2>2 DEF ScreenIsGood
<1>4. ChannelsAreGood
  <2>1. \A s \in Streams : chan[s] = <<>> /\ agent[s].at = "none" /\ s > app.cur
    BY <1>1, <1>2, AgentAssumption DEF Streams
  <2> QED BY <1>1, <1>2, <2>1 DEF ChannelsAreGood, EndsLast
<1>5. NothingIsLost
  BY <1>1 DEF NothingIsLost
<1> QED BY <1>3, <1>4, <1>5 DEF ChatIsGood

-----------------------------------------------------------------------------
(* The threads.  What one of them says goes behind what is in its channel. *)
LEMMA Behind ==
  ASSUME NEW c \in Seq(StreamMsg), NEW ms \in Seq(StreamMsg)
  PROVE  /\ DOMAIN (c \o ms) = 1..(Len(c) + Len(ms))
         /\ \A i \in DOMAIN c : i \in DOMAIN (c \o ms) /\ (c \o ms)[i] = c[i]
         /\ \A j \in DOMAIN (c \o ms) :
              \/ j \in DOMAIN c /\ (c \o ms)[j] = c[j]
              \/ \E k \in DOMAIN ms : j = Len(c) + k /\ (c \o ms)[j] = ms[k]
         /\ \A k \in DOMAIN ms : Len(c) + k \in DOMAIN (c \o ms) /\ (c \o ms)[Len(c) + k] = ms[k]
<1>1. Len(c) \in Nat /\ Len(ms) \in Nat /\ DOMAIN c = 1..Len(c) /\ DOMAIN ms = 1..Len(ms)
  OBVIOUS
<1>2. ASSUME NEW j \in DOMAIN (c \o ms)
      PROVE  \/ j \in DOMAIN c /\ (c \o ms)[j] = c[j]
             \/ \E k \in DOMAIN ms : j = Len(c) + k /\ (c \o ms)[j] = ms[k]
  <2>1. CASE j <= Len(c)
    BY <1>1, <2>1
  <2>2. CASE ~(j <= Len(c))
    <3>1. PICK k \in DOMAIN ms : j = Len(c) + k
      <4>1. j - Len(c) \in DOMAIN ms /\ j = Len(c) + (j - Len(c))
        BY <1>1, <2>2
      <4> QED BY <4>1
    <3>2. (c \o ms)[Len(c) + k] = ms[k]
      BY <1>1
    <3> QED BY <3>1, <3>2
  <2> QED BY <2>1, <2>2
<1> QED BY <1>1, <1>2

LEMMA EndsLastBehind ==
  ASSUME NEW c \in Seq(StreamMsg), NEW ms \in Seq(StreamMsg), NEW a, NEW b,
         EndsLast(c, a), a.at # "exited", EndsLast(ms, b)
  PROVE  EndsLast(c \o ms, b)
<1>0. Len(c) \in Nat /\ Len(ms) \in Nat /\ DOMAIN c = 1..Len(c) /\ DOMAIN ms = 1..Len(ms)
  OBVIOUS
<1> DEFINE d == c \o ms
<1>1. \A j \in DOMAIN d : d[j].type \in {"done", "err"} => \E k \in DOMAIN ms : j = Len(c) + k /\ d[j] = ms[k]
  BY Behind DEF EndsLast
<1>2. ASSUME NEW j \in DOMAIN d, d[j].type \in {"done", "err"}
      PROVE  b.at = "exited" /\ \A k \in DOMAIN d : k > j => d[k].type # "token"
  <2>1. PICK m \in DOMAIN ms : j = Len(c) + m /\ d[j] = ms[m]
    BY <1>1, <1>2
  <2>2. b.at = "exited" /\ \A n \in DOMAIN ms : n > m => ms[n].type # "token"
    BY <1>2, <2>1 DEF EndsLast
  <2>3. ASSUME NEW k \in DOMAIN d, k > j PROVE d[k].type # "token"
    <3>1. k \notin DOMAIN c
      BY <1>0, <2>1, <2>3
    <3>2. PICK n \in DOMAIN ms : k = Len(c) + n /\ d[k] = ms[n]
      BY <3>1, Behind
    <3>3. n > m
      BY <1>0, <2>1, <2>3, <3>2
    <3> QED BY <2>2, <3>2, <3>3
  <2> QED BY <2>2, <2>3
<1> HIDE DEF d
<1> QED BY <1>2 DEF EndsLast, d

LEMMA StartsFirstBehind ==
  ASSUME NEW c \in Seq(StreamMsg), NEW ms \in Seq(StreamMsg), NEW a, NEW b, NEW opened \in BOOLEAN,
         StartsFirst(c, a, opened),
         \A k \in DOMAIN ms : ms[k].type = "token" => a.at = "model" /\ a.said > 0,
         b.at = "model" /\ b.said > 0 =>
           (a.at = "model" /\ a.said > 0) \/ \E k \in DOMAIN ms : ms[k].type = "start"
  PROVE  StartsFirst(c \o ms, b, opened)
<1>0. Len(c) \in Nat /\ Len(ms) \in Nat /\ DOMAIN c = 1..Len(c) /\ DOMAIN ms = 1..Len(ms)
  OBVIOUS
<1> DEFINE d == c \o ms
<1>1. \A i \in DOMAIN c : i \in DOMAIN d /\ d[i] = c[i]
  BY Behind
<1>2. \A j \in DOMAIN d :
        \/ j \in DOMAIN c /\ d[j] = c[j]
        \/ \E k \in DOMAIN ms : j = Len(c) + k /\ d[j] = ms[k]
  BY Behind
<1>3. \A k \in DOMAIN ms : Len(c) + k \in DOMAIN d /\ d[Len(c) + k] = ms[k]
  BY Behind
<1> HIDE DEF d
<1>4. b.at = "model" /\ b.said > 0 => opened \/ \E i \in DOMAIN d : d[i].type = "start"
  BY <1>1, <1>3 DEF StartsFirst
<1>5. ASSUME NEW j \in DOMAIN d, d[j].type = "token", ~opened
      PROVE  \E i \in DOMAIN d : i < j /\ d[i].type = "start"
  <2>1. CASE j \in DOMAIN c /\ d[j] = c[j]
    <3>1. PICK i \in DOMAIN c : i < j /\ c[i].type = "start"
      BY <1>5, <2>1 DEF StartsFirst
    <3> QED BY <1>1, <3>1
  <2>2. ASSUME NEW k \in DOMAIN ms, j = Len(c) + k, d[j] = ms[k]
        PROVE  \E i \in DOMAIN d : i < j /\ d[i].type = "start"
    <3>1. PICK i \in DOMAIN c : c[i].type = "start"
      BY <1>5, <2>2 DEF StartsFirst
    <3>2. i < j
      BY <1>0, <2>2
    <3> QED BY <1>1, <3>1, <3>2
  <2> QED BY <1>2, <2>1, <2>2
<1> QED BY <1>4, <1>5 DEF StartsFirst, d

LEMMA MarkedBehind ==
  ASSUME NEW c \in Seq(StreamMsg), NEW ms \in Seq(StreamMsg), NEW a, NEW b, NEW ctx,
         Marked(c, a, ctx), Fresh(b) => Fresh(a) /\ ms = <<>>,
         \/ \A k \in DOMAIN ms : ms[k].type # "start"
         \/ Fresh(a) /\ Len(ms) = 1
  PROVE  Marked(c \o ms, b, ctx)
<1>0. Len(c) \in Nat /\ Len(ms) \in Nat /\ DOMAIN c = 1..Len(c) /\ DOMAIN ms = 1..Len(ms)
  OBVIOUS
<1> DEFINE d == c \o ms
<1>2. \A j \in DOMAIN d :
        \/ j \in DOMAIN c /\ d[j] = c[j]
        \/ \E k \in DOMAIN ms : j = Len(c) + k /\ d[j] = ms[k]
  BY Behind
<1>3. ms = <<>> => DOMAIN ms = {}
  OBVIOUS
<1> HIDE DEF d
<1>4. Fresh(b) => ctx /\ \A i \in DOMAIN d : d[i].type # "start"
  BY <1>2, <1>3 DEF Marked
<1>5. CASE \A k \in DOMAIN ms : ms[k].type # "start"
  BY <1>2, <1>4, <1>5 DEF Marked, d
<1>6. CASE Fresh(a) /\ Len(ms) = 1
  <2>1. ctx /\ \A j \in DOMAIN d : d[j].type = "start" => j = Len(c) + 1
    BY <1>0, <1>2, <1>6 DEF Marked
  <2> QED BY <1>4, <2>1 DEF Marked, d
<1> QED BY <1>5, <1>6

-----------------------------------------------------------------------------
LEMMA AsidesAreStreams ==
  ASSUME IInv, ScreenIsGood PROVE hist.btw \subseteq Streams
<1>1. hist.btw \subseteq 1..app.cur /\ app.cur \in Nat /\ app.cur <= MaxStreams
  BY AgentAssumption DEF ScreenIsGood, IInv, AppShape
<1> QED BY <1>1, AgentAssumption DEF Streams

LEMMA AgentSays ==
  ASSUME IInv, ChatIsGood, NEW s \in Streams, agent[s].at \notin {"none", "exited"},
         NEW a, a.at # "none", agent' = [agent EXCEPT ![s] = a],
         NEW ms \in Seq(StreamMsg), Send(s, ms), UNCHANGED <<tokenRx, app>>,
         hist'.btw = hist.btw, hist'.sent \subseteq Streams \X Nat,
         EndsLast(ms, a),
         \A k \in DOMAIN ms : ms[k].type = "token" => agent[s].at = "model" /\ agent[s].said > 0,
         a.at = "model" /\ a.said > 0 =>
           (agent[s].at = "model" /\ agent[s].said > 0) \/ \E k \in DOMAIN ms : ms[k].type = "start",
         s \in hist.btw =>
           /\ ~a.tools /\ a.at \in {"round", "model", "exited"} /\ a.round = 0
           /\ Fresh(a) => Fresh(agent[s]) /\ ms = <<>>
           /\ (\A k \in DOMAIN ms : ms[k].type # "start") \/ (Fresh(agent[s]) /\ Len(ms) = 1),
         \A c \in hist'.sent \ hist.sent : c[1] = s /\ \E k \in DOMAIN ms : ms[k] = Msg("token", c[2])
  PROVE  ChatIsGood'
<1> DEFINE d == chan[s] \o ms
<1>0. /\ agent \in [Streams -> AgentRecord] /\ chan \in [Streams -> Seq(StreamMsg)]
      /\ chan[s] \in Seq(StreamMsg)
      /\ tokenRx \in 0..MaxStreams
      /\ StreamingIsLive
  BY DEF IInv, AgentsAreGood
<1>1. agent'[s] = a /\ \A r \in Streams : r # s => agent'[r] = agent[r]
  BY <1>0
<1>2. /\ tokenRx = s => chan'[s] = d
      /\ tokenRx # s => chan'[s] = chan[s]
      /\ \A r \in Streams : r # s => chan'[r] = chan[r]
  BY <1>0 DEF Send
<1>3. tokenRx' = tokenRx /\ app' = app /\ hist'.btw = hist.btw
  OBVIOUS
<1>4. ScreenIsGood'
  BY <1>3 DEF ChatIsGood, ScreenIsGood
<1>5. ChannelsAreGood'
  <2>0. EndsLast(chan[s], agent[s]) /\ agent[s].at # "exited"
    BY DEF ChatIsGood, ChannelsAreGood
  <2>1. ASSUME NEW r \in Streams
        PROVE  /\ r # tokenRx => chan'[r] = <<>>
               /\ agent'[r].at = "none" <=> r > app.cur
               /\ EndsLast(chan'[r], agent'[r])
    <3>1. CASE r # s
      BY <1>1, <1>2, <3>1 DEF ChatIsGood, ChannelsAreGood
    <3>2. CASE r = s
      <4>1. r # tokenRx => chan'[r] = <<>>
        BY <1>2, <3>2 DEF ChatIsGood, ChannelsAreGood
      <4>2. agent'[r].at = "none" <=> r > app.cur
        BY <1>1, <3>2 DEF ChatIsGood, ChannelsAreGood
      <4>3. EndsLast(chan'[s], a)
        <5>1. CASE tokenRx = s
          <6>1. EndsLast(d, a)
            BY <1>0, <2>0, EndsLastBehind
          <6> QED BY <1>2, <5>1, <6>1
        <5>2. CASE tokenRx # s
          <6>1. chan'[s] = <<>>
            BY <4>1, <3>2, <5>2
          <6> QED BY <6>1 DEF EndsLast
        <5> QED BY <5>1, <5>2
      <4> QED BY <1>1, <3>2, <4>1, <4>2, <4>3
    <3> QED BY <3>1, <3>2
  <2>2. app.ended = "done" => agent'[app.cur].at = "exited"
    <3>1. app.ended = "done" => agent[app.cur].at = "exited" /\ app.cur # s
      BY DEF ChatIsGood, ChannelsAreGood
    <3>2. app.cur \in 0..MaxStreams /\ (app.ended = "done" => app.cur \in Streams)
      BY DEF IInv, AppShape, EndsInOrder, StreamingIsLive, Streams
    <3> QED BY <1>1, <3>1, <3>2
  <2>3. app.queue # <<>> => Opened(app.msgs, app.cur)
    BY DEF ChatIsGood, ChannelsAreGood
  <2>4. tokenRx # 0 => StartsFirst(chan'[tokenRx], agent'[tokenRx], Opened(app.msgs, app.cur))
    <3> DEFINE opened == Opened(app.msgs, app.cur)
    <3>1. tokenRx # 0 => StartsFirst(chan[tokenRx], agent[tokenRx], opened) /\ tokenRx \in Streams
      BY <1>0 DEF ChatIsGood, ChannelsAreGood, Streams
    <3>2. CASE tokenRx = s
      <4>1. opened \in BOOLEAN
        BY DEF Opened
      <4>2. StartsFirst(chan[s], agent[s], opened)
        BY <3>1, <3>2 DEF Streams
      <4> HIDE DEF opened
      <4>3. StartsFirst(d, a, opened)
        BY <1>0, <4>1, <4>2, StartsFirstBehind
      <4> QED BY <1>1, <1>2, <3>2, <4>3 DEF opened
    <3>3. CASE tokenRx # s
      BY <1>1, <1>2, <3>1, <3>3
    <3> QED BY <3>2, <3>3
  <2>5. ASSUME NEW r \in hist.btw
        PROVE  ~agent'[r].tools /\ agent'[r].at \in {"round", "model", "exited"} /\ agent'[r].round = 0
    <3>1. r \in Streams
      BY AsidesAreStreams DEF ChatIsGood
    <3> QED BY <1>1, <3>1 DEF ChatIsGood, ChannelsAreGood
  <2>6. tokenRx \in hist.btw => Marked(chan'[tokenRx], agent'[tokenRx], app.nextCtx)
    <3> SUFFICES ASSUME tokenRx \in hist.btw PROVE Marked(chan'[tokenRx], agent'[tokenRx], app.nextCtx)
      OBVIOUS
    <3>1. Marked(chan[tokenRx], agent[tokenRx], app.nextCtx) /\ tokenRx \in Streams
      BY AsidesAreStreams DEF ChatIsGood, ChannelsAreGood
    <3>2. CASE tokenRx = s
      <4>1. Marked(d, a, app.nextCtx)
        BY <1>0, <3>1, <3>2, MarkedBehind
      <4> QED BY <1>1, <1>2, <3>2, <4>1
    <3>3. CASE tokenRx # s
      BY <1>1, <1>2, <3>1, <3>3
    <3> QED BY <3>2, <3>3
  <2> QED BY <1>3, <2>1, <2>2, <2>3, <2>4, <2>5, <2>6 DEF ChannelsAreGood
<1>6. NothingIsLost'
  <2>0. s <= app.cur /\ app.cur \in 0..MaxStreams
    BY DEF ChatIsGood, ChannelsAreGood, IInv, AppShape, Streams
  <2>1. \A c \in hist'.sent : c[1] <= app.cur
    BY <2>0 DEF ChatIsGood, NothingIsLost
  <2>2. ASSUME app.streaming, app.ended # "err", NEW c \in hist'.sent, c[1] = app.cur
        PROVE  \/ tokenRx = app.cur /\ \E j \in DOMAIN chan'[app.cur] : chan'[app.cur][j] = Msg("token", c[2])
               \/ \E i \in DOMAIN app.queue : app.queue[i] = c
               \/ Shown(app.msgs, c)
    <3>0. app.cur \in Streams
      BY <2>0, <2>2 DEF IInv, EndsInOrder, Streams
    <3>1. CASE c \in hist.sent
      <4>1. SUFFICES ASSUME tokenRx = app.cur, NEW j \in DOMAIN chan[app.cur], chan[app.cur][j] = Msg("token", c[2])
                     PROVE  \E i \in DOMAIN chan'[app.cur] : chan'[app.cur][i] = Msg("token", c[2])
        BY <2>2, <3>1 DEF ChatIsGood, NothingIsLost
      <4>2. CASE app.cur = s
        <5>1. j \in DOMAIN d /\ d[j] = chan[s][j]
          BY <1>0, <4>1, <4>2, Behind
        <5> QED BY <1>2, <4>1, <4>2, <5>1
      <4>3. CASE app.cur # s
        BY <1>2, <3>0, <4>1, <4>3
      <4> QED BY <4>2, <4>3
    <3>2. CASE c \notin hist.sent
      <4>1. s = app.cur
        BY <2>2, <3>2
      <4>2. PICK k \in DOMAIN ms : ms[k] = Msg("token", c[2])
        BY <3>2
      <4>3. app.ended # "done" /\ app.ended = "no"
        BY <2>2, <4>1 DEF ChatIsGood, ChannelsAreGood, ScreenIsGood
      <4>4. tokenRx = s
        BY <1>0, <2>2, <4>1, <4>3 DEF StreamingIsLive
      <4>5. Len(chan[s]) + k \in DOMAIN d /\ d[Len(chan[s]) + k] = ms[k]
        BY <1>0, Behind
      <4> QED BY <1>2, <4>1, <4>2, <4>4, <4>5
    <3> QED BY <3>1, <3>2
  <2> QED BY <1>3, <2>1, <2>2 DEF NothingIsLost
<1> QED BY <1>4, <1>5, <1>6 DEF ChatIsGood

LEMMA OneMessage ==
  ASSUME NEW type \in {"start", "token", "toolStart", "toolDone", "toolFailed", "approval", "done", "err"},
         NEW n \in Nat
  PROVE  /\ <<Msg(type, n)>> \in Seq(StreamMsg) /\ Len(<<Msg(type, n)>>) = 1
         /\ DOMAIN <<Msg(type, n)>> = {1}
         /\ <<Msg(type, n)>>[1] = Msg(type, n) /\ Msg(type, n).type = type
<1>1. Msg(type, n) \in StreamMsg /\ Msg(type, n).type = type
  BY DEF Msg, StreamMsg
<1> QED BY <1>1

LEMMA SendNothing ==
  ASSUME IInv, NEW s \in Streams, UNCHANGED chan
  PROVE  Send(s, <<>>)
<1>1. chan \in [Streams -> Seq(StreamMsg)] /\ chan[s] \in Seq(StreamMsg)
  BY DEF IInv
<1>2. chan[s] \o <<>> = chan[s]
  BY <1>1
<1>3. [chan EXCEPT ![s] = chan[s]] = chan
  BY <1>1
<1> QED BY <1>2, <1>3 DEF Send

LEMMA SaysNothing ==
  /\ <<>> \in Seq(StreamMsg) /\ DOMAIN <<>> = {} /\ \A a : EndsLast(<<>>, a)
BY DEF EndsLast

(* A thread in a tool call, or between two of them, is no aside. *)
LEMMA CallSays ==
  ASSUME IInv, ChatIsGood, NEW s \in Streams, agent[s].at \notin {"none", "exited", "round", "model"},
         NEW a, a.at \notin {"none", "model"}, agent' = [agent EXCEPT ![s] = a],
         UNCHANGED <<tokenRx, app>>, hist'.btw = hist.btw, hist'.sent = hist.sent,
         \/ UNCHANGED chan
         \/ \E type \in {"toolStart", "toolDone", "toolFailed", "approval"}, n \in Nat :
              Send(s, <<Msg(type, n)>>)
  PROVE  ChatIsGood'
<1>1. s \notin hist.btw /\ hist'.sent \subseteq Streams \X Nat
  BY DEF ChatIsGood, ChannelsAreGood, ScreenIsGood
<1>2. PICK ms \in Seq(StreamMsg) :
        Send(s, ms) /\ \A k \in DOMAIN ms : ms[k].type \notin {"token", "done", "err"}
  <2>1. CASE UNCHANGED chan
    BY <2>1, SendNothing, SaysNothing
  <2>2. ASSUME NEW type \in {"toolStart", "toolDone", "toolFailed", "approval"}, NEW n \in Nat,
               Send(s, <<Msg(type, n)>>)
        PROVE  \E ms \in Seq(StreamMsg) :
                 Send(s, ms) /\ \A k \in DOMAIN ms : ms[k].type \notin {"token", "done", "err"}
    <3> DEFINE ms == <<Msg(type, n)>>
    <3>1. ms \in Seq(StreamMsg) /\ DOMAIN ms = {1} /\ ms[1].type = type
      BY OneMessage
    <3>2. Send(s, ms)
      BY <2>2
    <3> HIDE DEF ms
    <3> QED BY <3>1, <3>2
  <2> QED BY <2>1, <2>2
<1>3. EndsLast(ms, a)
  BY <1>2 DEF EndsLast
<1> QED BY <1>1, <1>2, <1>3, AgentSays

LEMMA RoundGood ==
  ASSUME IInv, ChatIsGood, NEW s \in Streams, StartRound(s) \/ HitRoundLimit(s) \/ EndRound(s), UNCHANGED app
  PROVE  ChatIsGood'
<1>0. /\ agent[s] \in AgentRecord /\ agent \in [Streams -> AgentRecord]
      /\ s \in hist.btw => ~agent[s].tools /\ agent[s].at \in {"round", "model", "exited"}
                           /\ agent[s].round = 0
      /\ hist.sent \subseteq Streams \X Nat
  BY DEF ChatIsGood, ChannelsAreGood, ScreenIsGood, IInv, AgentsAreGood
<1>1. CASE StartRound(s)
  <2> DEFINE a == [agent[s] EXCEPT !.at = "model", !.said = 0]
  <2>1. agent' = [agent EXCEPT ![s] = a] /\ agent[s].at = "round" /\ UNCHANGED <<chan, hist, tokenRx, app>>
    BY <1>1 DEF StartRound, At
  <2>2. a.at = "model" /\ a.said = 0 /\ a.tools = agent[s].tools /\ a.round = agent[s].round
    BY <1>0 DEF AgentRecord
  <2>3. Send(s, <<>>) /\ Fresh(agent[s])
    BY <2>1, SendNothing DEF Fresh
  <2>4. PICK ms \in Seq(StreamMsg) : ms = <<>>
    BY SaysNothing
  <2>5. Send(s, ms) /\ DOMAIN ms = {} /\ EndsLast(ms, a)
    BY <2>3, <2>4, SaysNothing
  <2> HIDE DEF a
  <2>6. /\ s \in hist.btw => ~a.tools /\ a.at \in {"round", "model", "exited"} /\ a.round = 0
        /\ hist'.btw = hist.btw /\ hist'.sent = hist.sent /\ hist'.sent \subseteq Streams \X Nat
        /\ ~(a.at = "model" /\ a.said > 0)
        /\ \A k \in DOMAIN ms : ms[k].type # "token" /\ ms[k].type # "start"
    BY <1>0, <2>1, <2>2, <2>5
  <2> QED BY <2>1, <2>2, <2>3, <2>4, <2>5, <2>6, AgentSays
<1>2. CASE HitRoundLimit(s)
  <2> DEFINE a == [agent[s] EXCEPT !.at = "exited"]
             ms == <<Msg("err", 0), Msg("done", 0)>>
  <2>1. agent' = [agent EXCEPT ![s] = a] /\ agent[s].at = "round" /\ UNCHANGED <<hist, tokenRx, app>>
        /\ Send(s, ms)
    BY <1>2 DEF HitRoundLimit, At, GoTo
  <2>2. a.at = "exited" /\ a.tools = agent[s].tools /\ a.round = agent[s].round
    BY <1>0 DEF AgentRecord
  <2>3. ms \in Seq(StreamMsg) /\ \A k \in DOMAIN ms : ms[k].type \in {"err", "done"}
    <3>1. Msg("err", 0).type = "err" /\ Msg("done", 0).type = "done"
      BY DEF Msg
    <3> QED BY <3>1, MsgType
  <2>4. EndsLast(ms, a) /\ ~Fresh(a)
    BY <2>2, <2>3 DEF EndsLast, Fresh
  <2> HIDE DEF a, ms
  <2> QED BY <1>0, <2>1, <2>2, <2>3, <2>4, AgentSays
<1>3. CASE EndRound(s)
  <2> DEFINE a == [agent[s] EXCEPT !.at = "round", !.calls = 0, !.round = @ + 1]
  <2>1. agent' = [agent EXCEPT ![s] = a] /\ agent[s].at = "tools" /\ UNCHANGED <<chan, hist, tokenRx, app>>
    BY <1>3 DEF EndRound, At
  <2>2. a.at = "round"
    BY <1>0 DEF AgentRecord
  <2> HIDE DEF a
  <2> QED BY <2>1, <2>2, CallSays
<1> QED BY <1>1, <1>2, <1>3

LEMMA ModelGood ==
  ASSUME IInv, ChatIsGood, NEW s \in Streams, UNCHANGED app,
         \/ ModelSpeaks(s)
         \/ \E last \in {"done", "err"} : ModelEnds(s, last)
         \/ \E n \in 1..MaxTools : ModelCallsTools(s, n)
  PROVE  ChatIsGood'
<1>0. /\ agent[s] \in AgentRecord /\ agent \in [Streams -> AgentRecord]
      /\ s \in hist.btw => ~agent[s].tools /\ agent[s].at \in {"round", "model", "exited"}
                           /\ agent[s].round = 0
      /\ hist.sent \subseteq Streams \X Nat
      /\ DOMAIN hist = {"btw", "sent", "yes", "ran"}
  BY DEF ChatIsGood, ChannelsAreGood, ScreenIsGood, IInv, AgentsAreGood, HistoryIsGood
<1>1. CASE ModelSpeaks(s)
  <2> DEFINE a == [agent[s] EXCEPT !.said = @ + 1]
             type == IF agent[s].said = 0 THEN "start" ELSE "token"
             n == agent[s].round
             ms == <<Msg(type, n)>>
  <2>1. agent' = [agent EXCEPT ![s] = a] /\ agent[s].at = "model" /\ UNCHANGED <<tokenRx, app>>
        /\ Send(s, ms)
    BY <1>1 DEF ModelSpeaks, At
  <2>2. agent[s].said \in Nat /\ n \in Nat
    BY <1>0, AgentAssumption DEF AgentRecord, Said, RoundNumber
  <2>3. a.at = "model" /\ a.said = agent[s].said + 1 /\ a.tools = agent[s].tools /\ a.round = agent[s].round
    BY <1>0, <2>1 DEF AgentRecord
  <2>4. /\ ms \in Seq(StreamMsg) /\ Len(ms) = 1 /\ DOMAIN ms = {1}
        /\ ms[1] = Msg(type, n) /\ ms[1].type = type
    BY <2>2, OneMessage
  <2>5. hist'.btw = hist.btw /\ hist'.sent = IF agent[s].said = 0 THEN hist.sent ELSE hist.sent \cup {<<s, n>>}
    BY <1>0, <1>1 DEF ModelSpeaks
  <2>6. hist'.sent \subseteq Streams \X Nat
    BY <1>0, <2>2, <2>5
  <2>7. ~Fresh(a) /\ (agent[s].said = 0 => Fresh(agent[s])) /\ a.said > 0
    BY <2>1, <2>2, <2>3 DEF Fresh
  <2>8. \A c \in hist'.sent \ hist.sent : c[1] = s /\ ms[1] = Msg("token", c[2])
    BY <2>4, <2>5
  <2>9. agent[s].said = 0 => ms[1].type = "start"
    BY <2>4
  <2>10. agent[s].said # 0 => ms[1].type = "token" /\ agent[s].said > 0
    BY <2>2, <2>4
  <2> HIDE DEF a, ms, type, n
  <2>11. EndsLast(ms, a)
    BY <2>4, <2>9, <2>10 DEF EndsLast
  <2> QED BY <1>0, <2>1, <2>2, <2>3, <2>4, <2>5, <2>6, <2>7, <2>8, <2>9, <2>10, <2>11, AgentSays
<1>2. ASSUME NEW last \in {"done", "err"}, ModelEnds(s, last) PROVE ChatIsGood'
  <2> DEFINE a == [agent[s] EXCEPT !.at = "exited"]
             ms == <<Msg(last, 0)>>
  <2>1. agent' = [agent EXCEPT ![s] = a] /\ agent[s].at = "model" /\ UNCHANGED <<hist, tokenRx, app>>
        /\ Send(s, ms)
    BY <1>2 DEF ModelEnds, At, GoTo
  <2>2. a.at = "exited" /\ a.tools = agent[s].tools /\ a.round = agent[s].round
    BY <1>0 DEF AgentRecord
  <2>3. ms \in Seq(StreamMsg) /\ DOMAIN ms = {1} /\ ms[1].type = last
    BY OneMessage
  <2>4. EndsLast(ms, a) /\ ~Fresh(a)
    BY <2>2, <2>3 DEF EndsLast, Fresh
  <2> HIDE DEF a, ms
  <2> QED BY <1>0, <2>1, <2>2, <2>3, <2>4, AgentSays
<1>3. ASSUME NEW n \in 1..MaxTools, ModelCallsTools(s, n) PROVE ChatIsGood'
  <2> DEFINE a == [agent[s] EXCEPT !.at = "tools", !.calls = n]
  <2>1. agent' = [agent EXCEPT ![s] = a] /\ agent[s].at = "model" /\ agent[s].tools
        /\ UNCHANGED <<chan, hist, tokenRx, app>>
    BY <1>3 DEF ModelCallsTools, At
  <2>2. a.at = "tools"
    BY <1>0 DEF AgentRecord
  <2>3. Send(s, <<>>)
    BY <2>1, SendNothing
  <2> HIDE DEF a
  <2> QED BY <1>0, <2>1, <2>2, <2>3, SaysNothing, AgentSays
<1> QED BY <1>1, <1>2, <1>3

LEMMA CallGood ==
  ASSUME IInv, ChatIsGood, NEW s \in Streams, UNCHANGED app,
         \/ BadArguments(s) \/ CallWithoutApproval(s) \/ AskApproval(s) \/ ApprovalEnds(s)
         \/ CallRejected(s) \/ StartTool(s) \/ Panic(s)
         \/ \E outcome \in {"toolDone", "toolFailed"} : FinishTool(s, outcome)
  PROVE  ChatIsGood'
<1>0. agent[s] \in AgentRecord /\ agent \in [Streams -> AgentRecord]
      /\ DOMAIN hist = {"btw", "sent", "yes", "ran"}
  BY DEF IInv, AgentsAreGood, HistoryIsGood
<1>1. ASSUME NEW state \in {"tools", "waiting", "rejected", "free", "exec", "exited"},
             NEW a, a.at = state, agent' = [agent EXCEPT ![s] = a],
             agent[s].at \in InCall \cup {"tools"},
             UNCHANGED tokenRx, hist'.btw = hist.btw, hist'.sent = hist.sent,
             \/ UNCHANGED chan
             \/ \E type \in {"toolStart", "toolDone", "toolFailed", "approval"}, n \in Nat :
                  Send(s, <<Msg(type, n)>>)
      PROVE  ChatIsGood'
  BY <1>1, CallSays DEF InCall
<1>2. ASSUME NEW state \in {"tools", "waiting", "rejected", "free", "exec", "exited"}, GoTo(s, state)
      PROVE  \E a : a.at = state /\ agent' = [agent EXCEPT ![s] = a]
  <2> DEFINE a == [agent[s] EXCEPT !.at = state]
  <2>1. a.at = state /\ agent' = [agent EXCEPT ![s] = a]
    BY <1>0, <1>2 DEF GoTo, AgentRecord
  <2> HIDE DEF a
  <2> QED BY <2>1
<1>3. NextCall(s) => \E a : a.at = "tools" /\ agent' = [agent EXCEPT ![s] = a]
  <2> DEFINE a == [agent[s] EXCEPT !.at = "tools", !.calls = @ - 1]
  <2>1. NextCall(s) => a.at = "tools" /\ agent' = [agent EXCEPT ![s] = a]
    BY <1>0 DEF NextCall, AgentRecord
  <2> HIDE DEF a
  <2> QED BY <2>1
<1>4. CASE BadArguments(s)
  BY <1>1, <1>3, <1>4 DEF BadArguments, TakesCall, At, InCall
<1>5. CASE CallWithoutApproval(s)
  BY <1>1, <1>2, <1>5 DEF CallWithoutApproval, TakesCall, At, InCall
<1>6. CASE AskApproval(s)
  <2> DEFINE a == [agent[s] EXCEPT !.at = "waiting", !.asked = @ + 1]
  <2>1. a.at = "waiting" /\ agent' = [agent EXCEPT ![s] = a]
    BY <1>0, <1>6 DEF AskApproval, AgentRecord
  <2> HIDE DEF a
  <2>2. agent[s].asked + 1 \in Nat
    BY <1>0 DEF AgentRecord
  <2>3. \E type \in {"toolStart", "toolDone", "toolFailed", "approval"}, n \in Nat : Send(s, <<Msg(type, n)>>)
    BY <1>6, <2>2 DEF AskApproval
  <2> QED BY <1>1, <1>6, <2>1, <2>3 DEF AskApproval, TakesCall, At, InCall
<1>7. CASE ApprovalEnds(s)
  BY <1>1, <1>2, <1>7 DEF ApprovalEnds, At, InCall
<1>8. CASE CallRejected(s)
  BY <1>1, <1>3, <1>8 DEF CallRejected, At, InCall
<1>9. CASE StartTool(s)
  <2>1. hist'.btw = hist.btw /\ hist'.sent = hist.sent
    BY <1>0, <1>9 DEF StartTool
  <2> QED BY <1>1, <1>2, <1>9, <2>1 DEF StartTool, At, InCall
<1>10. CASE Panic(s)
  BY <1>1, <1>2, <1>10 DEF Panic, At, InCall
<1>11. ASSUME NEW outcome \in {"toolDone", "toolFailed"}, FinishTool(s, outcome) PROVE ChatIsGood'
  BY <1>1, <1>3, <1>11 DEF FinishTool, At, InCall
<1> QED BY <1>4, <1>5, <1>6, <1>7, <1>8, <1>9, <1>10, <1>11

LEMMA AgentGood ==
  ASSUME IInv, ChatIsGood, NEW s \in Streams, Agent(s)
  PROVE  ChatIsGood'
BY RoundGood, ModelGood, CallGood DEF Agent, AgentStep

-----------------------------------------------------------------------------
(* The overlay.  A message is taken from the front of the channel. *)
LEMMA Front1 ==
  ASSUME NEW c \in Seq(StreamMsg), c # <<>>
  PROVE  /\ Tail(c) \in Seq(StreamMsg) /\ Head(c) \in StreamMsg
         /\ 1 \in DOMAIN c /\ c[1] = Head(c) /\ DOMAIN c \subseteq Nat \ {0}
         /\ \A i \in DOMAIN Tail(c) : i \in Nat /\ i + 1 \in DOMAIN c /\ Tail(c)[i] = c[i + 1]
         /\ \A j \in DOMAIN c : j = 1 \/ (j - 1 \in DOMAIN Tail(c) /\ Tail(c)[j - 1] = c[j])
<1>1. Len(c) \in Nat \ {0} /\ DOMAIN c = 1..Len(c)
  OBVIOUS
<1>2. Tail(c) \in Seq(StreamMsg) /\ DOMAIN Tail(c) = 1..(Len(c) - 1)
  BY <1>1
<1>3. ASSUME NEW i \in DOMAIN Tail(c) PROVE i \in Nat /\ i + 1 \in DOMAIN c /\ Tail(c)[i] = c[i + 1]
  BY <1>1, <1>2
<1>4. ASSUME NEW j \in DOMAIN c, j # 1 PROVE j - 1 \in DOMAIN Tail(c) /\ Tail(c)[j - 1] = c[j]
  <2>1. j - 1 \in DOMAIN Tail(c) /\ (j - 1) + 1 = j
    BY <1>1, <1>2, <1>4
  <2> QED BY <1>3, <2>1
<1>5. Head(c) = c[1] /\ 1 \in DOMAIN c /\ c[1] \in StreamMsg /\ DOMAIN c \subseteq Nat \ {0}
  BY <1>1
<1> QED BY <1>2, <1>3, <1>4, <1>5

LEMMA EndsLastTail ==
  ASSUME NEW c \in Seq(StreamMsg), c # <<>>, NEW a, EndsLast(c, a)
  PROVE  EndsLast(Tail(c), a)
<1> DEFINE d == Tail(c)
<1>1. \A i \in DOMAIN d : i \in Nat /\ i + 1 \in DOMAIN c /\ d[i] = c[i + 1]
  BY Front1
<1> HIDE DEF d
<1>2. ASSUME NEW j \in DOMAIN d, d[j].type \in {"done", "err"}
      PROVE  a.at = "exited" /\ \A k \in DOMAIN d : k > j => d[k].type # "token"
  <2>1. a.at = "exited" /\ \A k \in DOMAIN c : k > j + 1 => c[k].type # "token"
    BY <1>1, <1>2 DEF EndsLast
  <2>2. ASSUME NEW k \in DOMAIN d, k > j PROVE d[k].type # "token"
    <3>1. k + 1 \in DOMAIN c /\ k + 1 > j + 1 /\ d[k] = c[k + 1]
      BY <1>1, <2>2
    <3> QED BY <2>1, <3>1
  <2> QED BY <2>1, <2>2
<1> QED BY <1>2 DEF EndsLast, d

LEMMA StartsFirstTail ==
  ASSUME NEW c \in Seq(StreamMsg), c # <<>>, NEW a, NEW opened \in BOOLEAN, NEW still \in BOOLEAN,
         StartsFirst(c, a, opened), opened => still, Head(c).type = "start" => still
  PROVE  /\ StartsFirst(Tail(c), a, still)
         /\ Head(c).type = "token" => opened
<1> DEFINE d == Tail(c)
<1>1. \A i \in DOMAIN d : i \in Nat /\ i + 1 \in DOMAIN c /\ d[i] = c[i + 1]
  BY Front1
<1>2. \A j \in DOMAIN c : j = 1 \/ (j - 1 \in DOMAIN d /\ d[j - 1] = c[j])
  BY Front1
<1>3. 1 \in DOMAIN c /\ c[1] = Head(c) /\ DOMAIN c \subseteq Nat \ {0}
  BY Front1
<1> HIDE DEF d
<1>4. a.at = "model" /\ a.said > 0 => still \/ \E i \in DOMAIN d : d[i].type = "start"
  BY <1>2, <1>3 DEF StartsFirst
<1>5. ASSUME NEW j \in DOMAIN d, d[j].type = "token", ~still
      PROVE  \E i \in DOMAIN d : i < j /\ d[i].type = "start"
  <2>1. PICK i \in DOMAIN c : i < j + 1 /\ c[i].type = "start"
    BY <1>1, <1>5 DEF StartsFirst
  <2>2. i # 1
    BY <1>3, <1>5, <2>1
  <2>3. i - 1 \in DOMAIN d /\ d[i - 1] = c[i]
    BY <1>2, <2>1, <2>2
  <2>5. i \in Nat /\ j \in Nat
    BY <1>1, <1>3
  <2>4. i - 1 < j
    BY <2>1, <2>5
  <2> QED BY <2>1, <2>3, <2>4
<1>6. ASSUME Head(c).type = "token" PROVE opened
  <2>1. opened \/ \E i \in DOMAIN c : i < 1 /\ c[i].type = "start"
    BY <1>3, <1>6 DEF StartsFirst
  <2>2. \A i \in DOMAIN c : ~(i < 1)
    BY <1>3
  <2> QED BY <2>1, <2>2
<1> QED BY <1>4, <1>5, <1>6 DEF StartsFirst, d

LEMMA MarkedTail ==
  ASSUME NEW c \in Seq(StreamMsg), c # <<>>, NEW a, NEW ctx, NEW still,
         Marked(c, a, ctx), Head(c).type # "start" => still = ctx
  PROVE  /\ Marked(Tail(c), a, still)
         /\ Head(c).type = "start" => ctx
<1> DEFINE d == Tail(c)
<1>1. \A i \in DOMAIN d : i \in Nat /\ i + 1 \in DOMAIN c /\ d[i] = c[i + 1]
  BY Front1
<1>3. 1 \in DOMAIN c /\ c[1] = Head(c) /\ DOMAIN c \subseteq Nat \ {0}
  BY Front1
<1> HIDE DEF d
<1>4. CASE Head(c).type = "start"
  <2>1. ctx /\ ~Fresh(a) /\ \A j \in DOMAIN c : c[j].type = "start" => j = 1
    BY <1>3, <1>4 DEF Marked
  <2>2. \A i \in DOMAIN d : d[i].type # "start"
    BY <1>1, <2>1
  <2> QED BY <2>1, <2>2 DEF Marked, d
<1>5. CASE Head(c).type # "start"
  <2>1. still = ctx
    BY <1>5
  <2>2. Fresh(a) => ctx /\ \A i \in DOMAIN d : d[i].type # "start"
    BY <1>1 DEF Marked
  <2>3. ASSUME NEW i \in DOMAIN d, d[i].type = "start"
        PROVE  ctx /\ \A j \in DOMAIN d : d[j].type = "start" => i = j
    <3>1. i + 1 \in DOMAIN c /\ c[i + 1].type = "start" /\ i \in Nat
      BY <1>1, <2>3
    <3>2. ctx /\ \A j \in DOMAIN c : c[j].type = "start" => i + 1 = j
      BY <3>1 DEF Marked
    <3>3. ASSUME NEW j \in DOMAIN d, d[j].type = "start" PROVE i = j
      <4>1. i + 1 = j + 1 /\ j \in Nat
        BY <1>1, <3>2, <3>3
      <4> QED BY <3>1, <4>1
    <3> QED BY <3>2, <3>3
  <2> QED BY <1>5, <2>1, <2>2, <2>3 DEF Marked, d
<1> QED BY <1>4, <1>5

LEMMA PopGood ==
  ASSUME IInv, ChatIsGood, tokenRx # 0, chan[tokenRx] # <<>>, Pop, UNCHANGED <<agent, tokenRx, hist>>,
         app'.cur = app.cur, app'.ended = app.ended, app'.streaming = app.streaming,
         Opened(app.msgs, app.cur) => Opened(app'.msgs, app.cur),
         Head(chan[tokenRx]).type = "start" => Opened(app'.msgs, app.cur),
         Head(chan[tokenRx]).type # "start" => app'.nextCtx = app.nextCtx,
         app'.queue = app.queue \/ Head(chan[tokenRx]).type = "token",
         \A i \in DOMAIN app.queue : \E j \in DOMAIN app'.queue : app'.queue[j] = app.queue[i],
         Head(chan[tokenRx]).type = "token" =>
           \E j \in DOMAIN app'.queue : app'.queue[j] = <<tokenRx, Head(chan[tokenRx]).n>>,
         \A c : Shown(app.msgs, c) => Shown(app'.msgs, c)
  PROVE  ChannelsAreGood' /\ NothingIsLost'
<1> DEFINE s == tokenRx
           c == chan[s]
<1>0. /\ s \in Streams /\ c \in Seq(StreamMsg) /\ c # <<>> /\ chan \in [Streams -> Seq(StreamMsg)]
      /\ app.cur \in 0..MaxStreams /\ s = app.cur
  BY DEF IInv, Streams, AppShape, StreamingIsLive
<1>1. chan'[s] = Tail(c) /\ \A r \in Streams : r # s => chan'[r] = chan[r]
  BY <1>0 DEF Pop
<1>2. /\ \A r \in Streams :
           /\ r # tokenRx => chan[r] = <<>>
           /\ agent[r].at = "none" <=> r > app.cur
           /\ EndsLast(chan[r], agent[r])
      /\ app.ended = "done" => agent[app.cur].at = "exited"
      /\ app.queue # <<>> => Opened(app.msgs, app.cur)
      /\ StartsFirst(c, agent[s], Opened(app.msgs, app.cur))
      /\ \A r \in hist.btw : ~agent[r].tools /\ agent[r].at \in {"round", "model", "exited"}
                             /\ agent[r].round = 0
      /\ s \in hist.btw => Marked(c, agent[s], app.nextCtx)
  BY DEF ChatIsGood, ChannelsAreGood
<1> HIDE DEF c, s
<1>3. EndsLast(Tail(c), agent[s])
  BY <1>0, <1>2, EndsLastTail DEF c
<1>4. Opened(app.msgs, app.cur) \in BOOLEAN /\ Opened(app'.msgs, app.cur) \in BOOLEAN
  BY DEF Opened
<1>5. /\ StartsFirst(Tail(c), agent[s], Opened(app'.msgs, app.cur))
      /\ Head(c).type = "token" => Opened(app.msgs, app.cur)
  BY <1>0, <1>2, <1>4, StartsFirstTail DEF c, s
<1>6. s \in hist.btw => Marked(Tail(c), agent[s], app'.nextCtx)
  BY <1>0, <1>2, MarkedTail DEF c, s
<1>7. ChannelsAreGood'
  <2>1. \A r \in Streams :
          /\ r # s => chan'[r] = <<>>
          /\ agent[r].at = "none" <=> r > app.cur
          /\ EndsLast(chan'[r], agent[r])
    BY <1>1, <1>2, <1>3 DEF s
  <2>2. app'.queue # <<>> => Opened(app'.msgs, app.cur)
    BY <1>2, <1>5 DEF c, s
  <2>3. agent' = agent /\ tokenRx' = s /\ hist' = hist
    BY DEF s
  <2>4. StartsFirst(chan'[tokenRx'], agent'[tokenRx'], Opened(app'.msgs, app'.cur))
    BY <1>1, <1>5, <2>3
  <2>5. tokenRx' \in hist'.btw => Marked(chan'[tokenRx'], agent'[tokenRx'], app'.nextCtx)
    BY <1>1, <1>6, <2>3
  <2>6. \A r \in hist'.btw : ~agent'[r].tools /\ agent'[r].at \in {"round", "model", "exited"}
                              /\ agent'[r].round = 0
    BY <1>2, <2>3
  <2>7. app'.ended = "done" => agent'[app'.cur].at = "exited"
    BY <1>2, <2>3
  <2>8. \A r \in Streams :
          /\ r # tokenRx' => chan'[r] = <<>>
          /\ agent'[r].at = "none" <=> r > app'.cur
          /\ EndsLast(chan'[r], agent'[r])
    BY <2>1, <2>3
  <2>9. app'.queue # <<>> => Opened(app'.msgs, app'.cur)
    BY <2>2
  <2> QED BY <2>4, <2>5, <2>6, <2>7, <2>8, <2>9 DEF ChannelsAreGood
<1>8. NothingIsLost'
  <2>1. \A x \in hist.sent : x[1] <= app.cur /\ x \in Streams \X Nat
    BY DEF ChatIsGood, NothingIsLost, ScreenIsGood
  <2>2. ASSUME app.streaming, app.ended # "err", NEW x \in hist.sent, x[1] = app.cur
        PROVE  \/ tokenRx = app.cur /\ \E j \in DOMAIN chan'[app.cur] : chan'[app.cur][j] = Msg("token", x[2])
               \/ \E i \in DOMAIN app'.queue : app'.queue[i] = x
               \/ Shown(app'.msgs, x)
    <3>1. \/ \E j \in DOMAIN c : c[j] = Msg("token", x[2])
          \/ \E i \in DOMAIN app.queue : app.queue[i] = x
          \/ Shown(app.msgs, x)
      BY <1>0, <2>2 DEF ChatIsGood, NothingIsLost, c
    <3>2. ASSUME NEW j \in DOMAIN c, c[j] = Msg("token", x[2])
          PROVE  \/ \E i \in DOMAIN Tail(c) : Tail(c)[i] = Msg("token", x[2])
                 \/ \E i \in DOMAIN app'.queue : app'.queue[i] = x
      <4>1. CASE j = 1
        <5>1. Head(c).type = "token" /\ Head(c).n = x[2]
          BY <1>0, <3>2, <4>1, Front1 DEF Msg
        <5>2. x = <<s, Head(c).n>>
          BY <1>0, <2>1, <2>2, <5>1
        <5> QED BY <5>1, <5>2 DEF c, s
      <4>2. CASE j # 1
        <5>1. j - 1 \in DOMAIN Tail(c) /\ Tail(c)[j - 1] = c[j]
          BY <1>0, <4>2, Front1
        <5> QED BY <3>2, <5>1
      <4> QED BY <4>1, <4>2
    <3> QED BY <1>0, <1>1, <3>1, <3>2 DEF s
  <2> QED BY <2>1, <2>2 DEF NothingIsLost
<1> QED BY <1>7, <1>8

(* The fields of App. *)
LEMMA AppIs ==
  ASSUME IInv
  PROVE  /\ DOMAIN app = {"at", "cur", "streaming", "transient", "nextCtx", "ended", "queue", "msgs",
                          "approval", "disk"}
         /\ app.cur \in 0..MaxStreams /\ app.cur \in Nat /\ app.streaming \in BOOLEAN
         /\ app.queue \in Seq(Streams \X Nat)
BY AgentAssumption DEF IInv, AppShape

LEMMA CurrentIs ==
  ASSUME IInv, tokenRx # 0
  PROVE  /\ tokenRx \in Streams /\ tokenRx = app.cur /\ app.streaming
         /\ chan[tokenRx] \in Seq(StreamMsg)
BY DEF IInv, Streams, StreamingIsLive

LEMMA NewRowIs ==
  ASSUME NEW role \in {"user", "text", "tool"}, NEW s \in 0..MaxStreams,
         NEW complete \in BOOLEAN, NEW ctx \in BOOLEAN
  PROVE  /\ NewRow(role, s, complete, ctx) \in Row
         /\ NewRow(role, s, complete, ctx).role = role /\ NewRow(role, s, complete, ctx).of = s
         /\ NewRow(role, s, complete, ctx).by = {} /\ NewRow(role, s, complete, ctx).complete = complete
         /\ NewRow(role, s, complete, ctx).ctx = ctx
BY DEF NewRow, Row

LEMMA ErrorRowIs ==
  ASSUME NEW s \in Streams
  PROVE  /\ ErrorRow(s) \in Row /\ ErrorRow(s).role = "text" /\ ErrorRow(s).of = s
         /\ ErrorRow(s).by = {<<s, MaxRounds>>} /\ ErrorRow(s).complete /\ ~ErrorRow(s).ctx
         /\ {<<s, MaxRounds>>} \subseteq Streams \X Nat
<1> DEFINE r == NewRow("text", s, TRUE, FALSE)
<1>1. s \in 0..MaxStreams /\ {<<s, MaxRounds>>} \subseteq Streams \X Nat
  BY AgentAssumption DEF Streams
<1>2. r \in Row /\ r.role = "text" /\ r.of = s /\ r.complete = TRUE /\ r.ctx = FALSE
  BY <1>1 DEF NewRow, Row
<1>3. ErrorRow(s) = [r EXCEPT !.by = {<<s, MaxRounds>>}]
  BY DEF ErrorRow, OwnText
<1> HIDE DEF r
<1> QED BY <1>1, <1>2, <1>3 DEF Row

LEMMA AppendShows ==
  ASSUME NEW rows \in Seq(Row), NEW row \in Row
  PROVE  /\ \A s : Opened(rows, s) \/ (IsOpen(row) /\ row.of = s) => Opened(Append(rows, row), s)
         /\ \A c : Shown(rows, c) => Shown(Append(rows, row), c)
         /\ Append(rows, row) # <<>> /\ Append(rows, row)[Len(Append(rows, row))] = row
<1> DEFINE new == Append(rows, row)
<1>1. Len(rows) \in Nat /\ DOMAIN rows = 1..Len(rows) /\ DOMAIN new = 1..(Len(rows) + 1)
      /\ Len(new) = Len(rows) + 1
  OBVIOUS
<1>2. /\ \A i \in DOMAIN rows : i \in DOMAIN new /\ new[i] = rows[i]
      /\ Len(rows) + 1 \in DOMAIN new /\ new[Len(rows) + 1] = row
  BY <1>1
<1>3. new # <<>>
  BY <1>1
<1> HIDE DEF new
<1>4. \A s : Opened(rows, s) \/ (IsOpen(row) /\ row.of = s) => Opened(new, s)
  BY <1>2 DEF Opened
<1>5. \A c : Shown(rows, c) => Shown(new, c)
  BY <1>2 DEF Shown
<1> QED BY <1>1, <1>2, <1>3, <1>4, <1>5 DEF new

LEMMA UpdateShows ==
  ASSUME NEW rows \in Seq(Row), NEW i \in DOMAIN rows, NEW row \in Row, row.of = rows[i].of,
         IsOpen(rows[i]) => IsOpen(row),
         rows[i].role = "text" => row.role = "text" /\ rows[i].by \subseteq row.by
  PROVE  LET new == [rows EXCEPT ![i] = row] IN
         /\ \A s : Opened(rows, s) => Opened(new, s)
         /\ \A c : Shown(rows, c) => Shown(new, c)
         /\ rows # <<>> => new # <<>>
         /\ new[Len(new)].of = rows[Len(rows)].of
<1> DEFINE new == [rows EXCEPT ![i] = row]
<1>1. DOMAIN new = DOMAIN rows /\ Len(new) = Len(rows) /\ Len(rows) \in DOMAIN rows
      /\ \A j \in DOMAIN rows : new[j] = IF j = i THEN row ELSE rows[j]
  OBVIOUS
<1>2. new # <<>>
  BY <1>1
<1> HIDE DEF new
<1>3. \A s : Opened(rows, s) => Opened(new, s)
  BY <1>1 DEF Opened
<1>4. \A c : Shown(rows, c) => Shown(new, c)
  BY <1>1 DEF Shown
<1> QED BY <1>1, <1>2, <1>3, <1>4 DEF new

-----------------------------------------------------------------------------
LEMMA DrainStartGood == ASSUME IInv, ChatIsGood, DrainStart PROVE ChatIsGood'
<1> DEFINE row == NewRow("text", tokenRx, FALSE, app.nextCtx)
<1>0. /\ tokenRx # 0 /\ chan[tokenRx] # <<>> /\ Head(chan[tokenRx]).type = "start"
      /\ Pop /\ UNCHANGED <<agent, tokenRx, hist>>
  BY DEF DrainStart, Incoming
<1>1. /\ app'.at = "drain" /\ app'.nextCtx = FALSE /\ app'.msgs = Append(app.msgs, row)
      /\ app'.cur = app.cur /\ app'.streaming = app.streaming /\ app'.transient = app.transient
      /\ app'.ended = app.ended /\ app'.queue = app.queue /\ app'.disk = app.disk
  BY AppIs DEF DrainStart
<1>2. row \in Row /\ row.role = "text" /\ row.of = app.cur /\ row.by = {} /\ row.complete = FALSE
      /\ row.ctx = app.nextCtx
  <2>1. app.nextCtx \in BOOLEAN /\ tokenRx = app.cur /\ tokenRx \in 0..MaxStreams
    BY <1>0, AppIs, CurrentIs DEF ChatIsGood, ScreenIsGood
  <2> QED BY <2>1 DEF NewRow, Row
<1> HIDE DEF row
<1>3. app.cur \in hist.btw => app.nextCtx
  <2>1. app.cur \in hist.btw => Marked(chan[tokenRx], agent[tokenRx], app.nextCtx)
    BY <1>0, CurrentIs DEF ChatIsGood, ChannelsAreGood
  <2> QED BY <1>0, <2>1, CurrentIs, Front1 DEF Marked
<1>4. RowOK(row, app.cur, hist.btw)
  BY <1>2, <1>3, AppIs DEF RowOK
<1>5. GoodRows(app.msgs, app.cur, hist.btw) /\ app.msgs \in Seq(Row)
  BY DEF ChatIsGood, ScreenIsGood, GoodRows
<1>6. GoodRows(app'.msgs, app.cur, hist.btw)
  BY <1>1, <1>2, <1>4, <1>5, AppIs, GoodAppend
<1>7. /\ \A s : Opened(app.msgs, s) \/ (IsOpen(row) /\ row.of = s) => Opened(app'.msgs, s)
      /\ \A c : Shown(app.msgs, c) => Shown(app'.msgs, c)
      /\ app'.msgs # <<>> /\ app'.msgs[Len(app'.msgs)].of = app.cur
  BY <1>1, <1>2, <1>5, AppendShows
<1>8. ScreenIsGood'
  BY <1>0, <1>1, <1>6, <1>7 DEF ChatIsGood, ScreenIsGood
<1>9. Opened(app'.msgs, app.cur)
  BY <1>2, <1>7 DEF IsOpen
<1>10. ChannelsAreGood' /\ NothingIsLost'
  BY <1>0, <1>1, <1>7, <1>9, PopGood
<1> QED BY <1>8, <1>10 DEF ChatIsGood

LEMMA DrainTokenGood == ASSUME IInv, ChatIsGood, DrainToken PROVE ChatIsGood'
<1> DEFINE chunk == <<tokenRx, Head(chan[tokenRx]).n>>
<1>0. /\ tokenRx # 0 /\ chan[tokenRx] # <<>> /\ Head(chan[tokenRx]).type = "token"
      /\ Pop /\ UNCHANGED <<agent, tokenRx, hist>>
  BY DEF DrainToken, Incoming
<1>1. /\ app'.at = "drain" /\ app'.nextCtx = app.nextCtx /\ app'.msgs = app.msgs
      /\ app'.cur = app.cur /\ app'.streaming = app.streaming /\ app'.transient = app.transient
      /\ app'.ended = app.ended /\ app'.queue = Append(app.queue, chunk) /\ app'.disk = app.disk
  BY AppIs DEF DrainToken
<1>2. chunk \in Streams \X Nat /\ chunk[1] = app.cur
  <2>1. Head(chan[tokenRx]) \in StreamMsg
    BY <1>0, CurrentIs, Front1
  <2> QED BY <1>0, <2>1, CurrentIs DEF StreamMsg
<1> DEFINE q == app.queue
<1>3. q \in Seq(Streams \X Nat)
  BY AppIs
<1> PICK ch : ch = chunk
  OBVIOUS
<1> HIDE DEF chunk, q
<1>4. /\ \A i \in DOMAIN q : i \in DOMAIN Append(q, ch) /\ Append(q, ch)[i] = q[i]
      /\ Len(q) + 1 \in DOMAIN Append(q, ch) /\ Append(q, ch)[Len(q) + 1] = ch
      /\ \A i \in DOMAIN Append(q, ch) : i \in DOMAIN q \/ i = Len(q) + 1
  BY <1>2, <1>3
<1>5. \A i \in DOMAIN app'.queue : app'.queue[i][1] = app.cur
  BY <1>1, <1>2, <1>4 DEF ChatIsGood, ScreenIsGood, q
<1>6. ScreenIsGood'
  BY <1>0, <1>1, <1>5 DEF ChatIsGood, ScreenIsGood
<1>7. ChannelsAreGood' /\ NothingIsLost'
  <2>1. \A i \in DOMAIN app.queue : \E j \in DOMAIN app'.queue : app'.queue[j] = app.queue[i]
    BY <1>1, <1>4 DEF q
  <2>2. \E j \in DOMAIN app'.queue : app'.queue[j] = <<tokenRx, Head(chan[tokenRx]).n>>
    BY <1>1, <1>4 DEF q, chunk
  <2> QED BY <1>0, <1>1, <2>1, <2>2, PopGood
<1> QED BY <1>6, <1>7 DEF ChatIsGood

(* Messages that leave the rows as they are or change those of tools. *)
LEMMA RowPopGood ==
  ASSUME IInv, ChatIsGood, tokenRx # 0, chan[tokenRx] # <<>>, Pop, UNCHANGED <<agent, tokenRx, hist>>,
         Head(chan[tokenRx]).type \notin {"start", "token"},
         app'.at \in {"drain", "release"}, app'.nextCtx = app.nextCtx,
         app'.cur = app.cur, app'.streaming = app.streaming, app'.transient = app.transient,
         app'.ended = app.ended, app'.queue = app.queue, app'.disk = app.disk,
         \/ app'.msgs = app.msgs
         \/ \E row \in Row : /\ row.of = app.cur /\ RowOK(row, app.cur, hist.btw)
                             /\ app'.msgs = Append(app.msgs, row)
         \/ \E i \in DOMAIN app.msgs : \E row \in Row :
              /\ app.msgs[i].role = "tool" /\ row.role = "tool" /\ row.of = app.msgs[i].of
              /\ app'.msgs = [app.msgs EXCEPT ![i] = row]
  PROVE  ChatIsGood'
<1>5. GoodRows(app.msgs, app.cur, hist.btw) /\ app.msgs \in Seq(Row)
  BY DEF ChatIsGood, ScreenIsGood, GoodRows
<1>6. app.msgs # <<>> /\ app.msgs[Len(app.msgs)].of = app.cur
  BY CurrentIs DEF ChatIsGood, ScreenIsGood
<1> DEFINE Goal == /\ GoodRows(app'.msgs, app.cur, hist.btw)
                   /\ \A s : Opened(app.msgs, s) => Opened(app'.msgs, s)
                   /\ \A c : Shown(app.msgs, c) => Shown(app'.msgs, c)
                   /\ app'.msgs # <<>> /\ app'.msgs[Len(app'.msgs)].of = app.cur
<1>7. Goal
  <2>1. CASE app'.msgs = app.msgs
    BY <1>5, <1>6, <2>1
  <2>2. ASSUME NEW row \in Row, row.of = app.cur, RowOK(row, app.cur, hist.btw),
               app'.msgs = Append(app.msgs, row)
        PROVE  Goal
    <3>1. GoodRows(app'.msgs, app.cur, hist.btw)
      BY <1>5, <2>2, AppIs, GoodAppend
    <3>2. /\ \A s : Opened(app.msgs, s) => Opened(app'.msgs, s)
          /\ \A c : Shown(app.msgs, c) => Shown(app'.msgs, c)
          /\ app'.msgs # <<>> /\ app'.msgs[Len(app'.msgs)] = row
      BY <1>5, <2>2, AppendShows
    <3> QED BY <2>2, <3>1, <3>2
  <2>3. ASSUME NEW i \in DOMAIN app.msgs, NEW row \in Row, app.msgs[i].role = "tool", row.role = "tool",
               row.of = app.msgs[i].of, app'.msgs = [app.msgs EXCEPT ![i] = row]
        PROVE  Goal
    <3>1. RowOK(app.msgs[i], app.cur, hist.btw)
      BY <1>5 DEF GoodRows
    <3>2. RowOK(row, app.cur, hist.btw)
      BY <2>3, <3>1 DEF RowOK
    <3>3. ~IsOpen(app.msgs[i]) /\ app.msgs[i].role # "text"
      BY <2>3 DEF IsOpen
    <3>4. GoodRows(app'.msgs, app.cur, hist.btw)
      BY <1>5, <2>3, <3>2, GoodUpdate
    <3>5. /\ \A s : Opened(app.msgs, s) => Opened(app'.msgs, s)
          /\ \A c : Shown(app.msgs, c) => Shown(app'.msgs, c)
          /\ app'.msgs # <<>> /\ app'.msgs[Len(app'.msgs)].of = app.msgs[Len(app.msgs)].of
      <4> PICK rows : rows = app.msgs
        OBVIOUS
      <4>1. LET new == [rows EXCEPT ![i] = row] IN
            /\ \A s : Opened(rows, s) => Opened(new, s)
            /\ \A c : Shown(rows, c) => Shown(new, c)
            /\ rows # <<>> => new # <<>>
            /\ new[Len(new)].of = rows[Len(rows)].of
        BY <1>5, <2>3, <3>3, UpdateShows
      <4> QED BY <1>6, <2>3, <4>1
    <3> QED BY <1>6, <3>4, <3>5
  <2> QED BY <2>1, <2>2, <2>3
<1>8. ScreenIsGood'
  BY <1>7 DEF ChatIsGood, ScreenIsGood
<1>10. ChannelsAreGood' /\ NothingIsLost'
  BY <1>7, PopGood
<1> QED BY <1>8, <1>10 DEF ChatIsGood

LEMMA DrainToolStartGood == ASSUME IInv, ChatIsGood, DrainToolStart PROVE ChatIsGood'
<1> DEFINE row == NewRow("tool", tokenRx, FALSE, FALSE)
<1>0. /\ tokenRx # 0 /\ chan[tokenRx] # <<>> /\ Head(chan[tokenRx]).type = "toolStart"
      /\ Pop /\ UNCHANGED <<agent, tokenRx, hist>>
  BY DEF DrainToolStart, Incoming
<1>1. /\ app'.at = "drain" /\ app'.nextCtx = app.nextCtx /\ app'.msgs = Append(app.msgs, row)
      /\ app'.cur = app.cur /\ app'.streaming = app.streaming /\ app'.transient = app.transient
      /\ app'.ended = app.ended /\ app'.queue = app.queue /\ app'.disk = app.disk
  BY AppIs DEF DrainToolStart
<1>2. row \in Row /\ row.role = "tool" /\ row.of = app.cur
  <2>1. tokenRx = app.cur /\ tokenRx \in 0..MaxStreams
    BY <1>0, AppIs, CurrentIs
  <2> QED BY <2>1 DEF NewRow, Row
<1> HIDE DEF row
<1>3. RowOK(row, app.cur, hist.btw)
  BY <1>2, AppIs DEF RowOK
<1> QED BY <1>0, <1>1, <1>2, <1>3, RowPopGood

LEMMA DrainToolEndGood ==
  ASSUME IInv, ChatIsGood, NEW type \in {"toolDone", "toolFailed"}, DrainToolEnd(type)
  PROVE  ChatIsGood'
<1> DEFINE i == LastOpenTool(app.msgs)
           row == [app.msgs[i] EXCEPT !.complete = TRUE, !.by = OwnText(tokenRx)]
<1>0. /\ tokenRx # 0 /\ chan[tokenRx] # <<>> /\ Head(chan[tokenRx]).type = type
      /\ Pop /\ UNCHANGED <<agent, tokenRx, hist>>
  BY DEF DrainToolEnd, Incoming
<1>1. /\ app'.at = "drain" /\ app'.nextCtx = app.nextCtx
      /\ app'.cur = app.cur /\ app'.streaming = app.streaming /\ app'.transient = app.transient
      /\ app'.ended = app.ended /\ app'.queue = app.queue /\ app'.disk = app.disk
      /\ app'.msgs = IF i # 0 THEN [app.msgs EXCEPT ![i].complete = TRUE, ![i].by = OwnText(tokenRx)]
                     ELSE IF type = "toolFailed" THEN Append(app.msgs, ErrorRow(tokenRx)) ELSE app.msgs
  BY AppIs DEF DrainToolEnd
<1>2. tokenRx \in Streams /\ tokenRx = app.cur /\ app.msgs \in Seq(Row)
  BY <1>0, CurrentIs DEF ChatIsGood, ScreenIsGood, GoodRows
<1>3. CASE i # 0
  <2>1. i \in DOMAIN app.msgs /\ app.msgs[i].role = "tool" /\ app.msgs[i] \in Row
    BY <1>2, <1>3, OpenToolIs
  <2>2. row \in Row /\ row.role = "tool" /\ row.of = app.msgs[i].of
    <3>1. OwnText(tokenRx) \in SUBSET (Streams \X Nat)
      BY <1>2, ErrorRowIs DEF OwnText
    <3> PICK old \in Row : old = app.msgs[i]
      BY <2>1
    <3>2. [old EXCEPT !.complete = TRUE, !.by = OwnText(tokenRx)] \in Row
      BY <3>1 DEF Row
    <3> QED BY <2>1, <3>2 DEF Row
  <2>3. app'.msgs = [app.msgs EXCEPT ![i] = row]
    BY <1>1, <1>3, <2>1, <1>2
  <2> HIDE DEF i, row
  <2> QED BY <1>0, <1>1, <2>1, <2>2, <2>3, RowPopGood
<1>4. CASE i = 0 /\ type = "toolFailed"
  <2>1. app'.msgs = Append(app.msgs, ErrorRow(tokenRx))
    BY <1>1, <1>4
  <2>2. ErrorRow(tokenRx) \in Row /\ ErrorRow(tokenRx).of = app.cur
        /\ RowOK(ErrorRow(tokenRx), app.cur, hist.btw)
    <3>1. app.cur \in Nat
      BY AppIs
    <3> PICK row2 : row2 = ErrorRow(tokenRx)
      OBVIOUS
    <3>2. /\ row2 \in Row /\ row2.role = "text" /\ row2.of = app.cur
          /\ row2.by = {<<app.cur, MaxRounds>>} /\ row2.complete /\ ~row2.ctx
      BY <1>2, ErrorRowIs
    <3>3. RowOK(row2, app.cur, hist.btw)
      BY <3>1, <3>2 DEF RowOK
    <3> QED BY <3>2, <3>3
  <2> HIDE DEF i
  <2> QED BY <1>0, <1>1, <2>1, <2>2, RowPopGood
<1>5. CASE i = 0 /\ type # "toolFailed"
  BY <1>0, <1>1, <1>5, RowPopGood
<1> QED BY <1>3, <1>4, <1>5

LEMMA DrainApprovalGood == ASSUME IInv, ChatIsGood, DrainApproval PROVE ChatIsGood'
<1>0. /\ tokenRx # 0 /\ chan[tokenRx] # <<>> /\ Head(chan[tokenRx]).type = "approval"
      /\ Pop /\ UNCHANGED <<agent, tokenRx, hist>>
  BY DEF DrainApproval, Incoming
<1>1. /\ app'.at = "release" /\ app'.nextCtx = app.nextCtx /\ app'.msgs = app.msgs
      /\ app'.cur = app.cur /\ app'.streaming = app.streaming /\ app'.transient = app.transient
      /\ app'.ended = app.ended /\ app'.queue = app.queue /\ app'.disk = app.disk
  BY AppIs DEF DrainApproval
<1> QED BY <1>0, <1>1, RowPopGood

-----------------------------------------------------------------------------
(* The receiver goes.  What was in its channel does not matter any more.   *)
LEMMA LeftChannelsAreGood ==
  ASSUME IInv, ChatIsGood, DropReceiver, UNCHANGED <<agent, hist>>,
         app'.cur = app.cur, app'.nextCtx = app.nextCtx,
         app'.ended = "done" => agent[app.cur].at = "exited",
         app'.queue # <<>> => Opened(app'.msgs, app.cur)
  PROVE  ChannelsAreGood'
<1>0. /\ chan \in [Streams -> Seq(StreamMsg)]
      /\ \A s \in Streams : (s # tokenRx => chan[s] = <<>>) /\ EndsLast(chan[s], agent[s])
                            /\ (agent[s].at = "none" <=> s > app.cur)
      /\ \A s \in hist.btw : ~agent[s].tools /\ agent[s].at \in {"round", "model", "exited"}
                             /\ agent[s].round = 0
      /\ hist.btw \subseteq Streams
  BY AsidesAreStreams DEF IInv, ChatIsGood, ChannelsAreGood
<1>1. tokenRx' = 0 /\ \A s \in Streams : chan'[s] = <<>>
  BY <1>0 DEF DropReceiver
<1>2. DOMAIN <<>> = {}
  OBVIOUS
<1>3. \A s \in Streams : EndsLast(<<>>, agent[s])
  BY <1>2 DEF EndsLast
<1>4. 0 \notin Streams
  BY AgentAssumption DEF Streams
<1> QED BY <1>0, <1>1, <1>3, <1>4 DEF ChannelsAreGood

LEMMA EndGood ==
  ASSUME IInv, ChatIsGood, NEW type \in {"done", "err"}, tokenRx # 0,
         type = "done" => /\ agent[tokenRx].at = "exited"
                          /\ \A j \in DOMAIN chan[tokenRx] : chan[tokenRx][j].type # "token",
         DropReceiver, app' = [app EXCEPT !.ended = type, !.at = "release"],
         UNCHANGED <<agent, hist>>
  PROVE  ChatIsGood'
<1>1. /\ app'.at = "release" /\ app'.nextCtx = app.nextCtx /\ app'.msgs = app.msgs
      /\ app'.cur = app.cur /\ app'.streaming = app.streaming /\ app'.transient = app.transient
      /\ app'.ended = type /\ app'.queue = app.queue /\ app'.disk = app.disk
  BY AppIs
<1>2. tokenRx = app.cur
  BY CurrentIs
<1>3. ScreenIsGood'
  BY <1>1 DEF ChatIsGood, ScreenIsGood
<1>4. ChannelsAreGood'
  <2>1. app'.queue # <<>> => Opened(app'.msgs, app.cur)
    BY <1>1 DEF ChatIsGood, ChannelsAreGood
  <2> QED BY <1>1, <1>2, <2>1, LeftChannelsAreGood
<1>5. NothingIsLost'
  <2>1. \A c \in hist.sent : c[1] <= app.cur
    BY DEF ChatIsGood, NothingIsLost
  <2>2. ASSUME app.streaming, type # "err", NEW c \in hist.sent, c[1] = app.cur
        PROVE  (\E i \in DOMAIN app.queue : app.queue[i] = c) \/ Shown(app.msgs, c)
    <3>1. app.ended = "no"
      BY DEF IInv, EndsInOrder
    <3>2. \/ \E j \in DOMAIN chan[app.cur] : chan[app.cur][j] = Msg("token", c[2])
          \/ \E i \in DOMAIN app.queue : app.queue[i] = c
          \/ Shown(app.msgs, c)
      BY <2>2, <3>1 DEF ChatIsGood, NothingIsLost
    <3> QED BY <1>2, <2>2, <3>2 DEF Msg
  <2> QED BY <1>1, <2>1, <2>2 DEF NothingIsLost
<1> QED BY <1>3, <1>4, <1>5 DEF ChatIsGood

LEMMA DrainEndGood ==
  ASSUME IInv, ChatIsGood, NEW type \in {"done", "err"}, DrainEnd(type)
  PROVE  ChatIsGood'
<1>0. /\ tokenRx # 0 /\ chan[tokenRx] # <<>> /\ Head(chan[tokenRx]).type = type
      /\ DropReceiver /\ UNCHANGED <<agent, hist>>
      /\ app' = [app EXCEPT !.ended = type, !.at = "release"]
  BY DEF DrainEnd, Incoming
<1>1. tokenRx \in Streams /\ chan[tokenRx] \in Seq(StreamMsg)
  BY <1>0, CurrentIs
<1> PICK c \in Seq(StreamMsg) : c = chan[tokenRx]
  BY <1>1
<1>2. 1 \in DOMAIN c /\ c[1].type = type /\ \A j \in DOMAIN c : j = 1 \/ j > 1
  BY <1>0
<1>3. EndsLast(c, agent[tokenRx])
  BY <1>1 DEF ChatIsGood, ChannelsAreGood
<1>4. agent[tokenRx].at = "exited" /\ \A j \in DOMAIN c : c[j].type # "token"
  BY <1>2, <1>3 DEF EndsLast
<1> QED BY <1>0, <1>4, EndGood

LEMMA DrainDisconnectedGood == ASSUME IInv, ChatIsGood, DrainDisconnected PROVE ChatIsGood'
<1>0. /\ tokenRx # 0 /\ chan[tokenRx] = <<>> /\ agent[tokenRx].at = "exited"
      /\ DropReceiver /\ UNCHANGED <<agent, hist>>
      /\ app' = [app EXCEPT !.ended = "done", !.at = "release"]
  BY DEF DrainDisconnected
<1>1. \A j \in DOMAIN chan[tokenRx] : chan[tokenRx][j].type # "token"
  BY <1>0
<1> QED BY <1>0, <1>1, EndGood

LEMMA DrainEmptyGood == ASSUME IInv, ChatIsGood, DrainEmpty PROVE ChatIsGood'
<1>1. /\ app'.at = "release" /\ app'.nextCtx = app.nextCtx /\ app'.msgs = app.msgs
      /\ app'.cur = app.cur /\ app'.streaming = app.streaming /\ app'.transient = app.transient
      /\ app'.ended = app.ended /\ app'.queue = app.queue /\ app'.disk = app.disk
  BY AppIs DEF DrainEmpty
<1>2. UNCHANGED <<agent, chan, tokenRx, hist>>
  BY DEF DrainEmpty, agentVars
<1>3. ScreenIsGood'
  BY <1>1, <1>2 DEF ChatIsGood, ScreenIsGood
<1>4. ChannelsAreGood'
  BY <1>1, <1>2 DEF ChatIsGood, ChannelsAreGood
<1>5. NothingIsLost'
  BY <1>1, <1>2 DEF ChatIsGood, NothingIsLost
<1> QED BY <1>3, <1>4, <1>5 DEF ChatIsGood

LEMMA RestIs ==
  ASSUME NEW S, NEW q \in Seq(S), NEW k \in 0..Len(q)
  PROVE  /\ DOMAIN SubSeq(q, k + 1, Len(q)) = 1..(Len(q) - k)
         /\ \A j \in DOMAIN SubSeq(q, k + 1, Len(q)) :
              j + k \in DOMAIN q /\ SubSeq(q, k + 1, Len(q))[j] = q[j + k]
<1>1. k \in Nat /\ k <= Len(q) /\ Len(q) \in Nat /\ DOMAIN q = 1..Len(q)
  OBVIOUS
<1>2. DOMAIN SubSeq(q, k + 1, Len(q)) = 1..(Len(q) - k)
  BY <1>1
<1>3. \A j \in DOMAIN SubSeq(q, k + 1, Len(q)) :
        j + k \in DOMAIN q /\ SubSeq(q, k + 1, Len(q))[j] = q[j + k]
  BY <1>1
<1> QED BY <1>2, <1>3

(* Steps of the overlay that leave the channels alone. *)
LEMMA SameChannelsAreGood ==
  ASSUME IInv, ChatIsGood, UNCHANGED <<agent, chan, tokenRx, hist>>,
         app'.cur = app.cur, app'.nextCtx = app.nextCtx, app'.ended \in {app.ended, "no"},
         tokenRx # 0 => (Opened(app.msgs, app.cur) => Opened(app'.msgs, app.cur)),
         app'.queue # <<>> => Opened(app'.msgs, app.cur)
  PROVE  ChannelsAreGood'
<1>1. tokenRx # 0 => StartsFirst(chan[tokenRx], agent[tokenRx], Opened(app'.msgs, app.cur))
  BY DEF ChatIsGood, ChannelsAreGood, StartsFirst
<1>2. /\ \A s \in Streams :
           /\ s # tokenRx => chan[s] = <<>>
           /\ agent[s].at = "none" <=> s > app.cur
           /\ EndsLast(chan[s], agent[s])
      /\ app.ended = "done" => agent[app.cur].at = "exited"
      /\ \A s \in hist.btw : ~agent[s].tools /\ agent[s].at \in {"round", "model", "exited"}
                             /\ agent[s].round = 0
      /\ tokenRx \in hist.btw => Marked(chan[tokenRx], agent[tokenRx], app.nextCtx)
  BY DEF ChatIsGood, ChannelsAreGood
<1> QED BY <1>1, <1>2 DEF ChannelsAreGood

LEMMA PersistedIsGood ==
  ASSUME NEW cur, NEW btw, NEW rows, GoodRows(rows, cur, btw)
  PROVE  GoodSaved(Persisted(rows), cur, btw)
<1> DEFINE K == {i \in DOMAIN rows : ~rows[i].ctx /\ rows[i].role # "tool" /\ rows[i].complete}
           new == Kept(rows, K)
<1>1. new = Persisted(rows)
  BY DEF Persisted
<1>3. \A k \in K : ~rows[k].ctx /\ rows[k].role # "tool"
  OBVIOUS
<1> HIDE DEF K
<1>2. GoodRows(new, cur, btw) /\ \A i \in DOMAIN new : \E k \in K \cap DOMAIN rows : new[i] = rows[k]
  BY GoodKept
<1> HIDE DEF new
<1>4. ASSUME NEW i \in DOMAIN new
      PROVE  \A c \in new[i].by : c[1] <= cur /\ (c[1] \in btw => c[2] = MaxRounds)
  <2>1. RowOK(new[i], cur, btw) /\ new[i] \in Row /\ ~new[i].ctx /\ new[i].role # "tool"
    BY <1>2, <1>3 DEF GoodRows
  <2>2. new[i].role \in {"user", "text"}
    BY <2>1 DEF Row
  <2>3. CASE new[i].role = "user"
    BY <2>1, <2>3 DEF RowOK
  <2>4. CASE new[i].role = "text"
    BY <2>1, <2>4 DEF RowOK
  <2> QED BY <2>2, <2>3, <2>4
<1>5. new \in Seq(Row)
  BY <1>2 DEF GoodRows
<1> QED BY <1>1, <1>4, <1>5 DEF GoodSaved

-----------------------------------------------------------------------------
(* Text that is released goes to the row of its own stream, the last one   *)
(* that is open.                                                           *)
LEMMA ReleaseGood ==
  ASSUME IInv, ChatIsGood, NEW k \in 0..Len(app.queue), Release(k)
  PROVE  ChatIsGood'
<1> DEFINE i == LastOpenText(app.msgs)
           R == Released(k)
<1>0. PICK rows, q : rows = app.msgs /\ q = app.queue
  OBVIOUS
<1> HIDE DEF i, R
<1>1. /\ app.at = "release"
      /\ app'.at = AfterRelease(k) /\ app'.nextCtx = app.nextCtx
      /\ app'.cur = app.cur /\ app'.streaming = app.streaming /\ app'.transient = app.transient
      /\ app'.ended = app.ended /\ app'.queue = SubSeq(q, k + 1, Len(q)) /\ app'.disk = app.disk
      /\ app'.msgs = IF i = 0 THEN rows ELSE [rows EXCEPT ![i].by = @ \cup R]
  <2>1. app' = [app EXCEPT !.at = AfterRelease(k), !.queue = SubSeq(@, k + 1, Len(@)),
                  !.msgs = AddText(app.msgs, R)]
    BY DEF Release, R
  <2>2. app.at = "release"
    BY DEF Release
  <2>3. /\ app'.at = AfterRelease(k) /\ app'.nextCtx = app.nextCtx
        /\ app'.cur = app.cur /\ app'.streaming = app.streaming /\ app'.transient = app.transient
        /\ app'.ended = app.ended /\ app'.queue = SubSeq(app.queue, k + 1, Len(app.queue))
        /\ app'.disk = app.disk /\ app'.msgs = AddText(app.msgs, R)
    BY <2>1, AppIs
  <2>4. AddText(rows, R) = IF i = 0 THEN rows ELSE [rows EXCEPT ![i].by = @ \cup R]
    BY <1>0 DEF AddText, i
  <2> QED BY <1>0, <2>2, <2>3, <2>4
<1>2. UNCHANGED <<agent, chan, tokenRx, hist>>
  BY DEF Release, agentVars
<1>3. /\ GoodRows(rows, app.cur, hist.btw) /\ rows \in Seq(Row)
      /\ app.cur \in Nat /\ q \in Seq(Streams \X Nat)
      /\ q # <<>> => Opened(rows, app.cur)
      /\ \A j \in DOMAIN q : q[j][1] = app.cur
      /\ q # <<>> => app.streaming
  BY <1>0, AppIs DEF ChatIsGood, ScreenIsGood, ChannelsAreGood, GoodRows, IInv, StreamingIsLive
<1>4. Len(q) \in Nat /\ DOMAIN q = 1..Len(q) /\ k \in 0..Len(q) /\ R = {q[j] : j \in 1..k}
  BY <1>0, <1>3 DEF Released, R
<1>5. /\ R \in SUBSET (Streams \X Nat)
      /\ \A c \in R : c[1] = app.cur
      /\ R # {} => q # <<>>
      /\ \A j \in DOMAIN q : j <= k => q[j] \in R
  <2>1. \A j \in 1..k : j \in DOMAIN q
    BY <1>4
  <2>2. \A j \in DOMAIN q : j <= k => j \in 1..k
    BY <1>4
  <2>3. \A c \in R : \E j \in DOMAIN q : c = q[j]
    BY <1>4, <2>1
  <2>4. \A j \in DOMAIN q : q[j] \in Streams \X Nat
    BY <1>3
  <2>5. q = <<>> => DOMAIN q = {}
    BY <1>3
  <2>6. R \in SUBSET (Streams \X Nat)
    BY <2>3, <2>4
  <2>7. \A c \in R : c[1] = app.cur
    BY <1>3, <2>3
  <2>8. R # {} => q # <<>>
    BY <2>3, <2>5
  <2>9. \A j \in DOMAIN q : j <= k => q[j] \in R
    BY <1>4, <2>2
  <2> QED BY <2>6, <2>7, <2>8, <2>9
<1>6. i = 0 => \A j \in DOMAIN rows : ~IsOpen(rows[j])
  BY <1>0, <1>3, OpenTextIs DEF i
<1>7. i # 0 => /\ i \in DOMAIN rows /\ IsOpen(rows[i])
               /\ \A j \in DOMAIN rows : IsOpen(rows[j]) => j <= i
  BY <1>0, <1>3, OpenTextIs DEF i
<1>8. q # <<>> => i # 0 /\ rows[i].of = app.cur
  <2> SUFFICES ASSUME q # <<>> PROVE i # 0 /\ rows[i].of = app.cur
    OBVIOUS
  <2>1. PICK j \in DOMAIN rows : IsOpen(rows[j]) /\ rows[j].of = app.cur
    BY <1>3 DEF Opened
  <2>2. i # 0 /\ i \in DOMAIN rows /\ j <= i
    BY <1>6, <1>7, <2>1
  <2>3. rows[i].of >= app.cur /\ rows[i].of <= app.cur
    <3>1. i \in Nat /\ j \in Nat
      BY <1>3, <2>2
    <3>2. j = i \/ j < i
      BY <2>2, <3>1
    <3>3. rows[i].of <= app.cur
      BY <1>3, <2>2 DEF GoodRows, RowOK
    <3>4. rows[i] \in Row
      BY <1>3, <2>2
    <3>5. j < i => rows[j].of <= rows[i].of
      BY <1>3, <2>2 DEF GoodRows
    <3> QED BY <1>3, <2>1, <3>2, <3>3, <3>4, <3>5
  <2>4. rows[i].of \in Nat
    <3>1. rows[i] \in Row
      BY <1>3, <2>2
    <3> QED BY <3>1, AgentAssumption DEF Row
  <2> QED BY <1>3, <2>2, <2>3, <2>4
<1> DEFINE new == app'.msgs
<1>9. /\ GoodRows(new, app.cur, hist.btw)
      /\ \A s : Opened(rows, s) => Opened(new, s)
      /\ \A c : Shown(rows, c) => Shown(new, c)
      /\ rows # <<>> => new # <<>> /\ new[Len(new)].of = rows[Len(rows)].of
      /\ \A c \in R : Shown(new, c)
  <2>1. CASE i = 0
    BY <1>1, <1>3, <1>5, <1>8, <2>1
  <2>2. CASE i # 0
    <3>0. PICK old : old = rows[i]
      OBVIOUS
    <3> DEFINE row == [old EXCEPT !.by = @ \cup R]
    <3>1. old \in Row /\ IsOpen(old) /\ i \in DOMAIN rows /\ RowOK(old, app.cur, hist.btw)
      BY <1>3, <1>7, <2>2, <3>0 DEF GoodRows
    <3>2. old.role = "text" /\ ~old.complete
      BY <3>1 DEF Row, RowOK, IsOpen
    <3>3. /\ row \in Row /\ row.role = "text" /\ row.of = old.of /\ row.by = old.by \cup R
          /\ row.complete = old.complete /\ row.ctx = old.ctx
      BY <1>5, <3>1, <3>2 DEF Row
    <3>4. new = [rows EXCEPT ![i] = row]
      BY <1>1, <1>3, <2>2, <3>0, <3>1
    <3> HIDE DEF row
    <3>5. \A c \in R : c[1] = old.of
      BY <1>5, <1>8, <3>0
    <3>6. RowOK(row, app.cur, hist.btw)
      BY <3>1, <3>2, <3>3, <3>5 DEF RowOK
    <3>7. GoodRows([rows EXCEPT ![i] = row], app.cur, hist.btw)
      BY <1>3, <3>0, <3>1, <3>3, <3>6, GoodUpdate
    <3>8. LET n == [rows EXCEPT ![i] = row] IN
          /\ \A s : Opened(rows, s) => Opened(n, s)
          /\ \A c : Shown(rows, c) => Shown(n, c)
          /\ rows # <<>> => n # <<>>
          /\ n[Len(n)].of = rows[Len(rows)].of
      <4>1. IsOpen(row)
        BY <3>2, <3>3 DEF IsOpen
      <4> QED BY <1>3, <3>0, <3>1, <3>3, <4>1, UpdateShows
    <3>9. \A c \in R : Shown(new, c)
      <4>1. i \in DOMAIN new /\ new[i] = row
        BY <1>3, <3>1, <3>4
      <4> QED BY <3>3, <4>1 DEF Shown
    <3> QED BY <3>4, <3>7, <3>8, <3>9
  <2> QED BY <2>1, <2>2
<1> HIDE DEF new
<1>10. PICK rest : rest = SubSeq(q, k + 1, Len(q))
  OBVIOUS
<1>11. /\ \A j \in DOMAIN rest : \E m \in DOMAIN q : rest[j] = q[m]
       /\ rest # <<>> => q # <<>>
       /\ \A j \in DOMAIN q : j <= k \/ \E m \in DOMAIN rest : rest[m] = q[j]
  <2>1. /\ DOMAIN rest = 1..(Len(q) - k)
        /\ \A j \in DOMAIN rest : j + k \in DOMAIN q /\ rest[j] = q[j + k]
    BY <1>3, <1>4, <1>10, RestIs
  <2>2. ASSUME NEW j \in DOMAIN q, ~(j <= k) PROVE \E m \in DOMAIN rest : rest[m] = q[j]
    <3>1. j - k \in DOMAIN rest /\ (j - k) + k = j
      BY <1>4, <2>1, <2>2
    <3>2. rest[j - k] = q[j]
      BY <2>1, <3>1
    <3> QED BY <3>1, <3>2
  <2>3. rest # <<>> => q # <<>>
    BY <1>3, <1>4, <1>10
  <2> QED BY <2>1, <2>2, <2>3
<1>12. ScreenIsGood'
  <2>1. app'.at \in {"finalize", "input"}
    BY <1>1 DEF AfterRelease
  <2>2. \A j \in DOMAIN app'.queue : app'.queue[j][1] = app.cur
    <3>1. app'.queue = rest
      BY <1>1, <1>10
    <3> QED BY <1>3, <1>11, <3>1
  <2>3. app.streaming => new # <<>> /\ new[Len(new)].of = app.cur
    BY <1>0, <1>9 DEF ChatIsGood, ScreenIsGood
  <2> QED BY <1>1, <1>2, <1>9, <2>1, <2>2, <2>3 DEF ChatIsGood, ScreenIsGood, new
<1>13. ChannelsAreGood'
  <2>1. app'.queue # <<>> => Opened(new, app.cur)
    BY <1>1, <1>3, <1>9, <1>10, <1>11
  <2> QED BY <1>0, <1>1, <1>2, <1>9, <2>1, SameChannelsAreGood DEF new
<1>14. NothingIsLost'
  <2>1. \A c \in hist.sent : c[1] <= app.cur
    BY DEF ChatIsGood, NothingIsLost
  <2>2. ASSUME app.streaming, app.ended # "err", NEW c \in hist.sent, c[1] = app.cur
        PROVE  \/ tokenRx = app.cur /\ \E j \in DOMAIN chan[app.cur] : chan[app.cur][j] = Msg("token", c[2])
               \/ \E j \in DOMAIN app'.queue : app'.queue[j] = c
               \/ Shown(new, c)
    <3>1. \/ tokenRx = app.cur /\ \E j \in DOMAIN chan[app.cur] : chan[app.cur][j] = Msg("token", c[2])
          \/ \E j \in DOMAIN q : q[j] = c
          \/ Shown(rows, c)
      BY <1>0, <2>2 DEF ChatIsGood, NothingIsLost
    <3>2. ASSUME NEW j \in DOMAIN q, q[j] = c
          PROVE  (\E m \in DOMAIN app'.queue : app'.queue[m] = c) \/ Shown(new, c)
      <4>1. app'.queue = rest
        BY <1>1, <1>10
      <4>2. CASE j <= k
        BY <1>5, <1>9, <3>2, <4>2
      <4>3. CASE ~(j <= k)
        <5>1. \E m \in DOMAIN rest : rest[m] = q[j]
          BY <1>11, <4>3
        <5> QED BY <3>2, <4>1, <5>1
      <4> QED BY <4>2, <4>3
    <3> QED BY <1>9, <3>1, <3>2
  <2> QED BY <1>1, <1>2, <2>1, <2>2 DEF NothingIsLost, new
<1> QED BY <1>12, <1>13, <1>14 DEF ChatIsGood

-----------------------------------------------------------------------------
(* A stream that ended is settled: its rows are completed and saved.       *)
LEMMA SettleGood ==
  ASSUME IInv, ChatIsGood, app.at = "finalize", NEW rows, GoodRows(rows, app.cur, hist.btw),
         Settle(rows), UNCHANGED agentVars
  PROVE  ChatIsGood'
<1>1. /\ app'.at = "input" /\ app'.nextCtx = app.nextCtx /\ app'.msgs = rows
      /\ app'.cur = app.cur /\ app'.streaming = FALSE /\ app'.transient = FALSE
      /\ app'.ended = "no" /\ app'.queue = app.queue
      /\ app'.disk = IF app.transient THEN app.disk ELSE Persisted(rows)
  BY AppIs DEF Settle
<1>2. UNCHANGED <<agent, chan, tokenRx, hist>>
  BY DEF agentVars
<1>3. app.ended # "no" /\ app.queue = <<>> /\ tokenRx = 0
  BY DEF IInv, EndsInOrder
<1>4. ScreenIsGood'
  <2>1. GoodSaved(app'.disk, app.cur, hist.btw)
    BY <1>1, PersistedIsGood DEF ChatIsGood, ScreenIsGood
  <2> QED BY <1>1, <1>2, <2>1 DEF ChatIsGood, ScreenIsGood
<1>5. ChannelsAreGood'
  BY <1>1, <1>2, <1>3, SameChannelsAreGood
<1>6. NothingIsLost'
  BY <1>1, <1>2 DEF ChatIsGood, NothingIsLost
<1> QED BY <1>4, <1>5, <1>6 DEF ChatIsGood

LEMMA FinalizeErrGood == ASSUME IInv, ChatIsGood, FinalizeErr PROVE ChatIsGood'
<1> DEFINE last == Len(app.msgs)
<1>0. app.at = "finalize" /\ UNCHANGED agentVars
  BY DEF FinalizeErr
<1>1. app.streaming /\ app.cur \in Streams /\ app.cur \in Nat
  <2>1. app.ended # "no"
    BY <1>0 DEF IInv, EndsInOrder
  <2>2. app.streaming
    BY <2>1 DEF IInv, StreamingIsLive
  <2> QED BY <2>2, AppIs, AgentAssumption DEF IInv, EndsInOrder, Streams
<1>2. PICK rows : rows = app.msgs
  OBVIOUS
<1>3. /\ GoodRows(rows, app.cur, hist.btw) /\ rows \in Seq(Row)
      /\ rows # <<>> /\ rows[Len(rows)].of = app.cur
  BY <1>1, <1>2 DEF ChatIsGood, ScreenIsGood, GoodRows
<1>4. Len(rows) \in DOMAIN rows
  BY <1>3
<1>5. CASE Settle(Append(rows, ErrorRow(app.cur)))
  <2> PICK row : row = ErrorRow(app.cur)
    OBVIOUS
  <2>1. /\ row \in Row /\ row.role = "text" /\ row.of = app.cur
        /\ row.by = {<<app.cur, MaxRounds>>} /\ row.complete /\ ~row.ctx
    BY <1>1, ErrorRowIs
  <2>2. RowOK(row, app.cur, hist.btw)
    BY <1>1, <2>1 DEF RowOK
  <2>3. GoodRows(Append(rows, row), app.cur, hist.btw)
    BY <1>1, <1>3, <2>1, <2>2, GoodAppend
  <2> QED BY <1>0, <1>5, <2>3, SettleGood
<1>6. CASE /\ rows[Len(rows)].role # "tool" /\ ~rows[Len(rows)].complete
           /\ Settle([rows EXCEPT ![Len(rows)].complete = TRUE, ![Len(rows)].by = OwnText(app.cur)])
  <2>0. PICK old, n : old = rows[Len(rows)] /\ n = Len(rows)
    OBVIOUS
  <2> DEFINE row == [old EXCEPT !.complete = TRUE, !.by = OwnText(app.cur)]
  <2>1. old \in Row /\ RowOK(old, app.cur, hist.btw) /\ old.of = app.cur /\ old.role = "text"
    <3>1. /\ old \in Row /\ RowOK(old, app.cur, hist.btw) /\ old.of = app.cur
          /\ old.role # "tool" /\ ~old.complete
      BY <1>3, <1>4, <1>6, <2>0 DEF GoodRows
    <3> QED BY <3>1 DEF RowOK, Row
  <2>2. OwnText(app.cur) = {<<app.cur, MaxRounds>>} /\ OwnText(app.cur) \in SUBSET (Streams \X Nat)
    BY <1>1, ErrorRowIs DEF OwnText
  <2>3. row \in Row /\ row.role = "text" /\ row.of = app.cur /\ row.by = {<<app.cur, MaxRounds>>}
        /\ row.complete
    BY <2>1, <2>2 DEF Row
  <2>4. [rows EXCEPT ![n].complete = TRUE, ![n].by = OwnText(app.cur)] = [rows EXCEPT ![n] = row]
    BY <1>3, <1>4, <2>0
  <2> HIDE DEF row
  <2>5. RowOK(row, app.cur, hist.btw)
    BY <1>1, <2>3 DEF RowOK
  <2>6. GoodRows([rows EXCEPT ![n] = row], app.cur, hist.btw)
    BY <1>3, <1>4, <2>0, <2>1, <2>3, <2>5, GoodUpdate
  <2>7. Settle([rows EXCEPT ![n] = row])
    BY <1>6, <2>0, <2>4
  <2> QED BY <1>0, <2>6, <2>7, SettleGood
<1> QED BY <1>2, <1>3, <1>5, <1>6 DEF FinalizeErr

(* What is said is kept when a stream is settled without error. *)
LEMMA CompletedIs ==
  ASSUME NEW cur, NEW btw, NEW rows, GoodRows(rows, cur, btw)
  PROVE  /\ GoodRows(Completed(rows), cur, btw)
         /\ \A c : Shown(rows, c) =>
              \E i \in DOMAIN Completed(rows) : Completed(rows)[i].complete /\ c \in Completed(rows)[i].by
<1> DEFINE F == [i \in DOMAIN rows |-> IF rows[i].role = "tool" THEN rows[i]
                                       ELSE [rows[i] EXCEPT !.complete = TRUE]]
           K == {i \in DOMAIN rows : ~(rows[i].role = "text" /\ ~rows[i].ctx /\ rows[i].by = {})}
           new == Kept(F, K)
<1>1. new = Completed(rows)
  BY DEF Completed
<1>2. rows \in Seq(Row) /\ DOMAIN rows = 1..Len(rows) /\ Len(rows) \in Nat
  BY DEF GoodRows
<1>3. ASSUME NEW i \in DOMAIN rows
      PROVE  /\ F[i] \in Row /\ RowOK(F[i], cur, btw) /\ F[i].of = rows[i].of
             /\ F[i].role = rows[i].role /\ F[i].by = rows[i].by
             /\ rows[i].role = "text" => F[i].complete
  <2>1. rows[i] \in Row /\ RowOK(rows[i], cur, btw)
    BY <1>2 DEF GoodRows
  <2>2. F[i] = IF rows[i].role = "tool" THEN rows[i] ELSE [rows[i] EXCEPT !.complete = TRUE]
    OBVIOUS
  <2> HIDE DEF F
  <2>3. PICK old \in Row : old = rows[i]
    BY <2>1
  <2>4. CASE old.role = "tool"
    BY <2>1, <2>2, <2>3, <2>4
  <2>5. CASE old.role # "tool"
    <3>1. F[i] = [old EXCEPT !.complete = TRUE]
      BY <2>2, <2>3, <2>5
    <3>2. /\ F[i] \in Row /\ F[i].of = old.of /\ F[i].role = old.role /\ F[i].by = old.by
          /\ F[i].ctx = old.ctx /\ F[i].complete = TRUE
      BY <3>1 DEF Row
    <3> QED BY <2>1, <2>3, <3>2 DEF RowOK
  <2> QED BY <2>4, <2>5
<1>4. DOMAIN F = DOMAIN rows /\ F \in Seq(Row)
  <2>1. DOMAIN F = DOMAIN rows
    OBVIOUS
  <2>2. F \in [1..Len(rows) -> Row]
    <3>1. F = [i \in 1..Len(rows) |-> F[i]]
      BY <1>2
    <3> HIDE DEF F
    <3> QED BY <1>2, <1>3, <3>1
  <2> HIDE DEF F
  <2> QED BY <1>2, <2>1, <2>2
<1>5. K \cap DOMAIN F = K /\ \A k \in DOMAIN rows : rows[k].by # {} => k \in K
  BY <1>4
<1> HIDE DEF F, K
<1>6. GoodRows(F, cur, btw)
  BY <1>3, <1>4 DEF GoodRows
<1>7. GoodRows(new, cur, btw) /\ \A k \in K : \E i \in DOMAIN new : new[i] = F[k]
  <2>1. /\ GoodRows(Kept(F, K), cur, btw)
        /\ \A k \in K \cap DOMAIN F : \E i \in DOMAIN Kept(F, K) : Kept(F, K)[i] = F[k]
    BY <1>6, GoodKept
  <2> QED BY <1>5, <2>1
<1> HIDE DEF new
<1>8. ASSUME NEW c, Shown(rows, c)
      PROVE  \E i \in DOMAIN new : new[i].complete /\ c \in new[i].by
  <2>1. PICK k \in DOMAIN rows : rows[k].role = "text" /\ c \in rows[k].by
    BY <1>8 DEF Shown
  <2>2. k \in K /\ F[k].complete /\ c \in F[k].by
    BY <1>3, <1>5, <2>1
  <2> QED BY <1>7, <2>2
<1> QED BY <1>1, <1>7, <1>8

LEMMA FinalizeDoneGood == ASSUME IInv, ChatIsGood, FinalizeDone PROVE ChatIsGood'
<1>1. /\ app.at = "finalize" /\ UNCHANGED agentVars /\ Settle(Completed(app.msgs))
      /\ GoodRows(app.msgs, app.cur, hist.btw)
  BY DEF FinalizeDone, ChatIsGood, ScreenIsGood
<1> QED BY <1>1, CompletedIs, SettleGood

-----------------------------------------------------------------------------
(* A thread that was not started is as it was made. *)
Unasked == \A s \in Streams : agent[s].at = "none" => agent[s].round = 0

LEMMA InitUnasked == Init => Unasked
BY DEF Init, AgentInit, Unasked

LEMMA AgentStaysAsked ==
  ASSUME IInv, Unasked, NEW s \in Streams, NEW a, a.at # "none", agent' = [agent EXCEPT ![s] = a]
  PROVE  Unasked'
BY DEF IInv, AgentsAreGood, Unasked

LEMMA UnaskedStays == ASSUME IInv, Unasked, [Next]_vars PROVE Unasked'
<1>1. ASSUME NEW s \in Streams, Agent(s) PROVE Unasked'
  <2>1. agent[s] \in AgentRecord /\ agent[s].at # "none"
    BY <1>1, AgentInHand DEF Agent, AgentStep, StartRound, HitRoundLimit, ModelSpeaks, ModelEnds,
         ModelCallsTools, EndRound, BadArguments, CallWithoutApproval, AskApproval, ApprovalEnds,
         CallRejected, StartTool, FinishTool, Panic, At, TakesCall
  <2> DEFINE Goal == \E a : a.at # "none" /\ agent' = [agent EXCEPT ![s] = a]
  <2>2. Goal
    <3> PICK old \in AgentRecord : old = agent[s]
      BY <2>1
    <3>1. \/ \E at \in AgentState \ {"none"} : agent' = [agent EXCEPT ![s].at = at]
          \/ agent' = [agent EXCEPT ![s].at = "model", ![s].said = 0]
          \/ agent' = [agent EXCEPT ![s].said = @ + 1]
          \/ \E n : agent' = [agent EXCEPT ![s].at = "tools", ![s].calls = n]
          \/ agent' = [agent EXCEPT ![s].at = "round", ![s].calls = 0, ![s].round = @ + 1]
          \/ agent' = [agent EXCEPT ![s].at = "waiting", ![s].asked = @ + 1]
      BY <1>1 DEF Agent, AgentStep, StartRound, HitRoundLimit, ModelSpeaks, ModelEnds,
         ModelCallsTools, EndRound, BadArguments, CallWithoutApproval, AskApproval, ApprovalEnds,
         CallRejected, StartTool, FinishTool, Panic, GoTo, NextCall, AgentState
    <3>2. ASSUME NEW at \in AgentState \ {"none"}, agent' = [agent EXCEPT ![s].at = at] PROVE Goal
      <4>1. [old EXCEPT !.at = at].at # "none"
        BY <3>2 DEF AgentRecord
      <4> QED BY <3>2, <4>1
    <3>3. CASE agent' = [agent EXCEPT ![s].at = "model", ![s].said = 0]
      <4>1. [old EXCEPT !.at = "model", !.said = 0].at # "none"
        BY DEF AgentRecord
      <4> QED BY <3>3, <4>1
    <3>4. CASE agent' = [agent EXCEPT ![s].said = @ + 1]
      <4>1. [old EXCEPT !.said = @ + 1].at # "none"
        BY <2>1 DEF AgentRecord
      <4> QED BY <3>4, <4>1
    <3>5. ASSUME NEW n, agent' = [agent EXCEPT ![s].at = "tools", ![s].calls = n] PROVE Goal
      <4>1. [old EXCEPT !.at = "tools", !.calls = n].at # "none"
        BY DEF AgentRecord
      <4> QED BY <3>5, <4>1
    <3>6. CASE agent' = [agent EXCEPT ![s].at = "round", ![s].calls = 0, ![s].round = @ + 1]
      <4>1. [old EXCEPT !.at = "round", !.calls = 0, !.round = @ + 1].at # "none"
        BY DEF AgentRecord
      <4> QED BY <3>6, <4>1
    <3>7. CASE agent' = [agent EXCEPT ![s].at = "waiting", ![s].asked = @ + 1]
      <4>1. [old EXCEPT !.at = "waiting", !.asked = @ + 1].at # "none"
        BY DEF AgentRecord
      <4> QED BY <3>7, <4>1
    <3> QED BY <3>1, <3>2, <3>3, <3>4, <3>5, <3>6, <3>7
  <2> QED BY <2>2, AgentStaysAsked
<1>2. ASSUME NEW yes \in BOOLEAN, AnswerPrompt(yes) PROVE Unasked'
  <2> PICK s : s = app.approval[1]
    OBVIOUS
  <2>1. CASE UNCHANGED agent
    BY <2>1 DEF Unasked
  <2>2. ASSUME NEW at \in {"approved", "rejected"}, agent' = [agent EXCEPT ![s].at = at] PROVE Unasked'
    <3>1. s \in Streams
      BY <1>2 DEF AnswerPrompt, IInv, AppShape
    <3> PICK old \in AgentRecord : old = agent[s]
      BY <3>1, AgentInHand
    <3>2. [old EXCEPT !.at = at].at # "none"
      BY <2>2 DEF AgentRecord
    <3>3. agent' = [agent EXCEPT ![s] = [old EXCEPT !.at = at]]
      BY <2>2
    <3> QED BY <3>1, <3>2, <3>3, AgentStaysAsked
  <2> QED BY <1>2, <2>1, <2>2 DEF AnswerPrompt, GoTo
<1>3. ASSUME NEW s \in Streams, NEW offered, StartStream(s, offered) PROVE Unasked'
  <2> PICK old \in AgentRecord : old = agent[s]
    BY <1>3, AgentInHand
  <2>1. [old EXCEPT !.at = "round", !.tools = offered].at # "none"
    BY DEF AgentRecord
  <2>2. agent' = [agent EXCEPT ![s] = [old EXCEPT !.at = "round", !.tools = offered]]
    BY <1>3 DEF StartStream
  <2> QED BY <2>1, <2>2, AgentStaysAsked
<1>4. CASE UNCHANGED agent
  BY <1>4 DEF Unasked
<1>5. Ask \/ AskAside => \E s \in Streams : \E offered : StartStream(s, offered)
  BY DEF Ask, AskAside
<1>6. UNCHANGED vars => UNCHANGED agent
  BY DEF vars, agentVars
<1>7. Loop => UNCHANGED agent
  BY DEF Loop, DrainStart, DrainToken, DrainToolStart, DrainApproval, DrainToolEnd, DrainEnd,
       DrainDisconnected, DrainEmpty, Release, FinalizeErr, FinalizeDone, agentVars
<1>8. Cancel \/ (\E rows \in Targets : SwitchConversation(rows)) \/ ClearConversation \/ Quit \/ PaneGone
        => UNCHANGED agent
  BY DEF Cancel, SwitchConversation, ClearConversation, Quit, PaneGone, StopStream, Close
<1> QED BY <1>1, <1>2, <1>3, <1>4, <1>5, <1>6, <1>7, <1>8 DEF Next, Key

(* Answering a prompt moves a thread that waits and says nothing. *)
LEMMA AnswerPromptGood ==
  ASSUME IInv, ChatIsGood, NEW yes \in BOOLEAN, AnswerPrompt(yes) PROVE ChatIsGood'
<1> DEFINE s == app.approval[1]
<1>1. /\ app'.at = "drain" /\ app'.nextCtx = app.nextCtx /\ app'.msgs = app.msgs
      /\ app'.cur = app.cur /\ app'.streaming = app.streaming /\ app'.transient = app.transient
      /\ app'.ended = app.ended /\ app'.queue = app.queue /\ app'.disk = app.disk
  BY AppIs DEF AnswerPrompt
<1>2. UNCHANGED <<chan, tokenRx>> /\ hist'.btw = hist.btw /\ hist'.sent = hist.sent
  BY DEF AnswerPrompt, IInv, HistoryIsGood
<1>3. agent \in [Streams -> AgentRecord] /\ s \in Streams
  BY DEF AnswerPrompt, IInv, AppShape, AgentsAreGood
<1>4. \/ UNCHANGED agent
      \/ /\ agent[s].at = "waiting"
         /\ \E a \in AgentRecord : /\ a.at \in {"approved", "rejected"} /\ agent' = [agent EXCEPT ![s] = a]
  <2>1. \/ UNCHANGED agent
        \/ /\ agent[s].at = "waiting"
           /\ \E at \in {"approved", "rejected"} : agent' = [agent EXCEPT ![s].at = at]
    BY DEF AnswerPrompt, GoTo
  <2>2. ASSUME NEW at \in {"approved", "rejected"}, agent' = [agent EXCEPT ![s].at = at]
        PROVE  \E a \in AgentRecord : a.at \in {"approved", "rejected"} /\ agent' = [agent EXCEPT ![s] = a]
    <3> PICK old \in AgentRecord : old = agent[s]
      BY <1>3
    <3>1. [old EXCEPT !.at = at] \in AgentRecord /\ [old EXCEPT !.at = at].at = at
      BY <2>2 DEF AgentRecord, AgentState
    <3> QED BY <2>2, <3>1
  <2> QED BY <2>1, <2>2
<1> HIDE DEF s
<1>5. \A r \in Streams : \/ agent'[r] = agent[r]
                         \/ agent[r].at = "waiting" /\ agent'[r].at \in {"approved", "rejected"}
  BY <1>3, <1>4
<1>6. ScreenIsGood'
  BY <1>1, <1>2 DEF ChatIsGood, ScreenIsGood
<1>7. ChannelsAreGood'
  <2>0. /\ \A r \in Streams :
             /\ r # tokenRx => chan[r] = <<>>
             /\ agent[r].at = "none" <=> r > app.cur
             /\ EndsLast(chan[r], agent[r])
        /\ app.ended = "done" => agent[app.cur].at = "exited"
        /\ app.queue # <<>> => Opened(app.msgs, app.cur)
        /\ tokenRx # 0 => StartsFirst(chan[tokenRx], agent[tokenRx], Opened(app.msgs, app.cur))
        /\ \A r \in hist.btw : ~agent[r].tools /\ agent[r].at \in {"round", "model", "exited"}
                               /\ agent[r].round = 0
        /\ tokenRx \in hist.btw => Marked(chan[tokenRx], agent[tokenRx], app.nextCtx)
    BY DEF ChatIsGood, ChannelsAreGood
  <2>1. \A r \in Streams : EndsLast(chan[r], agent'[r]) /\ (agent'[r].at = "none" <=> r > app.cur)
    BY <1>5, <2>0 DEF EndsLast
  <2>2. app.ended = "done" => agent'[app.cur].at = "exited"
    <3>1. app.ended = "done" => app.cur \in Streams
      BY AppIs, AgentAssumption DEF IInv, EndsInOrder, StreamingIsLive, Streams
    <3> QED BY <1>5, <2>0, <3>1
  <2>3. tokenRx # 0 => StartsFirst(chan[tokenRx], agent'[tokenRx], Opened(app.msgs, app.cur))
    BY <1>5, <2>0, CurrentIs DEF StartsFirst
  <2>4. \A r \in hist.btw : agent'[r] = agent[r]
    BY <1>5, <2>0, AsidesAreStreams DEF ChatIsGood
  <2> QED BY <1>1, <1>2, <2>0, <2>1, <2>2, <2>3, <2>4 DEF ChannelsAreGood
<1>8. NothingIsLost'
  BY <1>1, <1>2 DEF ChatIsGood, NothingIsLost
<1> QED BY <1>6, <1>7, <1>8 DEF ChatIsGood

-----------------------------------------------------------------------------
(* The stream is left: nothing of it is waited for any more. *)
LEMMA LeftGood ==
  ASSUME IInv, ChatIsGood, DropReceiver, UNCHANGED <<agent, hist>>,
         app'.at \in {"drain", "closed"}, app'.cur = app.cur, app'.streaming = FALSE,
         app'.transient \in BOOLEAN, app'.nextCtx = app.nextCtx, app'.ended = "no", app'.queue = <<>>,
         GoodRows(app'.msgs, app.cur, hist.btw), GoodSaved(app'.disk, app.cur, hist.btw)
  PROVE  ChatIsGood'
<1>1. ScreenIsGood'
  <2>1. DOMAIN <<>> = {}
    OBVIOUS
  <2> QED BY <2>1 DEF ChatIsGood, ScreenIsGood
<1>2. ChannelsAreGood'
  BY LeftChannelsAreGood
<1>3. NothingIsLost'
  BY DEF ChatIsGood, NothingIsLost
<1> QED BY <1>1, <1>2, <1>3 DEF ChatIsGood

LEMMA GoodNow ==
  ASSUME ChatIsGood
  PROVE  /\ GoodRows(app.msgs, app.cur, hist.btw) /\ GoodSaved(app.disk, app.cur, hist.btw)
         /\ app.transient \in BOOLEAN /\ app.nextCtx \in BOOLEAN
BY DEF ChatIsGood, ScreenIsGood

LEMMA CompleteLastGood ==
  ASSUME NEW cur, NEW btw, NEW rows, GoodRows(rows, cur, btw)
  PROVE  GoodRows(CompleteLast(rows), cur, btw)
<1> PICK i : i = LastOpenText(rows)
  OBVIOUS
<1>1. rows \in Seq(Row)
  BY DEF GoodRows
<1>2. CASE i = 0
  BY <1>2 DEF CompleteLast
<1>3. CASE i # 0
  <2>1. i \in DOMAIN rows
    BY <1>1, <1>3, OpenTextIs
  <2> PICK old : old = rows[i]
    OBVIOUS
  <2>2. old \in Row /\ RowOK(old, cur, btw)
    BY <1>1, <2>1 DEF GoodRows
  <2> DEFINE row == [old EXCEPT !.complete = TRUE]
  <2>3. /\ row \in Row /\ row.role = old.role /\ row.of = old.of /\ row.by = old.by
        /\ row.ctx = old.ctx /\ row.complete = TRUE
    BY <2>2 DEF Row
  <2>4. CompleteLast(rows) = [rows EXCEPT ![i] = row]
    <3>1. CompleteLast(rows) = [rows EXCEPT ![i].complete = TRUE]
      BY <1>3 DEF CompleteLast
    <3> QED BY <1>1, <2>1, <3>1
  <2> HIDE DEF row
  <2>5. RowOK(row, cur, btw)
    BY <2>2, <2>3 DEF RowOK
  <2>6. row \in Row /\ row.of = rows[i].of
    BY <2>3
  <2>7. GoodRows([rows EXCEPT ![i] = row], cur, btw)
    BY <2>1, <2>5, <2>6, GoodUpdate
  <2> QED BY <2>4, <2>7
<1> QED BY <1>2, <1>3

LEMMA CancelGood == ASSUME IInv, ChatIsGood, Cancel PROVE ChatIsGood'
<1>1. DropReceiver /\ app' = Cancelled /\ UNCHANGED <<agent, hist>>
  BY DEF Cancel
<1>2. /\ app'.at = "drain" /\ app'.cur = app.cur /\ app'.streaming = FALSE /\ app'.transient = app.transient
      /\ app'.nextCtx = app.nextCtx /\ app'.ended = "no" /\ app'.queue = <<>>
      /\ app'.msgs = app.msgs /\ app'.disk = app.disk
  BY <1>1, AppIs DEF Cancelled
<1> QED BY <1>1, <1>2, GoodNow, LeftGood

LEMMA CloseGood == ASSUME IInv, ChatIsGood, Quit \/ PaneGone PROVE ChatIsGood'
<1>1. \E saved : Close(saved) /\ GoodSaved(saved, app.cur, hist.btw)
  <2>1. \A rows \in {app.msgs, CompleteLast(app.msgs)} : GoodSaved(Persisted(rows), app.cur, hist.btw)
    BY GoodNow, CompleteLastGood, PersistedIsGood
  <2> QED BY <2>1, GoodNow DEF Quit, PaneGone
<1>2. PICK saved : Close(saved) /\ GoodSaved(saved, app.cur, hist.btw)
  BY <1>1
<1>3. DropReceiver /\ UNCHANGED <<agent, hist>>
  BY <1>2 DEF Close
<1>4. /\ app'.at = "closed" /\ app'.cur = app.cur /\ app'.streaming = FALSE /\ app'.transient = app.transient
      /\ app'.nextCtx = app.nextCtx /\ app'.ended = "no" /\ app'.queue = <<>>
      /\ app'.msgs = app.msgs /\ app'.disk = saved
  BY <1>2, AppIs DEF Close
<1> QED BY <1>2, <1>3, <1>4, GoodNow, LeftGood

(* What Enter finds on the screen. *)
LEMMA InterruptedIs ==
  ASSUME IInv, ChatIsGood
  PROVE  /\ DOMAIN Interrupted = DOMAIN app
         /\ Interrupted.at = "drain" /\ Interrupted.cur = app.cur /\ Interrupted.streaming = FALSE
         /\ Interrupted.transient = app.transient /\ Interrupted.nextCtx = app.nextCtx
         /\ Interrupted.ended = "no" /\ Interrupted.queue = <<>> /\ Interrupted.disk = app.disk
         /\ GoodRows(Interrupted.msgs, app.cur, hist.btw)
         /\ ~app.streaming => tokenRx = 0
<1>1. ~app.streaming => tokenRx = 0 /\ app.queue = <<>> /\ app.ended = "no" /\ app.streaming = FALSE
  BY AppIs DEF IInv, StreamingIsLive
<1>2. GoodRows(CompleteLast(app.msgs), app.cur, hist.btw)
  BY GoodNow, CompleteLastGood
<1>3. CASE app.streaming
  <2>1. Interrupted = [Cancelled EXCEPT !.msgs = CompleteLast(app.msgs)]
    BY <1>3, AppIs DEF Interrupted, Cancelled
  <2> QED BY <1>2, <1>3, <2>1, AppIs DEF Cancelled
<1>4. CASE ~app.streaming
  <2>1. Interrupted = [app EXCEPT !.at = "drain"]
    BY <1>4 DEF Interrupted
  <2> QED BY <1>1, <1>4, <2>1, AppIs, GoodNow
<1> QED BY <1>3, <1>4

LEMMA RestoredGood ==
  ASSUME NEW cur \in Nat, NEW btw, NEW rows \in Targets
  PROVE  GoodRows(rows, cur, btw) /\ GoodSaved(rows, cur, btw)
<1> DEFINE row == NewRow("user", 0, TRUE, FALSE)
<1>1. row \in Row /\ row.role = "user" /\ row.of = 0 /\ row.by = {} /\ row.complete
  BY AgentAssumption DEF NewRow, Row
<1>2. rows = <<>> \/ rows = <<row>>
  BY DEF Targets, Restored
<1> HIDE DEF row
<1>3. RowOK(row, cur, btw)
  <2>1. row.of <= cur /\ row.role # "text"
    BY <1>1
  <2> QED BY <1>1, <2>1, Zenon DEF RowOK
<1>4. CASE rows = <<>>
  <2>1. rows \in Seq(Row) /\ DOMAIN rows = {}
    BY <1>4
  <2> QED BY <2>1 DEF GoodRows, GoodSaved
<1>5. CASE rows = <<row>>
  <2>1. <<row>> \in Seq(Row) /\ DOMAIN <<row>> = 1..1 /\ 1..1 = {1} /\ <<row>>[1] = row
    BY <1>1
  <2>2. rows \in Seq(Row) /\ DOMAIN rows = {1} /\ rows[1] = row
    BY <1>5, <2>1
  <2>3. \A i, j \in DOMAIN rows : ~(i < j)
    BY <2>2
  <2> QED BY <1>1, <1>3, <2>2, <2>3 DEF GoodRows, GoodSaved
<1> QED BY <1>2, <1>4, <1>5

LEMMA SwitchGood ==
  ASSUME IInv, ChatIsGood, (\E rows \in Targets : SwitchConversation(rows)) \/ ClearConversation
  PROVE  ChatIsGood'
<1>1. DropReceiver /\ UNCHANGED <<agent, hist>>
  <2>1. StopStream /\ UNCHANGED hist
    BY DEF SwitchConversation, ClearConversation
  <2> QED BY <2>1, InterruptedIs DEF StopStream, DropReceiver
<1>2. app.cur \in Nat
  BY AppIs
<1> DEFINE Shows(rows, saved) ==
      /\ GoodRows(rows, app.cur, hist.btw) /\ GoodSaved(saved, app.cur, hist.btw)
      /\ app'.at = "drain" /\ app'.cur = app.cur /\ app'.streaming = FALSE
      /\ app'.transient = app.transient /\ app'.nextCtx = app.nextCtx /\ app'.ended = "no"
      /\ app'.queue = <<>> /\ app'.msgs = rows /\ app'.disk = saved
<1>3. \E rows, saved : Shows(rows, saved)
  <2>1. CASE ClearConversation
    <3>1. GoodRows(<<>>, app.cur, hist.btw)
      BY <1>2, RestoredGood DEF Targets
    <3>2. app' = [Interrupted EXCEPT !.msgs = <<>>]
      BY <2>1 DEF ClearConversation
    <3>3. Shows(<<>>, app.disk)
      BY <3>1, <3>2, InterruptedIs, AppIs, GoodNow
    <3> QED BY <3>3
  <2>2. ASSUME NEW rows \in Targets, SwitchConversation(rows) PROVE \E r, saved : Shows(r, saved)
    <3>1. CASE app' = Interrupted
      <4>1. Shows(Interrupted.msgs, app.disk)
        BY <3>1, InterruptedIs, GoodNow
      <4> QED BY <4>1
    <3>2. CASE app' = [Interrupted EXCEPT !.msgs = rows, !.disk = rows]
      <4>1. GoodRows(rows, app.cur, hist.btw) /\ GoodSaved(rows, app.cur, hist.btw)
        BY <1>2, RestoredGood
      <4>2. Shows(rows, rows)
        BY <3>2, <4>1, InterruptedIs, AppIs
      <4> QED BY <4>2
    <3> QED BY <2>2, <3>1, <3>2 DEF SwitchConversation
  <2> QED BY <2>1, <2>2
<1>4. PICK rows, saved : Shows(rows, saved)
  BY <1>3
<1> QED BY <1>1, <1>4, GoodNow, LeftGood

-----------------------------------------------------------------------------
(* A new question: its stream is fresh, and what was saved stays good. *)
LEMMA AskedGood ==
  ASSUME IInv, ChatIsGood, Unasked, NEW s \in Streams, NEW offered \in BOOLEAN, s = app.cur + 1,
         StartStream(s, offered), NEW rows, GoodRows(rows, app.cur, hist.btw), NEW ctx \in BOOLEAN,
         app'.at = "drain", app'.cur = s, app'.streaming = TRUE, app'.transient \in BOOLEAN,
         app'.nextCtx \in BOOLEAN, app'.ended = "no", app'.queue = <<>>, app'.disk = app.disk,
         app'.msgs = Append(rows, NewRow("user", s, TRUE, ctx)), hist'.sent = hist.sent,
         \/ hist'.btw = hist.btw
         \/ hist'.btw = hist.btw \cup {s} /\ offered = FALSE /\ app'.nextCtx = TRUE
  PROVE  ChatIsGood'
<1>0. /\ app.cur \in Nat /\ s \in Nat /\ s # 0 /\ s > app.cur /\ s <= MaxStreams
      /\ hist.btw \subseteq 1..app.cur /\ hist.btw \subseteq Streams /\ s \notin hist.btw
      /\ rows \in Seq(Row)
  BY AppIs, AsidesAreStreams, AgentAssumption DEF ChatIsGood, ScreenIsGood, Streams, GoodRows
<1> DEFINE row == NewRow("user", s, TRUE, ctx)
<1>1. /\ row \in Row /\ row.role = "user" /\ row.of = s /\ row.by = {} /\ row.complete
  BY <1>0, AgentAssumption DEF NewRow, Row
<1> HIDE DEF row
<1>2. RowOK(row, s, hist'.btw)
  <2>1. row.of <= s /\ row.role # "text"
    BY <1>0, <1>1
  <2> QED BY <1>1, <2>1, Zenon DEF RowOK
<1>3. ScreenIsGood'
  <2>1. GoodRows(rows, s, hist'.btw)
    <3>1. GoodRows(rows, app.cur + 1, hist.btw) /\ GoodRows(rows, app.cur + 1, hist.btw \cup {app.cur + 1})
      BY <1>0, GoodLater
    <3>2. hist'.btw = hist.btw \/ hist'.btw = hist.btw \cup {app.cur + 1}
      OBVIOUS
    <3> QED BY <3>1, <3>2
  <2>2. GoodRows(Append(rows, row), s, hist'.btw)
    BY <1>0, <1>1, <1>2, <2>1, GoodAppend
  <2>3. Append(rows, row) # <<>> /\ Append(rows, row)[Len(Append(rows, row))].of = s
    BY <1>0, <1>1, AppendShows
  <2>4. app'.msgs = Append(rows, row)
    BY DEF row
  <2>5. hist'.btw \subseteq 1..s
    BY <1>0
  <2>6. GoodSaved(app.disk, s, hist'.btw)
    <3>1. GoodSaved(app.disk, app.cur, hist.btw)
      BY GoodNow
    <3>2. ASSUME NEW i \in DOMAIN app.disk, NEW c \in app.disk[i].by
          PROVE  c[1] <= s /\ (c[1] \in hist'.btw => c[2] = MaxRounds)
      <4>1. c \in Streams \X Nat
        <5>1. app.disk[i] \in Row
          BY <3>1 DEF GoodSaved
        <5> QED BY <5>1 DEF Row
      <4>2. c[1] \in Nat /\ c[1] <= app.cur /\ (c[1] \in hist.btw => c[2] = MaxRounds)
        BY <3>1, <4>1, AgentAssumption DEF GoodSaved, Streams
      <4> QED BY <1>0, <4>2
    <3> QED BY <3>1, <3>2 DEF GoodSaved
  <2>7. DOMAIN app'.queue = {}
    OBVIOUS
  <2>8. hist'.sent \subseteq Streams \X Nat
    BY DEF ChatIsGood, ScreenIsGood
  <2> QED BY <2>2, <2>3, <2>4, <2>5, <2>6, <2>7, <2>8 DEF ScreenIsGood
<1>4. /\ chan \in [Streams -> Seq(StreamMsg)] /\ agent \in [Streams -> AgentRecord]
      /\ tokenRx \in {0, app.cur} /\ tokenRx \in {0} \cup Streams
  <2>1. tokenRx \in 0..MaxStreams /\ tokenRx \in {0, app.cur}
    BY DEF IInv, StreamingIsLive
  <2>2. tokenRx \in {0} \cup Streams
    BY <2>1, AgentAssumption DEF Streams
  <2> QED BY <2>1, <2>2 DEF IInv, AgentsAreGood
<1>5. tokenRx' = s /\ \A r \in Streams : chan'[r] = <<>>
  <2>1. \A r \in Streams : r # tokenRx => chan[r] = <<>>
    BY DEF ChatIsGood, ChannelsAreGood
  <2>2. chan' = IF tokenRx = 0 THEN chan ELSE [chan EXCEPT ![tokenRx] = <<>>]
    BY DEF StartStream
  <2>3. tokenRx' = s
    BY DEF StartStream
  <2>4. ASSUME NEW r \in Streams PROVE chan'[r] = <<>>
    <3>1. CASE r = tokenRx
      BY <1>4, <2>2, <3>1, AgentAssumption DEF Streams
    <3>2. CASE r # tokenRx
      BY <1>4, <2>1, <2>2, <3>2
    <3> QED BY <3>1, <3>2
  <2> QED BY <2>3, <2>4
<1>6. /\ agent'[s].at = "round" /\ agent'[s].tools = offered /\ agent'[s].round = 0
      /\ \A r \in Streams : r # s => agent'[r] = agent[r]
  <2>0. PICK old \in AgentRecord : old = agent[s]
    BY <1>4
  <2>1. old.round = 0
    <3>1. agent[s].at = "none"
      BY <1>0 DEF ChatIsGood, ChannelsAreGood
    <3> QED BY <2>0, <3>1 DEF Unasked
  <2>2. agent' = [agent EXCEPT ![s] = [old EXCEPT !.at = "round", !.tools = offered]]
    BY <1>4, <2>0 DEF StartStream
  <2>3. LET a == [old EXCEPT !.at = "round", !.tools = offered]
        IN a.at = "round" /\ a.tools = offered /\ a.round = 0
    BY <2>0, <2>1 DEF AgentRecord
  <2> QED BY <1>4, <2>2, <2>3
<1>7. ChannelsAreGood'
  <2>1. DOMAIN <<>> = {}
    OBVIOUS
  <2>2. \A r \in Streams : /\ chan'[r] = <<>> /\ EndsLast(chan'[r], agent'[r])
                           /\ agent'[r].at = "none" <=> r > s
    <3>1. \A r \in Streams : r # s => (r > app.cur <=> r > s)
      BY <1>0 DEF Streams
    <3> QED BY <1>0, <1>5, <1>6, <2>1, <3>1 DEF ChatIsGood, ChannelsAreGood, EndsLast
  <2>3. StartsFirst(chan'[s], agent'[s], Opened(app'.msgs, s))
    BY <1>5, <1>6, <2>1 DEF StartsFirst
  <2>4. \A r \in hist'.btw : ~agent'[r].tools /\ agent'[r].at \in {"round", "model", "exited"}
                             /\ agent'[r].round = 0
    <3>1. \A r \in hist.btw : r \in Streams /\ r # s
      BY <1>0
    <3>2. \A r \in hist.btw : ~agent[r].tools /\ agent[r].at \in {"round", "model", "exited"}
                              /\ agent[r].round = 0
      BY DEF ChatIsGood, ChannelsAreGood
    <3>3. \A r \in hist.btw : agent'[r] = agent[r]
      BY <1>6, <3>1
    <3>4. s \in hist'.btw => ~agent'[s].tools /\ agent'[s].at = "round" /\ agent'[s].round = 0
      BY <1>0, <1>6
    <3>5. \A r \in hist'.btw : r \in hist.btw \/ r = s
      OBVIOUS
    <3> QED BY <3>2, <3>3, <3>4, <3>5
  <2>5. s \in hist'.btw => Marked(chan'[s], agent'[s], app'.nextCtx)
    BY <1>0, <1>5, <2>1 DEF Marked
  <2> QED BY <1>5, <2>2, <2>3, <2>4, <2>5 DEF ChannelsAreGood
<1>8. NothingIsLost'
  <2>1. \A c \in hist.sent : c \in Streams \X Nat /\ c[1] <= app.cur
    BY DEF ChatIsGood, NothingIsLost, ScreenIsGood
  <2>2. \A c \in hist.sent : c[1] <= s /\ c[1] # s
    <3>1. \A c \in Streams \X Nat : c[1] \in Nat
      BY AgentAssumption DEF Streams
    <3>2. \A n \in Nat : n <= app.cur => n <= s /\ n # s
      BY <1>0
    <3> QED BY <2>1, <3>1, <3>2
  <2> QED BY <2>2 DEF NothingIsLost
<1> QED BY <1>3, <1>7, <1>8 DEF ChatIsGood

LEMMA AskGood == ASSUME IInv, ChatIsGood, Unasked, Ask PROVE ChatIsGood'
<1> DEFINE s == app.cur + 1
           rows == Trimmed(Interrupted.msgs)
<1>1. /\ s \in Streams /\ StartStream(s, ~app.transient) /\ UNCHANGED hist
      /\ app' = [Interrupted EXCEPT !.cur = s, !.streaming = TRUE, !.queue = <<>>, !.ended = "no",
                   !.msgs = Append(rows, NewRow("user", s, TRUE, FALSE))]
  BY DEF Ask
<1>2. GoodRows(rows, app.cur, hist.btw)
  BY InterruptedIs, GoodTrimmed
<1> HIDE DEF s, rows
<1>3. /\ app'.at = "drain" /\ app'.cur = s /\ app'.streaming = TRUE /\ app'.transient = app.transient
      /\ app'.nextCtx = app.nextCtx /\ app'.ended = "no" /\ app'.queue = <<>> /\ app'.disk = app.disk
      /\ app'.msgs = Append(rows, NewRow("user", s, TRUE, FALSE))
  BY <1>1, InterruptedIs, AppIs
<1>4. (~app.transient) \in BOOLEAN /\ FALSE \in BOOLEAN /\ s = app.cur + 1
  BY DEF s
<1> QED BY <1>1, <1>2, <1>3, <1>4, GoodNow, AskedGood

LEMMA AskAsideGood == ASSUME IInv, ChatIsGood, Unasked, AskAside PROVE ChatIsGood'
<1> DEFINE s == app.cur + 1
           rows == Interrupted.msgs
<1>1. /\ s \in Streams /\ StartStream(s, FALSE) /\ hist' = [hist EXCEPT !.btw = @ \cup {s}]
      /\ app' = [Interrupted EXCEPT !.cur = s, !.streaming = TRUE, !.queue = <<>>, !.ended = "no",
                   !.transient = TRUE, !.nextCtx = TRUE,
                   !.msgs = Append(rows, NewRow("user", s, TRUE, TRUE))]
  BY DEF AskAside
<1>2. GoodRows(rows, app.cur, hist.btw)
  BY InterruptedIs
<1> HIDE DEF s, rows
<1>3. /\ app'.at = "drain" /\ app'.cur = s /\ app'.streaming = TRUE /\ app'.transient = TRUE
      /\ app'.nextCtx = TRUE /\ app'.ended = "no" /\ app'.queue = <<>> /\ app'.disk = app.disk
      /\ app'.msgs = Append(rows, NewRow("user", s, TRUE, TRUE))
  BY <1>1, InterruptedIs, AppIs
<1>4. hist'.sent = hist.sent /\ hist'.btw = hist.btw \cup {s}
  BY <1>1 DEF IInv, HistoryIsGood
<1>5. s = app.cur + 1 /\ TRUE \in BOOLEAN /\ FALSE \in BOOLEAN
  BY DEF s
<1> QED BY <1>1, <1>2, <1>3, <1>4, <1>5, AskedGood

-----------------------------------------------------------------------------
LEMMA NextGood == IInv /\ Unasked /\ ChatIsGood /\ [Next]_vars => ChatIsGood'
<1> SUFFICES ASSUME IInv, Unasked, ChatIsGood, [Next]_vars PROVE ChatIsGood'
  OBVIOUS
<1>1. CASE Loop
  BY <1>1, DrainStartGood, DrainTokenGood, DrainToolStartGood, DrainApprovalGood, DrainToolEndGood,
     DrainEndGood, DrainDisconnectedGood, DrainEmptyGood, ReleaseGood, FinalizeErrGood, FinalizeDoneGood
     DEF Loop
<1>2. CASE Key
  BY <1>2, AnswerPromptGood, CancelGood, AskGood, AskAsideGood, SwitchGood, CloseGood DEF Key
<1>3. ASSUME NEW s \in Streams, Agent(s) PROVE ChatIsGood'
  BY <1>3, AgentGood
<1>4. CASE UNCHANGED vars
  BY <1>4 DEF vars, agentVars, ChatIsGood, ScreenIsGood, ChannelsAreGood, NothingIsLost
<1> QED BY <1>1, <1>2, <1>3, <1>4 DEF Next

(* Rows, buffer and channels agree with what was asked and said: see the   *)
(* parts of ChatIsGood.                                                    *)
THEOREM ChatRowsInvariant == Spec => [](ChatIsGood /\ Unasked)
<1>1. Init => ChatIsGood /\ Unasked
  BY InitGood, InitUnasked
<1>2. IInv /\ (ChatIsGood /\ Unasked) /\ [Next]_vars => (ChatIsGood /\ Unasked)'
  BY NextGood, UnaskedStays
<1> QED BY <1>1, <1>2, ChatInvariant, PTL DEF Spec

(* Text of one answer is never in the row of another (release_stream_buffer *)
(* looks for the last open row, whoever opened it).                        *)
THEOREM ChatTextStaysInStream == Spec => []TextStaysInStream
<1>1. ChatIsGood => TextStaysInStream
  BY DEF ChatIsGood, ScreenIsGood, GoodRows, RowOK, TextStaysInStream
<1> QED BY <1>1, ChatRowsInvariant, PTL

(* What the model says in an aside never gets to the conversation's file,  *)
(* neither from the open row nor with a later answer.                      *)
THEOREM ChatAsideTextIsNotSaved == Spec => []AsideTextIsNotSaved
<1>1. ASSUME IInv, ChatIsGood PROVE AsideTextIsNotSaved
  <2>1. ASSUME NEW i \in DOMAIN app.disk, NEW c \in app.disk[i].by, c[1] \in hist.btw
        PROVE  c \in OwnText(c[1])
    <3>1. c \in Streams \X Nat
      <4>1. app.disk[i] \in Row
        BY <1>1 DEF ChatIsGood, ScreenIsGood, GoodSaved
      <4> QED BY <4>1 DEF Row
    <3>2. c[2] = MaxRounds
      BY <1>1, <2>1 DEF ChatIsGood, ScreenIsGood, GoodSaved
    <3> QED BY <3>1, <3>2 DEF OwnText
  <2> QED BY <2>1 DEF AsideTextIsNotSaved
<1> QED BY <1>1, ChatInvariant, ChatRowsInvariant, PTL

(* An answer that ends without error is on screen as a whole: finalize_stream *)
(* comes after the last release, and no chunk was released without a row.  *)
THEOREM ChatAnswerIsComplete == Spec => AnswerIsComplete
<1> DEFINE Whole == \A c \in hist.sent : c[1] = app.cur =>
                      \E i \in DOMAIN app'.msgs : app'.msgs[i].complete /\ c \in app'.msgs[i].by
<1>1. ASSUME IInv, ChatIsGood, FinalizeDone PROVE Whole
  <2>1. /\ app.at = "finalize" /\ app.ended = "done" /\ app'.msgs = Completed(app.msgs)
        /\ app.queue = <<>> /\ tokenRx = 0 /\ app.streaming
    BY <1>1, AppIs DEF FinalizeDone, Settle, IInv, EndsInOrder, StreamingIsLive
  <2>2. app.cur # 0
    BY <1>1, <2>1 DEF IInv, EndsInOrder
  <2>3. DOMAIN app.queue = {}
    BY <2>1
  <2>4. \A c \in hist.sent : c[1] = app.cur => Shown(app.msgs, c)
    BY <1>1, <2>1, <2>2, <2>3 DEF ChatIsGood, NothingIsLost
  <2>5. GoodRows(app.msgs, app.cur, hist.btw)
    BY <1>1, GoodNow
  <2>6. \A c : Shown(app.msgs, c) =>
          \E i \in DOMAIN Completed(app.msgs) :
            Completed(app.msgs)[i].complete /\ c \in Completed(app.msgs)[i].by
    BY <2>5, CompletedIs
  <2> QED BY <2>1, <2>4, <2>6
<1>2. IInv /\ ChatIsGood => [FinalizeDone => Whole]_vars
  BY <1>1
<1> HIDE DEF Whole
<1>3. Spec => [][FinalizeDone => Whole]_vars
  BY <1>2, ChatInvariant, ChatRowsInvariant, PTL
<1> QED BY <1>3 DEF AnswerIsComplete, Whole

-----------------------------------------------------------------------------
(* The last part.                                                          *)
(*                                                                         *)
(* How many rows there can be: those on screen, those the messages in the  *)
(* channel will make, and those the thread can still ask for.              *)
MakesRow == {"start", "toolStart", "toolFailed"}
Makers(c) == {i \in DOMAIN c : c[i].type \in MakesRow}
Pending(c) == Cardinality(Makers(c))

PerRound == 1 + 2 * MaxTools
Rounds(n) == n * PerRound
PerStream == 2 + Rounds(MaxRounds)
Questions(n) == n * PerStream

(* A call that is not rejected or under way may still make two rows. *)
ToCome(a) ==
  CASE a.at = "round" -> Rounds(MaxRounds - a.round)
    [] a.at = "model" -> Rounds(MaxRounds - a.round - 1) + 2 * MaxTools + (IF a.said = 0 THEN 1 ELSE 0)
    [] a.at \in {"tools", "waiting", "approved", "free"} -> Rounds(MaxRounds - a.round - 1) + 2 * a.calls
    [] a.at \in {"rejected", "exec"} -> Rounds(MaxRounds - a.round - 1) + 2 * a.calls - 1
    [] OTHER -> 0

Held == IF tokenRx = 0 THEN 0 ELSE Pending(chan[tokenRx]) + ToCome(agent[tokenRx])
LastError == IF app.streaming THEN 1 ELSE 0

RowsAreBounded ==
  Len(app.msgs) + Held + LastError + Questions(MaxStreams - app.cur) < MaxRows + Questions(MaxStreams)

LEMMA RoundsIs ==
  /\ PerRound \in Nat /\ PerRound = 1 + 2 * MaxTools
  /\ Rounds(0) = 0
  /\ \A n \in Nat : Rounds(n) \in Nat /\ Rounds(n + 1) = Rounds(n) + PerRound
<1>1. PerRound \in Nat /\ PerRound = 1 + 2 * MaxTools
  BY AgentAssumption DEF PerRound
<1>2. \A k \in Nat : 0 * k = 0 /\ \A n \in Nat : n * k \in Nat /\ (n + 1) * k = n * k + k
  OBVIOUS
<1> QED BY <1>1, <1>2 DEF Rounds

LEMMA QuestionsIs ==
  /\ PerStream \in Nat /\ PerStream = 2 + Rounds(MaxRounds)
  /\ Questions(0) = 0
  /\ \A n \in Nat : Questions(n) \in Nat /\ Questions(n + 1) = Questions(n) + PerStream
<1>1. PerStream \in Nat /\ PerStream = 2 + Rounds(MaxRounds)
  BY RoundsIs, AgentAssumption DEF PerStream
<1>2. \A k \in Nat : 0 * k = 0 /\ \A n \in Nat : n * k \in Nat /\ (n + 1) * k = n * k + k
  OBVIOUS
<1> QED BY <1>1, <1>2 DEF Questions

LEMMA QuestionsGrow == \A m, n \in Nat : m <= n => Questions(m) <= Questions(n)
<1>1. PerStream \in Nat
  BY QuestionsIs
<1>2. \A k, m, d \in Nat : m * k <= (m + d) * k
  OBVIOUS
<1>3. ASSUME NEW m \in Nat, NEW n \in Nat, m <= n PROVE Questions(m) <= Questions(n)
  <2>1. n - m \in Nat /\ m + (n - m) = n
    BY <1>3
  <2> QED BY <1>1, <1>2, <2>1 DEF Questions
<1> QED BY <1>3

LEMMA PendingIs ==
  ASSUME NEW c \in Seq(StreamMsg)
  PROVE  /\ IsFiniteSet(Makers(c)) /\ Pending(c) \in Nat /\ Makers(c) \subseteq 1..Len(c)
         /\ c = <<>> => Pending(c) = 0
<1>1. Len(c) \in Nat /\ DOMAIN c = 1..Len(c)
  OBVIOUS
<1>2. IsFiniteSet(1..Len(c)) /\ Makers(c) \in SUBSET (1..Len(c))
  BY <1>1, FS_Interval DEF Makers
<1>3. IsFiniteSet(Makers(c))
  BY <1>2, FS_Subset
<1>4. Pending(c) \in Nat
  BY <1>3, FS_CardinalityType DEF Pending
<1>5. c = <<>> => Makers(c) = {}
  BY DEF Makers
<1> QED BY <1>2, <1>3, <1>4, <1>5, FS_EmptySet DEF Pending

LEMMA PendingBehind ==
  ASSUME NEW c \in Seq(StreamMsg), NEW m \in StreamMsg
  PROVE  Pending(c \o <<m>>) = Pending(c) + (IF m.type \in MakesRow THEN 1 ELSE 0)
<1> DEFINE d == c \o <<m>>
           e == Len(c) + 1
<1>1. <<m>> \in Seq(StreamMsg) /\ Len(<<m>>) = 1 /\ <<m>>[1] = m /\ Len(c) \in Nat /\ DOMAIN c = 1..Len(c)
  OBVIOUS
<1>2. DOMAIN d = 1..e /\ d[e] = m /\ \A i \in DOMAIN c : d[i] = c[i]
  BY <1>1
<1>3. e \in DOMAIN d /\ e \notin DOMAIN c /\ \A i \in DOMAIN d : i \in DOMAIN c \/ i = e
  BY <1>1, <1>2
<1>4. \A i \in DOMAIN c : i \in DOMAIN d
  BY <1>1, <1>2
<1> HIDE DEF d, e
<1>5. Makers(d) = IF m.type \in MakesRow THEN Makers(c) \cup {e} ELSE Makers(c)
  BY <1>2, <1>3, <1>4 DEF Makers
<1>6. IsFiniteSet(Makers(c)) /\ e \notin Makers(c)
  BY <1>3, PendingIs DEF Makers
<1>7. Cardinality(Makers(c) \cup {e}) = Cardinality(Makers(c)) + 1
  BY <1>6, FS_AddElement
<1>8. Pending(c) \in Nat
  BY PendingIs
<1> QED BY <1>5, <1>7, <1>8 DEF Pending, d

Next1(S) == [i \in S |-> i + 1]

LEMMA PendingTail ==
  ASSUME NEW c \in Seq(StreamMsg), c # <<>>
  PROVE  Pending(Tail(c)) + (IF Head(c).type \in MakesRow THEN 1 ELSE 0) <= Pending(c)
<1> DEFINE S == Makers(Tail(c))
           T == Makers(c) \ {1}
           f == Next1(S)
<1>1. Tail(c) \in Seq(StreamMsg) /\ IsFiniteSet(S) /\ S \subseteq Nat
  <2>1. Tail(c) \in Seq(StreamMsg)
    OBVIOUS
  <2>2. IsFiniteSet(S) /\ S \subseteq 1..Len(Tail(c))
    BY <2>1, PendingIs
  <2> QED BY <2>1, <2>2
<1>2. \A i \in S : i + 1 \in T
  <2>1. \A i \in DOMAIN Tail(c) : i + 1 \in DOMAIN c /\ i + 1 # 1 /\ Tail(c)[i] = c[i + 1]
    OBVIOUS
  <2> QED BY <2>1 DEF Makers
<1>3. IsFiniteSet(Makers(c))
  BY PendingIs
<1>4. IsFiniteSet(T) /\ Cardinality(T) = IF 1 \in Makers(c) THEN Pending(c) - 1 ELSE Pending(c)
  BY <1>3, FS_RemoveElement DEF Pending
<1>5. f \in [S -> T] /\ \A i \in S : f[i] = i + 1
  BY <1>2 DEF Next1
<1> HIDE DEF f, S, T
<1>6. \A i, j \in S : i # j => f[i] # f[j]
  BY <1>1, <1>5
<1>7. ~(Cardinality(T) < Cardinality(S))
  BY <1>1, <1>4, <1>5, <1>6, FS_PigeonHole
<1>8. Cardinality(S) \in Nat /\ Cardinality(T) \in Nat /\ Cardinality(S) = Pending(Tail(c))
      /\ Pending(c) \in Nat
  BY <1>1, <1>4, PendingIs, FS_CardinalityType DEF Pending, S
<1>9. 1 \in Makers(c) <=> Head(c).type \in MakesRow
  BY DEF Makers
<1> QED BY <1>4, <1>7, <1>8, <1>9

LEMMA KeptIsShort ==
  ASSUME NEW rows \in Seq(Row), NEW K
  PROVE  Len(Kept(rows, K)) \in Nat /\ Len(Kept(rows, K)) <= Len(rows)
<1>0. Len(rows) \in Nat /\ DOMAIN rows = 1..Len(rows)
  OBVIOUS
<1>1. PICK m, e : Picks(Kept(rows, K), rows, e, m, K \cap DOMAIN rows)
  BY KeptPicks
<1>2. /\ m \in Nat /\ e \in [1..m -> K \cap DOMAIN rows] /\ Kept(rows, K) = [j \in 1..m |-> rows[e[j]]]
      /\ \A i, j \in 1..m : i < j => e[i] < e[j]
  BY <1>1 DEF Picks, Lists
<1>3. Len(Kept(rows, K)) = m
  BY <1>2
<1>4. \A i, j \in 1..m : i # j => e[i] # e[j]
  <2>1. \A i \in 1..m : e[i] \in Nat
    BY <1>0, <1>2
  <2> QED BY <1>2, <2>1
<1>5. e \in [1..m -> 1..Len(rows)]
  BY <1>0, <1>2
<1>6. /\ IsFiniteSet(1..m) /\ Cardinality(1..m) = m
      /\ IsFiniteSet(1..Len(rows)) /\ Cardinality(1..Len(rows)) = Len(rows)
  <2>1. \A n \in Nat : IsFiniteSet(1..n) /\ Cardinality(1..n) = n
    <3> TAKE n \in Nat
    <3>1. IsFiniteSet(1..n) /\ Cardinality(1..n) = IF 1 > n THEN 0 ELSE n - 1 + 1
      BY FS_Interval
    <3> QED BY <3>1
  <2> QED BY <1>0, <1>2, <2>1
<1>7. ~(Len(rows) < m)
  BY <1>4, <1>5, <1>6, FS_PigeonHole
<1> QED BY <1>0, <1>2, <1>3, <1>7

(* A thread that has a round left counts it apart. *)
LEMMA RoundsLeft ==
  ASSUME IInv, NEW s \in Streams
  PROVE  /\ agent[s].round \in Nat /\ MaxRounds - agent[s].round \in Nat
         /\ Rounds(MaxRounds - agent[s].round) \in Nat
         /\ agent[s].round < MaxRounds =>
              /\ MaxRounds - agent[s].round - 1 \in Nat
              /\ Rounds(MaxRounds - agent[s].round - 1) \in Nat
              /\ Rounds(MaxRounds - agent[s].round) =
                   Rounds(MaxRounds - agent[s].round - 1) + 1 + 2 * MaxTools
         /\ agent[s].calls \in 0..MaxTools /\ MaxTools \in Nat
<1>1. agent[s].round \in 0..MaxRounds /\ agent[s].calls \in 0..MaxTools
  BY AgentInHand DEF AgentRecord, RoundNumber, CallsLeft
<1> PICK r : r = agent[s].round
  OBVIOUS
<1>2. r \in Nat /\ MaxRounds \in Nat /\ MaxRounds - r \in Nat /\ MaxTools \in Nat
  BY <1>1, AgentAssumption
<1>3. ASSUME r < MaxRounds PROVE MaxRounds - r - 1 \in Nat /\ MaxRounds - r = (MaxRounds - r - 1) + 1
  BY <1>2, <1>3
<1>4. r < MaxRounds => /\ Rounds(MaxRounds - r - 1) \in Nat
                       /\ Rounds(MaxRounds - r) = Rounds(MaxRounds - r - 1) + PerRound
  BY <1>3, RoundsIs
<1>5. Rounds(MaxRounds - r) \in Nat
  BY <1>2, RoundsIs
<1>6. r < MaxRounds => Rounds(MaxRounds - r) = Rounds(MaxRounds - r - 1) + 1 + 2 * MaxTools
  <2>1. PerRound = 1 + 2 * MaxTools
    BY RoundsIs
  <2> QED BY <1>2, <1>4, <2>1
<1> QED BY <1>1, <1>2, <1>3, <1>4, <1>5, <1>6

LEMMA ToComeIs == ASSUME IInv, NEW s \in Streams PROVE ToCome(agent[s]) \in Nat
<1>1. agent[s].at \in InCall \cup {"model", "tools"} => agent[s].round < MaxRounds
  BY AgentInHand DEF GoodAgent
<1>2. agent[s].at \in InCall => agent[s].calls > 0
  BY AgentInHand DEF GoodAgent
<1>3. CASE agent[s].at = "round"
  BY <1>3, RoundsLeft DEF ToCome
<1>4. CASE agent[s].at = "model"
  BY <1>1, <1>4, RoundsLeft DEF ToCome
<1>5. CASE agent[s].at \in {"tools", "waiting", "approved", "free"}
  <2>1. ToCome(agent[s]) = Rounds(MaxRounds - agent[s].round - 1) + 2 * agent[s].calls
    BY <1>5 DEF ToCome
  <2>2. agent[s].round < MaxRounds
    BY <1>1, <1>5 DEF InCall
  <2> QED BY <2>1, <2>2, RoundsLeft
<1>6. CASE agent[s].at \in {"rejected", "exec"}
  <2>1. ToCome(agent[s]) = Rounds(MaxRounds - agent[s].round - 1) + 2 * agent[s].calls - 1
    BY <1>6 DEF ToCome
  <2>2. agent[s].round < MaxRounds /\ agent[s].calls > 0
    BY <1>1, <1>2, <1>6 DEF InCall
  <2> QED BY <2>1, <2>2, RoundsLeft
<1>7. CASE agent[s].at \in {"none", "exited"}
  BY <1>7 DEF ToCome
<1>8. agent[s].at \in AgentState
  BY AgentInHand DEF AgentRecord
<1> QED BY <1>3, <1>4, <1>5, <1>6, <1>7, <1>8 DEF AgentState

LEMMA HeldIs == ASSUME IInv PROVE Held \in Nat
<1>1. tokenRx # 0 => tokenRx \in Streams /\ chan[tokenRx] \in Seq(StreamMsg)
  BY CurrentIs
<1> QED BY <1>1, PendingIs, ToComeIs DEF Held

(* What a thread says it no longer has to say. *)
LEMMA AgentHolds ==
  ASSUME IInv, NEW s \in Streams, NEW a, agent' = [agent EXCEPT ![s] = a], UNCHANGED tokenRx,
         ToCome(a) \in Nat,
         \/ UNCHANGED chan /\ ToCome(a) <= ToCome(agent[s])
         \/ \E m \in StreamMsg : /\ Send(s, <<m>>)
                                 /\ ToCome(a) + (IF m.type \in MakesRow THEN 1 ELSE 0) <= ToCome(agent[s])
         \/ /\ Send(s, <<Msg("err", 0), Msg("done", 0)>>)
            /\ ToCome(a) <= ToCome(agent[s])
  PROVE  Held' \in Int /\ Held' <= Held
<1>0. /\ agent \in [Streams -> AgentRecord] /\ chan \in [Streams -> Seq(StreamMsg)]
      /\ tokenRx # 0 => tokenRx \in Streams
      /\ Held \in Nat /\ ToCome(agent[s]) \in Nat
  BY CurrentIs, HeldIs, ToComeIs DEF IInv, AgentsAreGood
<1>1. CASE tokenRx # s
  <2>1. chan' = chan
    BY <1>1 DEF Send
  <2>2. tokenRx # 0 => agent'[tokenRx] = agent[tokenRx]
    BY <1>0, <1>1
  <2> QED BY <1>0, <2>1, <2>2 DEF Held
<1>2. CASE tokenRx = s
  <2> DEFINE c == chan[s]
             d == chan'[s]
  <2>0. s # 0 /\ c \in Seq(StreamMsg)
    BY <1>0, AgentAssumption DEF Streams
  <2>1. Held = Pending(c) + ToCome(agent[s]) /\ Pending(c) \in Nat
    BY <1>2, <2>0, PendingIs DEF Held
  <2>2. Held' = Pending(d) + ToCome(a)
    <3>1. agent'[s] = a /\ tokenRx' = s
      BY <1>0, <1>2
    <3> QED BY <2>0, <3>1 DEF Held
  <2>3. CASE UNCHANGED chan /\ ToCome(a) <= ToCome(agent[s])
    BY <1>0, <2>1, <2>2, <2>3
  <2>4. ASSUME NEW m \in StreamMsg, Send(s, <<m>>),
               ToCome(a) + (IF m.type \in MakesRow THEN 1 ELSE 0) <= ToCome(agent[s])
        PROVE  Held' \in Int /\ Held' <= Held
    <3>1. d = c \o <<m>>
      BY <1>0, <1>2, <2>4 DEF Send
    <3> HIDE DEF c, d
    <3>2. Pending(d) = Pending(c) + (IF m.type \in MakesRow THEN 1 ELSE 0)
      BY <2>0, <3>1, PendingBehind
    <3> QED BY <1>0, <2>1, <2>2, <2>4, <3>2
  <2>5. CASE Send(s, <<Msg("err", 0), Msg("done", 0)>>) /\ ToCome(a) <= ToCome(agent[s])
    <3> PICK m, n \in StreamMsg : m = Msg("err", 0) /\ n = Msg("done", 0)
      BY DEF Msg, StreamMsg
    <3>0. m.type \notin MakesRow /\ n.type \notin MakesRow
      BY DEF Msg, MakesRow
    <3>1. d = c \o <<m, n>>
      BY <1>0, <1>2, <2>5 DEF Send
    <3> HIDE DEF c, d
    <3>6. c \o <<m>> \in Seq(StreamMsg) /\ c \o <<m, n>> = (c \o <<m>>) \o <<n>>
      BY <2>0
    <3> PICK e : e = c \o <<m>>
      OBVIOUS
    <3>2. d = e \o <<n>> /\ e \in Seq(StreamMsg)
      BY <3>1, <3>6
    <3>3. Pending(e) = Pending(c) + 0
      BY <2>0, <3>0, PendingBehind
    <3>4. Pending(e \o <<n>>) = Pending(e) + 0
      BY <3>0, <3>2, PendingBehind
    <3>7. Pending(d) = Pending(e \o <<n>>)
      BY <3>2
    <3>5. Pending(d) = Pending(c)
      BY <2>1, <3>3, <3>4, <3>7
    <3> QED BY <1>0, <2>1, <2>2, <2>5, <3>5
  <2> QED BY <2>3, <2>4, <2>5
<1> QED BY <1>1, <1>2

(* The number of rows still to come, state by state. *)
LEMMA ToComeAt ==
  ASSUME NEW a \in AgentRecord
  PROVE  /\ a.at = "round" => ToCome(a) = Rounds(MaxRounds - a.round)
         /\ a.at = "model" => ToCome(a) = Rounds(MaxRounds - a.round - 1) + 2 * MaxTools
                                          + (IF a.said = 0 THEN 1 ELSE 0)
         /\ a.at \in {"tools", "waiting", "approved", "free"} =>
              ToCome(a) = Rounds(MaxRounds - a.round - 1) + 2 * a.calls
         /\ a.at \in {"rejected", "exec"} =>
              ToCome(a) = Rounds(MaxRounds - a.round - 1) + 2 * a.calls - 1
         /\ a.at \in {"none", "exited"} => ToCome(a) = 0
BY DEF ToCome

LEMMA MsgIs ==
  /\ \A n \in Nat : \A type \in {"start", "token", "toolStart", "toolDone", "toolFailed", "approval",
                                "done", "err"} : Msg(type, n) \in StreamMsg /\ Msg(type, n).type = type
  /\ \A type \in {"token", "toolDone", "approval", "done", "err"} : type \notin MakesRow
BY DEF Msg, StreamMsg, MakesRow

LEMMA Numbers ==
  /\ 0 \in Said /\ 0 \in CallsLeft /\ \A n \in 1..MaxTools : n \in CallsLeft
  /\ \A n \in Said : n <= MaxTokens => n + 1 \in Said /\ n + 1 # 0
  /\ \A n \in RoundNumber : n < MaxRounds => n + 1 \in RoundNumber
BY AgentAssumption DEF Said, CallsLeft, RoundNumber

(* An agent's move, as one record for another: it says nothing that makes  *)
(* a row, or has a row less to come.                                       *)
LEMMA QuietMoveHolds ==
  ASSUME IInv, NEW s \in Streams, NEW a, agent' = [agent EXCEPT ![s] = a], UNCHANGED tokenRx,
         ToCome(a) \in Nat, ToCome(a) <= ToCome(agent[s]),
         \/ UNCHANGED chan
         \/ \E m \in StreamMsg : Send(s, <<m>>) /\ m.type \notin MakesRow
         \/ Send(s, <<Msg("err", 0), Msg("done", 0)>>)
  PROVE  Held' \in Int /\ Held' <= Held
<1>1. \A m : m.type \notin MakesRow =>
        ToCome(a) + (IF m.type \in MakesRow THEN 1 ELSE 0) <= ToCome(agent[s])
  OBVIOUS
<1> QED BY <1>1, AgentHolds

LEMMA LoudMoveHolds ==
  ASSUME IInv, NEW s \in Streams, NEW a, agent' = [agent EXCEPT ![s] = a], UNCHANGED tokenRx,
         ToCome(a) \in Nat, ToCome(a) + 1 <= ToCome(agent[s]), \E m \in StreamMsg : Send(s, <<m>>)
  PROVE  Held' \in Int /\ Held' <= Held
<1>0. ToCome(agent[s]) \in Nat
  BY ToComeIs
<1>1. \A m : ToCome(a) + (IF m.type \in MakesRow THEN 1 ELSE 0) <= ToCome(agent[s])
  BY <1>0
<1> QED BY <1>1, AgentHolds

LEMMA RoundHolds ==
  ASSUME IInv, NEW s \in Streams, StartRound(s) \/ HitRoundLimit(s) \/ EndRound(s)
  PROVE  Held' \in Int /\ Held' <= Held
<1> PICK old \in AgentRecord : old = agent[s]
  BY AgentInHand
<1>0. GoodAgent(s, old) /\ old.round \in 0..MaxRounds
  BY AgentInHand DEF AgentRecord, RoundNumber
<1>1. CASE StartRound(s)
  <2> DEFINE a == [old EXCEPT !.at = "model", !.said = 0]
  <2>1. a \in AgentRecord /\ a.at = "model" /\ a.said = 0 /\ a.round = old.round
    BY Numbers DEF AgentRecord, AgentState
  <2>2. agent' = [agent EXCEPT ![s] = a] /\ UNCHANGED <<chan, tokenRx>> /\ old.at = "round"
        /\ old.round < MaxRounds
    BY <1>1 DEF StartRound, At
  <2> HIDE DEF a
  <2>3. ToCome(a) = Rounds(MaxRounds - old.round - 1) + 2 * MaxTools + 1
    BY <2>1, ToComeAt
  <2>4. ToCome(old) = Rounds(MaxRounds - old.round)
    BY <2>2, ToComeAt
  <2>5. ToCome(a) \in Nat /\ ToCome(a) <= ToCome(agent[s])
    BY <2>2, <2>3, <2>4, RoundsLeft
  <2> QED BY <2>1, <2>2, <2>5, QuietMoveHolds
<1>2. CASE HitRoundLimit(s)
  <2> DEFINE a == [old EXCEPT !.at = "exited"]
  <2>1. a \in AgentRecord /\ a.at = "exited"
    BY DEF AgentRecord, AgentState
  <2>2. agent' = [agent EXCEPT ![s] = a] /\ UNCHANGED tokenRx
        /\ Send(s, <<Msg("err", 0), Msg("done", 0)>>)
    BY <1>2 DEF HitRoundLimit, GoTo
  <2> HIDE DEF a
  <2>3. ToCome(a) = 0
    BY <2>1, ToComeAt
  <2>4. ToCome(a) \in Nat /\ ToCome(a) <= ToCome(agent[s])
    BY <2>3, ToComeIs
  <2> QED BY <2>1, <2>2, <2>4, QuietMoveHolds
<1>3. CASE EndRound(s)
  <2> DEFINE a == [old EXCEPT !.at = "round", !.calls = 0, !.round = @ + 1]
  <2>0. old.at = "tools" /\ old.round < MaxRounds
    BY <1>0, <1>3 DEF EndRound, At, GoodAgent
  <2>1. a \in AgentRecord /\ a.at = "round" /\ a.round = old.round + 1
    <3>1. old.round \in RoundNumber /\ old.round + 1 \in RoundNumber
      BY <2>0, Numbers DEF AgentRecord
    <3> QED BY <3>1, Numbers DEF AgentRecord, AgentState
  <2>2. agent' = [agent EXCEPT ![s] = a] /\ UNCHANGED <<chan, tokenRx>>
    BY <1>3 DEF EndRound
  <2> HIDE DEF a
  <2>3. /\ ToCome(a) = Rounds(MaxRounds - (old.round + 1))
        /\ MaxRounds - (old.round + 1) = MaxRounds - old.round - 1
    BY <1>0, <2>1, ToComeAt, AgentAssumption
  <2>4. ToCome(old) = Rounds(MaxRounds - old.round - 1) + 2 * old.calls
    BY <2>0, ToComeAt
  <2>5. ToCome(a) \in Nat /\ ToCome(a) <= ToCome(agent[s])
    BY <2>0, <2>3, <2>4, RoundsLeft
  <2> QED BY <2>1, <2>2, <2>5, QuietMoveHolds
<1> QED BY <1>1, <1>2, <1>3

LEMMA ModelHolds ==
  ASSUME IInv, NEW s \in Streams,
         \/ ModelSpeaks(s)
         \/ \E last \in {"done", "err"} : ModelEnds(s, last)
         \/ \E n \in 1..MaxTools : ModelCallsTools(s, n)
  PROVE  Held' \in Int /\ Held' <= Held
<1> PICK old \in AgentRecord : old = agent[s]
  BY AgentInHand
<1>0. /\ old.at = "model" /\ old.round < MaxRounds /\ old.round \in Nat
      /\ ToCome(old) = Rounds(MaxRounds - old.round - 1) + 2 * MaxTools + (IF old.said = 0 THEN 1 ELSE 0)
  <2>1. old.at = "model" /\ old.round < MaxRounds /\ old.round \in Nat
    <3>1. old.at = "model"
      BY DEF ModelSpeaks, ModelEnds, ModelCallsTools, At
    <3>2. GoodAgent(s, old)
      BY AgentInHand
    <3> QED BY <3>1, <3>2, RoundsLeft DEF GoodAgent
  <2> QED BY <2>1, ToComeAt
<1>1. CASE ModelSpeaks(s)
  <2> DEFINE a == [old EXCEPT !.said = @ + 1]
             m == Msg(IF old.said = 0 THEN "start" ELSE "token", old.round)
  <2>1. a \in AgentRecord /\ a.at = "model" /\ a.said # 0 /\ a.round = old.round
    <3>1. old.said \in Said /\ old.said <= MaxTokens
      BY <1>1 DEF ModelSpeaks, AgentRecord
    <3>2. old.said + 1 \in Said /\ old.said + 1 # 0
      BY <3>1, Numbers
    <3> QED BY <1>0, <3>2 DEF AgentRecord
  <2>2. agent' = [agent EXCEPT ![s] = a] /\ UNCHANGED tokenRx /\ Send(s, <<m>>)
    BY <1>1 DEF ModelSpeaks
  <2>3. m \in StreamMsg /\ (old.said # 0 => m.type \notin MakesRow)
    BY <1>0, MsgIs
  <2> HIDE DEF a, m
  <2>4. ToCome(a) = Rounds(MaxRounds - old.round - 1) + 2 * MaxTools
    <3>1. ToCome(a) = Rounds(MaxRounds - old.round - 1) + 2 * MaxTools + 0
      BY <2>1, ToComeAt
    <3> QED BY <1>0, <3>1, RoundsLeft
  <2>5. ToCome(a) \in Nat
    BY <1>0, <2>4, RoundsLeft
  <2>6. CASE old.said = 0
    <3>1. ToCome(a) + 1 <= ToCome(agent[s])
      BY <1>0, <2>4, <2>5, <2>6
    <3> QED BY <2>2, <2>3, <2>5, <3>1, LoudMoveHolds
  <2>7. CASE old.said # 0
    <3>1. ToCome(a) <= ToCome(agent[s])
      BY <1>0, <2>4, <2>5, <2>7
    <3> QED BY <2>2, <2>3, <2>5, <2>7, <3>1, QuietMoveHolds
  <2> QED BY <2>6, <2>7
<1>2. ASSUME NEW last \in {"done", "err"}, ModelEnds(s, last) PROVE Held' \in Int /\ Held' <= Held
  <2> DEFINE a == [old EXCEPT !.at = "exited"]
             m == Msg(last, 0)
  <2>1. a \in AgentRecord /\ a.at = "exited"
    BY DEF AgentRecord, AgentState
  <2>2. agent' = [agent EXCEPT ![s] = a] /\ UNCHANGED tokenRx /\ Send(s, <<m>>)
    BY <1>2 DEF ModelEnds, GoTo
  <2>3. m \in StreamMsg /\ m.type \notin MakesRow
    BY MsgIs
  <2> HIDE DEF a, m
  <2>4. ToCome(a) = 0
    BY <2>1, ToComeAt
  <2>5. ToCome(a) \in Nat /\ ToCome(a) <= ToCome(agent[s])
    BY <2>4, ToComeIs
  <2> QED BY <2>1, <2>2, <2>3, <2>5, QuietMoveHolds
<1>3. ASSUME NEW n \in 1..MaxTools, ModelCallsTools(s, n) PROVE Held' \in Int /\ Held' <= Held
  <2> DEFINE a == [old EXCEPT !.at = "tools", !.calls = n]
  <2>1. a \in AgentRecord /\ a.at = "tools" /\ a.calls = n /\ a.round = old.round
    BY Numbers DEF AgentRecord, AgentState
  <2>2. agent' = [agent EXCEPT ![s] = a] /\ UNCHANGED <<chan, tokenRx>>
    BY <1>3 DEF ModelCallsTools
  <2> HIDE DEF a
  <2>4. ToCome(a) = Rounds(MaxRounds - old.round - 1) + 2 * n
    BY <2>1, ToComeAt
  <2>5. ToCome(a) \in Nat /\ ToCome(a) <= ToCome(agent[s])
    BY <1>0, <2>4, RoundsLeft
  <2> QED BY <2>1, <2>2, <2>5, QuietMoveHolds
<1> QED BY <1>1, <1>2, <1>3

(* In a call a thread has it and the ones after it to come. *)
LEMMA CallLeft ==
  ASSUME IInv, NEW s \in Streams,
         agent[s].at \in InCall \/ (agent[s].at = "tools" /\ agent[s].calls > 0)
  PROVE  /\ agent[s].round < MaxRounds /\ agent[s].calls > 0 /\ agent[s].calls \in Nat
         /\ agent[s].calls - 1 \in CallsLeft
         /\ Rounds(MaxRounds - agent[s].round - 1) \in Nat
<1>1. agent[s].round < MaxRounds /\ agent[s].calls > 0
  BY AgentInHand DEF GoodAgent
<1>2. agent[s].calls \in 0..MaxTools /\ MaxTools \in Nat
  BY RoundsLeft
<1>3. agent[s].calls \in Nat /\ agent[s].calls - 1 \in CallsLeft
  BY <1>1, <1>2 DEF CallsLeft
<1> QED BY <1>1, <1>3, RoundsLeft

(* A call goes on, or is done with and the next one is taken. *)
Spent(at) == IF at \in {"rejected", "exec"} THEN 1 ELSE 0

LEMMA CallGoesOn ==
  ASSUME IInv, NEW s \in Streams, UNCHANGED tokenRx, NEW at \in InCall,
         agent[s].at \in InCall \/ (agent[s].at = "tools" /\ agent[s].calls > 0),
         NEW asked \in Nat, agent' = [agent EXCEPT ![s].at = at, ![s].asked = asked],
         \/ /\ Spent(agent[s].at) <= Spent(at)
            /\ UNCHANGED chan \/ \E m \in StreamMsg : Send(s, <<m>>) /\ m.type \notin MakesRow
         \/ /\ Spent(agent[s].at) = 0 /\ Spent(at) = 1
            /\ \E m \in StreamMsg : Send(s, <<m>>)
  PROVE  Held' \in Int /\ Held' <= Held
<1> PICK old \in AgentRecord : old = agent[s]
  BY AgentInHand
<1> DEFINE a == [old EXCEPT !.at = at, !.asked = asked]
<1>1. a \in AgentRecord /\ a.at = at /\ a.calls = old.calls /\ a.round = old.round
  BY DEF AgentRecord, AgentState, InCall
<1>2. agent' = [agent EXCEPT ![s] = a]
  OBVIOUS
<1> HIDE DEF a
<1>3. /\ old.calls > 0 /\ old.calls \in Nat /\ Rounds(MaxRounds - old.round - 1) \in Nat
      /\ Spent(old.at) \in 0..1 /\ Spent(at) \in 0..1
  BY CallLeft DEF Spent
<1>4. ToCome(old) = Rounds(MaxRounds - old.round - 1) + 2 * old.calls - Spent(old.at)
  <2>1. CASE old.at \in {"tools", "waiting", "approved", "free"}
    BY <1>3, <2>1, ToComeAt DEF Spent
  <2>2. CASE old.at \in {"rejected", "exec"}
    BY <1>3, <2>2, ToComeAt DEF Spent
  <2> QED BY <2>1, <2>2 DEF InCall
<1>5. ToCome(a) = Rounds(MaxRounds - old.round - 1) + 2 * old.calls - Spent(at)
  <2>1. CASE at \in {"tools", "waiting", "approved", "free"}
    BY <1>1, <1>3, <2>1, ToComeAt DEF Spent
  <2>2. CASE at \in {"rejected", "exec"}
    BY <1>1, <1>3, <2>2, ToComeAt DEF Spent
  <2> QED BY <2>1, <2>2 DEF InCall
<1>6. ToCome(a) \in Nat
  BY <1>3, <1>5
<1>7. CASE /\ Spent(agent[s].at) <= Spent(at)
           /\ (UNCHANGED chan \/ \E m \in StreamMsg : Send(s, <<m>>) /\ m.type \notin MakesRow)
  <2>1. ToCome(a) <= ToCome(agent[s])
    BY <1>3, <1>4, <1>5, <1>7
  <2> QED BY <1>2, <1>6, <1>7, <2>1, QuietMoveHolds
<1>8. CASE Spent(agent[s].at) = 0 /\ Spent(at) = 1 /\ \E m \in StreamMsg : Send(s, <<m>>)
  <2>1. ToCome(a) + 1 <= ToCome(agent[s])
    BY <1>3, <1>4, <1>5, <1>8
  <2> QED BY <1>2, <1>6, <1>8, <2>1, LoudMoveHolds
<1> QED BY <1>7, <1>8

LEMMA CallIsDone ==
  ASSUME IInv, NEW s \in Streams, UNCHANGED tokenRx, NextCall(s),
         agent[s].at \in InCall \/ (agent[s].at = "tools" /\ agent[s].calls > 0),
         \E m \in StreamMsg : Send(s, <<m>>)
  PROVE  Held' \in Int /\ Held' <= Held
<1> PICK old \in AgentRecord : old = agent[s]
  BY AgentInHand
<1> DEFINE a == [old EXCEPT !.at = "tools", !.calls = @ - 1]
<1>0. /\ old.calls > 0 /\ old.calls \in Nat /\ Rounds(MaxRounds - old.round - 1) \in Nat
      /\ old.calls - 1 \in CallsLeft
  BY CallLeft
<1>1. a \in AgentRecord /\ a.at = "tools" /\ a.calls = old.calls - 1 /\ a.round = old.round
  BY <1>0 DEF AgentRecord, AgentState
<1>2. agent' = [agent EXCEPT ![s] = a]
  BY DEF NextCall
<1> HIDE DEF a
<1>3. ToCome(old) >= Rounds(MaxRounds - old.round - 1) + 2 * old.calls - 1
  <2>1. old.at \in {"tools", "waiting", "approved", "free"} \/ old.at \in {"rejected", "exec"}
    BY DEF InCall
  <2> QED BY <1>0, <2>1, ToComeAt
<1>4. ToCome(a) = Rounds(MaxRounds - old.round - 1) + 2 * (old.calls - 1)
  BY <1>1, ToComeAt
<1>5. ToCome(a) \in Nat /\ ToCome(a) + 1 <= ToCome(agent[s])
  BY <1>0, <1>3, <1>4, ToComeIs
<1> QED BY <1>1, <1>2, <1>5, LoudMoveHolds

-----------------------------------------------------------------------------
LEMMA CallHolds ==
  ASSUME IInv, NEW s \in Streams,
         \/ BadArguments(s) \/ CallWithoutApproval(s) \/ AskApproval(s)
         \/ ApprovalEnds(s) \/ CallRejected(s) \/ StartTool(s)
         \/ \E outcome \in {"toolDone", "toolFailed"} : FinishTool(s, outcome)
  PROVE  Held' \in Int /\ Held' <= Held
<1> PICK old \in AgentRecord : old = agent[s]
  BY AgentInHand
<1>0. old.asked \in Nat /\ old.asked + 1 \in Nat /\ old.asked = agent[s].asked
  BY DEF AgentRecord
<1>1. CASE \/ BadArguments(s) \/ CallRejected(s)
           \/ \E outcome \in {"toolDone", "toolFailed"} : FinishTool(s, outcome)
  <2>1. \E type \in {"toolDone", "toolFailed"} : Send(s, <<Msg(type, 0)>>)
    BY <1>1 DEF BadArguments, CallRejected, FinishTool
  <2>2. \E m \in StreamMsg : Send(s, <<m>>)
    BY <2>1, MsgIs
  <2>3. UNCHANGED tokenRx /\ NextCall(s)
    BY <1>1 DEF BadArguments, CallRejected, FinishTool
  <2>4. agent[s].at \in InCall \/ (agent[s].at = "tools" /\ agent[s].calls > 0)
    BY <1>1 DEF BadArguments, CallRejected, FinishTool, TakesCall, At, InCall
  <2> QED BY <2>2, <2>3, <2>4, CallIsDone
<1>2. CASE CallWithoutApproval(s)
  <2> DEFINE at == "free"
  <2>1. agent[s].at = "tools" /\ agent[s].calls > 0 /\ UNCHANGED <<chan, tokenRx>>
    BY <1>2 DEF CallWithoutApproval, TakesCall, At
  <2>2. agent' = [agent EXCEPT ![s].at = at, ![s].asked = old.asked]
    <3>1. agent' = [agent EXCEPT ![s] = [old EXCEPT !.at = at]]
      BY <1>2 DEF CallWithoutApproval, GoTo
    <3>2. [old EXCEPT !.at = at] = [old EXCEPT !.at = at, !.asked = old.asked]
      BY DEF AgentRecord
    <3> QED BY <3>1, <3>2
  <2>3. at \in InCall /\ Spent(agent[s].at) <= Spent(at)
    BY <2>1 DEF InCall, Spent
  <2> HIDE DEF at
  <2> QED BY <1>0, <2>1, <2>2, <2>3, CallGoesOn
<1>3. CASE AskApproval(s)
  <2> DEFINE at == "waiting"
             m == Msg("approval", old.asked + 1)
  <2>1. agent[s].at = "tools" /\ agent[s].calls > 0 /\ UNCHANGED tokenRx /\ Send(s, <<m>>)
    BY <1>3 DEF AskApproval, TakesCall, At
  <2>2. agent' = [agent EXCEPT ![s].at = at, ![s].asked = old.asked + 1]
    BY <1>3 DEF AskApproval
  <2>3. at \in InCall /\ Spent(agent[s].at) <= Spent(at)
    BY <2>1 DEF InCall, Spent
  <2>4. m \in StreamMsg /\ m.type \notin MakesRow
    BY <1>0, MsgIs
  <2> HIDE DEF at, m
  <2> QED BY <1>0, <2>1, <2>2, <2>3, <2>4, CallGoesOn
<1>4. CASE ApprovalEnds(s) \/ StartTool(s)
  <2>0. PICK at \in {"rejected", "exec"} : GoTo(s, at)
    BY <1>4 DEF ApprovalEnds, StartTool
  <2>1. agent[s].at \in {"waiting", "approved", "free"} /\ UNCHANGED tokenRx
    BY <1>4 DEF ApprovalEnds, StartTool, At
  <2>2. \E type \in {"toolFailed", "toolStart"} : Send(s, <<Msg(type, 0)>>)
    BY <1>4 DEF ApprovalEnds, StartTool
  <2>3. \E m \in StreamMsg : Send(s, <<m>>)
    BY <2>2, MsgIs
  <2>4. agent' = [agent EXCEPT ![s].at = at, ![s].asked = old.asked]
    <3>1. agent' = [agent EXCEPT ![s] = [old EXCEPT !.at = at]]
      BY <2>0 DEF GoTo
    <3>2. [old EXCEPT !.at = at] = [old EXCEPT !.at = at, !.asked = old.asked]
      BY DEF AgentRecord
    <3> QED BY <3>1, <3>2
  <2>5. at \in InCall /\ Spent(agent[s].at) = 0 /\ Spent(at) = 1
    BY <2>0, <2>1 DEF InCall, Spent
  <2>6. agent[s].at \in InCall
    BY <2>1 DEF InCall
  <2> QED BY <1>0, <2>1, <2>3, <2>4, <2>5, <2>6, CallGoesOn
<1> QED BY <1>1, <1>2, <1>3, <1>4

LEMMA PanicHolds == ASSUME IInv, NEW s \in Streams, Panic(s) PROVE Held' \in Int /\ Held' <= Held
<1> PICK old \in AgentRecord : old = agent[s]
  BY AgentInHand
<1> DEFINE a == [old EXCEPT !.at = "exited"]
<1>1. a \in AgentRecord /\ a.at = "exited"
  BY DEF AgentRecord, AgentState
<1>2. agent' = [agent EXCEPT ![s] = a] /\ UNCHANGED <<chan, tokenRx>>
  BY DEF Panic, GoTo
<1> HIDE DEF a
<1>3. ToCome(a) = 0
  BY <1>1, ToComeAt
<1>4. ToCome(a) \in Nat /\ ToCome(a) <= ToCome(agent[s])
  BY <1>3, ToComeIs
<1> QED BY <1>1, <1>2, <1>4, QuietMoveHolds

(* The rows of the same question. *)
LEMMA NoMoreRows ==
  ASSUME IInv, ChatIsGood, RowsAreBounded, app'.cur = app.cur, Len(app'.msgs) \in Nat, Held' \in Int,
         Len(app'.msgs) + Held' + LastError' <= Len(app.msgs) + Held + LastError
  PROVE  RowsAreBounded'
<1>1. MaxRows \in Nat /\ Questions(MaxStreams) \in Nat /\ Questions(MaxStreams - app.cur) \in Nat
  <2>1. MaxStreams - app.cur \in Nat /\ MaxStreams \in Nat
    BY AppIs, AgentAssumption
  <2> QED BY <2>1, QuestionsIs, AiChatAssumption
<1>2. Len(app.msgs) \in Nat /\ Held \in Nat /\ LastError \in 0..1 /\ LastError' \in 0..1
  <2>1. app.msgs \in Seq(Row)
    BY DEF ChatIsGood, ScreenIsGood, GoodRows
  <2> QED BY <2>1, HeldIs DEF LastError
<1>3. /\ Len(app.msgs) + Held + LastError + Questions(MaxStreams - app.cur) < MaxRows + Questions(MaxStreams)
      /\ Len(app'.msgs) + Held' + LastError' + Questions(MaxStreams - app.cur) < MaxRows + Questions(MaxStreams)
           => RowsAreBounded'
  BY DEF RowsAreBounded
<1>4. \A now, later, q, n \in Int : later <= now /\ now + q < n => later + q < n
  OBVIOUS
<1>5. /\ MaxRows + Questions(MaxStreams) \in Int
      /\ Len(app.msgs) + Held + LastError \in Int /\ Len(app'.msgs) + Held' + LastError' \in Int
  BY <1>1, <1>2
<1> QED BY <1>1, <1>3, <1>4, <1>5

LEMMA AgentBounded ==
  ASSUME IInv, ChatIsGood, RowsAreBounded, NEW s \in Streams, Agent(s) PROVE RowsAreBounded'
<1>1. Held' \in Int /\ Held' <= Held
  BY RoundHolds, ModelHolds, CallHolds, PanicHolds DEF Agent, AgentStep
<1>2. UNCHANGED app
  BY DEF Agent
<1>3. app.msgs \in Seq(Row)
  BY DEF ChatIsGood, ScreenIsGood, GoodRows
<1>4. Len(app'.msgs) \in Nat /\ LastError' = LastError /\ LastError \in 0..1 /\ Len(app.msgs) \in Nat
      /\ Len(app'.msgs) = Len(app.msgs)
  BY <1>2, <1>3 DEF LastError
<1> QED BY <1>1, <1>2, <1>4, HeldIs, NoMoreRows

-----------------------------------------------------------------------------
LEMMA RowsNow ==
  ASSUME IInv, ChatIsGood
  PROVE  /\ app.msgs \in Seq(Row) /\ Len(app.msgs) \in Nat /\ Held \in Nat
         /\ LastError \in 0..1 /\ (app.streaming => LastError = 1)
<1>1. app.msgs \in Seq(Row)
  BY DEF ChatIsGood, ScreenIsGood, GoodRows
<1> QED BY <1>1, HeldIs DEF LastError

(* A message makes a row at most where it was counted as one. *)
LEMMA PopBounded ==
  ASSUME IInv, ChatIsGood, RowsAreBounded, tokenRx # 0, chan[tokenRx] # <<>>, Pop, UNCHANGED <<agent, tokenRx>>,
         app'.cur = app.cur, app'.streaming = app.streaming, NEW made \in {0, 1},
         made = 1 => Head(chan[tokenRx]).type \in MakesRow, Len(app'.msgs) = Len(app.msgs) + made
  PROVE  RowsAreBounded'
<1> DEFINE c == chan[tokenRx]
<1>1. c \in Seq(StreamMsg) /\ c # <<>> /\ tokenRx \in Streams /\ ToCome(agent[tokenRx]) \in Nat
  BY CurrentIs, ToComeIs
<1>2. chan'[tokenRx] = Tail(c) /\ Tail(c) \in Seq(StreamMsg)
  BY <1>1 DEF Pop, IInv
<1>3. Held = Pending(c) + ToCome(agent[tokenRx]) /\ Held' = Pending(Tail(c)) + ToCome(agent[tokenRx])
  BY <1>2 DEF Held
<1>4. made = 1 => Head(c).type \in MakesRow
  OBVIOUS
<1> HIDE DEF c
<1>5. Pending(Tail(c)) + made <= Pending(c) /\ Pending(c) \in Nat /\ Pending(Tail(c)) \in Nat
  <2>1. Pending(c) \in Nat /\ Pending(Tail(c)) \in Nat
    BY <1>1, <1>2, PendingIs
  <2>2. Pending(Tail(c)) + (IF Head(c).type \in MakesRow THEN 1 ELSE 0) <= Pending(c)
    BY <1>1, PendingTail
  <2> QED BY <1>4, <2>1, <2>2
<1>6. LastError' = LastError /\ LastError \in 0..1 /\ Len(app.msgs) \in Nat
  BY RowsNow DEF LastError
<1>7. /\ Held' \in Int /\ Len(app'.msgs) \in Nat
      /\ Len(app'.msgs) + Held' + LastError' <= Len(app.msgs) + Held + LastError
  <2>1. \A a, b, p, q, t, e, m \in Int : b = a + m /\ q + m <= p => b + (q + t) + e <= a + (p + t) + e
    OBVIOUS
  <2>2. Len(app'.msgs) = Len(app.msgs) + made /\ Len(app'.msgs) \in Nat /\ made \in Int
    BY <1>6
  <2>3. /\ Pending(c) \in Int /\ Pending(Tail(c)) \in Int /\ ToCome(agent[tokenRx]) \in Int
        /\ LastError \in Int /\ Len(app.msgs) \in Int /\ Len(app'.msgs) \in Int
    BY <1>1, <1>5, <1>6, <2>2
  <2>4. Held' \in Int
    BY <1>3, <2>3
  <2>5. Len(app'.msgs) + (Pending(Tail(c)) + ToCome(agent[tokenRx])) + LastError
          <= Len(app.msgs) + (Pending(c) + ToCome(agent[tokenRx])) + LastError
    BY <1>5, <2>1, <2>2, <2>3
  <2> QED BY <1>3, <1>6, <2>2, <2>4, <2>5
<1> QED BY <1>7, NoMoreRows

LEMMA MessageBounded ==
  ASSUME IInv, ChatIsGood, RowsAreBounded,
         \/ DrainStart \/ DrainToken \/ DrainToolStart \/ DrainApproval
         \/ \E type \in {"toolDone", "toolFailed"} : DrainToolEnd(type)
  PROVE  RowsAreBounded'
<1>0. app.msgs \in Seq(Row) /\ Len(app.msgs) \in Nat
  BY RowsNow
<1> DEFINE Taken(type) == /\ tokenRx # 0 /\ chan[tokenRx] # <<>> /\ Head(chan[tokenRx]).type = type
                          /\ Pop /\ UNCHANGED <<agent, tokenRx>>
                          /\ app'.cur = app.cur /\ app'.streaming = app.streaming
<1>1. \A rows \in Seq(Row) : \A row : Len(Append(rows, row)) = Len(rows) + 1
  OBVIOUS
<1>2. ASSUME DrainStart \/ DrainToolStart PROVE RowsAreBounded'
  <2>1. \E type \in {"start", "toolStart"} : Taken(type)
    BY <1>2, AppIs DEF DrainStart, DrainToolStart, Incoming
  <2>2. \E row : app'.msgs = Append(app.msgs, row)
    BY <1>2, AppIs DEF DrainStart, DrainToolStart
  <2>3. Len(app'.msgs) = Len(app.msgs) + 1
    BY <1>0, <1>1, <2>2
  <2>4. Head(chan[tokenRx]).type \in MakesRow
    BY <2>1 DEF MakesRow
  <2> QED BY <2>1, <2>3, <2>4, PopBounded
<1>3. ASSUME DrainToken \/ DrainApproval PROVE RowsAreBounded'
  <2>1. \E type : Taken(type)
    BY <1>3, AppIs DEF DrainToken, DrainApproval, Incoming
  <2>2. app'.msgs = app.msgs
    BY <1>3, AppIs DEF DrainToken, DrainApproval
  <2>3. Len(app'.msgs) = Len(app.msgs) + 0
    BY <1>0, <2>2
  <2> QED BY <2>1, <2>3, PopBounded
<1>4. ASSUME NEW type \in {"toolDone", "toolFailed"}, DrainToolEnd(type) PROVE RowsAreBounded'
  <2> DEFINE i == LastOpenTool(app.msgs)
  <2>1. Taken(type)
    BY <1>4, AppIs DEF DrainToolEnd, Incoming
  <2>2. app'.msgs = IF i # 0 THEN [app.msgs EXCEPT ![i].complete = TRUE, ![i].by = OwnText(tokenRx)]
                    ELSE IF type = "toolFailed" THEN Append(app.msgs, ErrorRow(tokenRx)) ELSE app.msgs
    BY <1>4, AppIs DEF DrainToolEnd
  <2>3. \A rows \in Seq(Row) : \A x, y, n : Len([rows EXCEPT ![n].complete = x, ![n].by = y]) = Len(rows)
    OBVIOUS
  <2> HIDE DEF i
  <2>4. \/ Len(app'.msgs) = Len(app.msgs) + 0
        \/ type = "toolFailed" /\ Len(app'.msgs) = Len(app.msgs) + 1
    <3>1. CASE i # 0
      BY <1>0, <2>2, <2>3, <3>1
    <3>2. CASE i = 0
      BY <1>0, <1>1, <2>2, <3>2
    <3> QED BY <3>1, <3>2
  <2>5. type = "toolFailed" => Head(chan[tokenRx]).type \in MakesRow
    BY <2>1 DEF MakesRow
  <2> QED BY <2>1, <2>4, <2>5, PopBounded
<1> QED BY <1>2, <1>3, <1>4

(* The receiver goes, and with it what was still to come. *)
LEMMA DropBounded ==
  ASSUME IInv, ChatIsGood, RowsAreBounded, DropReceiver,
         app'.cur = app.cur, app'.streaming \in {FALSE, app.streaming}, app'.msgs = app.msgs
  PROVE  RowsAreBounded'
<1>1. Held' = 0
  BY DEF Held, DropReceiver
<1>2. LastError' <= LastError /\ LastError \in 0..1 /\ LastError' \in 0..1
  <2>1. LastError \in 0..1
    BY RowsNow
  <2>2. LastError' = LastError \/ LastError' = 0
    BY DEF LastError
  <2> QED BY <2>1, <2>2
<1>3. Len(app'.msgs) = Len(app.msgs)
  OBVIOUS
<1>4. /\ Held' \in Int /\ Len(app'.msgs) \in Nat
      /\ Len(app'.msgs) + Held' + LastError' <= Len(app.msgs) + Held + LastError
  BY <1>1, <1>2, <1>3, RowsNow
<1> QED BY <1>4, NoMoreRows

LEMMA LeaveBounded ==
  ASSUME IInv, ChatIsGood, RowsAreBounded,
         \/ \E type \in {"done", "err"} : DrainEnd(type)
         \/ DrainDisconnected \/ Cancel \/ Quit \/ PaneGone
  PROVE  RowsAreBounded'
<1>1. DropReceiver
  BY DEF DrainEnd, DrainDisconnected, Cancel, Quit, PaneGone, Close
<1>2. app'.cur = app.cur /\ app'.streaming \in {FALSE, app.streaming} /\ app'.msgs = app.msgs
  <2>1. ASSUME NEW type, DrainEnd(type)
        PROVE  app'.cur = app.cur /\ app'.streaming = app.streaming /\ app'.msgs = app.msgs
    BY <2>1, AppIs DEF DrainEnd
  <2>2. ASSUME DrainDisconnected
        PROVE  app'.cur = app.cur /\ app'.streaming = app.streaming /\ app'.msgs = app.msgs
    BY <2>2, AppIs DEF DrainDisconnected
  <2>3. ASSUME Cancel PROVE app'.cur = app.cur /\ app'.streaming = FALSE /\ app'.msgs = app.msgs
    BY <2>3, AppIs DEF Cancel, Cancelled
  <2>4. ASSUME NEW saved, Close(saved)
        PROVE  app'.cur = app.cur /\ app'.streaming = FALSE /\ app'.msgs = app.msgs
    BY <2>4, AppIs DEF Close
  <2> QED BY <2>1, <2>2, <2>3, <2>4 DEF Quit, PaneGone
<1> QED BY <1>1, <1>2, DropBounded

(* Steps that leave the threads alone. *)
LEMMA StayBounded ==
  ASSUME IInv, ChatIsGood, RowsAreBounded, UNCHANGED <<agent, chan, tokenRx>>, app'.cur = app.cur,
         Len(app'.msgs) \in Nat,
         \/ app'.streaming = app.streaming /\ Len(app'.msgs) <= Len(app.msgs)
         \/ app'.streaming = FALSE /\ Len(app'.msgs) <= Len(app.msgs) + LastError
  PROVE  RowsAreBounded'
<1>1. Held' = Held /\ Held \in Nat
  BY HeldIs DEF Held
<1>2. LastError \in 0..1 /\ (app'.streaming = app.streaming => LastError' = LastError)
      /\ (app'.streaming = FALSE => LastError' = 0)
  BY DEF LastError
<1>3. Len(app.msgs) \in Nat
  BY RowsNow
<1>4. Held' \in Int /\ Len(app'.msgs) + Held' + LastError' <= Len(app.msgs) + Held + LastError
  BY <1>1, <1>2, <1>3
<1> QED BY <1>4, NoMoreRows

LEMMA ReleaseBounded ==
  ASSUME IInv, ChatIsGood, RowsAreBounded, NEW k \in 0..Len(app.queue), Release(k)
  PROVE  RowsAreBounded'
<1> DEFINE R == Released(k)
<1>0. PICK rows \in Seq(Row) : rows = app.msgs
  BY RowsNow
<1>1. app' = [app EXCEPT !.at = AfterRelease(k), !.queue = SubSeq(@, k + 1, Len(@)), !.msgs = AddText(app.msgs, R)]
  BY DEF Release
<1> HIDE DEF R
<1>2. app'.cur = app.cur /\ app'.streaming = app.streaming /\ app'.msgs = AddText(rows, R)
  BY <1>0, <1>1, AppIs
<1>3. Len(AddText(rows, R)) = Len(rows)
  <2>1. \A i, x : Len([rows EXCEPT ![i].by = x]) = Len(rows)
    OBVIOUS
  <2> QED BY <2>1 DEF AddText
<1>4. UNCHANGED <<agent, chan, tokenRx>>
  BY DEF Release, agentVars
<1>5. Len(rows) \in Nat
  OBVIOUS
<1> QED BY <1>0, <1>2, <1>3, <1>4, <1>5, StayBounded

LEMMA CompletedIsShort ==
  ASSUME NEW rows \in Seq(Row)
  PROVE  Len(Completed(rows)) \in Nat /\ Len(Completed(rows)) <= Len(rows)
<1> DEFINE F == [i \in DOMAIN rows |-> IF rows[i].role = "tool" THEN rows[i]
                                       ELSE [rows[i] EXCEPT !.complete = TRUE]]
           K == {i \in DOMAIN rows : ~(rows[i].role = "text" /\ ~rows[i].ctx /\ rows[i].by = {})}
<1>1. Completed(rows) = Kept(F, K)
  BY DEF Completed
<1>2. \A old \in Row : [old EXCEPT !.complete = TRUE] \in Row
  BY DEF Row
<1>3. F \in Seq(Row) /\ Len(F) = Len(rows)
  <2>1. F \in [1..Len(rows) -> Row] /\ Len(rows) \in Nat
    BY <1>2
  <2> HIDE DEF F
  <2> QED BY <2>1
<1> HIDE DEF F, K
<1>4. Len(Kept(F, K)) <= Len(F) /\ Len(Kept(F, K)) \in Nat
  BY <1>3, KeptIsShort
<1> QED BY <1>1, <1>3, <1>4

LEMMA SettleBounded ==
  ASSUME IInv, ChatIsGood, RowsAreBounded, FinalizeErr \/ FinalizeDone
  PROVE  RowsAreBounded'
<1>0. PICK rows \in Seq(Row) : rows = app.msgs /\ Len(rows) \in Nat
  BY RowsNow
<1>1. LastError = 1
  <2>1. app.at = "finalize" /\ app.ended # "no"
    BY DEF FinalizeErr, FinalizeDone, IInv, EndsInOrder
  <2>2. app.streaming
    BY <2>1 DEF IInv, StreamingIsLive
  <2> QED BY <2>2, RowsNow
<1>2. UNCHANGED <<agent, chan, tokenRx>>
  BY DEF FinalizeErr, FinalizeDone, agentVars
<1>3. ASSUME NEW new, Settle(new), Len(new) \in Nat, Len(new) <= Len(rows) + 1 PROVE RowsAreBounded'
  <2>1. app'.cur = app.cur /\ app'.streaming = FALSE /\ app'.msgs = new
    BY <1>3, AppIs DEF Settle
  <2> QED BY <1>0, <1>1, <1>2, <1>3, <2>1, StayBounded
<1>4. CASE FinalizeErr
  <2>1. \A row : Len(Append(rows, row)) = Len(rows) + 1
    OBVIOUS
  <2>2. \A i, x, y : Len([rows EXCEPT ![i].complete = x, ![i].by = y]) = Len(rows)
    OBVIOUS
  <2>3. \/ Settle(Append(rows, ErrorRow(app.cur)))
        \/ Settle([rows EXCEPT ![Len(rows)].complete = TRUE, ![Len(rows)].by = OwnText(app.cur)])
    BY <1>0, <1>4 DEF FinalizeErr
  <2>4. \E new : Settle(new) /\ Len(new) \in {Len(rows), Len(rows) + 1}
    <3>1. CASE Settle(Append(rows, ErrorRow(app.cur)))
      BY <2>1, <3>1
    <3>2. CASE Settle([rows EXCEPT ![Len(rows)].complete = TRUE, ![Len(rows)].by = OwnText(app.cur)])
      <4>1. PICK new : new = [rows EXCEPT ![Len(rows)].complete = TRUE, ![Len(rows)].by = OwnText(app.cur)]
        OBVIOUS
      <4>2. Len(new) = Len(rows)
        BY <2>2, <4>1
      <4>3. Settle(new)
        BY <3>2, <4>1
      <4> QED BY <4>2, <4>3
    <3> QED BY <2>3, <3>1, <3>2
  <2>5. \A n : n \in {Len(rows), Len(rows) + 1} => n \in Nat /\ n <= Len(rows) + 1
    BY <1>0
  <2> QED BY <1>3, <2>4, <2>5
<1>5. CASE FinalizeDone
  <2>1. Settle(Completed(rows))
    BY <1>0, <1>5 DEF FinalizeDone
  <2>2. Len(Completed(rows)) \in Nat /\ Len(Completed(rows)) <= Len(rows)
    BY <1>0, CompletedIsShort
  <2> QED BY <1>0, <1>3, <2>1, <2>2
<1> QED BY <1>4, <1>5

LEMMA AnswerBounded ==
  ASSUME IInv, ChatIsGood, RowsAreBounded, NEW yes \in BOOLEAN, AnswerPrompt(yes) PROVE RowsAreBounded'
<1> DEFINE s == app.approval[1]
<1>1. app'.cur = app.cur /\ app'.streaming = app.streaming /\ app'.msgs = app.msgs
  BY AppIs DEF AnswerPrompt
<1>2. s \in Streams /\ UNCHANGED <<chan, tokenRx>>
  BY DEF AnswerPrompt, IInv, AppShape
<1>3. CASE UNCHANGED agent
  <2>1. Len(app'.msgs) \in Nat /\ Len(app'.msgs) <= Len(app.msgs)
    BY <1>1, RowsNow
  <2> QED BY <1>1, <1>2, <1>3, <2>1, StayBounded
<1>4. CASE agent[s].at = "waiting" /\ \E at \in {"approved", "rejected"} : GoTo(s, at)
  <2> PICK at \in {"approved", "rejected"} : GoTo(s, at)
    BY <1>4
  <2> PICK old \in AgentRecord : old = agent[s]
    BY <1>2, AgentInHand
  <2>1. old.asked \in Nat
    BY DEF AgentRecord
  <2>2. agent' = [agent EXCEPT ![s].at = at, ![s].asked = old.asked]
    <3>1. agent' = [agent EXCEPT ![s] = [old EXCEPT !.at = at]]
      BY DEF GoTo
    <3>2. [old EXCEPT !.at = at] = [old EXCEPT !.at = at, !.asked = old.asked]
      BY DEF AgentRecord
    <3> QED BY <3>1, <3>2
  <2>3. at \in InCall /\ agent[s].at \in InCall /\ Spent(agent[s].at) <= Spent(at)
    BY <1>4 DEF InCall, Spent
  <2> HIDE DEF s
  <2>4. Held' \in Int /\ Held' <= Held
    BY <1>2, <2>1, <2>2, <2>3, CallGoesOn
  <2>5. LastError' = LastError /\ LastError \in 0..1 /\ Held \in Nat
    BY <1>1, RowsNow DEF LastError
  <2>6. Len(app'.msgs) \in Nat /\ Len(app'.msgs) = Len(app.msgs)
    BY <1>1, RowsNow
  <2>7. \A h, k, n, e \in Int : h <= k => n + h + e <= n + k + e
    OBVIOUS
  <2>8. Len(app'.msgs) + Held' + LastError' <= Len(app.msgs) + Held + LastError
    BY <2>4, <2>5, <2>6, <2>7
  <2> QED BY <1>1, <2>4, <2>6, <2>8, NoMoreRows
<1>5. UNCHANGED agent \/ (agent[s].at = "waiting" /\ \E at \in {"approved", "rejected"} : GoTo(s, at))
  BY DEF AnswerPrompt
<1> QED BY <1>3, <1>4, <1>5

LEMMA InterruptedRows ==
  ASSUME IInv, ChatIsGood
  PROVE  Interrupted.msgs \in Seq(Row) /\ Len(Interrupted.msgs) = Len(app.msgs)
<1> PICK rows \in Seq(Row) : rows = app.msgs
  BY RowsNow
<1>1. Len(CompleteLast(rows)) = Len(rows)
  <2>1. \A i, x : Len([rows EXCEPT ![i].complete = x]) = Len(rows)
    OBVIOUS
  <2> QED BY <2>1 DEF CompleteLast
<1>2. Interrupted.msgs \in {rows, CompleteLast(rows)}
  <2>1. CASE app.streaming
    <3>1. Interrupted = [Cancelled EXCEPT !.msgs = CompleteLast(app.msgs)]
      BY <2>1, AppIs DEF Interrupted, Cancelled
    <3> QED BY <3>1, AppIs DEF Cancelled
  <2>2. CASE ~app.streaming
    BY <2>2, AppIs DEF Interrupted
  <2> QED BY <2>1, <2>2
<1>3. Interrupted.msgs \in Seq(Row)
  BY InterruptedIs DEF GoodRows
<1> QED BY <1>1, <1>2, <1>3

LEMMA TrimmedFits ==
  ASSUME NEW rows \in Seq(Row)
  PROVE  Trimmed(rows) \in Seq(Row) /\ Len(Trimmed(rows)) < MaxRows
<1>1. Len(rows) \in Nat /\ MaxRows \in Nat /\ MaxRows > 1
  BY AiChatAssumption
<1>2. CASE Len(rows) < MaxRows
  BY <1>2 DEF Trimmed
<1>3. CASE ~(Len(rows) < MaxRows)
  <2>1. PICK m : m = Len(rows) - MaxRows + 2
    OBVIOUS
  <2>2. m \in 1..Len(rows) /\ Trimmed(rows) = SubSeq(rows, m, Len(rows)) /\ Len(rows) - m + 1 = MaxRows - 1
    BY <1>1, <1>3, <2>1 DEF Trimmed
  <2>3. SubSeq(rows, m, Len(rows)) \in Seq(Row) /\ DOMAIN SubSeq(rows, m, Len(rows)) = 1..(Len(rows) - m + 1)
    BY <1>1, <2>2
  <2>4. Trimmed(rows) \in Seq(Row) /\ DOMAIN Trimmed(rows) = 1..(MaxRows - 1) /\ MaxRows - 1 \in Nat
    BY <1>1, <2>2, <2>3
  <2>5. Len(Trimmed(rows)) = MaxRows - 1
    BY <2>4
  <2> QED BY <1>1, <2>4, <2>5
<1> QED BY <1>2, <1>3

(* Questions that can still be asked. *)
LEMMA QuestionsLeft ==
  ASSUME IInv
  PROVE  /\ Questions(MaxStreams - app.cur) \in Nat /\ Questions(MaxStreams) \in Nat
         /\ Questions(MaxStreams - app.cur) <= Questions(MaxStreams)
         /\ Rounds(MaxRounds) \in Nat
         /\ app.cur + 1 \in Streams =>
              /\ Questions(MaxStreams - (app.cur + 1)) \in Nat
              /\ Questions(MaxStreams - app.cur) = Questions(MaxStreams - (app.cur + 1)) + 2 + Rounds(MaxRounds)
<1>1. app.cur \in Nat /\ app.cur <= MaxStreams /\ MaxStreams \in Nat /\ MaxRounds \in Nat
  BY AppIs, AgentAssumption
<1>2. MaxStreams - app.cur \in Nat /\ MaxStreams - app.cur <= MaxStreams
  BY <1>1
<1>3. /\ Questions(MaxStreams - app.cur) \in Nat /\ Questions(MaxStreams) \in Nat
      /\ Questions(MaxStreams - app.cur) <= Questions(MaxStreams)
  BY <1>1, <1>2, QuestionsIs, QuestionsGrow
<1>4. Rounds(MaxRounds) \in Nat
  BY <1>1, RoundsIs
<1>5. ASSUME app.cur + 1 \in Streams
      PROVE  /\ Questions(MaxStreams - (app.cur + 1)) \in Nat
             /\ Questions(MaxStreams - app.cur) = Questions(MaxStreams - (app.cur + 1)) + 2 + Rounds(MaxRounds)
  <2> PICK n : n = MaxStreams - (app.cur + 1)
    OBVIOUS
  <2>1. n \in Nat /\ n + 1 = MaxStreams - app.cur
    BY <1>1, <1>5 DEF Streams
  <2>2. /\ Questions(n) \in Nat /\ Questions(n + 1) = Questions(n) + PerStream
        /\ PerStream = 2 + Rounds(MaxRounds)
    BY <2>1, QuestionsIs
  <2> QED BY <1>4, <2>1, <2>2
<1> QED BY <1>3, <1>4, <1>5

LEMMA SwitchBounded ==
  ASSUME IInv, ChatIsGood, RowsAreBounded, (\E rows \in Targets : SwitchConversation(rows)) \/ ClearConversation
  PROVE  RowsAreBounded'
<1>1. DropReceiver
  <2>1. StopStream
    BY DEF SwitchConversation, ClearConversation
  <2> QED BY <2>1, InterruptedIs DEF StopStream, DropReceiver
<1>2. Held' = 0
  BY <1>1 DEF Held, DropReceiver
<1>3. \A rows \in Targets \cup {<<>>} : Len(rows) \in 0..1
  <2>1. \A rows \in Targets \cup {<<>>} : rows = <<>> \/ \E row : rows = <<row>>
    BY Zenon DEF Targets, Restored
  <2>2. \A row : Len(<<row>>) = 1
    OBVIOUS
  <2> QED BY <2>1, <2>2
<1>4. \/ app' = Interrupted
      \/ \E rows \in Targets \cup {<<>>} : app'.msgs = rows /\ app'.cur = app.cur /\ app'.streaming = FALSE
  <2>1. CASE ClearConversation
    <3>1. app' = [Interrupted EXCEPT !.msgs = <<>>]
      BY <2>1 DEF ClearConversation
    <3> QED BY <3>1, InterruptedIs, AppIs
  <2>2. ASSUME NEW rows \in Targets, SwitchConversation(rows), app' # Interrupted
        PROVE  app'.msgs = rows /\ app'.cur = app.cur /\ app'.streaming = FALSE
    <3>1. app' = [Interrupted EXCEPT !.msgs = rows, !.disk = rows]
      BY <2>2 DEF SwitchConversation
    <3> QED BY <3>1, InterruptedIs, AppIs
  <2> QED BY <2>1, <2>2
<1>5. CASE app' = Interrupted
  <2>1. app'.cur = app.cur /\ app'.streaming = FALSE /\ Len(app'.msgs) = Len(app.msgs)
    BY <1>5, InterruptedIs, InterruptedRows
  <2>2. LastError' = 0
    BY <2>1 DEF LastError
  <2>3. /\ Len(app'.msgs) \in Nat /\ Held' \in Int
        /\ Len(app'.msgs) + Held' + LastError' <= Len(app.msgs) + Held + LastError
    BY <1>2, <2>1, <2>2, RowsNow
  <2> QED BY <2>1, <2>3, NoMoreRows
<1>6. ASSUME NEW rows \in Targets \cup {<<>>}, app'.msgs = rows, app'.cur = app.cur, app'.streaming = FALSE
      PROVE  RowsAreBounded'
  <2>1. LastError' = 0
    BY <1>6 DEF LastError
  <2>2. Len(app'.msgs) \in 0..1
    BY <1>3, <1>6
  <2>3. MaxRows \in Nat /\ MaxRows > 1
    BY AiChatAssumption
  <2>4. /\ Questions(MaxStreams - app.cur) \in Nat /\ Questions(MaxStreams) \in Nat
        /\ Questions(MaxStreams - app.cur) <= Questions(MaxStreams)
    BY QuestionsLeft
  <2>5. \A n \in 0..1 : \A p, q, m \in Nat : p <= q /\ m > 1 => n + 0 + 0 + p < m + q
    OBVIOUS
  <2>6. Len(app'.msgs) + 0 + 0 + Questions(MaxStreams - app.cur) < MaxRows + Questions(MaxStreams)
    BY <2>2, <2>3, <2>4, <2>5
  <2>7. Len(app'.msgs) + Held' + LastError' + Questions(MaxStreams - app.cur) < MaxRows + Questions(MaxStreams)
    BY <1>2, <2>1, <2>6
  <2> QED BY <1>6, <2>7 DEF RowsAreBounded
<1> QED BY <1>4, <1>5, <1>6

(* A new question takes its share of the rows to come. *)
LEMMA AskedHolds ==
  ASSUME IInv, ChatIsGood, Unasked, NEW s \in Streams, NEW offered \in BOOLEAN, s = app.cur + 1,
         StartStream(s, offered)
  PROVE  Held' = Rounds(MaxRounds)
<1>1. s # 0 /\ s \in Nat /\ s # tokenRx /\ agent[s].at = "none" /\ MaxRounds \in Nat
  <2>1. s > app.cur /\ s # app.cur /\ s # 0 /\ s \in Nat
    BY AppIs
  <2>2. tokenRx \in {0, app.cur}
    BY DEF IInv, StreamingIsLive
  <2> QED BY <2>1, <2>2, AgentAssumption DEF ChatIsGood, ChannelsAreGood
<1>2. PICK old \in AgentRecord : old = agent[s] /\ agent \in [Streams -> AgentRecord]
  BY DEF IInv, AgentsAreGood
<1> DEFINE a == [old EXCEPT !.at = "round", !.tools = offered]
<1>3. a \in AgentRecord /\ a.at = "round" /\ a.round = 0
  <2>1. old.round = 0
    BY <1>1, <1>2 DEF Unasked
  <2> QED BY <2>1 DEF AgentRecord, AgentState
<1>4. agent' = [agent EXCEPT ![s] = a]
  BY <1>2 DEF StartStream
<1> HIDE DEF a
<1>5. agent'[s] = a
  BY <1>2, <1>4
<1>6. chan'[s] = <<>> /\ tokenRx' = s
  <2>1. chan[s] = <<>> /\ chan \in [Streams -> Seq(StreamMsg)]
    BY <1>1 DEF IInv, ChatIsGood, ChannelsAreGood
  <2> QED BY <1>1, <2>1 DEF StartStream
<1>7. ToCome(a) = Rounds(MaxRounds - 0) /\ MaxRounds - 0 = MaxRounds
  BY <1>1, <1>3, ToComeAt
<1>8. Pending(<<>>) = 0
  <2>1. <<>> \in Seq(StreamMsg)
    OBVIOUS
  <2> QED BY <2>1, PendingIs
<1>9. Held' = Pending(chan'[s]) + ToCome(agent'[s])
  BY <1>1, <1>6 DEF Held
<1>10. Rounds(MaxRounds) \in Nat
  BY <1>1, RoundsIs
<1> QED BY <1>5, <1>6, <1>7, <1>8, <1>9, <1>10

LEMMA AskBounded ==
  ASSUME IInv, ChatIsGood, Unasked, RowsAreBounded, Ask \/ AskAside PROVE RowsAreBounded'
<1> DEFINE s == app.cur + 1
<1>1. s \in Streams /\ \E offered \in BOOLEAN : StartStream(s, offered)
  BY DEF Ask, AskAside
<1>2. Held' = Rounds(MaxRounds)
  BY <1>1, AskedHolds
<1>3. Interrupted.msgs \in Seq(Row) /\ Len(Interrupted.msgs) = Len(app.msgs) /\ Len(app.msgs) \in Nat
  BY InterruptedRows, RowsNow
<1>4. \A rows \in Seq(Row) : \A row : Len(Append(rows, row)) = Len(rows) + 1
  OBVIOUS
<1>5. app'.cur = s /\ LastError' = 1
  <2>1. app'.cur = s /\ app'.streaming
    BY InterruptedIs, AppIs DEF Ask, AskAside
  <2> QED BY <2>1 DEF LastError
<1>6. /\ Questions(MaxStreams - s) \in Nat /\ Rounds(MaxRounds) \in Nat /\ Questions(MaxStreams) \in Nat
      /\ Questions(MaxStreams - app.cur) = Questions(MaxStreams - s) + 2 + Rounds(MaxRounds)
      /\ Questions(MaxStreams - app.cur) <= Questions(MaxStreams)
  BY <1>1, QuestionsLeft
<1> HIDE DEF s
<1>7. CASE Ask
  <2> PICK rows : rows = Trimmed(Interrupted.msgs)
    OBVIOUS
  <2>1. \E row : app'.msgs = Append(rows, row)
    BY <1>7, InterruptedIs, AppIs DEF Ask
  <2>2. rows \in Seq(Row) /\ Len(rows) < MaxRows
    BY <1>3, TrimmedFits
  <2>3. Len(app'.msgs) = Len(rows) + 1 /\ Len(rows) \in Nat /\ MaxRows \in Nat
    BY <1>4, <2>1, <2>2, AiChatAssumption
  <2>4. Len(app'.msgs) + Held' + LastError' + Questions(MaxStreams - s) < MaxRows + Questions(MaxStreams)
    BY <1>2, <1>5, <1>6, <2>2, <2>3
  <2> QED BY <1>5, <2>4 DEF RowsAreBounded
<1>8. CASE AskAside
  <2>1. \E row : app'.msgs = Append(Interrupted.msgs, row)
    BY <1>8, InterruptedIs, AppIs DEF AskAside
  <2>2. Len(app'.msgs) = Len(app.msgs) + 1
    BY <1>3, <1>4, <2>1
  <2>3. Len(app.msgs) + Held + LastError + Questions(MaxStreams - app.cur) < MaxRows + Questions(MaxStreams)
    BY DEF RowsAreBounded
  <2>4. Held \in Nat /\ LastError \in 0..1 /\ MaxRows \in Nat
    BY RowsNow, AiChatAssumption
  <2>5. Len(app'.msgs) + Held' + LastError' + Questions(MaxStreams - s) < MaxRows + Questions(MaxStreams)
    BY <1>2, <1>3, <1>5, <1>6, <2>2, <2>3, <2>4
  <2> QED BY <1>5, <2>5 DEF RowsAreBounded
<1> QED BY <1>7, <1>8

-----------------------------------------------------------------------------
LEMMA InitBounded == Init => RowsAreBounded
<1> SUFFICES ASSUME Init PROVE RowsAreBounded
  OBVIOUS
<1>1. tokenRx = 0 /\ app.cur = 0 /\ app.msgs = <<>> /\ app.streaming = FALSE
  BY DEF Init, AgentInit
<1>2. Held = 0 /\ LastError = 0 /\ Len(app.msgs) = 0
  BY <1>1 DEF Held, LastError
<1>3. MaxStreams \in Nat /\ Questions(MaxStreams) \in Nat /\ MaxRows \in Nat /\ MaxRows > 1
  BY QuestionsIs, AgentAssumption, AiChatAssumption
<1>4. MaxStreams - app.cur = MaxStreams
  BY <1>1, <1>3
<1>5. 0 + 0 + 0 + Questions(MaxStreams) < MaxRows + Questions(MaxStreams)
  BY <1>3
<1> QED BY <1>2, <1>4, <1>5 DEF RowsAreBounded

LEMMA NextBounded == IInv /\ Unasked /\ ChatIsGood /\ RowsAreBounded /\ [Next]_vars => RowsAreBounded'
<1> SUFFICES ASSUME IInv, Unasked, ChatIsGood, RowsAreBounded, [Next]_vars PROVE RowsAreBounded'
  OBVIOUS
<1>1. CASE Loop
  <2>1. CASE DrainEmpty
    <3>1. app' = [app EXCEPT !.at = "release"] /\ UNCHANGED <<agent, chan, tokenRx>>
      BY <2>1 DEF DrainEmpty, agentVars
    <3>2. app'.msgs = app.msgs /\ app'.cur = app.cur /\ app'.streaming = app.streaming
      BY <3>1, AppIs
    <3>3. Len(app'.msgs) \in Nat /\ Len(app'.msgs) <= Len(app.msgs)
      BY <3>2, RowsNow
    <3> QED BY <3>1, <3>2, <3>3, StayBounded
  <2> QED BY <1>1, <2>1, MessageBounded, LeaveBounded, ReleaseBounded, SettleBounded DEF Loop
<1>2. CASE Key
  BY <1>2, AnswerBounded, LeaveBounded, AskBounded, SwitchBounded DEF Key
<1>3. ASSUME NEW s \in Streams, Agent(s) PROVE RowsAreBounded'
  BY <1>3, AgentBounded
<1>4. CASE UNCHANGED vars
  <2>1. UNCHANGED <<agent, chan, tokenRx>> /\ app' = app
    BY <1>4 DEF vars, agentVars
  <2>2. Len(app'.msgs) \in Nat /\ Len(app'.msgs) <= Len(app.msgs) /\ app'.cur = app.cur
        /\ app'.streaming = app.streaming
    BY <2>1, RowsNow
  <2> QED BY <2>1, <2>2, StayBounded
<1> QED BY <1>1, <1>2, <1>3, <1>4 DEF Next

(* App has its fields and nothing else: it is only ever updated. *)
IsRecord(a) == a = [f \in DOMAIN a |-> a[f]]

LEMMA InitIsRecord == Init => IsRecord(app)
BY DEF Init, IsRecord

LEMMA StaysRecord == ASSUME IsRecord(app), [Next]_vars PROVE IsRecord(app')
<1>1. CASE DrainStart \/ DrainToken \/ DrainToolStart \/ DrainApproval \/ DrainDisconnected \/ DrainEmpty
  BY <1>1 DEF IsRecord, DrainStart, DrainToken, DrainToolStart, DrainApproval, DrainDisconnected, DrainEmpty
<1>2. ASSUME NEW type, DrainToolEnd(type) PROVE IsRecord(app')
  <2>1. \E rows : app' = [app EXCEPT !.at = "drain", !.msgs = rows]
    BY <1>2, Zenon DEF DrainToolEnd
  <2> QED BY <2>1 DEF IsRecord
<1>3. ASSUME NEW type, DrainEnd(type) PROVE IsRecord(app')
  BY <1>3 DEF IsRecord, DrainEnd
<1>4. ASSUME NEW k, Release(k) PROVE IsRecord(app')
  BY <1>4 DEF IsRecord, Release
<1>5. CASE FinalizeErr \/ FinalizeDone
  BY <1>5 DEF IsRecord, FinalizeErr, FinalizeDone, Settle
<1>6. ASSUME NEW yes, AnswerPrompt(yes) PROVE IsRecord(app')
  BY <1>6 DEF IsRecord, AnswerPrompt
<1>7. IsRecord(Cancelled) /\ IsRecord(Interrupted)
  BY DEF IsRecord, Interrupted, Cancelled
<1>8. CASE Cancel
  BY <1>7, <1>8 DEF Cancel
<1>9. CASE Ask \/ AskAside \/ ClearConversation
  BY <1>9 DEF IsRecord, Ask, AskAside, ClearConversation
<1>10. ASSUME NEW rows, SwitchConversation(rows) PROVE IsRecord(app')
  <2>1. app' = Interrupted \/ app' = [Interrupted EXCEPT !.msgs = rows, !.disk = rows]
    BY <1>10 DEF SwitchConversation
  <2> QED BY <1>7, <2>1 DEF IsRecord
<1>11. ASSUME NEW saved, Close(saved) PROVE IsRecord(app')
  BY <1>11 DEF IsRecord, Close
<1>12. CASE UNCHANGED app
  BY <1>12
<1> QED BY <1>1, <1>2, <1>3, <1>4, <1>5, <1>6, <1>8, <1>9, <1>10, <1>11, <1>12
        DEF Next, Loop, Key, Agent, Quit, PaneGone, vars

LEMMA TypesAreGood ==
  ASSUME IInv, ChatIsGood, RowsAreBounded, IsRecord(app)
  PROVE  TypeOK
<1>1. AgentTypeOK
  <2>1. app.cur \in 0..MaxStreams
    BY AppIs
  <2>2. cancelled \subseteq Streams
    BY <2>1, AgentAssumption DEF IInv, CancelledIsLeft, Streams
  <2>3. AgentRecord = [at : AgentState, tools : BOOLEAN, round : 0..MaxRounds,
                       said : 0..(MaxTokens + 1), calls : 0..MaxTools, asked : Nat]
    BY DEF AgentRecord, RoundNumber, Said, CallsLeft
  <2> QED BY <2>2, <2>3 DEF AgentTypeOK, IInv, AgentsAreGood
<1>2. app \in [at : {"drain", "release", "finalize", "input", "closed"}, cur : 0..MaxStreams,
               streaming : BOOLEAN, transient : BOOLEAN, nextCtx : BOOLEAN,
               ended : {"no", "done", "err"}, queue : Seq(Streams \X Nat),
               msgs : Seq(Row), approval : {NoPrompt} \cup (Streams \X Nat), disk : Seq(Row)]
  BY DEF IInv, AppShape, IsRecord, ChatIsGood, ScreenIsGood, GoodRows, GoodSaved
<1>3. Len(app.msgs) < MaxRows + MaxStreams * (2 + MaxRounds * (1 + 2 * MaxTools))
  <2>1. Questions(MaxStreams) = MaxStreams * (2 + MaxRounds * (1 + 2 * MaxTools))
    BY DEF Questions, PerStream, Rounds, PerRound
  <2>2. Len(app.msgs) + Held + LastError + Questions(MaxStreams - app.cur) < MaxRows + Questions(MaxStreams)
    BY DEF RowsAreBounded
  <2>3. /\ Len(app.msgs) \in Nat /\ Held \in Nat /\ LastError \in 0..1 /\ MaxRows \in Nat
        /\ Questions(MaxStreams - app.cur) \in Nat /\ Questions(MaxStreams) \in Nat
    BY RowsNow, QuestionsLeft, AiChatAssumption
  <2>4. Len(app.msgs) < MaxRows + Questions(MaxStreams)
    BY <2>2, <2>3
  <2> QED BY <2>1, <2>4
<1> QED BY <1>1, <1>2, <1>3 DEF TypeOK

(* There is a bound on the rows although only questions trim them: it      *)
(* counts what is on its way and what every thread may still say.          *)
THEOREM ChatRowsAreBounded == Spec => []RowsAreBounded
<1>1. IInv /\ (ChatIsGood /\ Unasked) /\ RowsAreBounded /\ [Next]_vars => RowsAreBounded'
  BY NextBounded
<1> QED BY <1>1, InitBounded, ChatInvariant, ChatRowsInvariant, PTL DEF Spec

(* The state of the overlay, its threads and their channels has its types, *)
(* and the screen holds no more rows than the bound.                       *)
THEOREM ChatTypeOK == Spec => []TypeOK
<1>1. Spec => []IsRecord(app)
  <2>1. IsRecord(app) /\ [Next]_vars => IsRecord(app)'
    BY StaysRecord
  <2> QED BY <2>1, InitIsRecord, PTL DEF Spec
<1>2. IInv /\ (ChatIsGood /\ Unasked) /\ RowsAreBounded /\ IsRecord(app) => TypeOK
  BY TypesAreGood
<1> QED BY <1>1, <1>2, ChatInvariant, ChatRowsInvariant, ChatRowsAreBounded, PTL
=============================================================================
