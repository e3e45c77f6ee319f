------------------------------- MODULE AiChat -------------------------------
(***************************************************************************)
(* The AI chat overlay of hiterm-gui/src/overlay/ai_chat, together with    *)
(* the agent threads of module ChatAgent.                                  *)
(*                                                                         *)
(* The overlay is one thread.  Its loop drains the channel of the current  *)
(* stream, releases buffered text into the message rows at typewriter      *)
(* pace, finalizes a stream that ended, and takes one key.  Between any    *)
(* two of these steps the agents run.  Rows shown for information only     *)
(* (complete and never saved) change no decision below and are left out.   *)
(***************************************************************************)
EXTENDS ChatAgent, SequencesExt

CONSTANTS
  MaxRows,     \* MAX_DISPLAY_MESSAGES
  CanResume    \* is there an earlier conversation in the index?

(* There is room for a question and a row before it. *)
ASSUME AiChatAssumption == MaxRows \in Nat \ {0, 1} /\ CanResume \in BOOLEAN

VARIABLE app   \* App: the fields the loop decides by, and what it last saved

vars == <<agentVars, app>>

NoPrompt == <<0, 0>>

(* A message row.  of: the stream it was opened for; by: the chunks        *)
(* (stream, round) its content is made of.                                 *)
Row == [role : {"user", "text", "tool"}, of : 0..MaxStreams,
        by : SUBSET (Streams \X Nat), complete : BOOLEAN, ctx : BOOLEAN]

NewRow(role, s, complete, ctx) ==
  [role |-> role, of |-> s, by |-> {}, complete |-> complete, ctx |-> ctx]

(* Text that does not come from the model (errors, tool results) counts as *)
(* said after the last round.                                              *)
OwnText(s) == {<<s, MaxRounds>>}

ErrorRow(s) == [NewRow("text", s, TRUE, FALSE) EXCEPT !.by = OwnText(s)]

(* What /new and /resume can put on the screen: nothing, or the one        *)
(* question of an earlier conversation.                                    *)
Restored == <<NewRow("user", 0, TRUE, FALSE)>>
Targets == IF CanResume THEN {<<>>, Restored} ELSE {<<>>}

TypeOK ==
  /\ AgentTypeOK
  /\ app \in [at : {"drain", "release", "finalize", "input", "closed"}, cur : 0..MaxStreams,
              streaming : BOOLEAN, transient : BOOLEAN, nextCtx : BOOLEAN,
              ended : {"no", "done", "err"}, queue : Seq(Streams \X Nat),
              msgs : Seq(Row), approval : {NoPrompt} \cup (Streams \X Nat), disk : Seq(Row)]
  /\ Len(app.msgs) < MaxRows + MaxStreams * (2 + MaxRounds * (1 + 2 * MaxTools))

(* ended joins stream_pending_done and stream_pending_err: setting either  *)
(* drops the receiver, so the other cannot follow.                         *)
Init ==
  /\ AgentInit
  /\ app = [at |-> "drain", cur |-> 0, streaming |-> FALSE, transient |-> FALSE,
            nextCtx |-> FALSE, ended |-> "no", queue |-> <<>>, msgs |-> <<>>,
            approval |-> NoPrompt, disk |-> <<>>]

-----------------------------------------------------------------------------
(* Helpers over rows.                                                      *)

LastOpenText(rows) == SelectLastInSeq(rows, LAMBDA m : m.role # "tool" /\ ~m.complete)
LastOpenTool(rows) == SelectLastInSeq(rows, LAMBDA m : m.role = "tool" /\ ~m.complete)

CompleteLast(rows) ==
  LET i == LastOpenText(rows) IN
  IF i = 0 THEN rows ELSE [rows EXCEPT ![i].complete = TRUE]

(* The rows at the positions K, in their order. *)
Kept(rows, K) ==
  LET upto[n \in 0..Len(rows)] ==
        IF n = 0 THEN <<>>
        ELSE IF n \in K THEN Append(upto[n - 1], rows[n]) ELSE upto[n - 1]
  IN upto[Len(rows)]

(* collect_persisted_messages *)
Persisted(rows) ==
  Kept(rows, {i \in DOMAIN rows : ~rows[i].ctx /\ rows[i].role # "tool" /\ rows[i].complete})

-----------------------------------------------------------------------------
(* drain_tokens, phase 1: the channel.                                     *)

(* The poll for a key may return without one, so draining may follow at once. *)
Draining == app.at \in {"input", "drain"}

Incoming(type) ==
  /\ Draining /\ tokenRx # 0
  /\ chan[tokenRx] # <<>> /\ Head(chan[tokenRx]).type = type

Pop == chan' = [chan EXCEPT ![tokenRx] = Tail(@)]
DropReceiver ==
  /\ chan' = IF tokenRx = 0 THEN chan ELSE [chan EXCEPT ![tokenRx] = <<>>]
  /\ tokenRx' = 0

DrainStart ==
  /\ Incoming("start") /\ Pop
  /\ app' = [app EXCEPT !.at = "drain", !.nextCtx = FALSE, !.msgs =
       Append(@, NewRow("text", tokenRx, FALSE, app.nextCtx))]
  /\ UNCHANGED <<agent, tokenRx, cancelled, hist>>

DrainToken ==
  /\ Incoming("token") /\ Pop
  /\ app' = [app EXCEPT !.at = "drain", !.queue = Append(@, <<tokenRx, Head(chan[tokenRx]).n>>)]
  /\ UNCHANGED <<agent, tokenRx, cancelled, hist>>

DrainToolStart ==
  /\ Incoming("toolStart") /\ Pop
  /\ app' = [app EXCEPT !.at = "drain", !.msgs = Append(@, NewRow("tool", tokenRx, FALSE, FALSE))]
  /\ UNCHANGED <<agent, tokenRx, cancelled, hist>>

(* A result goes to the last open tool row; without one, a failure gets a  *)
(* row of its own.                                                         *)
DrainToolEnd(type) ==
  LET i == LastOpenTool(app.msgs) IN
  /\ Incoming(type) /\ Pop
  /\ app' = [app EXCEPT !.at = "drain", !.msgs =
       IF i # 0 THEN [@ EXCEPT ![i].complete = TRUE, ![i].by = OwnText(tokenRx)]
       ELSE IF type = "toolFailed" THEN Append(@, ErrorRow(tokenRx)) ELSE @]
  /\ UNCHANGED <<agent, tokenRx, cancelled, hist>>

DrainApproval ==
  /\ Incoming("approval") /\ Pop
  /\ app' = [app EXCEPT !.approval = <<tokenRx, Head(chan[tokenRx]).n>>, !.at = "release"]
  /\ UNCHANGED <<agent, tokenRx, cancelled, hist>>

DrainEnd(type) ==
  /\ Incoming(type)
  /\ DropReceiver
  /\ app' = [app EXCEPT !.ended = type, !.at = "release"]
  /\ UNCHANGED <<agent, cancelled, hist>>

(* Mutant: a channel without a sender is taken for an empty one. *)
DrainDisconnectedAsEmpty ==
  /\ Draining /\ tokenRx # 0
  /\ chan[tokenRx] = <<>> /\ agent[tokenRx].at = "exited"
  /\ app' = [app EXCEPT !.at = "release"]
  /\ UNCHANGED agentVars

DrainDisconnected ==
  /\ Draining /\ tokenRx # 0
  /\ chan[tokenRx] = <<>> /\ agent[tokenRx].at = "exited"
  /\ DropReceiver
  /\ app' = [app EXCEPT !.ended = "done", !.at = "release"]
  /\ UNCHANGED <<agent, cancelled, hist>>

DrainEmpty ==
  /\ Draining
  /\ tokenRx # 0 => chan[tokenRx] = <<>> /\ agent[tokenRx].at # "exited"
  /\ app' = [app EXCEPT !.at = "release"]
  /\ UNCHANGED agentVars

-----------------------------------------------------------------------------
(* Phases 2 and 3.                                                         *)

Released(k) == {app.queue[i] : i \in 1..k}

(* Mutant: a stream that ended is finalized while text is still buffered. *)
AfterReleaseEarly(k) == IF app.ended # "no" THEN "finalize" ELSE "input"

(* A stream that ended is finalized once its text is out. *)
AfterRelease(k) ==
  IF k = Len(app.queue) /\ app.ended # "no" THEN "finalize" ELSE "input"

(* Mutant: the search for the open row starts at the front. *)
AddTextToFirst(rows, chunks) ==
  LET i == SelectInSeq(rows, LAMBDA m : m.role # "tool" /\ ~m.complete) IN
  IF i = 0 THEN rows ELSE [rows EXCEPT ![i].by = @ \cup chunks]

(* Text goes to the last open text row; without one it is dropped. *)
AddText(rows, chunks) ==
  LET i == LastOpenText(rows) IN
  IF i = 0 THEN rows ELSE [rows EXCEPT ![i].by = @ \cup chunks]

(* Some of the buffered text, at least one chunk if there is any, is let   *)
(* out.                                                                    *)
Release(k) ==
  /\ app.at = "release"
  /\ k \in 0..Len(app.queue) /\ (k = 0 => app.queue = <<>>)
  /\ app' = [app EXCEPT !.at = AfterRelease(k), !.queue = SubSeq(@, k + 1, Len(@)),
       !.msgs = AddText(@, Released(k))]
  /\ UNCHANGED agentVars

Settle(rows) ==
  app' = [app EXCEPT !.msgs = rows, !.ended = "no", !.streaming = FALSE, !.transient = FALSE,
                     !.disk = IF app.transient THEN @ ELSE Persisted(rows), !.at = "input"]

(* The error replaces what is open in the last row.                        *)
FinalizeErr ==
  LET last == Len(app.msgs) IN
  /\ app.at = "finalize" /\ app.ended = "err"
  /\ IF last = 0 \/ app.msgs[last].role = "tool" \/ app.msgs[last].complete
       THEN Settle(Append(app.msgs, ErrorRow(app.cur)))
       ELSE Settle([app.msgs EXCEPT ![last].complete = TRUE, ![last].by = OwnText(app.cur)])
  /\ UNCHANGED agentVars

Completed(rows) ==
  Kept([i \in DOMAIN rows |-> IF rows[i].role = "tool" THEN rows[i]
                              ELSE [rows[i] EXCEPT !.complete = TRUE]],
       {i \in DOMAIN rows : ~(rows[i].role = "text" /\ ~rows[i].ctx /\ rows[i].by = {})})

(* Every open text row is completed; rows that stayed empty are removed. *)
FinalizeDone ==
  /\ app.at = "finalize" /\ app.ended = "done"
  /\ Settle(Completed(app.msgs))
  /\ UNCHANGED agentVars

-----------------------------------------------------------------------------
(* One key.  While a prompt is open, every key but Enter and Esc is        *)
(* ignored.                                                                *)

KeyAccepted == app.at = "input" /\ app.approval = NoPrompt

(* Enter or Esc on a prompt.  The rendezvous succeeds only while the agent *)
(* still waits for this very request.                                      *)
AnswerPrompt(yes) ==
  LET s == app.approval[1] IN
  /\ app.at = "input" /\ app.approval # NoPrompt
  /\ app' = [app EXCEPT !.approval = NoPrompt, !.at = "drain"]
  /\ IF agent[s].at = "waiting" /\ agent[s].asked = app.approval[2]
       THEN GoTo(s, IF yes THEN "approved" ELSE "rejected")
       ELSE UNCHANGED agent
  /\ hist' = IF yes THEN [hist EXCEPT !.yes = @ \cup {app.approval}] ELSE hist
  /\ UNCHANGED <<chan, tokenRx, cancelled>>

(* cancel_stream *)
Cancelled == [app EXCEPT !.streaming = FALSE, !.queue = <<>>, !.ended = "no", !.at = "drain"]

(* Mutant: Esc cancels although a prompt is open. *)
CancelIgnoresPrompt ==
  /\ app.at = "input"
  /\ app.streaming \/ app.queue # <<>>
  /\ DropReceiver
  /\ cancelled' = cancelled \cup {app.cur}
  /\ app' = Cancelled
  /\ UNCHANGED <<agent, hist>>

(* Mutant: cancelling leaves the spinner on. *)
CancelKeepsStreaming ==
  /\ KeyAccepted
  /\ app.streaming \/ app.queue # <<>>
  /\ DropReceiver
  /\ cancelled' = cancelled \cup {app.cur}
  /\ app' = [Cancelled EXCEPT !.streaming = TRUE]
  /\ UNCHANGED <<agent, hist>>

Cancel ==
  /\ KeyAccepted
  /\ app.streaming \/ app.queue # <<>>
  /\ DropReceiver
  /\ cancelled' = cancelled \cup {app.cur}
  /\ app' = Cancelled
  /\ UNCHANGED <<agent, hist>>

(* Enter during a stream cancels it and completes the open row before the  *)
(* input is looked at.                                                     *)
Interrupted ==
  IF app.streaming THEN [Cancelled EXCEPT !.msgs = CompleteLast(@)]
  ELSE [app EXCEPT !.at = "drain"]

Interrupts == cancelled' = IF app.streaming THEN cancelled \cup {app.cur} ELSE cancelled

Trimmed(rows) ==
  IF Len(rows) < MaxRows THEN rows ELSE SubSeq(rows, Len(rows) - MaxRows + 2, Len(rows))

(* A new stream: its receiver replaces the old one. *)
StartStream(s, offered) ==
  /\ agent' = [agent EXCEPT ![s].at = "round", ![s].tools = offered]
  /\ chan' = IF tokenRx = 0 THEN chan ELSE [chan EXCEPT ![tokenRx] = <<>>]
  /\ tokenRx' = s
  /\ Interrupts

(* submit: stream_is_transient is read but never written here. *)
Ask ==
  LET s == app.cur + 1 IN
  /\ KeyAccepted /\ s \in Streams
  /\ StartStream(s, ~app.transient)
  /\ app' = [Interrupted EXCEPT !.cur = s, !.streaming = TRUE, !.queue = <<>>, !.ended = "no",
       !.msgs = Append(Trimmed(@), NewRow("user", s, TRUE, FALSE))]
  /\ UNCHANGED hist

(* Mutant: the answer to come is not marked, only the question is. *)
AskAsideUnmarked ==
  LET s == app.cur + 1 IN
  /\ KeyAccepted /\ s \in Streams
  /\ StartStream(s, FALSE)
  /\ app' = [Interrupted EXCEPT !.cur = s, !.streaming = TRUE, !.queue = <<>>, !.ended = "no",
       !.transient = TRUE,
       !.msgs = Append(@, NewRow("user", s, TRUE, TRUE))]
  /\ hist' = [hist EXCEPT !.btw = @ \cup {s}]

(* submit_btw: no tools; the question is marked so that it is not saved. *)
AskAside ==
  LET s == app.cur + 1 IN
  /\ KeyAccepted /\ s \in Streams
  /\ StartStream(s, FALSE)
  /\ app' = [Interrupted EXCEPT !.cur = s, !.streaming = TRUE, !.queue = <<>>, !.ended = "no",
       !.transient = TRUE, !.nextCtx = TRUE,
       !.msgs = Append(@, NewRow("user", s, TRUE, TRUE))]
  /\ hist' = [hist EXCEPT !.btw = @ \cup {s}]

StopStream ==
  /\ Interrupts
  /\ IF app.streaming THEN DropReceiver ELSE UNCHANGED <<chan, tokenRx>>
  /\ UNCHANGED agent

(* /new with something to archive, or /resume: another conversation.  What *)
(* the old one's file holds is whatever was saved last.                    *)
SwitchConversation(rows) ==
  LET shown == Persisted(Interrupted.msgs) IN
  /\ KeyAccepted
  /\ StopStream
  /\ IF rows = <<>> /\ shown = <<>>
       THEN app' = Interrupted
       ELSE app' = [Interrupted EXCEPT !.msgs = rows, !.disk = rows]
  /\ UNCHANGED hist

(* /clear *)
ClearConversation ==
  /\ KeyAccepted
  /\ StopStream
  /\ app' = [Interrupted EXCEPT !.msgs = <<>>]
  /\ UNCHANGED hist

(* The overlay returns and App is dropped; the agent is not told. *)
Close(saved) ==
  /\ DropReceiver
  /\ app' = [app EXCEPT !.at = "closed", !.streaming = FALSE, !.ended = "no", !.queue = <<>>,
                        !.approval = NoPrompt, !.disk = saved]
  /\ UNCHANGED <<agent, cancelled, hist>>

(* Cmd+W at any time, or Esc with nothing to cancel. *)
Quit ==
  /\ KeyAccepted
  /\ Close(Persisted(IF app.streaming \/ app.ended = "done" THEN CompleteLast(app.msgs)
                     ELSE app.msgs))

(* poll_input or render fails: the pane of the overlay is gone. *)
PaneGone ==
  /\ app.at = "input"
  /\ Close(app.disk)

-----------------------------------------------------------------------------
Loop ==
  \/ DrainStart \/ DrainToken \/ DrainToolStart \/ DrainApproval
  \/ \E type \in {"toolDone", "toolFailed"} : DrainToolEnd(type)
  \/ \E type \in {"done", "err"} : DrainEnd(type)
  \/ DrainDisconnected \/ DrainEmpty
  \/ \E k \in 0..Len(app.queue) : Release(k)
  \/ FinalizeErr \/ FinalizeDone

Key ==
  \/ \E yes \in BOOLEAN : AnswerPrompt(yes)
  \/ Cancel \/ Ask \/ AskAside
  \/ \E rows \in Targets : SwitchConversation(rows)
  \/ ClearConversation \/ Quit \/ PaneGone

Agent(s) == AgentStep(s) /\ UNCHANGED app

Next == Loop \/ Key \/ \E s \in Streams : Agent(s)

Spec == Init /\ [][Next]_vars

FairSpec == Spec /\ WF_vars(Loop) /\ \A s \in Streams : WF_vars(Agent(s))

-----------------------------------------------------------------------------
(* A mutating tool runs only after the user pressed Enter on the prompt    *)
(* for that very call: timeouts, dropped prompts and stale prompts of      *)
(* other calls never start it (run_agent's wait, handle_key's answer).     *)
ApprovedOnly == hist.ran \subseteq hist.yes

(* A prompt of a cancelled stream cannot be approved any more: no cancel   *)
(* leaves the prompt, or a message that would open it, behind.             *)
CancelledIsNeverApproved ==
  [][\A p \in hist'.yes \ hist.yes : p[1] \notin cancelled]_vars

(* The streaming indicator is on exactly while there is something to wait  *)
(* for: a live receiver or an end that is not shown yet; buffered text     *)
(* never outlives it, and a held receiver is the current stream's.         *)
StreamingIsLive ==
  /\ app.streaming <=> (tokenRx # 0 \/ app.ended # "no")
  /\ app.queue # <<>> => app.streaming
  /\ tokenRx \in {0, app.cur}

(* Text of one answer never ends up in the row of another, whatever was    *)
(* cancelled, interrupted or buffered in between.                          *)
TextStaysInStream ==
  \A i \in DOMAIN app.msgs : app.msgs[i].role = "text" =>
    \A c \in app.msgs[i].by : c[1] = app.msgs[i].of

(* What the model says in an aside (/btw) is never written to the file of  *)
(* the conversation, neither when the aside ends nor with a later answer,  *)
(* whatever was cancelled or interrupted (submit_btw, drain_tokens,        *)
(* collect_persisted_messages).                                            *)
AsideTextIsNotSaved ==
  \A i \in DOMAIN app.disk : \A c \in app.disk[i].by :
    c[1] \in hist.btw => c \in OwnText(c[1])

(* When a stream is finalized without error everything the model said in  *)
(* it is on screen in completed rows: the buffer was emptied first, and no *)
(* chunk was released when there was no row to take it.                    *)
AnswerIsComplete ==
  [][FinalizeDone =>
       \A c \in hist.sent : c[1] = app.cur =>
         \E i \in DOMAIN app'.msgs : app'.msgs[i].complete /\ c \in app'.msgs[i].by]_vars

(* Every stream settles: no order of cancel, timeout, panic and approval   *)
(* leaves the overlay streaming for ever.                                  *)
StreamsSettle == app.streaming ~> ~app.streaming

(* Every agent thread ends, also one that nobody listens to any more. *)
AgentsFinish ==
  \A s \in Streams : (agent[s].at # "none") ~> (agent[s].at = "exited")

(* A cancel stops the calls that are left: once it came between two calls,   *)
(* or while the model still spoke, no tool runs for that question any more;  *)
(* only a call already under way may go on (run_agent's loop over the calls).*)
CancelStopsTools ==
  \A s \in Streams :
    [](s \in cancelled /\ agent[s].at \in {"round", "model", "tools", "rejected"}
         => [](agent[s].at # "exec"))
=============================================================================
