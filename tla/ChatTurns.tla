------------------------------ MODULE ChatTurns ------------------------------
(***************************************************************************)
(* A chat turn: POST /chat admits at most one turn per user and            *)
(* MaxConcurrent in all, a spawned task drives the model-and-tools loop    *)
(* and sends frames through a bounded channel, and a whole-turn deadline,  *)
(* the provider's stream and the browser each may end it at any await.     *)
(*                                                                         *)
(* The provider's stream is a sequence of decoded chunks; a tool call is   *)
(* assembled from fragments, and the stream may stop at any chunk.         *)
(***************************************************************************)
EXTENDS Integers, Sequences, FiniteSets

CONSTANTS
    Turns,         \* requests
    User,          \* [Turns -> users]: who sent the request
    MaxConcurrent, \* max_concurrent_turns
    MaxRounds,     \* max_tool_iterations
    Buffer,        \* EVENT_BUFFER
    Chunks,        \* the chunks the provider may send
    MaxChunks,     \* bound: chunks of one stream
    Defects,       \* what may be wrong with a tool call's arguments
    Tools,         \* the tools the model asks for
    Impatient      \* the turns whose client may leave while it waits to be admitted

VARIABLES
    inflight, \* ChatLimits.inflight: the users with a turn in flight
    permits,  \* the turns that hold a permit of the semaphore
    turn,     \* [Turns -> the state of the request and of its task]
    queue,    \* [Turns -> how many frames are in the channel]
    sent,     \* [Turns -> the last frame sent, and how many terminal ones]
    client    \* [Turns -> "there" | "gone"]

vars == <<inflight, permits, turn, queue, sent, client>>

ReadTools == {"list_repo_sessions", "get_environment_profile"}
ProposalTools == {"draft_trigger_session", "draft_work_item", "propose_stop_session",
                  "propose_create_repository", "draft_environment_profile",
                  "propose_delete_environment_profile", "propose_uninstall_app"}
NoCall == [name |-> "", args |-> "", bad |-> "none"]
NoStream == [tool |-> NoCall, open |-> FALSE, flushed |-> FALSE, n |-> 0]
New == [pc |-> "new", round |-> 0, sse |-> NoStream, calls |-> <<>>, at |-> 0,
        msgs |-> <<>>, frame |-> "none", ran |-> {}]
Terminal == {"done", "error"}
-----------------------------------------------------------------------------
(* ChatLimits.admit: the user's entry is taken first, then the permit is   *)
(* awaited for the grace period; a rejection gives the entry back.         *)
Reject(t) == inflight
AdmitUser(t) ==
    /\ turn[t].pc = "new"
    /\ \/ /\ User[t] \in inflight
          /\ turn' = [turn EXCEPT ![t].pc = "rejected"]
          /\ inflight' = Reject(t)
       \/ /\ User[t] \notin inflight
          /\ inflight' = inflight \cup {User[t]}
          /\ turn' = [turn EXCEPT ![t].pc = "grace"]
    /\ UNCHANGED <<permits, queue, sent, client>>

Free == Cardinality(permits) < MaxConcurrent
Granted(t) == [turn EXCEPT ![t].pc = "round"]
AdmitPermit(t) ==
    /\ turn[t].pc = "grace" /\ Free /\ permits' = permits \cup {t}
    /\ turn' = Granted(t)
    /\ UNCHANGED <<inflight, queue, sent, client>>
GraceRelease(t) == inflight \ {User[t]}
GraceElapsed(t) ==
    /\ turn[t].pc = "grace" /\ ~Free
    /\ inflight' = GraceRelease(t)
    /\ turn' = [turn EXCEPT ![t].pc = "rejected"]
    /\ UNCHANGED <<permits, queue, sent, client>>

(* The browser leaves while admit() waits for a permit: the handler's      *)
(* future is dropped with the user's entry in the set and no guard that    *)
(* would take it out.  With a permit free the first poll takes it; a wait  *)
(* dropped after it was handed one hands it on, as if dropped before.      *)
LeaveGrace(t) ==
    /\ t \in Impatient /\ turn[t].pc = "grace" /\ ~Free
    /\ turn' = [turn EXCEPT ![t].pc = "dropped"]
    /\ client' = [client EXCEPT ![t] = "gone"]
    /\ UNCHANGED <<inflight, permits, queue, sent>>

(* The task ends and the guard is dropped.                                 *)
DropAdmission(t) == permits' = permits \ {t} /\ inflight' = inflight \ {User[t]}
-----------------------------------------------------------------------------
(* send(): waits for room in the channel, fails when the receiver is gone. *)
CanSend(t) == client[t] = "gone" \/ queue[t] < Buffer
Sending(t, frame, next) ==
    /\ CanSend(t)
    /\ IF client[t] = "gone"
         THEN /\ turn' = [turn EXCEPT ![t].pc = "end"] /\ UNCHANGED <<queue, sent>>
         ELSE /\ queue' = [queue EXCEPT ![t] = @ + 1]
              /\ sent' = [sent EXCEPT ![t].last = frame,
                            ![t].terminal = IF frame \in Terminal THEN @ + 1 ELSE @]
              /\ turn' = [turn EXCEPT ![t] = next]

(* TurnFailure::event(): the error frame, except when the client is gone.  *)
Fail(t) == turn' = [turn EXCEPT ![t].pc = "fail"] /\ UNCHANGED <<queue, sent>>

(* drive(): one round is one request with all the messages so far.         *)
RoundStart(t) ==
    /\ turn[t].pc = "round"
    /\ IF turn[t].round < MaxRounds
         THEN Sending(t, "round", [turn[t] EXCEPT !.pc = "stream", !.sse = NoStream,
                                                  !.calls = <<>>, !.at = 0])
         ELSE Fail(t)
    /\ UNCHANGED <<inflight, permits, client>>

(* flush_tool_calls: once per stream, and a fragment without a name is     *)
(* dropped.                                                                *)
Flush(s) == IF s.flushed \/ ~s.open \/ s.tool.name = "" THEN <<>> ELSE <<s.tool>>
Flushed(s) == [s EXCEPT !.flushed = s.flushed \/ s.open, !.open = FALSE,
                        !.tool = NoCall]
More == [a \in {"", "part", "whole"} |-> IF a = "" THEN "part" ELSE "whole"]
EndStream(t, s, calls) ==
    turn' = [turn EXCEPT ![t].pc = "closing", ![t].sse = s, ![t].calls = calls]

(* process_frame, one chunk at a time, and the end of the body.            *)
Chunk(t, c) ==
    LET s == [turn[t].sse EXCEPT !.n = turn[t].sse.n + 1] IN
    /\ turn[t].pc = "stream" /\ c \in Chunks /\ turn[t].sse.n < MaxChunks
    /\ \/ /\ c = "text"
          /\ Sending(t, "delta", [turn[t] EXCEPT !.sse = s])
       \/ /\ c = "name"
          /\ \E name \in Tools, bad \in Defects :
               turn' = [turn EXCEPT ![t].sse =
                          [s EXCEPT !.open = TRUE, !.tool.name = name, !.tool.bad = bad]]
          /\ UNCHANGED <<queue, sent>>
       \/ /\ c = "args"
          /\ turn' = [turn EXCEPT ![t].sse =
                        [s EXCEPT !.open = TRUE, !.tool.args = More[s.tool.args]]]
          /\ UNCHANGED <<queue, sent>>
       \/ /\ c = "tool_calls"
          /\ turn' = [turn EXCEPT ![t].sse = Flushed(s),
                                  ![t].calls = IF Flush(s) = <<>> THEN turn[t].calls
                                               ELSE Flush(s)]
          /\ UNCHANGED <<queue, sent>>
       \/ c = "bad" /\ Fail(t)
    /\ UNCHANGED <<inflight, permits, client>>
StreamEnds(t) ==
    LET s == turn[t].sse IN
    /\ turn[t].pc = "stream"
    /\ EndStream(t, Flushed(s), IF Flush(s) = <<>> THEN turn[t].calls ELSE Flush(s))
    /\ UNCHANGED <<inflight, permits, queue, sent, client>>

RoundEnd(t) ==
    /\ turn[t].pc = "closing"
    /\ Sending(t, "round_end",
               IF turn[t].calls = <<>> THEN [turn[t] EXCEPT !.pc = "finish"]
               ELSE [turn[t] EXCEPT !.pc = "call", !.at = 1,
                       !.msgs = Append(@, [kind |-> "assistant", n |-> Len(turn[t].calls)])])
    /\ UNCHANGED <<inflight, permits, client>>
Finish(t) ==
    /\ turn[t].pc = "finish"
    /\ Sending(t, "done", [turn[t] EXCEPT !.pc = "end"])
    /\ UNCHANGED <<inflight, permits, client>>
-----------------------------------------------------------------------------
(* The tools.  Arguments are required, optional or clamped by the tool;    *)
(* what the drafts of an action refuse is refused by each propose_*.       *)
RequiredStr(c) == c.bad # "missing"
Drafts(c, refused) == IF c.bad \in refused THEN "rejected" ELSE "presented"
DraftTriggerSession(c) == Drafts(c, {"blank", "no_source", "bad_ref", "comma", "long"})
DraftWorkItem(c) == Drafts(c, {"blank", "bad_number", "long"})
ProposeStopSession(c) == Drafts(c, {"blank", "bad_number", "long"})
ProposeCreateRepository(c) == Drafts(c, {"blank", "bad_name", "long"})
DraftEnvironmentProfile(c) ==
    Drafts(c, {"blank", "bad_name", "no_install", "too_many", "reserved", "clash", "long"})
ProposeDeleteEnvironmentProfile(c) == Drafts(c, {"blank", "bad_name"})
ProposeUninstallApp(c) == Drafts(c, {"blank", "long"})
Draft(c) ==
    CASE c.name = "draft_trigger_session" -> DraftTriggerSession(c)
      [] c.name = "draft_work_item" -> DraftWorkItem(c)
      [] c.name = "propose_stop_session" -> ProposeStopSession(c)
      [] c.name = "propose_create_repository" -> ProposeCreateRepository(c)
      [] c.name = "draft_environment_profile" -> DraftEnvironmentProfile(c)
      [] c.name = "propose_delete_environment_profile" -> ProposeDeleteEnvironmentProfile(c)
      [] OTHER -> ProposeUninstallApp(c)

(* SelfDispatch.get: the router's answer, its own timeout as a 504, or an  *)
(* error that becomes the tool's result.                                   *)
Dispatched == {"200", "403", "504", "error"}

(* arguments_or_empty and the JSON parse: nothing at all is {}, a cut-off  *)
(* text is not JSON and no tool is invoked.                                *)
Parses(c) == c.args \in {"", "whole"}
Invoke(c) == IF ~Parses(c) THEN {"not_json"}
             ELSE IF c.name \notin ReadTools \cup ProposalTools THEN {"unknown"}
             ELSE IF c.args = "" \/ ~RequiredStr(c) THEN {"invalid"}
             ELSE IF c.name \in ReadTools THEN Dispatched
             ELSE {Draft(c)}

(* cards::project and collect_session_refs only look at a 200.             *)
Card(c, r) == r = "200" /\ c.name = "get_environment_profile"

Call(t) == turn[t].calls[turn[t].at]
ToolCall(t) ==
    /\ turn[t].pc = "call"
    /\ Sending(t, "tool_call", [turn[t] EXCEPT !.pc = "invoke"])
    /\ UNCHANGED <<inflight, permits, client>>
ToolResult(t) ==
    /\ turn[t].pc = "invoke"
    /\ \E r \in Invoke(Call(t)) :
         Sending(t, "tool_result",
                 [turn[t] EXCEPT
                    !.pc = IF Card(Call(t), r) \/ r = "presented" THEN "extra" ELSE "result",
                    !.frame = IF r = "presented" THEN "proposal" ELSE
                              IF Card(Call(t), r) THEN "card" ELSE "none",
                    !.ran = @ \cup (IF r \in {"not_json", "unknown"} THEN {}
                                    ELSE {Call(t).args})])
    /\ UNCHANGED <<inflight, permits, client>>
Extra(t) ==
    /\ turn[t].pc = "extra"
    /\ Sending(t, turn[t].frame, [turn[t] EXCEPT !.pc = "result", !.frame = "none"])
    /\ UNCHANGED <<inflight, permits, client>>
ResultMissing(t) == turn[t].msgs
ResultMessage(t) == Append(turn[t].msgs, [kind |-> "tool", n |-> turn[t].at])
PushResult(t) ==
    /\ turn[t].pc = "result"
    /\ turn' = [turn EXCEPT
                  ![t].msgs = ResultMessage(t),
                  ![t].at = IF @ = Len(turn[t].calls) THEN 0 ELSE @ + 1,
                  ![t].pc = IF turn[t].at = Len(turn[t].calls) THEN "round" ELSE "call",
                  ![t].round = IF turn[t].at = Len(turn[t].calls) THEN @ + 1 ELSE @]
    /\ UNCHANGED <<inflight, permits, queue, sent, client>>
-----------------------------------------------------------------------------
(* run_turn: the deadline drops drive() at any of its awaits; the failure  *)
(* frame is then sent without a deadline, and the admission is dropped.    *)
Driving == {"round", "stream", "closing", "finish", "call", "invoke", "extra", "result"}
AtDeadline(t) == [turn EXCEPT ![t].pc = "fail"]
Deadline(t) ==
    /\ turn[t].pc \in Driving
    /\ turn' = AtDeadline(t)
    /\ UNCHANGED <<inflight, permits, queue, sent, client>>
SendError(t) ==
    /\ turn[t].pc = "fail"
    /\ Sending(t, "error", [turn[t] EXCEPT !.pc = "end"])
    /\ UNCHANGED <<inflight, permits, client>>
End(t) ==
    /\ turn[t].pc = "end"
    /\ turn' = [turn EXCEPT ![t].pc = "ended"]
    /\ DropAdmission(t)
    /\ UNCHANGED <<queue, sent, client>>

(* The browser.                                                            *)
Receive(t) ==
    /\ client[t] = "there" /\ queue[t] > 0
    /\ queue' = [queue EXCEPT ![t] = @ - 1]
    /\ UNCHANGED <<inflight, permits, turn, sent, client>>
Leave(t) ==
    /\ client[t] = "there" /\ turn[t].pc \in Driving \cup {"fail", "end", "ended"}
    /\ client' = [client EXCEPT ![t] = "gone"]
    /\ queue' = [queue EXCEPT ![t] = 0]
    /\ UNCHANGED <<inflight, permits, turn, sent>>

Init ==
    /\ inflight = {} /\ permits = {}
    /\ turn = [t \in Turns |-> New]
    /\ queue = [t \in Turns |-> 0]
    /\ sent = [t \in Turns |-> [last |-> "none", terminal |-> 0]]
    /\ client = [t \in Turns |-> "there"]

Task(t) == \/ RoundStart(t) \/ StreamEnds(t) \/ RoundEnd(t) \/ Finish(t) \/ ToolCall(t)
           \/ ToolResult(t) \/ Extra(t) \/ PushResult(t) \/ SendError(t) \/ End(t)
Grace(t) == AdmitPermit(t) \/ GraceElapsed(t)
Next == \E t \in Turns :
            \/ AdmitUser(t) \/ Grace(t) \/ LeaveGrace(t)
            \/ \E c \in Chunks : Chunk(t, c)
            \/ Task(t) \/ Deadline(t) \/ Receive(t) \/ Leave(t)
Spec == Init /\ [][Next]_vars

(* The runtime polls every task that is ready, the timers of the grace and *)
(* of the deadline fire, and a browser that stays reads what arrives.      *)
FairSpec == /\ Spec
            /\ \A t \in Turns : /\ WF_vars(Grace(t)) /\ WF_vars(Task(t))
                                /\ WF_vars(Receive(t))
-----------------------------------------------------------------------------
(* The shape of the state; the ceiling of the permits and the bound of the *)
(* channel hold.                                                           *)
TypeOK ==
    /\ Cardinality(permits) <= MaxConcurrent
    /\ \A t \in Turns :
         /\ queue[t] \in 0..Buffer /\ turn[t].round \in 0..MaxRounds
         /\ turn[t].pc \in {"new", "grace", "rejected", "dropped", "fail", "end", "ended"}
                           \cup Driving
         /\ client[t] \in {"there", "gone"}

(* Two turns of one user are never driven at the same time, and whoever is *)
(* driven holds a permit.                                                  *)
Live(t) == turn[t].pc \in Driving \cup {"fail", "end"}
OneTurnPerUser ==
    /\ \A t \in Turns : Live(t) => t \in permits /\ User[t] \in inflight
    /\ \A t, u \in Turns : Live(t) /\ Live(u) /\ User[t] = User[u] => t = u

(* The browser never has to guess from a closed socket: when the task has  *)
(* ended, the last frame is the one terminal frame.                        *)
TerminalFrame ==
    \A t \in Turns :
        /\ turn[t].pc = "ended" /\ client[t] = "there" =>
               sent[t].last \in Terminal /\ sent[t].terminal = 1
        /\ sent[t].terminal > 0 => sent[t].last \in Terminal

(* What the provider is sent is a conversation it accepts: at each request *)
(* every tool call the assistant made has its one result, in order.        *)
HistoryWellFormed ==
    \A t \in Turns : turn[t].pc = "stream" =>
        LET m == turn[t].msgs IN
        \A i \in 1..Len(m) : m[i].kind = "assistant" =>
            /\ i + m[i].n <= Len(m)
            /\ \A k \in 1..m[i].n : m[i + k] = [kind |-> "tool", n |-> k]

(* A stream that stops inside a tool call's arguments invokes no tool with *)
(* them, though it is honoured like a finished one.                        *)
NoHalfCall == \A t \in Turns : "part" \notin turn[t].ran

(* A user is counted as busy only while a request of theirs is, unless a   *)
(* browser left while its request waited for a permit.                     *)
Locked(u) == u \in inflight /\ \A t \in Turns : User[t] = u => turn[t].pc # "grace" /\ ~Live(t)
Lost(u) == \E t \in Turns : User[t] = u /\ turn[t].pc = "dropped"
LockedForAReason == \A u \in {User[t] : t \in Turns} : Locked(u) => Lost(u)

(* Every exit path releases the guard, the browser's disconnect included:  *)
(* nobody is locked out for good.                                          *)
NobodyLockedOut == \A u \in {User[t] : t \in Turns} : ~Locked(u)

(* Every admitted turn gives its places back, whatever ended it.           *)
AllFree == permits = {} /\ \A u \in inflight : Lost(u)

(* What holds of the turns at every state.                                 *)
TurnsSafe ==
    /\ TypeOK /\ OneTurnPerUser /\ LockedForAReason
    /\ TerminalFrame /\ HistoryWellFormed /\ NoHalfCall
=============================================================================
