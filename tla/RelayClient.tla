----------------------------- MODULE RelayClient -----------------------------
(***************************************************************************)
(* The reverse tunnel (src/src/gateway/relay_client.rs): a loop that keeps *)
(* one registered WebSocket session with the platform, and a task for each *)
(* request that comes through it, which asks the local gateway and sends   *)
(* its answer back in one frame or in a stream of them.                    *)
(*                                                                         *)
(* The loop and the tasks of a session share the sending half behind a     *)
(* mutex, taken for one frame at a time and held while the frame is sent.  *)
(* A session that ends leaves its tasks running: they keep the connection  *)
(* they were started on.                                                   *)
(*                                                                         *)
(* The platform, the network and the local gateway are external.  Bytes    *)
(* are of three kinds: a character of one byte, and the first and the last *)
(* byte of a longer one.                                                   *)
(***************************************************************************)
EXTENDS Integers, Sequences, SequencesExt

CONSTANTS
    Request,         \* request ids
    Streamed,        \* those a local gateway answers with an event stream
    Loop,            \* the session loop, as a holder of the mutex
    None,            \* nobody
    InitialBackoff,  \* INITIAL_BACKOFF
    MaxBackoff,      \* MAX_BACKOFF
    IdlePings,       \* pings that fit into IDLE_TIMEOUT
    Chunk,           \* what a chunk of a local stream may be
    MaxChunks,       \* bound: chunks of one stream
    MaxSessions,     \* bound: connections made in a behaviour
    MaxFails         \* bound: where the count of failed attempts stops

Byte == {"one", "first", "last"}
Session == 1 .. MaxSessions

\* Two to the power of n.
Power[n \in Nat] == IF n = 0 THEN 1 ELSE 2 * Power[n - 1]

ASSUME RelayAssumption ==
    /\ Streamed \subseteq Request
    /\ Loop \notin Request
    /\ None \notin Request \cup {Loop}
    /\ InitialBackoff \in Nat \ {0}
    /\ MaxBackoff \in Nat /\ MaxBackoff >= InitialBackoff
    /\ IdlePings \in Nat \ {0}
    /\ Chunk \subseteq Seq(Byte)
    /\ MaxChunks \in Nat
    /\ MaxSessions \in Nat
    /\ MaxFails \in Nat \ {0} /\ InitialBackoff * Power[MaxFails - 1] >= MaxBackoff

VARIABLES
    phase,    \* where relay_client_loop is
    backoff,
    session,  \* the connection made last
    loop,     \* where the session's loop is: choosing, or sending a ping or pong
    quiet,    \* pings sent since a message was received
    conn,     \* each connection, as the client could find it
    sink,     \* who holds the mutex of a connection's sending half
    task,     \* the task of each request
    sent,     \* history: the frames sent for each request
    fails,    \* history: attempts that failed since the last registered session
    served    \* history: there has been a registered session

vars == <<phase, backoff, session, loop, quiet, conn, sink, task, sent, fails, served>>
dial == <<phase, backoff, session, fails, served>>

\* A task: the frames it has to send, what it does then, the bytes it holds
\* back, and as history what the stream has brought and it has passed on.
NoTask ==
    [at |-> "none", session |-> 0, out |-> <<>>, chunks |-> 0,
     held |-> <<>>, got |-> <<>>, passed |-> <<>>]

\* A task that has ended.
Over(s) == [NoTask EXCEPT !.at = "done", !.session = s]

\* The frame for some text of a stream: none where there is no text.
Part(text) == IF text = <<>> THEN <<>> ELSE <<"part">>

-----------------------------------------------------------------------------
(* UTF-8.                                                                  *)

Valid(bytes) ==
    \A i \in DOMAIN bytes :
        /\ bytes[i] = "first" => i < Len(bytes) /\ bytes[i + 1] = "last"
        /\ bytes[i] = "last" => i > 1 /\ bytes[i - 1] = "first"

\* Only the last character is not complete.
Cut(bytes) == bytes # <<>> /\ Last(bytes) = "first" /\ Valid(Front(bytes))

\* from_utf8_lossy of what is not UTF-8.
Lossy == <<"replaced">>

\* Mutation: whatever has come is passed on at once.
Drain_Eager(bytes) ==
    [text |-> IF Valid(bytes) THEN bytes ELSE Lossy, held |-> <<>>]

\* drain_utf8_chunk: what is passed on and what is held back.
Drain(bytes) ==
    CASE Valid(bytes) -> [text |-> bytes, held |-> <<>>]
      [] Cut(bytes) -> [text |-> Front(bytes), held |-> <<Last(bytes)>>]
      [] OTHER -> [text |-> Lossy, held |-> <<>>]

-----------------------------------------------------------------------------
(* relay_client_loop.                                                      *)

Least(a, b) == IF a <= b THEN a ELSE b

Connect ==
    /\ phase = "connect"
    /\ session < MaxSessions
    /\ phase' = "register"
    /\ session' = session + 1
    /\ conn' = [conn EXCEPT ![session + 1] = "open"]
    /\ UNCHANGED <<backoff, loop, quiet, sink, task, sent, fails, served>>

\* ConnectionFailed: no connection, or no matching acknowledgement on it.
ConnectionFails ==
    /\ phase \in {"connect", "register"}
    /\ phase' = "wait"
    /\ fails' = Least(fails + 1, MaxFails)
    /\ conn' = IF phase = "connect" THEN conn ELSE [conn EXCEPT ![session] = "closed"]
    /\ UNCHANGED <<backoff, session, loop, quiet, sink, task, sent, served>>

\* The acknowledgement has come; the session ends at once when no client for
\* the local gateway can be made.
Registered ==
    /\ phase = "register"
    /\ conn[session] = "open"
    /\ \/ /\ phase' = "serve"
          /\ UNCHANGED <<backoff, conn>>
       \/ /\ phase' = "wait"
          /\ backoff' = InitialBackoff
          /\ conn' = [conn EXCEPT ![session] = "closed"]
    /\ loop' = "select"
    /\ quiet' = 0
    /\ fails' = 0
    /\ served' = TRUE
    /\ UNCHANGED <<session, sink, task, sent>>

\* Mutation: the backoff goes on from where it was.
Disconnect_KeepBackoff ==
    /\ phase' = "wait"
    /\ quiet' = 0
    /\ UNCHANGED <<backoff, session, conn, task, sent, fails, served>>

\* CleanClose and DisconnectedAfterRegistration: the loop gives up its part
\* of the connection.
Disconnect ==
    /\ phase' = "wait"
    /\ backoff' = InitialBackoff
    /\ quiet' = 0
    /\ UNCHANGED <<session, conn, task, sent, fails, served>>

Wake ==
    /\ phase = "wait"
    /\ phase' = "connect"
    /\ backoff' = Least(backoff * 2, MaxBackoff)
    /\ UNCHANGED <<session, loop, quiet, conn, sink, task, sent, fails, served>>

-----------------------------------------------------------------------------
(* run_relay_session, once registered.                                     *)

Selecting == phase = "serve" /\ loop = "select"

\* A request the platform has sent becomes a task of its own.  One that is
\* still unread when the session ends leaves no trace.
TakeRequest(r) ==
    /\ Selecting
    /\ conn[session] = "open"
    /\ task[r] = NoTask
    /\ task' = [task EXCEPT ![r].at = "local", ![r].session = session]
    /\ quiet' = 0
    /\ UNCHANGED <<dial, loop, conn, sink, sent>>

\* A pong, or a message that is not understood.
TakeOther ==
    /\ Selecting
    /\ conn[session] = "open"
    /\ quiet' = 0
    /\ UNCHANGED <<dial, loop, conn, sink, task, sent>>

TakePing ==
    /\ Selecting
    /\ conn[session] = "open"
    /\ quiet' = 0
    /\ loop' = "lock"
    /\ UNCHANGED <<dial, conn, sink, task, sent>>

\* Mutation: a ping sent counts as a sign of life.
PingTick_Resets ==
    /\ Selecting
    /\ quiet <= IdlePings
    /\ quiet' = 0
    /\ loop' = "lock"
    /\ UNCHANGED <<dial, conn, sink, task, sent>>

PingTick ==
    /\ Selecting
    /\ quiet <= IdlePings
    /\ quiet' = quiet + 1
    /\ loop' = "lock"
    /\ UNCHANGED <<dial, conn, sink, task, sent>>

\* The pings do not start with the idle timer, so one more may fit in.
IdleTimeout ==
    /\ Selecting
    /\ quiet >= IdlePings
    /\ Disconnect
    /\ UNCHANGED <<loop, sink>>

\* A close frame, the end of the stream or an error.
ConnectionLost ==
    /\ Selecting
    /\ conn[session] = "closed"
    /\ Disconnect
    /\ UNCHANGED <<loop, sink>>

LoopLocks ==
    /\ phase = "serve" /\ loop = "lock"
    /\ sink[session] = None
    /\ sink' = [sink EXCEPT ![session] = Loop]
    /\ loop' = "send"
    /\ UNCHANGED <<dial, quiet, conn, task, sent>>

LoopSends ==
    /\ phase = "serve" /\ loop = "send"
    /\ sink' = [sink EXCEPT ![session] = None]
    /\ loop' = "select"
    /\ \/ /\ conn[session] # "closed"
          /\ UNCHANGED <<dial, quiet, conn, task, sent>>
       \/ /\ conn[session] = "closed"
          /\ Disconnect

-----------------------------------------------------------------------------
(* relay_local_request.                                                    *)

\* The frames to send next, and where to go on.
Reply(r, frames, there) == task' = [task EXCEPT ![r].out = frames, ![r].at = there]
Idle(r, where) == task[r].at = where /\ task[r].out = <<>>

\* The local gateway cannot be reached or does not answer in time.
LocalFails(r) ==
    /\ Idle(r, "local")
    /\ Reply(r, <<"full">>, "done")
    /\ UNCHANGED <<dial, loop, quiet, conn, sink, sent>>

\* Only a successful answer is forwarded as a stream.
LocalAnswers(r) ==
    /\ Idle(r, "local")
    /\ \/ task' = [task EXCEPT ![r].at = "body"]
       \/ r \in Streamed /\ Reply(r, <<"head">>, "stream")
    /\ UNCHANGED <<dial, loop, quiet, conn, sink, sent>>

\* The body is read or cannot be read: one frame.
BodyRead(r) ==
    /\ Idle(r, "body")
    /\ Reply(r, <<"full">>, "done")
    /\ UNCHANGED <<dial, loop, quiet, conn, sink, sent>>

\* Mutation: the body is waited for as long as it takes.
BodyTimesOut_Never(r) == FALSE

BodyTimesOut(r) ==
    /\ Idle(r, "body")
    /\ Reply(r, <<"full">>, "done")
    /\ UNCHANGED <<dial, loop, quiet, conn, sink, sent>>

StreamChunk(r, chunk) ==
    LET next == Drain(task[r].held \o chunk)
    IN  /\ Idle(r, "stream")
        /\ task[r].chunks < MaxChunks
        /\ task' = [task EXCEPT
               ![r].chunks = @ + 1,
               ![r].held = next.held,
               ![r].got = @ \o chunk,
               ![r].passed = @ \o next.text,
               ![r].out = Part(next.text)]
        /\ UNCHANGED <<dial, loop, quiet, conn, sink, sent>>

\* Mutation: the stream is not left after the error.
StreamFails_Continues(r) ==
    /\ Idle(r, "stream")
    /\ Reply(r, <<"part", "part", "end">>, "stream")
    /\ UNCHANGED <<dial, loop, quiet, conn, sink, sent>>

StreamFails(r) ==
    /\ Idle(r, "stream")
    /\ Reply(r, <<"part", "part", "end">>, "done")
    /\ UNCHANGED <<dial, loop, quiet, conn, sink, sent>>

\* What is held back then is the beginning of a character, and is left out.
StreamEnds(r) ==
    LET next == Drain(task[r].held)
    IN  /\ Idle(r, "stream")
        /\ task' = [task EXCEPT
               ![r].held = next.held,
               ![r].passed = @ \o next.text,
               ![r].out = Part(next.text) \o <<"end">>,
               ![r].at = "done"]
        /\ UNCHANGED <<dial, loop, quiet, conn, sink, sent>>

\* send_response_envelope: the mutex is waited for and held for one frame;
\* an error ends the task.
TaskLocks(r) ==
    LET s == task[r].session
    IN  /\ task[r].out # <<>>
        /\ sink[s] = None
        /\ sink' = [sink EXCEPT ![s] = r]
        /\ UNCHANGED <<dial, loop, quiet, conn, task, sent>>

TaskSends(r) ==
    LET s == task[r].session
    IN  /\ task[r].out # <<>>
        /\ sink[s] = r
        /\ sink' = [sink EXCEPT ![s] = None]
        /\ \/ /\ conn[s] # "closed"
              /\ sent' = [sent EXCEPT ![r] = Append(@, [kind |-> Head(task[r].out), session |-> s])]
              /\ task' = [task EXCEPT ![r] =
                     IF @.at = "done" /\ Len(@.out) = 1 THEN Over(s)
                     ELSE [task[r] EXCEPT !.out = Tail(task[r].out)]]
           \/ /\ conn[s] = "closed"
              /\ task' = [task EXCEPT ![r] = Over(s)]
              /\ UNCHANGED sent
        /\ UNCHANGED <<dial, loop, quiet, conn>>

-----------------------------------------------------------------------------
(* The platform and the network.                                           *)

\* Nothing more comes, and what is sent is not taken.
Silence(s) ==
    /\ conn[s] = "open"
    /\ conn' = [conn EXCEPT ![s] = "silent"]
    /\ UNCHANGED <<dial, loop, quiet, sink, task, sent>>

Close(s) ==
    /\ conn[s] = "open"
    /\ conn' = [conn EXCEPT ![s] = "closed"]
    /\ UNCHANGED <<dial, loop, quiet, sink, task, sent>>

\* The kernel may give up on what could not be delivered.  Nothing says that
\* it will: a platform that acknowledges and takes nothing keeps a send
\* waiting, and this code sets no timeout for one.
GiveUp(s) ==
    /\ conn[s] = "silent"
    /\ sink[s] # None
    /\ conn' = [conn EXCEPT ![s] = "closed"]
    /\ UNCHANGED <<dial, loop, quiet, sink, task, sent>>

-----------------------------------------------------------------------------

Init ==
    /\ phase = "connect"
    /\ backoff = InitialBackoff
    /\ session = 0
    /\ loop = "select"
    /\ quiet = 0
    /\ conn = [s \in Session |-> "none"]
    /\ sink = [s \in Session |-> None]
    /\ task = [r \in Request |-> NoTask]
    /\ sent = [r \in Request |-> <<>>]
    /\ fails = 0
    /\ served = FALSE

Dial == Connect \/ ConnectionFails \/ Registered \/ Wake

Receive == TakeOther \/ TakePing \/ \E r \in Request : TakeRequest(r)

Run(r) ==
    \/ LocalFails(r)
    \/ LocalAnswers(r)
    \/ BodyRead(r)
    \/ BodyTimesOut(r)
    \/ \E chunk \in Chunk : StreamChunk(r, chunk)
    \/ StreamFails(r)
    \/ StreamEnds(r)

Network(s) == Silence(s) \/ Close(s) \/ GiveUp(s)

Next ==
    \/ Dial
    \/ Receive
    \/ PingTick \/ IdleTimeout \/ ConnectionLost
    \/ LoopLocks \/ LoopSends
    \/ \E r \in Request : Run(r) \/ TaskLocks(r) \/ TaskSends(r)
    \/ \E s \in Session : Network(s)

Spec == Init /\ [][Next]_vars

\* Timers fire, a send ends unless the platform is silent, and the mutex is
\* handed on in the order in which it was asked for.  A send to a silent
\* platform need not end.  A local gateway's stream is taken to end, since no
\* timeout of this code ends it.
Fairness ==
    /\ WF_vars(PingTick) /\ WF_vars(IdleTimeout) /\ WF_vars(ConnectionLost)
    /\ SF_vars(LoopLocks) /\ WF_vars(LoopSends /\ conn[session] # "silent")
    /\ \A r \in Request :
          /\ WF_vars(LocalFails(r)) /\ WF_vars(BodyTimesOut(r)) /\ WF_vars(StreamEnds(r))
          /\ SF_vars(TaskLocks(r))
          /\ WF_vars(TaskSends(r) /\ conn[task[r].session] # "silent")

FairSpec == Spec /\ Fairness

-----------------------------------------------------------------------------
(* Properties.                                                             *)

Phase == {"connect", "register", "serve", "wait"}
Place == {"none", "local", "body", "stream", "done"}

\* Every variable has its type; the backoff stays between its limits.
TypeOK ==
    /\ phase \in Phase
    /\ backoff \in InitialBackoff .. MaxBackoff
    /\ session \in 0 .. MaxSessions
    /\ loop \in {"select", "lock", "send"}
    /\ quiet \in 0 .. IdlePings + 1
    /\ conn \in [Session -> {"none", "open", "silent", "closed"}]
    /\ sink \in [Session -> Request \cup {Loop, None}]
    /\ \A r \in Request : task[r].at \in Place /\ task[r].session \in 0 .. MaxSessions
    /\ \A r \in Request : sent[r] \in Seq([kind : {"full", "head", "part", "end"}, session : Session])

Terminated(r) == sent[r] # <<>> /\ Last(sent[r]).kind \in {"full", "end"}
CutOff(r) == task[r].session \in Session /\ conn[task[r].session] = "closed"

\* What the platform can put together for each request, however the frames
\* of the tasks alternate and whenever the session changes: one full frame,
\* or a head, parts and an end, all on the connection the request came by.
\* A task that is over has finished its answer, unless its connection failed.
AnswersWhole ==
    \A r \in Request :
        /\ \A i \in DOMAIN sent[r] :
              /\ sent[r][i].session = task[r].session
              /\ sent[r][i].kind \in {"full", "head"} <=> i = 1
              /\ sent[r][i].kind \in {"full", "end"} => i = Len(sent[r])
        /\ Idle(r, "done") => Terminated(r) \/ CutOff(r)

\* A stream of well-formed text arrives as it was, wherever it was cut into
\* chunks; at most the beginning of one character is held back.
TextIntact ==
    \A r \in Request :
        Valid(task[r].got) \/ Cut(task[r].got) =>
            /\ task[r].passed \o task[r].held = task[r].got
            /\ Len(task[r].held) <= 1

\* What the loop waits before it tries again: the initial backoff after a
\* session, then twice as long with each failure, up to the limit; before the
\* first session the first failure waits no longer than that.
BackoffExact ==
    phase = "wait" =>
        LET doublings == IF fails = 0 THEN 0 ELSE IF served THEN fails ELSE fails - 1
        IN  backoff = Least(InitialBackoff * Power[doublings], MaxBackoff)

\* A send that never ends: the mutex is never free again.
Stuck(s) == [](sink[s] # None)

\* Every request taken is answered, unless its connection fails or some send
\* on it never ends.
EveryRequestAnswered ==
    \A r \in Request, s \in Session :
        task[r].at = "local" /\ task[r].session = s ~> Terminated(r) \/ CutOff(r) \/ Stuck(s)

\* A platform that has gone silent is noticed, although tasks keep taking the
\* mutex the loop waits for, unless a send never ends: the loop then waits
\* for that mutex, or in the send itself, and its idle timer is not polled.
SilenceNoticed ==
    \A s \in Session :
        phase = "serve" /\ session = s /\ conn[s] = "silent" ~>
            ~(phase = "serve" /\ session = s) \/ Stuck(s)
===============================================================================
