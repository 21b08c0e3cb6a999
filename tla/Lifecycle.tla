----------------------------- MODULE Lifecycle -----------------------------
(***************************************************************************)
(* The server from main to its end: http_server_start, the pool of         *)
(* workers and http_server_stop of backend/src/http_server.c, and the      *)
(* signal handler of backend/src/main.c, with clients that connect, ask,   *)
(* fall silent and hang up.                                                *)
(*                                                                         *)
(* Closing the listening socket wakes the workers that wait in accept on   *)
(* "windows"; on "linux" the socket lives on, an orphan, until each of     *)
(* them has got one more connection.  There the handler interrupts main,   *)
(* on "windows" it is a thread of its own, and ends with WSACleanup, which *)
(* resets every connection the workers still hold; and only "linux" ends a *)
(* process that sends to a connection its peer has closed (SIGPIPE).       *)
(***************************************************************************)
EXTENDS Integers, Sequences, FiniteSets

CONSTANTS
    Workers,        \* the pool of CWEB_THREAD_POOL_SIZE threads
    Clients,        \* connections, used again and again
    Nobody,         \* no connection
    Platforms,      \* the systems the server may be built for
    MaxErrors       \* bound: accepts that fail for a passing reason

ASSUME PlatformsKnown == Platforms \subseteq {"linux", "windows"}
ASSUME NobodyNoClient == Nobody \notin Clients
ASSUME ErrorsNat == MaxErrors \in Nat

VARIABLES
    platform,
    main,           \* label of the main thread
    handler,        \* how far the signal handler is
    running,        \* g_server_running
    fd,             \* g_server_listen_fd is not INVALID_SOCKET
    listener,       \* the listening socket in the kernel
    backlog,        \* connections waiting to be accepted
    worker,         \* label of each worker
    conn,           \* client_fd of each worker
    stage,          \* of each client: "away", "queued", "held" by a worker, or "cut"
    said,           \* what each client has done on its connection
    errors,         \* passing failures of accept so far
    late,           \* history: connections each worker accepted after the flag fell
    dropped         \* history: clients left waiting for an answer by a close

pool == <<worker, conn>>
clients == <<stage, said, dropped>>
vars == <<platform, main, handler, running, fd, listener, backlog, worker, conn,
          stage, said, errors, late, dropped>>

Up == {"boot", "opened", "bound", "listening", "spawning", "joining"}
Down == {"exited", "killed"}
Handling == {"admitted", "receiving", "serving", "writing", "replying"}

Init ==
    /\ platform \in Platforms
    /\ main = "boot" /\ handler = "idle"
    /\ running = FALSE /\ fd = FALSE
    /\ listener = "none" /\ backlog = <<>>
    /\ worker = [w \in Workers |-> "none"]
    /\ conn = [w \in Workers |-> Nobody]
    /\ stage = [c \in Clients |-> "away"]
    /\ said = [c \in Clients |-> "nothing"]
    /\ errors = 0
    /\ late = [w \in Workers |-> 0]
    /\ dropped = {}

\* The process is gone: the kernel closes what it had open.
End(how) ==
    /\ main' = how /\ handler' = "idle"
    /\ running' = FALSE /\ fd' = FALSE
    /\ listener' = "none" /\ backlog' = <<>>
    /\ worker' = [w \in Workers |-> "none"]
    /\ conn' = [w \in Workers |-> Nobody]
    /\ stage' = [c \in Clients |-> "away"]
    /\ said' = [c \in Clients |-> "nothing"]
    /\ errors' = 0
    /\ late' = [w \in Workers |-> 0]
    /\ dropped' = {}
    /\ UNCHANGED platform

-----------------------------------------------------------------------------
(* main and http_server_start                                               *)

\* The main thread goes on, unless the handler has interrupted it.
MainRuns == handler \in {"idle", "done"} \/ platform = "windows"

\* The index is published; socket().
Open ==
    /\ main = "boot" /\ MainRuns
    /\ \/ /\ main' = "opened" /\ fd' = TRUE /\ listener' = "created"
          /\ UNCHANGED <<platform, handler, running, backlog, pool, clients, errors, late>>
       \/ End("exited")

\* bind() and listen(); an error closes the socket, and main returns.
Bind ==
    /\ main = "opened" /\ MainRuns
    /\ \/ /\ fd /\ listener = "created"
          /\ main' = "bound" /\ listener' = "bound"
          /\ UNCHANGED <<platform, handler, running, fd, backlog, pool, clients, errors, late>>
       \/ End("exited")

Listen ==
    /\ main = "bound" /\ MainRuns
    /\ \/ /\ fd /\ listener = "bound"
          /\ main' = "listening" /\ listener' = "listening"
          /\ UNCHANGED <<platform, handler, running, fd, backlog, pool, clients, errors, late>>
       \/ End("exited")

\* g_server_running = true, whatever a signal has asked before.
RaiseRunning ==
    /\ main = "listening" /\ MainRuns
    /\ running' = TRUE
    /\ main' = "spawning"
    /\ late' = [w \in Workers |-> 0]
    /\ UNCHANGED <<platform, handler, fd, listener, backlog, pool, clients, errors>>

\* pthread_create for one more worker.
Spawn(w) ==
    /\ main = "spawning" /\ MainRuns /\ worker[w] = "none"
    /\ worker' = [worker EXCEPT ![w] = "top"]
    /\ main' = IF \A v \in Workers \ {w} : worker[v] # "none" THEN "joining" ELSE main
    /\ UNCHANGED <<platform, handler, running, fd, listener, backlog, conn, clients,
                   errors, late>>

SomeJoined == \E w \in Workers : worker[w] = "ended"   \* a plausible bug: joins one thread
AllJoined == \A w \in Workers : worker[w] = "ended"

\* pthread_join for all of them; start returns, and main.
Join == main = "joining" /\ MainRuns /\ AllJoined /\ End("exited")

MainStep == Open \/ Bind \/ Listen \/ RaiseRunning \/ (\E w \in Workers : Spawn(w)) \/ Join

-----------------------------------------------------------------------------
(* handle_signal and http_server_stop                                       *)

\* SIGINT or SIGTERM comes.  A second one before the handler is through, and
\* one that kills because the handler was installed for one shot, are left to Kill.
Signal ==
    /\ main \in Up /\ handler = "idle"
    /\ handler' = "flag"
    /\ UNCHANGED <<platform, main, running, fd, listener, backlog, pool, clients, errors, late>>

\* g_server_running = false
StopFlag ==
    /\ handler = "flag"
    /\ running' = FALSE
    /\ handler' = "close"
    /\ UNCHANGED <<platform, main, fd, listener, backlog, pool, clients, errors, late>>

Waiting == {w \in Workers : worker[w] = "waiting"}

\* Connections nobody will accept any more are reset.
ResetQueued ==
    /\ backlog' = <<>>
    /\ stage' = [c \in Clients |-> IF stage[c] = "queued" THEN "away" ELSE stage[c]]
    /\ said' = [c \in Clients |-> IF stage[c] = "queued" THEN "nothing" ELSE said[c]]
    /\ UNCHANGED dropped

CloseListener ==
    IF platform = "linux" /\ listener = "listening" /\ Waiting # {}
    THEN listener' = "orphan" /\ UNCHANGED <<backlog, clients>>
    ELSE listener' = "none" /\ ResetQueued

AfterCloseDone == "done"                 \* a plausible bug: no WSACleanup
AfterClose == IF platform = "windows" THEN "cleanup" ELSE "done"

\* close_socket(g_server_listen_fd), if there is one; then it is INVALID_SOCKET.
StopClose ==
    /\ handler = "close"
    /\ handler' = AfterClose
    /\ IF fd THEN CloseListener ELSE UNCHANGED <<listener, backlog, clients>>
    /\ fd' = FALSE
    /\ UNCHANGED <<platform, main, running, pool, errors, late, dropped>>

\* WSACleanup(), on "windows" only: no socket outlives it, a listener opened behind
\* the handler's back or the connection a worker reads or answers as little.
StopCleanup ==
    /\ handler = "cleanup"
    /\ handler' = "done"
    /\ listener' = "none" /\ backlog' = <<>>
    /\ stage' = [c \in Clients |-> CASE stage[c] = "queued" -> "away"
                                     [] stage[c] = "held" -> "cut"
                                     [] OTHER -> stage[c]]
    /\ said' = [c \in Clients |-> IF stage[c] = "queued" THEN "nothing" ELSE said[c]]
    /\ UNCHANGED <<platform, main, running, fd, pool, errors, late, dropped>>

HandlerStep == StopFlag \/ StopClose \/ StopCleanup

-----------------------------------------------------------------------------
(* worker_thread_func and handle_client_connection                          *)

Goto(w, label) == worker' = [worker EXCEPT ![w] = label]

GoesOnAlways == TRUE                     \* a plausible bug: the flag is not tested
GoesOn == running

\* while (g_server_running)
Test(w) ==
    /\ worker[w] = "top"
    /\ Goto(w, IF GoesOn THEN "calling" ELSE "ended")
    /\ UNCHANGED <<platform, main, handler, running, fd, listener, backlog, conn, clients,
                   errors, late>>

\* accept is entered; it fails at once without a listening socket.
CallAccept(w) ==
    /\ worker[w] = "calling"
    /\ Goto(w, IF fd /\ listener = "listening" THEN "waiting" ELSE "failed")
    /\ UNCHANGED <<platform, main, handler, running, fd, listener, backlog, conn, clients,
                   errors, late>>

\* accept returns the first connection; an orphan socket dies with its last accept.
Accept(w) ==
    /\ worker[w] = "waiting" /\ backlog # <<>>
    /\ Goto(w, "admitted")
    /\ conn' = [conn EXCEPT ![w] = Head(backlog)]
    /\ late' = [late EXCEPT ![w] = IF running THEN 0 ELSE @ + 1]
    /\ IF listener = "orphan" /\ Waiting = {w}
       THEN /\ listener' = "none" /\ backlog' = <<>>
            /\ stage' = [c \in Clients |-> IF c = Head(backlog) THEN "held"
                            ELSE IF stage[c] = "queued" THEN "away" ELSE stage[c]]
            /\ said' = [c \in Clients |-> IF c # Head(backlog) /\ stage[c] = "queued"
                            THEN "nothing" ELSE said[c]]
       ELSE /\ backlog' = Tail(backlog)
            /\ stage' = [stage EXCEPT ![Head(backlog)] = "held"]
            /\ UNCHANGED <<listener, said>>
    /\ UNCHANGED <<platform, main, handler, running, fd, errors, dropped>>

\* accept fails: its socket was closed, or for a passing reason.
Woken(w) ==
    /\ worker[w] = "waiting" /\ listener = "none"
    /\ Goto(w, "failed")
    /\ UNCHANGED <<platform, main, handler, running, fd, listener, backlog, conn, clients,
                   errors, late>>

AcceptError(w) ==
    /\ worker[w] = "waiting" /\ listener = "listening" /\ errors < MaxErrors
    /\ errors' = errors + 1
    /\ Goto(w, "failed")
    /\ UNCHANGED <<platform, main, handler, running, fd, listener, backlog, conn, clients, late>>

AfterError == IF running THEN "top" ELSE "ended"

\* if (!g_server_running) break; continue;
Retry(w) ==
    /\ worker[w] = "failed"
    /\ Goto(w, AfterError)
    /\ UNCHANGED <<platform, main, handler, running, fd, listener, backlog, conn, clients,
                   errors, late>>

CloseLeaves(w) ==                        \* a plausible bug: client_fd used after its close
    /\ Goto(w, "top")
    /\ stage' = [stage EXCEPT ![conn[w]] = "away"]
    /\ said' = [said EXCEPT ![conn[w]] = "nothing"]
    /\ UNCHANGED <<platform, main, handler, running, fd, listener, backlog, conn, errors, late, dropped>>

CloseForgets(w) ==                       \* a plausible bug: a path without close_socket
    /\ Goto(w, "top")
    /\ conn' = [conn EXCEPT ![w] = Nobody]
    /\ UNCHANGED <<platform, main, handler, running, fd, listener, backlog, clients, errors, late>>

\* The client is still there and has not been sent its answer.
LeftWaiting(w) ==
    /\ said[conn[w]] \notin {"aborted", "closed"}
    /\ worker[w] # "replying" \/ stage[conn[w]] = "cut"

\* close_socket(client_fd), back to the loop.
Close(w) ==
    /\ Goto(w, "top")
    /\ conn' = [conn EXCEPT ![w] = Nobody]
    /\ stage' = [stage EXCEPT ![conn[w]] = "away"]
    /\ said' = [said EXCEPT ![conn[w]] = "nothing"]
    /\ dropped' = IF LeftWaiting(w) THEN dropped \cup {conn[w]} ELSE dropped
    /\ UNCHANGED <<platform, main, handler, running, fd, listener, backlog, errors, late>>

Step(w, label) ==
    /\ Goto(w, label)
    /\ UNCHANGED <<platform, main, handler, running, fd, listener, backlog, conn, clients,
                   errors, late>>

\* check_rate_limit: a refused client is answered without being read.
Admit(w) == worker[w] = "admitted" /\ (Step(w, "receiving") \/ Step(w, "replying"))

\* recv, without a time-out: blocks until the client has sent something or hung
\* up, or the connection is cut.
Receive(w) ==
    /\ worker[w] = "receiving"
    /\ \/ stage[conn[w]] = "held" /\ said[conn[w]] \in {"request", "aborted"}
          /\ Step(w, "serving")
       \/ (stage[conn[w]] = "cut" \/ said[conn[w]] = "closed") /\ Close(w)

\* A handler, the rebuild among them, which writes index.dat.
Serve(w) == worker[w] = "serving" /\ (Step(w, "replying") \/ Step(w, "writing"))
Write(w) == worker[w] = "writing" /\ Step(w, "replying")

\* send_http_response, whose results nobody looks at; close.
Reply(w) == worker[w] = "replying" /\ Close(w)

\* The second send to a client that has gone.
BrokenPipe(w) ==
    /\ worker[w] = "replying" /\ platform = "linux"
    /\ said[conn[w]] \in {"aborted", "closed"}
    /\ End("killed")

WorkerStep(w) ==
    \/ Test(w) \/ CallAccept(w) \/ Accept(w) \/ Woken(w) \/ Retry(w)
    \/ Admit(w) \/ Receive(w) \/ Serve(w) \/ Write(w) \/ Reply(w)

-----------------------------------------------------------------------------
(* The environment.                                                         *)

Connect(c) ==
    /\ stage[c] = "away" /\ listener \in {"listening", "orphan"}
    /\ stage' = [stage EXCEPT ![c] = "queued"]
    /\ backlog' = Append(backlog, c)
    /\ UNCHANGED <<platform, main, handler, running, fd, listener, pool, said, errors, late, dropped>>

Says(c, from, to) ==
    /\ stage[c] \in {"queued", "held"} /\ said[c] = from
    /\ said' = [said EXCEPT ![c] = to]
    /\ UNCHANGED <<platform, main, handler, running, fd, listener, backlog, pool, stage,
                   errors, late, dropped>>

\* A client sends its request or gives up; one that has asked may give up too.
Speak(c) == Says(c, "nothing", "request") \/ Says(c, "nothing", "closed")
Abort(c) == Says(c, "request", "aborted")

Kill == main \in Up /\ End("killed")

Restart ==
    /\ main \in Down
    /\ main' = "boot"
    /\ UNCHANGED <<platform, handler, running, fd, listener, backlog, pool, clients, errors, late>>

Next ==
    \/ MainStep \/ Signal \/ HandlerStep
    \/ \E w \in Workers : WorkerStep(w) \/ AcceptError(w) \/ BrokenPipe(w)
    \/ \E c \in Clients : Connect(c) \/ Speak(c) \/ Abort(c)
    \/ Kill \/ Restart

Spec == Init /\ [][Next]_vars

\* The threads run.  Nothing is asked of the clients.
FairSpec ==
    /\ Spec
    /\ WF_vars(MainStep) /\ WF_vars(HandlerStep)
    /\ \A w \in Workers : WF_vars(WorkerStep(w))

-----------------------------------------------------------------------------

Labels == {"none", "top", "calling", "waiting", "failed", "ended"} \cup Handling

\* Types; a worker has a connection exactly while it handles one, a connection
\* has at most one worker, and one that is held has a worker.
TypeOK ==
    /\ platform \in Platforms
    /\ main \in Up \cup Down
    /\ handler \in {"idle", "flag", "close", "cleanup", "done"}
    /\ running \in BOOLEAN /\ fd \in BOOLEAN
    /\ listener \in {"none", "created", "bound", "listening", "orphan"}
    /\ backlog \in Seq(Clients)
    /\ worker \in [Workers -> Labels]
    /\ conn \in [Workers -> Clients \cup {Nobody}]
    /\ stage \in [Clients -> {"away", "queued", "held", "cut"}]
    /\ said \in [Clients -> {"nothing", "request", "aborted", "closed"}]
    /\ errors \in 0 .. MaxErrors
    /\ late \in [Workers -> Nat]
    /\ dropped \subseteq Clients
    /\ \A w \in Workers : conn[w] # Nobody <=> worker[w] \in Handling
    /\ \A v, w \in Workers : v # w /\ conn[v] # Nobody => conn[v] # conn[w]
    /\ \A c \in Clients : stage[c] \in {"held", "cut"} <=> \E w \in Workers : conn[w] = c

\* Once the flag has fallen a worker accepts at most one more connection, the one
\* it was already about to wait for.
OneMoreAtMost == \A w \in Workers : late[w] <= 1

\* When the server ends by itself no worker has a connection or is writing
\* index.dat; and on "linux" every connection it ever accepted was answered, or its
\* client had gone.  On "windows" WSACleanup cuts the connections the workers still
\* hold, so there this is not so.
CleanEnd ==
    /\ \A c \in Clients : stage[c] \in {"away", "queued"}
    /\ \A w \in Workers : worker[w] \notin Handling
    /\ platform = "linux" => dropped = {}
ExitAnswersAll == [][main' = "exited" /\ main \in Up => CleanEnd]_vars

\* A connection in a worker's hands is not silent for ever: its client sends its
\* request or hangs up.  The code sees to nothing of the kind.
SpeakAtLast == \A c \in Clients : []<>~(stage[c] = "held" /\ said[c] = "nothing")

\* Among clients that speak at last, a connection in the queue is answered,
\* refused or reset, in spite of passing errors and a stop at any moment.
AllSettled == \A c \in Clients : stage[c] = "queued" ~> stage[c] = "away"
Answered == SpeakAtLast => AllSettled

\* A stop asked of a running server ends it, where closing the socket wakes the
\* waiting workers or none is waiting: on "windows" whatever the clients do, on
\* "linux" among clients that speak at last.
Stopping ==
    /\ main \in {"spawning", "joining"} /\ ~running /\ handler = "done"
    /\ platform = "windows" \/ Waiting = {}
StopEnds ==
    /\ Stopping /\ platform = "windows" ~> main \in Down
    /\ SpeakAtLast => (Stopping /\ platform = "linux" ~> main \in Down)
=============================================================================
