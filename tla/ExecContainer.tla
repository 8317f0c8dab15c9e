---------------------------- MODULE ExecContainer ----------------------------
(***************************************************************************)
(* ProtocolAPOLLO.ExecContainer (src/client/apollo_containers.go 573-699): *)
(* POST /containers/<c>/exec, then, when args are given, connect the       *)
(* operation's websockets one at a time (the control socket, then stdin    *)
(* of an interactive session or stdin, stdout and stderr of a batch one)   *)
(* and start the goroutines that move the data and finally close          *)
(* args.DataDone.  Any failing connect returns the error at once.          *)
(*                                                                         *)
(* Outside this repository and taken as the usual semantics:               *)
(*   - shared.WebsocketRecvStream copies from the socket until the server *)
(*     ends the stream or the socket is closed, then closes its channel;  *)
(*   - shared.WebsocketSendStream copies args.Stdin to the socket until   *)
(*     Stdin reaches EOF or is closed;                                    *)
(*   - the server offers {control, 0} to an interactive session and       *)
(*     {control, 0, 1, 2} to a batch one, waits for its data sockets      *)
(*     (WaitForWS), and at the end of the command ends the output streams *)
(*     and finishes the operation.                                        *)
(* The control handler is the caller's goroutine and owns its socket.      *)
(***************************************************************************)
EXTENDS Sequences

VARIABLES
    epc,        \* ExecContainer's control point: idle, connect, returned
    eret,       \* what it returned: none, error, op
    args,       \* [given, inter, io, dd]: args # nil, exec.Interactive,
                \*   Stdin and Stdout set, DataDone set
    plan,       \* websockets still to connect, in code order
    opened,     \* websockets connected so far
    conns,      \* websockets the client has not closed
    recv,       \* WebsocketRecvStream goroutine per socket: none, run, done
    send,       \* WebsocketSendStream goroutine: none, run, done
    stdinEOF,   \* the caller's Stdin reached EOF
    stdinClosed,\* args.Stdin.Close() was called
    opSt,       \* the server's exec operation: none, running, ended
    wpc,        \* the goroutine that closes DataDone: none, wait, iwait,
                \*   stdin, conns, signal, done
    dataDone    \* args.DataDone closed

evars == <<epc, eret, args, plan, opened, conns, recv, send, stdinEOF,
           stdinClosed, opSt, wpc, dataDone>>

DataFds == {"0", "1", "2"}

\* The sockets the server offers and the session waits for.
OfferedData(a) == IF a.inter THEN {"0"} ELSE DataFds

\* The websockets ExecContainer connects, in order (587-669).
ConnectPlan(a, ctl) ==
    (IF ctl THEN <<"control">> ELSE <<>>)
    \o (IF ~a.inter THEN <<"0", "1", "2">>
        ELSE IF a.io THEN <<"0">> ELSE <<>>)

Init ==
    /\ epc = "idle" /\ eret = "none"
    /\ args = [given |-> FALSE, inter |-> FALSE, io |-> FALSE, dd |-> FALSE]
    /\ plan = <<>> /\ opened = {} /\ conns = {}
    /\ recv = [fd \in DataFds |-> "none"] /\ send = "none"
    /\ stdinEOF = FALSE /\ stdinClosed = FALSE
    /\ opSt = "none" /\ wpc = "none" /\ dataDone = FALSE

\* The request (574-584): the recording check and queryOperation fail
\* with nothing created, or the exec operation starts.  Without args the
\* operation is returned at once; with a control handler the control
\* socket is connected only when fds["control"] is set, which it is.
ExecBegin ==
    /\ epc = "idle"
    /\ \/ /\ eret' = "error" /\ epc' = "returned"
          /\ UNCHANGED <<args, plan, opSt>>
       \/ /\ opSt' = "running"
          /\ \/ /\ eret' = "op" /\ epc' = "returned"
                /\ UNCHANGED <<args, plan>>
             \/ \E inter, io, dd, ctl \in BOOLEAN :
                   /\ args' = [given |-> TRUE, inter |-> inter, io |-> io, dd |-> dd]
                   /\ plan' = ConnectPlan(args', ctl)
                   /\ epc' = "connect"
                   /\ UNCHANGED eret
    /\ UNCHANGED <<opened, conns, recv, send, stdinEOF, stdinClosed, wpc, dataDone>>

\* GetOperationWebsocket of the next socket (600-668).  On failure the
\* call returns the error; the sockets and goroutines it has started stay.
\* On success the socket's goroutines start: the batch stdin sender and
\* the stdout/stderr receivers at once, the interactive goroutine (619-627)
\* with its sender and receiver on the one socket.
ExecConnect ==
    /\ epc = "connect" /\ plan # <<>>
    /\ LET fd == Head(plan) IN
       \/ /\ eret' = "error" /\ epc' = "returned"
          /\ UNCHANGED <<plan, opened, conns, recv, send, wpc>>
       \/ /\ plan' = Tail(plan)
          /\ opened' = opened \cup {fd} /\ conns' = conns \cup {fd}
          /\ send' = IF fd = "0" THEN "run" ELSE send
          /\ recv' = IF fd \in DataFds /\ (fd # "0" \/ args.inter)
                     THEN [recv EXCEPT ![fd] = "run"] ELSE recv
          /\ wpc' = IF fd = "0" /\ args.inter THEN "iwait" ELSE wpc
          /\ UNCHANGED <<eret, epc>>
    /\ UNCHANGED <<args, stdinEOF, stdinClosed, opSt, dataDone>>

\* Every socket is connected: a batch session starts the goroutine that
\* waits for the output (671-693); an interactive one without Stdin and
\* Stdout closes DataDone at once (628-631); the operation is returned.
ExecReturn ==
    /\ epc = "connect" /\ plan = <<>>
    /\ epc' = "returned" /\ eret' = "op"
    /\ wpc' = IF ~args.inter THEN "wait" ELSE wpc
    /\ dataDone' = (dataDone \/ (args.inter /\ ~args.io /\ args.dd))
    /\ UNCHANGED <<args, plan, opened, conns, recv, send, stdinEOF,
                   stdinClosed, opSt>>

\* A WebsocketRecvStream returns once the server ended the stream or the
\* socket was closed.
RecvDone(fd) ==
    /\ recv[fd] = "run" /\ (opSt = "ended" \/ fd \notin conns)
    /\ recv' = [recv EXCEPT ![fd] = "done"]
    /\ UNCHANGED <<epc, eret, args, plan, opened, conns, send, stdinEOF,
                   stdinClosed, opSt, wpc, dataDone>>

\* WebsocketSendStream returns once Stdin gives EOF or an error.
SendDone ==
    /\ send = "run" /\ (stdinEOF \/ stdinClosed)
    /\ send' = "done"
    /\ UNCHANGED <<epc, eret, args, plan, opened, conns, recv, stdinEOF,
                   stdinClosed, opSt, wpc, dataDone>>

\* The caller's input ends (the user types EOF); nothing forces it.
StdinEOF ==
    /\ send = "run" /\ ~stdinEOF
    /\ stdinEOF' = TRUE
    /\ UNCHANGED <<epc, eret, args, plan, opened, conns, recv, send,
                   stdinClosed, opSt, wpc, dataDone>>

\* The server runs the command once its data sockets are connected, and
\* at its end ends the output streams and finishes the operation.
ServerEnd ==
    /\ opSt = "running" /\ args.given /\ OfferedData(args) \subseteq opened
    /\ opSt' = "ended"
    /\ UNCHANGED <<epc, eret, args, plan, opened, conns, recv, send,
                   stdinEOF, stdinClosed, wpc, dataDone>>

WKeep == <<epc, eret, args, plan, opened, recv, send, stdinEOF, opSt>>

\* Mutant: the wait loop does not skip dones[0], the stdin sender.
WaiterWaitStdin ==
    /\ wpc = "wait" /\ \A fd \in {"1", "2"} : recv[fd] = "done"
    /\ send = "done"
    /\ wpc' = "stdin"
    /\ UNCHANGED <<conns, stdinClosed, dataDone>> /\ UNCHANGED WKeep
\* Mutant: the loop only waits for stdout.
WaiterWaitStdoutOnly ==
    /\ wpc = "wait" /\ recv["1"] = "done"
    /\ wpc' = "stdin"
    /\ UNCHANGED <<conns, stdinClosed, dataDone>> /\ UNCHANGED WKeep

\* The batch goroutine ranges over dones, skipping stdin, and waits for
\* each output channel (672-680); map order does not matter.
WaiterWait ==
    /\ wpc = "wait" /\ \A fd \in {"1", "2"} : recv[fd] = "done"
    /\ wpc' = "stdin"
    /\ UNCHANGED <<conns, stdinClosed, dataDone>> /\ UNCHANGED WKeep

\* The interactive goroutine waits for the receiver (621).
InteractiveWait ==
    /\ wpc = "iwait" /\ recv["0"] = "done"
    /\ wpc' = "conns"
    /\ UNCHANGED <<conns, stdinClosed, dataDone>> /\ UNCHANGED WKeep

\* args.Stdin.Close() (682-684).
WaiterCloseStdin ==
    /\ wpc = "stdin"
    /\ stdinClosed' = TRUE /\ wpc' = "conns"
    /\ UNCHANGED <<conns, dataDone>> /\ UNCHANGED WKeep

\* Close the data sockets (622, 686-688).
WaiterCloseConns ==
    /\ wpc = "conns"
    /\ conns' = conns \ DataFds /\ wpc' = "signal"
    /\ UNCHANGED <<stdinClosed, dataDone>> /\ UNCHANGED WKeep

\* close(args.DataDone) when it is set (624-626, 690-692).
WaiterSignal ==
    /\ wpc = "signal"
    /\ dataDone' = args.dd /\ wpc' = "done"
    /\ UNCHANGED <<conns, stdinClosed>> /\ UNCHANGED WKeep

Goroutines ==
    \/ \E fd \in DataFds : RecvDone(fd)
    \/ SendDone \/ WaiterWait \/ InteractiveWait \/ WaiterCloseStdin
    \/ WaiterCloseConns \/ WaiterSignal

Next ==
    \/ ExecBegin \/ ExecConnect \/ ExecReturn \/ Goroutines
    \/ StdinEOF \/ ServerEnd

\* Go runs every runnable goroutine, the call runs to its return, and the
\* server's command ends.  The user need never close Stdin.
Fairness ==
    /\ WF_evars(ExecConnect) /\ WF_evars(ExecReturn)
    /\ \A fd \in DataFds : WF_evars(RecvDone(fd))
    /\ WF_evars(SendDone) /\ WF_evars(WaiterWait) /\ WF_evars(InteractiveWait)
    /\ WF_evars(WaiterCloseStdin) /\ WF_evars(WaiterCloseConns)
    /\ WF_evars(WaiterSignal) /\ WF_evars(ServerEnd)

Spec == Init /\ [][Next]_evars /\ Fairness

(***************************************************************************)
(* Properties.                                                            *)
(***************************************************************************)

\* Once args.DataDone is closed every output stream has been received in
\* full and the client has closed its data sockets: a caller that reads
\* its Stdout/Stderr buffers after <-DataDone sees all the output.  The
\* batch goroutine must wait for stdout and stderr, the interactive one
\* for its receiver, before closing the sockets and then DataDone.
DataDoneAfterOutput ==
    dataDone =>
        /\ \A fd \in DataFds : recv[fd] # "run"
        /\ conns \cap DataFds = {}

\* An exec returned to a caller that passed DataDone eventually closes it
\* once the command ends, whether or not the caller ever closes Stdin.
DataDoneEventually == (eret = "op" /\ args.dd) ~> dataDone

\* Every data socket ExecContainer opened is eventually closed by it.  It
\* does not hold: a connect failing after an earlier one returns the error
\* with the earlier sockets open and their goroutines running, and the
\* operation waits for the missing socket; no run keeps it (README).
DataSocketsClosed == \A fd \in DataFds : (fd \in conns) ~> (fd \notin conns)
====
