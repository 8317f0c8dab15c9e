------------------------- MODULE MCRemoteOperation -------------------------
(* One client call against a target and a source server that list up to *)
(* two addresses; Wait may lose its connection.  The same client runs one *)
(* ExecContainer afterwards.  The two share no state, so the exec starts  *)
(* once the remote call, its goroutines and its server operations are    *)
(* done, which keeps the two state spaces from multiplying.               *)
EXTENDS RemoteOperation

CONSTANTS a1

VARIABLES epc, eret, args, plan, opened, conns, recv, send, stdinEOF,
          stdinClosed, opSt, wpc, dataDone

E == INSTANCE ExecContainer

MCAliasNames == {a1}

ExecVars == <<epc, eret, args, plan, opened, conns, recv, send, stdinEOF,
            stdinClosed, opSt, wpc, dataDone>>
ClientVars == <<vars, ExecVars>>

ClientInit == Init /\ E!Init
ClientNext == \/ Next /\ UNCHANGED ExecVars
              \/ ~ENABLED Next /\ E!Next /\ UNCHANGED vars
ClientSpec == ClientInit /\ [][ClientNext]_ClientVars /\ Fairness /\ E!Fairness

\* Once ExecContainer's args.DataDone is closed, all output was received
\* and the data websockets are closed (ExecDataDoneAfterOutput).
ExecDataDoneAfterOutput == E!DataDoneAfterOutput

\* An exec returned with a DataDone channel eventually closes it.
ExecDataDoneEventually == E!DataDoneEventually
====
