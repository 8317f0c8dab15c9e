--------------------------- MODULE RemoteOperation ---------------------------
(***************************************************************************)
(* The client library's remote operations (src/client): CopyImage,        *)
(* CreateContainerFromImage, CopyContainer and CopyContainerSnapshot ask  *)
(* a target server r to fetch an object from a source server.  Each call  *)
(* synchronously issues the requests that set the transfer up (connection *)
(* info, image secret, the peer operation of a migration, the websocket   *)
(* proxy of a relay) and either returns an error or a RemoteOperation     *)
(* whose goroutine forwards to the remote operation:                      *)
(*   - "simple": Wait on the one target operation, then close chDone;     *)
(*   - "loop" (tryCreateContainer, tryMigrateContainer[Snapshot],         *)
(*     tryCopyImage): for each address of the connection info, issue the  *)
(*     request, Wait on the operation it returns, continue with the next  *)
(*     address on any error, break on success; set rop.err if no address  *)
(*     succeeded; close chDone.                                           *)
(* tryCopyImage may add a second goroutine (chPost) that, once chDone is  *)
(* closed and the download succeeded, creates the requested aliases.      *)
(*                                                                         *)
(* Server operations are the environment: each runs until the server      *)
(* finishes it with success or failure.  Operation.Wait is not in this    *)
(* repository; it returns the operation's outcome once it has finished,   *)
(* or (when LostWait) an error while the operation still runs, as a wait  *)
(* whose connection drops does.  Every request may fail.  Request data    *)
(* (names, secrets, certificates, fingerprints) is abstracted away.       *)
(***************************************************************************)
EXTENDS Naturals, Sequences

CONSTANTS
    MaxAddr,     \* most addresses a server's connection info lists
    AliasNames,  \* aliases a CopyImage caller asks for
    LostWait     \* whether Operation.Wait may fail while the operation runs

ASSUME MaxAddr \in Nat /\ LostWait \in BOOLEAN

Calls == {"CopyImage", "CreateContainerFromImage",
          "CopyContainer", "CopyContainerSnapshot"}
Modes == {"local", "push", "relay", "pull"}

VARIABLES
    call,      \* the client call made ("idle" before it)
    mode,      \* local (r == source), push, relay or pull
    ret,       \* what the call returned: "none", "error" or "rop"
    ops,       \* server operations: [srv, st] in creation order
    peer,      \* the migration's other operation (0: none)
    fwd,       \* forwarding goroutine: none, simple, loop, wait, end, done
    urls,      \* number of addresses the loop ranges over
    i,         \* the loop's current address
    success,   \* the loop's local "success"
    targetOp,  \* rop.targetOp (0: nil)
    ropErr,    \* rop.err # nil
    chDone,    \* rop.chDone closed
    post,      \* alias goroutine: none, wait, done
    aliases    \* aliases created on r: [name, op]

vars == <<call, mode, ret, ops, peer, fwd, urls, i, success, targetOp,
          ropErr, chDone, post, aliases>>

OpState == [srv: {"source", "target"}, st: {"running", "success", "failure"}]

NewOp(s) == [srv |-> s, st |-> "running"]

Init ==
    /\ call = "idle" /\ mode = "local" /\ ret = "none"
    /\ ops = <<>> /\ peer = 0
    /\ fwd = "none" /\ urls = 0 /\ i = 1 /\ success = FALSE
    /\ targetOp = 0 /\ ropErr = FALSE /\ chDone = FALSE
    /\ post = "none" /\ aliases = {}

(***************************************************************************)
(* How a call returns.  Operations it created stay on the servers.        *)
(***************************************************************************)
ReturnError(os, p) ==
    /\ ret' = "error" /\ ops' = os /\ peer' = p
    /\ UNCHANGED <<fwd, urls, i, success, targetOp, ropErr, chDone, post>>

\* A RemoteOperation whose goroutine Waits on the single operation t.
ReturnSimple(os, p, t) ==
    /\ ret' = "rop" /\ ops' = os /\ peer' = p
    /\ targetOp' = t /\ fwd' = "simple"
    /\ UNCHANGED <<urls, i, success, ropErr, chDone, post>>

\* A RemoteOperation whose goroutine tries the n addresses in turn.
ReturnLoop(os, p, n, withPost) ==
    /\ ret' = "rop" /\ ops' = os /\ peer' = p
    /\ fwd' = "loop" /\ urls' = n /\ i' = 1
    /\ post' = IF withPost THEN "wait" ELSE "none"
    /\ UNCHANGED <<success, targetOp, ropErr, chDone>>

\* tryCreateContainer, tryMigrateContainer and tryMigrateContainerSnapshot:
\* no address is an error, else the forwarding goroutine starts.
TryCreateContainer(os, p, n) ==
    IF n = 0 THEN ReturnError(os, p) ELSE ReturnLoop(os, p, n, FALSE)

TryMigrateContainer(os, p, n) ==
    IF n = 0 THEN ReturnError(os, p) ELSE ReturnLoop(os, p, n, FALSE)

TryMigrateContainerSnapshot(os, p, n) ==
    IF n = 0 THEN ReturnError(os, p) ELSE ReturnLoop(os, p, n, FALSE)

\* tryCopyImage: the alias goroutine is started when aliases are asked for
\* and the target lacks the image_create_aliases extension.
TryCopyImage(n, needPost) ==
    IF n = 0 THEN ReturnError(ops, 0) ELSE ReturnLoop(ops, 0, n, needPost)

(***************************************************************************)
(* The calls.  Each synchronous request may fail; the call then returns   *)
(* its error at once.                                                     *)
(***************************************************************************)
\* GetConnectionInfo, and GetImageSecret of a private image, may fail.
CopyImage ==
    /\ call = "idle"
    /\ call' = "CopyImage" /\ mode' = "pull"
    /\ \E sameServer, ok, withAliases, hasExt \in BOOLEAN, n \in 0..MaxAddr :
          IF sameServer \/ ~ok THEN ReturnError(ops, 0)
          ELSE TryCopyImage(n, withAliases /\ ~hasExt)
    /\ UNCHANGED aliases

CreateContainerFromImage ==
    /\ call = "idle"
    /\ call' = "CreateContainerFromImage"
    /\ \E sameServer, ok \in BOOLEAN, n \in 0..MaxAddr :
          /\ mode' = IF sameServer THEN "local" ELSE "pull"
          /\ CASE ~ok -> ReturnError(ops, 0)
               [] sameServer ->
                    ReturnSimple(Append(ops, NewOp("target")), 0, Len(ops) + 1)
               [] OTHER -> TryCreateContainer(ops, 0, n)
    /\ UNCHANGED aliases

\* proxyMigration and what the relay does with its result.  It returns an
\* error when the target expects a socket the source does not offer, or
\* when a control websocket does not connect; a data socket that does not
\* connect only ends the loop over data sockets, and nil is returned.
ProxyMigration(os, p, ok) ==
    IF ok THEN ReturnSimple(os, p, Len(os)) ELSE ReturnError(os, p)

\* CopyContainer and CopyContainerSnapshot from the API extension checks on
\* (their requests differ, their control does not); push mode goes on in
\* the call's own try function.  "so" adds the source's migration operation,
\* "to" then the target's.
CopyFlow(m, c) ==
    /\ mode' = m
    /\ \E extOK, ok1, ok2, proxyOK \in BOOLEAN, n \in 0..MaxAddr :
        LET so == Append(ops, NewOp("source"))
            to == Append(so, NewOp("target"))
        IN
        CASE ~extOK \/ ~ok1 -> ReturnError(ops, 0)
          [] m = "local" ->
                ReturnSimple(Append(ops, NewOp("target")), 0, Len(ops) + 1)
             \* push: GetConnectionInfo of r and CreateContainer on r (ok1),
             \* then the source pushes to one of r's addresses.
          [] m = "push" /\ c = "CopyContainer" ->
                TryMigrateContainer(Append(ops, NewOp("target")), Len(ops) + 1, n)
          [] m = "push" ->
                TryMigrateContainerSnapshot(Append(ops, NewOp("target")),
                                            Len(ops) + 1, n)
             \* relay and pull: GetConnectionInfo and MigrateContainer on the
             \* source (ok1) first; relay then CreateContainer on r (ok2).
          [] m = "relay" ->
                IF ~ok2 THEN ReturnError(so, Len(so))
                ELSE ProxyMigration(to, Len(so), proxyOK)
          [] OTHER -> TryCreateContainer(so, Len(so), n)
    /\ UNCHANGED aliases

CopyContainer(m) ==
    /\ call = "idle"
    /\ call' = "CopyContainer"
    /\ CopyFlow(m, "CopyContainer")

CopyContainerSnapshot(m) ==
    /\ call = "idle"
    /\ call' = "CopyContainerSnapshot"
    /\ CopyFlow(m, "CopyContainerSnapshot")

(***************************************************************************)
(* The forwarding goroutine.  Attempt is one iteration's request: in push *)
(* mode the source's MigrateContainer towards address i, else r's        *)
(* CreateContainer or CreateImage from address i.                         *)
(***************************************************************************)
loopVars == <<urls, i, success>>

\* Mutant: the loop runs one address past the end.
AttemptPastEnd ==
    /\ fwd = "loop" /\ i <= urls + 1
    /\ \E ok \in BOOLEAN :
         IF ok THEN /\ ops' = Append(ops, NewOp(IF mode = "push" THEN "source"
                                                 ELSE "target"))
                    /\ targetOp' = Len(ops) + 1
                    /\ fwd' = "wait"
                    /\ UNCHANGED i
         ELSE /\ i' = i + 1
              /\ UNCHANGED <<ops, targetOp, fwd>>
    /\ UNCHANGED <<call, mode, ret, peer, urls, success, ropErr, chDone, post,
                   aliases>>

Attempt ==
    /\ fwd = "loop" /\ i <= urls
    /\ \E ok \in BOOLEAN :
         IF ok THEN /\ ops' = Append(ops, NewOp(IF mode = "push" THEN "source"
                                                 ELSE "target"))
                    /\ targetOp' = Len(ops) + 1
                    /\ fwd' = "wait"
                    /\ UNCHANGED i
         ELSE /\ i' = i + 1
              /\ UNCHANGED <<ops, targetOp, fwd>>
    /\ UNCHANGED <<call, mode, ret, peer, urls, success, ropErr, chDone, post,
                   aliases>>

\* The outcomes rop.targetOp.Wait() may return now: the finished
\* operation's own, or an error while it still runs.
WaitErrors ==
    LET st == ops[targetOp].st
    IN  CASE st = "success" -> {FALSE}
          [] st = "failure" -> {TRUE}
          [] OTHER          -> IF LostWait THEN {TRUE} ELSE {}

\* Mutant: the "break" after success is missing.
WaitReturnNoBreak ==
    /\ fwd = "wait"
    /\ \E err \in WaitErrors :
         IF err THEN i' = i + 1 /\ fwd' = "loop" /\ UNCHANGED success
         ELSE success' = TRUE /\ fwd' = "loop" /\ i' = i + 1
    /\ UNCHANGED <<call, mode, ret, ops, peer, urls, targetOp, ropErr, chDone,
                   post, aliases>>

\* The error continues with the next address; success breaks the loop.
WaitReturn ==
    /\ fwd = "wait"
    /\ \E err \in WaitErrors :
         IF err THEN i' = i + 1 /\ fwd' = "loop" /\ UNCHANGED success
         ELSE success' = TRUE /\ fwd' = "end" /\ UNCHANGED i
    /\ UNCHANGED <<call, mode, ret, ops, peer, urls, targetOp, ropErr, chDone,
                   post, aliases>>

\* Mutant: the failure path returns before close(rop.chDone).
FinishNoCloseOnError ==
    /\ \/ fwd = "end"
       \/ fwd = "loop" /\ i > urls
    /\ ropErr' = ~success
    /\ chDone' = success
    /\ fwd' = "done"
    /\ UNCHANGED <<call, mode, ret, ops, peer, urls, i, success, targetOp,
                   post, aliases>>

\* After the loop: rop.err unless an address succeeded; close(rop.chDone).
Finish ==
    /\ \/ fwd = "end"
       \/ fwd = "loop" /\ i > urls
    /\ ropErr' = ~success
    /\ chDone' = TRUE
    /\ fwd' = "done"
    /\ UNCHANGED <<call, mode, ret, ops, peer, urls, i, success, targetOp,
                   post, aliases>>

\* The goroutine of a local copy or relay: rop.err = rop.targetOp.Wait().
SimpleWait ==
    /\ fwd = "simple"
    /\ \E err \in WaitErrors :
         /\ ropErr' = err
         /\ chDone' = TRUE
         /\ fwd' = "done"
    /\ UNCHANGED <<call, mode, ret, ops, peer, urls, i, success, targetOp,
                   post, aliases>>

(***************************************************************************)
(* tryCopyImage's alias goroutine: after chDone, unless rop.err is set or *)
(* GetTarget has no operation, one CreateImageAlias per requested alias,  *)
(* towards the fingerprint of the target operation; their errors are     *)
(* ignored, so any subset of the aliases may be created.                 *)
(***************************************************************************)
PostAliases ==
    /\ post = "wait" /\ chDone
    /\ post' = "done"
    /\ IF ropErr \/ targetOp = 0 THEN UNCHANGED aliases
       ELSE \E made \in SUBSET AliasNames :
              aliases' = aliases \cup {[name |-> a, op |-> targetOp] : a \in made}
    /\ UNCHANGED <<call, mode, ret, ops, peer, fwd, urls, i, success,
                   targetOp, ropErr, chDone>>

(***************************************************************************)
(* The servers finish their operations.                                   *)
(***************************************************************************)
OpFinish(o) ==
    /\ ops[o].st = "running"
    /\ \E st \in {"success", "failure"} : ops' = [ops EXCEPT ![o].st = st]
    /\ UNCHANGED <<call, mode, ret, peer, fwd, urls, i, success, targetOp,
                   ropErr, chDone, post, aliases>>

Next ==
    \/ CopyImage \/ CreateContainerFromImage
    \/ \E m \in Modes : CopyContainer(m) \/ CopyContainerSnapshot(m)
    \/ Attempt \/ WaitReturn \/ Finish \/ SimpleWait \/ PostAliases
    \/ \E o \in 1..Len(ops) : OpFinish(o)

\* Go schedules every runnable goroutine, and a server finishes every
\* operation it has started.  The client call itself need not be made.
Fairness ==
    /\ WF_vars(Attempt) /\ WF_vars(WaitReturn) /\ WF_vars(Finish)
    /\ WF_vars(SimpleWait) /\ WF_vars(PostAliases)
    /\ WF_vars(\E o \in 1..Len(ops) : OpFinish(o))

Spec == Init /\ [][Next]_vars /\ Fairness

(***************************************************************************)
(* Properties.                                                            *)
(***************************************************************************)
TypeOK ==
    /\ call \in Calls \cup {"idle"} /\ mode \in Modes
    /\ ret \in {"none", "error", "rop"}
    /\ ops \in Seq(OpState) /\ peer \in 0..Len(ops)
    /\ fwd \in {"none", "simple", "loop", "wait", "end", "done"}
    /\ urls \in 0..MaxAddr /\ i \in 1..(MaxAddr + 1) /\ success \in BOOLEAN
    /\ targetOp \in 0..Len(ops) /\ ropErr \in BOOLEAN /\ chDone \in BOOLEAN
    /\ post \in {"none", "wait", "done"}
    /\ aliases \subseteq [name: AliasNames, op: 1..Len(ops)]

\* When a RemoteOperation reports success (chDone closed, rop.err nil),
\* rop.targetOp is an operation that succeeded: the retry loop of the try
\* functions must stop at the first address whose Wait succeeded, or a
\* later attempt replaces targetOp while "success" stays set.
ReportedOutcomeSound ==
    chDone /\ ~ropErr => targetOp # 0 /\ ops[targetOp].st = "success"

\* Every RemoteOperation returned to the caller completes: chDone is
\* eventually closed on every path of its goroutine, and the alias
\* goroutine (chPost) then finishes too, so rop.Wait returns.
RemoteOpCompletes == (ret = "rop") ~> (chDone /\ post # "wait")
====
