--------------------------- MODULE AccountOwnership ---------------------------
(***************************************************************************)
(* Who may write for the account (operator.py, store.WriterLock,           *)
(* service.serve): a runtime or a standalone operator command takes the    *)
(* lease of its state directory, then the lock of the account's writer. A  *)
(* command that finds the runtime's socket asks the runtime instead.       *)
(***************************************************************************)
EXTENDS Integers, FiniteSets

CONSTANTS Runtimes, Commands,
          Dir,        \* the state directory of each process; one account in all
          Nobody

Owners == Runtimes \cup Commands
Dirs == {Dir[p] : p \in Owners}

ASSUME OwnershipAssumption == Runtimes \cap Commands = {} /\ Nobody \notin Owners

VARIABLES
    runtime,    \* where each runtime is in serve
    command,    \* where each command is
    lease,      \* owner.lock of each directory
    writer,     \* the account's lock
    socket,     \* control.sock: the runtime that bound it
    listening,  \* runtimes that accept connections
    dialed,     \* the runtime a command is connected to and not accepted by
    handling,   \* the runtime that has accepted a command and not answered it
    replied,    \* commands the runtime has answered
    ran         \* how often a command was executed

ownershipVars == <<runtime, command, lease, writer, socket, listening, dialed, handling, replied, ran>>

OwnershipInit ==
    /\ runtime = [r \in Runtimes |-> "down"] /\ command = [c \in Commands |-> "new"]
    /\ lease = [d \in Dirs |-> Nobody] /\ writer = Nobody
    /\ socket = [d \in Dirs |-> Nobody] /\ listening = {}
    /\ dialed = [c \in Commands |-> Nobody] /\ handling = [c \in Commands |-> Nobody]
    /\ replied = {} /\ ran = [c \in Commands |-> 0]

Locked(p) == lease[Dir[p]] = p
Lock(p) == lease[Dir[p]] = Nobody /\ lease' = [lease EXCEPT ![Dir[p]] = p]
Unlock(p) == lease' = [lease EXCEPT ![Dir[p]] = Nobody]
FreeWriter(p) == writer' = IF writer = p THEN Nobody ELSE writer

Runs(r, place) == runtime' = [runtime EXCEPT ![r] = place]
Goes(c, place) == command' = [command EXCEPT ![c] = place]

----------------------------------------------------------------------------
(* serve, OperatorServer *)

\* The lease is taken before the application exists.
Lease(r) ==
    /\ runtime[r] = "down" /\ Lock(r) /\ Runs(r, "leased")
    /\ UNCHANGED <<command, writer, socket, listening, dialed, handling, replied, ran>>

\* A second writer is refused; then, or if it fails otherwise, the start is given up and retried.
OpenApp(r) ==
    /\ runtime[r] = "leased"
    /\ \/ writer = Nobody /\ writer' = r /\ Runs(r, "open") /\ UNCHANGED lease
       \/ Unlock(r) /\ Runs(r, "down") /\ UNCHANGED writer
    /\ UNCHANGED <<command, socket, listening, dialed, handling, replied, ran>>

\* The socket of a dead runtime is replaced, that of one that listens is not.
Listen(r) ==
    /\ runtime[r] = "open"
    /\ \/ /\ socket[Dir[r]] \notin listening
          /\ socket' = [socket EXCEPT ![Dir[r]] = r] /\ listening' = listening \cup {r}
          /\ Runs(r, "serving") /\ UNCHANGED <<lease, writer>>
       \/ Runs(r, "drained") /\ UNCHANGED <<socket, listening, lease, writer>>
    /\ UNCHANGED <<command, dialed, handling, replied, ran>>

\* A connection that is not accepted ends with the listener.
HangUp(r) == dialed' = [c \in Commands |-> IF dialed[c] = r THEN Nobody ELSE dialed[c]]

Accept(r, c) ==
    /\ runtime[r] = "serving" /\ dialed[c] = r
    /\ dialed' = [dialed EXCEPT ![c] = Nobody] /\ handling' = [handling EXCEPT ![c] = r]
    /\ UNCHANGED <<runtime, command, lease, writer, socket, listening, replied, ran>>

\* A handler's thread: the command is executed once, whether or not the answer arrives.
Handle(c) ==
    /\ handling[c] /= Nobody /\ ran' = [ran EXCEPT ![c] = @ + 1]
    /\ handling' = [handling EXCEPT ![c] = Nobody] /\ replied' = replied \cup {c}
    /\ UNCHANGED <<runtime, command, lease, writer, socket, listening, dialed>>

Shut(r) ==
    /\ runtime[r] = "serving" /\ Runs(r, "draining") /\ listening' = listening \ {r}
    /\ HangUp(r)
    /\ UNCHANGED <<command, lease, writer, socket, handling, replied, ran>>

\* Mutant: the runtime does not wait for the commands it is executing.
NeverWaits(r) == TRUE

Quiet(r) == \A c \in Commands : handling[c] /= r

\* OperatorServer.close, and the service's: a thread that does not end keeps both locks to the exit.
Drain(r) ==
    /\ runtime[r] = "draining" /\ Quiet(r) /\ Runs(r, "drained")
    /\ socket' = [socket EXCEPT ![Dir[r]] = IF @ = r THEN Nobody ELSE @]
    /\ UNCHANGED <<command, lease, writer, listening, dialed, handling, replied, ran>>

CloseApp(r) ==
    /\ runtime[r] = "drained" /\ FreeWriter(r) /\ Runs(r, "closed")
    /\ UNCHANGED <<command, lease, socket, listening, dialed, handling, replied, ran>>

CloseLease(r) ==
    /\ runtime[r] = "closed" /\ Unlock(r) /\ Runs(r, "down")
    /\ UNCHANGED <<command, writer, socket, listening, dialed, handling, replied, ran>>

\* The kernel gives the locks back; the socket's file stays.
Die(r) ==
    /\ runtime[r] /= "down" /\ Runs(r, "down") /\ Unlock(r) /\ FreeWriter(r)
    /\ listening' = listening \ {r} /\ HangUp(r)
    /\ handling' = [c \in Commands |-> IF handling[c] = r THEN Nobody ELSE handling[c]]
    /\ UNCHANGED <<command, socket, replied, ran>>

----------------------------------------------------------------------------
(* connect_or_claim, and main *)

LookForSocket(c) ==
    /\ command[c] = "new"
    /\ Goes(c, IF socket[Dir[c]] = Nobody THEN "claiming" ELSE "connecting")
    /\ UNCHANGED <<runtime, lease, writer, socket, listening, dialed, handling, replied, ran>>

Claim(c) ==
    /\ command[c] = "claiming"
    /\ \/ Lock(c) /\ Goes(c, "claimed")
       \/ lease[Dir[c]] /= Nobody /\ Goes(c, "unavailable") /\ UNCHANGED lease
    /\ UNCHANGED <<runtime, writer, socket, listening, dialed, handling, replied, ran>>

\* A runtime may have come and gone meanwhile.
Recheck(c) ==
    /\ command[c] = "claimed"
    /\ \/ socket[Dir[c]] = Nobody /\ Goes(c, "leased") /\ UNCHANGED lease
       \/ socket[Dir[c]] /= Nobody /\ Goes(c, "connecting") /\ Unlock(c)
    /\ UNCHANGED <<runtime, writer, socket, listening, dialed, handling, replied, ran>>

Unreachable(c) == "unavailable"

\* From the connection on, the request may have arrived.
DialSocket(c) ==
    /\ command[c] = "connecting"
    /\ IF socket[Dir[c]] \in listening
         THEN Goes(c, "sent") /\ dialed' = [dialed EXCEPT ![c] = socket[Dir[c]]]
         ELSE Goes(c, Unreachable(c)) /\ UNCHANGED dialed
    /\ UNCHANGED <<runtime, lease, writer, socket, listening, handling, replied, ran>>

Receive(c) ==
    /\ command[c] = "sent" /\ c \in replied /\ Goes(c, "done")
    /\ UNCHANGED <<runtime, lease, writer, socket, listening, dialed, handling, replied, ran>>

\* Time is up, or the connection broke: no fallback, no retry.
GiveUp(c) ==
    /\ command[c] = "sent" /\ Goes(c, "unknown")
    /\ UNCHANGED <<runtime, lease, writer, socket, listening, dialed, handling, replied, ran>>

\* Standalone: an application of its own.
OpenAlone(c) ==
    /\ command[c] = "leased"
    /\ \/ writer = Nobody /\ writer' = c /\ Goes(c, "open") /\ UNCHANGED lease
       \/ Goes(c, "unavailable") /\ Unlock(c) /\ UNCHANGED writer
    /\ UNCHANGED <<runtime, socket, listening, dialed, handling, replied, ran>>

RunAlone(c) ==
    /\ command[c] = "open" /\ ran' = [ran EXCEPT ![c] = @ + 1] /\ Goes(c, "finished")
    /\ UNCHANGED <<runtime, lease, writer, socket, listening, dialed, handling, replied>>

CloseAlone(c) ==
    /\ command[c] = "finished" /\ FreeWriter(c) /\ Unlock(c) /\ Goes(c, "done")
    /\ UNCHANGED <<runtime, socket, listening, dialed, handling, replied, ran>>

OwnershipNext ==
    \/ \E r \in Runtimes :
        \/ Lease(r) \/ OpenApp(r) \/ Listen(r) \/ Shut(r) \/ Drain(r) \/ CloseApp(r)
        \/ CloseLease(r) \/ Die(r) \/ \E c \in Commands : Accept(r, c)
    \/ \E c \in Commands :
        \/ Handle(c) \/ LookForSocket(c) \/ Claim(c) \/ Recheck(c)
        \/ DialSocket(c) \/ Receive(c) \/ GiveUp(c)
        \/ OpenAlone(c) \/ RunAlone(c) \/ CloseAlone(c)

OwnershipSpec == OwnershipInit /\ [][OwnershipNext]_ownershipVars

----------------------------------------------------------------------------
(* Properties *)

Open == {r \in Runtimes : runtime[r] \in {"open", "serving", "draining", "drained"}}
            \cup {c \in Commands : command[c] \in {"open", "finished"}}

\* One process has the account's ledger open, and it holds both locks; a command is executed
\* at most once and only there, and what its caller is told is true: done means executed,
\* unavailable not executed, unknown either.  (OperatorLease, connect_or_claim, close_runtime)
OneOwner ==
    /\ Cardinality(Open) <= 1
    /\ \A p \in Open : Locked(p) /\ writer = p
    /\ \A c \in Commands :
        /\ handling[c] /= Nobody => handling[c] \in Open
        /\ ran[c] <= 1
        /\ command[c] = "done" => ran[c] = 1
        /\ command[c] = "unavailable" => ran[c] = 0
=============================================================================
