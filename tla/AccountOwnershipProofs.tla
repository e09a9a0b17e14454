------------------------ MODULE AccountOwnershipProofs ------------------------
(***************************************************************************)
(* OneOwner for any runtimes, commands and state directories.              *)
(*                                                                         *)
(* OneOwner is not inductive: that a command a runtime has accepted is     *)
(* executed while the ledger is open rests on the drain waiting for it     *)
(* (Handlers), that it is executed once on where a command may still be    *)
(* connected, accepted or answered (Executions), and that nobody gives     *)
(* back another's lock on the locks going with the places (Ownership).     *)
(***************************************************************************)
EXTENDS AccountOwnership, FiniteSetTheorems, TLAPS

RuntimePlaces == {"down", "leased", "open", "serving", "draining", "drained", "closed"}
CommandPlaces == {"new", "claiming", "claimed", "leased", "open", "finished", "connecting",
                  "sent", "done", "unknown", "unavailable"}

OwnershipTypeOK ==
    /\ runtime \in [Runtimes -> RuntimePlaces] /\ command \in [Commands -> CommandPlaces]
    /\ lease \in [Dirs -> Owners \cup {Nobody}] /\ writer \in Owners \cup {Nobody}
    /\ socket \in [Dirs -> Runtimes \cup {Nobody}] /\ listening \subseteq Runtimes
    /\ dialed \in [Commands -> Runtimes \cup {Nobody}]
    /\ handling \in [Commands -> Runtimes \cup {Nobody}]
    /\ replied \subseteq Commands /\ ran \in [Commands -> Nat]

\* A process has the locks of the place it is at.
Ownership ==
    /\ \A r \in Runtimes :
        /\ runtime[r] # "down" => lease[Dir[r]] = r
        /\ runtime[r] \in {"open", "serving", "draining", "drained"} => writer = r
    /\ \A c \in Commands :
        /\ command[c] \in {"claimed", "leased", "open", "finished"} => lease[Dir[c]] = c
        /\ command[c] \in {"open", "finished"} => writer = c

\* A runtime that has accepted a command has not drained yet.
Handlers ==
    \A c \in Commands :
        handling[c] # Nobody => /\ handling[c] \in Runtimes
                                /\ runtime[handling[c]] \in {"serving", "draining"}

\* Where a command has not been executed yet, where it has, and where either may be.
Executions ==
    \A c \in Commands :
        /\ dialed[c] # Nobody => handling[c] = Nobody /\ ran[c] = 0 /\ c \notin replied
        /\ handling[c] # Nobody => ran[c] = 0 /\ c \notin replied
        /\ c \in replied => ran[c] = 1
        /\ ran[c] <= 1
        /\ command[c] \in {"finished", "done"} =>
                ran[c] = 1 /\ dialed[c] = Nobody /\ handling[c] = Nobody
        /\ command[c] \notin {"finished", "done", "sent", "unknown"} =>
                ran[c] = 0 /\ dialed[c] = Nobody /\ handling[c] = Nobody /\ c \notin replied

IInv == OwnershipTypeOK /\ Ownership /\ Handlers /\ Executions

LEMMA InitIInv == OwnershipInit => IInv
  BY OwnershipAssumption DEF OwnershipInit, IInv, OwnershipTypeOK, Ownership, Handlers,
     Executions, RuntimePlaces, CommandPlaces, Owners, Dirs

LEMMA LeaseKeeps == ASSUME IInv, NEW r \in Runtimes, Lease(r) PROVE IInv'
  <1> USE OwnershipAssumption DEF IInv, Lease, Lock, Runs
  <1>1. OwnershipTypeOK'
    BY DEF OwnershipTypeOK, RuntimePlaces, CommandPlaces, Owners, Dirs
  <1>2. Ownership'
    BY DEF OwnershipTypeOK, Ownership, RuntimePlaces, CommandPlaces, Owners, Dirs
  <1>3. Handlers'
    BY DEF OwnershipTypeOK, Ownership, Handlers, Executions, Owners
  <1>4. Executions'
    BY DEF OwnershipTypeOK, Ownership, Handlers, Executions, Owners
  <1> QED BY <1>1, <1>2, <1>3, <1>4

LEMMA OpenAppKeeps == ASSUME IInv, NEW r \in Runtimes, OpenApp(r) PROVE IInv'
  <1> USE OwnershipAssumption DEF IInv, OpenApp, Unlock, Runs
  <1>1. OwnershipTypeOK'
    BY DEF OwnershipTypeOK, RuntimePlaces, CommandPlaces, Owners, Dirs
  <1>2. Ownership'
    BY DEF OwnershipTypeOK, Ownership, RuntimePlaces, CommandPlaces, Owners, Dirs
  <1>3. Handlers'
    BY DEF OwnershipTypeOK, Ownership, Handlers, Executions, Owners
  <1>4. Executions'
    BY DEF OwnershipTypeOK, Ownership, Handlers, Executions, Owners
  <1> QED BY <1>1, <1>2, <1>3, <1>4

LEMMA ListenKeeps == ASSUME IInv, NEW r \in Runtimes, Listen(r) PROVE IInv'
  <1> USE OwnershipAssumption DEF IInv, Listen, Runs
  <1>1. OwnershipTypeOK'
    BY DEF OwnershipTypeOK, RuntimePlaces, CommandPlaces, Owners, Dirs
  <1>2. Ownership'
    BY DEF OwnershipTypeOK, Ownership, RuntimePlaces, CommandPlaces, Owners, Dirs
  <1>3. Handlers'
    BY DEF OwnershipTypeOK, Ownership, Handlers, Executions, Owners
  <1>4. Executions'
    BY DEF OwnershipTypeOK, Ownership, Handlers, Executions, Owners
  <1> QED BY <1>1, <1>2, <1>3, <1>4

LEMMA AcceptKeeps == ASSUME IInv, NEW r \in Runtimes, NEW c \in Commands, Accept(r, c) PROVE IInv'
  <1> USE OwnershipAssumption DEF IInv, Accept
  <1>1. OwnershipTypeOK'
    BY DEF OwnershipTypeOK, RuntimePlaces, CommandPlaces, Owners, Dirs
  <1>2. Ownership'
    BY DEF OwnershipTypeOK, Ownership, RuntimePlaces, CommandPlaces, Owners, Dirs
  <1>3. Handlers'
    BY DEF OwnershipTypeOK, Ownership, Handlers, Executions, Owners
  <1>4. Executions'
    BY DEF OwnershipTypeOK, Ownership, Handlers, Executions, Owners
  <1> QED BY <1>1, <1>2, <1>3, <1>4

LEMMA HandleKeeps == ASSUME IInv, NEW c \in Commands, Handle(c) PROVE IInv'
  <1> USE OwnershipAssumption DEF IInv, Handle
  <1>1. OwnershipTypeOK'
    BY DEF OwnershipTypeOK, RuntimePlaces, CommandPlaces, Owners, Dirs
  <1>2. Ownership'
    BY DEF OwnershipTypeOK, Ownership, RuntimePlaces, CommandPlaces, Owners, Dirs
  <1>3. Handlers'
    BY DEF OwnershipTypeOK, Ownership, Handlers, Executions, Owners
  <1>4. Executions'
    BY DEF OwnershipTypeOK, Ownership, Handlers, Executions, Owners
  <1> QED BY <1>1, <1>2, <1>3, <1>4

LEMMA ShutKeeps == ASSUME IInv, NEW r \in Runtimes, Shut(r) PROVE IInv'
  <1> USE OwnershipAssumption DEF IInv, Shut, Runs, HangUp
  <1>1. OwnershipTypeOK'
    BY DEF OwnershipTypeOK, RuntimePlaces, CommandPlaces, Owners, Dirs
  <1>2. Ownership'
    BY DEF OwnershipTypeOK, Ownership, RuntimePlaces, CommandPlaces, Owners, Dirs
  <1>3. Handlers'
    BY DEF OwnershipTypeOK, Ownership, Handlers, Executions, Owners
  <1>4. Executions'
    BY DEF OwnershipTypeOK, Ownership, Handlers, Executions, Owners
  <1> QED BY <1>1, <1>2, <1>3, <1>4

LEMMA DrainKeeps == ASSUME IInv, NEW r \in Runtimes, Drain(r) PROVE IInv'
  <1> USE OwnershipAssumption DEF IInv, Drain, Quiet, Runs
  <1>1. OwnershipTypeOK'
    BY DEF OwnershipTypeOK, RuntimePlaces, CommandPlaces, Owners, Dirs
  <1>2. Ownership'
    BY DEF OwnershipTypeOK, Ownership, RuntimePlaces, CommandPlaces, Owners, Dirs
  <1>3. Handlers'
    BY DEF OwnershipTypeOK, Ownership, Handlers, Executions, Owners
  <1>4. Executions'
    BY DEF OwnershipTypeOK, Ownership, Handlers, Executions, Owners
  <1> QED BY <1>1, <1>2, <1>3, <1>4

LEMMA CloseAppKeeps == ASSUME IInv, NEW r \in Runtimes, CloseApp(r) PROVE IInv'
  <1> USE OwnershipAssumption DEF IInv, CloseApp, FreeWriter, Runs
  <1>1. OwnershipTypeOK'
    BY DEF OwnershipTypeOK, RuntimePlaces, CommandPlaces, Owners, Dirs
  <1>2. Ownership'
    BY DEF OwnershipTypeOK, Ownership, RuntimePlaces, CommandPlaces, Owners, Dirs
  <1>3. Handlers'
    BY DEF OwnershipTypeOK, Ownership, Handlers, Executions, Owners
  <1>4. Executions'
    BY DEF OwnershipTypeOK, Ownership, Handlers, Executions, Owners
  <1> QED BY <1>1, <1>2, <1>3, <1>4

LEMMA CloseLeaseKeeps == ASSUME IInv, NEW r \in Runtimes, CloseLease(r) PROVE IInv'
  <1> USE OwnershipAssumption DEF IInv, CloseLease, Unlock, Runs
  <1>1. OwnershipTypeOK'
    BY DEF OwnershipTypeOK, RuntimePlaces, CommandPlaces, Owners, Dirs
  <1>2. Ownership'
    BY DEF OwnershipTypeOK, Ownership, RuntimePlaces, CommandPlaces, Owners, Dirs
  <1>3. Handlers'
    BY DEF OwnershipTypeOK, Ownership, Handlers, Executions, Owners
  <1>4. Executions'
    BY DEF OwnershipTypeOK, Ownership, Handlers, Executions, Owners
  <1> QED BY <1>1, <1>2, <1>3, <1>4

LEMMA DieKeeps == ASSUME IInv, NEW r \in Runtimes, Die(r) PROVE IInv'
  <1> USE OwnershipAssumption DEF IInv, Die, Runs, Unlock, FreeWriter, HangUp
  <1>1. OwnershipTypeOK'
    BY DEF OwnershipTypeOK, RuntimePlaces, CommandPlaces, Owners, Dirs
  <1>2. Ownership'
    BY DEF OwnershipTypeOK, Ownership, RuntimePlaces, CommandPlaces, Owners, Dirs
  <1>3. Handlers'
    BY DEF OwnershipTypeOK, Ownership, Handlers, Executions, Owners
  <1>4. Executions'
    BY DEF OwnershipTypeOK, Ownership, Handlers, Executions, Owners
  <1> QED BY <1>1, <1>2, <1>3, <1>4

LEMMA LookForSocketKeeps == ASSUME IInv, NEW c \in Commands, LookForSocket(c) PROVE IInv'
  <1> USE OwnershipAssumption DEF IInv, LookForSocket, Goes
  <1>1. OwnershipTypeOK'
    BY DEF OwnershipTypeOK, RuntimePlaces, CommandPlaces, Owners, Dirs
  <1>2. Ownership'
    BY DEF OwnershipTypeOK, Ownership, RuntimePlaces, CommandPlaces, Owners, Dirs
  <1>3. Handlers'
    BY DEF OwnershipTypeOK, Ownership, Handlers, Executions, Owners
  <1>4. Executions'
    BY DEF OwnershipTypeOK, Ownership, Handlers, Executions, Owners
  <1> QED BY <1>1, <1>2, <1>3, <1>4

LEMMA ClaimKeeps == ASSUME IInv, NEW c \in Commands, Claim(c) PROVE IInv'
  <1> USE OwnershipAssumption DEF IInv, Claim, Lock, Goes
  <1>1. OwnershipTypeOK'
    BY DEF OwnershipTypeOK, RuntimePlaces, CommandPlaces, Owners, Dirs
  <1>2. Ownership'
    BY DEF OwnershipTypeOK, Ownership, RuntimePlaces, CommandPlaces, Owners, Dirs
  <1>3. Handlers'
    BY DEF OwnershipTypeOK, Ownership, Handlers, Executions, Owners
  <1>4. Executions'
    BY DEF OwnershipTypeOK, Ownership, Handlers, Executions, Owners
  <1> QED BY <1>1, <1>2, <1>3, <1>4

LEMMA RecheckKeeps == ASSUME IInv, NEW c \in Commands, Recheck(c) PROVE IInv'
  <1> USE OwnershipAssumption DEF IInv, Recheck, Unlock, Goes
  <1>1. OwnershipTypeOK'
    BY DEF OwnershipTypeOK, RuntimePlaces, CommandPlaces, Owners, Dirs
  <1>2. Ownership'
    BY DEF OwnershipTypeOK, Ownership, RuntimePlaces, CommandPlaces, Owners, Dirs
  <1>3. Handlers'
    BY DEF OwnershipTypeOK, Ownership, Handlers, Executions, Owners
  <1>4. Executions'
    BY DEF OwnershipTypeOK, Ownership, Handlers, Executions, Owners
  <1> QED BY <1>1, <1>2, <1>3, <1>4

LEMMA DialSocketKeeps == ASSUME IInv, NEW c \in Commands, DialSocket(c) PROVE IInv'
  <1> USE OwnershipAssumption DEF IInv, DialSocket, Unreachable, Goes
  <1>1. OwnershipTypeOK'
    BY DEF OwnershipTypeOK, RuntimePlaces, CommandPlaces, Owners, Dirs
  <1>2. Ownership'
    BY DEF OwnershipTypeOK, Ownership, RuntimePlaces, CommandPlaces, Owners, Dirs
  <1>3. Handlers'
    BY DEF OwnershipTypeOK, Ownership, Handlers, Executions, Owners
  <1>4. Executions'
    BY DEF OwnershipTypeOK, Ownership, Handlers, Executions, Owners
  <1> QED BY <1>1, <1>2, <1>3, <1>4

LEMMA ReceiveKeeps == ASSUME IInv, NEW c \in Commands, Receive(c) PROVE IInv'
  <1> USE OwnershipAssumption DEF IInv, Receive, Goes
  <1>1. OwnershipTypeOK'
    BY DEF OwnershipTypeOK, RuntimePlaces, CommandPlaces, Owners, Dirs
  <1>2. Ownership'
    BY DEF OwnershipTypeOK, Ownership, RuntimePlaces, CommandPlaces, Owners, Dirs
  <1>3. Handlers'
    BY DEF OwnershipTypeOK, Ownership, Handlers, Executions, Owners
  <1>4. Executions'
    BY DEF OwnershipTypeOK, Ownership, Handlers, Executions, Owners
  <1> QED BY <1>1, <1>2, <1>3, <1>4

LEMMA GiveUpKeeps == ASSUME IInv, NEW c \in Commands, GiveUp(c) PROVE IInv'
  <1> USE OwnershipAssumption DEF IInv, GiveUp, Goes
  <1>1. OwnershipTypeOK'
    BY DEF OwnershipTypeOK, RuntimePlaces, CommandPlaces, Owners, Dirs
  <1>2. Ownership'
    BY DEF OwnershipTypeOK, Ownership, RuntimePlaces, CommandPlaces, Owners, Dirs
  <1>3. Handlers'
    BY DEF OwnershipTypeOK, Ownership, Handlers, Executions, Owners
  <1>4. Executions'
    BY DEF OwnershipTypeOK, Ownership, Handlers, Executions, Owners
  <1> QED BY <1>1, <1>2, <1>3, <1>4

LEMMA OpenAloneKeeps == ASSUME IInv, NEW c \in Commands, OpenAlone(c) PROVE IInv'
  <1> USE OwnershipAssumption DEF IInv, OpenAlone, Unlock, Goes
  <1>1. OwnershipTypeOK'
    BY DEF OwnershipTypeOK, RuntimePlaces, CommandPlaces, Owners, Dirs
  <1>2. Ownership'
    BY DEF OwnershipTypeOK, Ownership, RuntimePlaces, CommandPlaces, Owners, Dirs
  <1>3. Handlers'
    BY DEF OwnershipTypeOK, Ownership, Handlers, Executions, Owners
  <1>4. Executions'
    BY DEF OwnershipTypeOK, Ownership, Handlers, Executions, Owners
  <1> QED BY <1>1, <1>2, <1>3, <1>4

LEMMA RunAloneKeeps == ASSUME IInv, NEW c \in Commands, RunAlone(c) PROVE IInv'
  <1> USE OwnershipAssumption DEF IInv, RunAlone, Goes
  <1>1. OwnershipTypeOK'
    BY DEF OwnershipTypeOK, RuntimePlaces, CommandPlaces, Owners, Dirs
  <1>2. Ownership'
    BY DEF OwnershipTypeOK, Ownership, RuntimePlaces, CommandPlaces, Owners, Dirs
  <1>3. Handlers'
    BY DEF OwnershipTypeOK, Ownership, Handlers, Executions, Owners
  <1>4. Executions'
    BY DEF OwnershipTypeOK, Ownership, Handlers, Executions, Owners
  <1> QED BY <1>1, <1>2, <1>3, <1>4

LEMMA CloseAloneKeeps == ASSUME IInv, NEW c \in Commands, CloseAlone(c) PROVE IInv'
  <1> USE OwnershipAssumption DEF IInv, CloseAlone, FreeWriter, Unlock, Goes
  <1>1. OwnershipTypeOK'
    BY DEF OwnershipTypeOK, RuntimePlaces, CommandPlaces, Owners, Dirs
  <1>2. Ownership'
    BY DEF OwnershipTypeOK, Ownership, RuntimePlaces, CommandPlaces, Owners, Dirs
  <1>3. Handlers'
    BY DEF OwnershipTypeOK, Ownership, Handlers, Executions, Owners
  <1>4. Executions'
    BY DEF OwnershipTypeOK, Ownership, Handlers, Executions, Owners
  <1> QED BY <1>1, <1>2, <1>3, <1>4

-----------------------------------------------------------------------------
\* IInv holds throughout: the places of runtimes and commands, their locks and the executions
\* of a command always go together.  (serve, connect_or_claim, OperatorServer)
THEOREM Invariance == OwnershipSpec => []IInv
  <1>1. IInv /\ [OwnershipNext]_ownershipVars => IInv'
    <2> SUFFICES ASSUME IInv, [OwnershipNext]_ownershipVars PROVE IInv' OBVIOUS
    <2>1. CASE \E r \in Runtimes : Lease(r) BY <2>1, LeaseKeeps
    <2>2. CASE \E r \in Runtimes : OpenApp(r) BY <2>2, OpenAppKeeps
    <2>3. CASE \E r \in Runtimes : Listen(r) BY <2>3, ListenKeeps
    <2>4. CASE \E r \in Runtimes, c \in Commands : Accept(r, c) BY <2>4, AcceptKeeps
    <2>5. CASE \E c \in Commands : Handle(c) BY <2>5, HandleKeeps
    <2>6. CASE \E r \in Runtimes : Shut(r) BY <2>6, ShutKeeps
    <2>7. CASE \E r \in Runtimes : Drain(r) BY <2>7, DrainKeeps
    <2>8. CASE \E r \in Runtimes : CloseApp(r) BY <2>8, CloseAppKeeps
    <2>9. CASE \E r \in Runtimes : CloseLease(r) BY <2>9, CloseLeaseKeeps
    <2>10. CASE \E r \in Runtimes : Die(r) BY <2>10, DieKeeps
    <2>11. CASE \E c \in Commands : LookForSocket(c) BY <2>11, LookForSocketKeeps
    <2>12. CASE \E c \in Commands : Claim(c) BY <2>12, ClaimKeeps
    <2>13. CASE \E c \in Commands : Recheck(c) BY <2>13, RecheckKeeps
    <2>14. CASE \E c \in Commands : DialSocket(c) BY <2>14, DialSocketKeeps
    <2>15. CASE \E c \in Commands : Receive(c) BY <2>15, ReceiveKeeps
    <2>16. CASE \E c \in Commands : GiveUp(c) BY <2>16, GiveUpKeeps
    <2>17. CASE \E c \in Commands : OpenAlone(c) BY <2>17, OpenAloneKeeps
    <2>18. CASE \E c \in Commands : RunAlone(c) BY <2>18, RunAloneKeeps
    <2>19. CASE \E c \in Commands : CloseAlone(c) BY <2>19, CloseAloneKeeps
    <2>20. CASE UNCHANGED ownershipVars
      BY <2>20 DEF ownershipVars, IInv, OwnershipTypeOK, Ownership, Handlers, Executions
    <2> QED
      BY <2>1, <2>2, <2>3, <2>4, <2>5, <2>6, <2>7, <2>8, <2>9, <2>10, <2>11, <2>12,
         <2>13, <2>14, <2>15, <2>16, <2>17, <2>18, <2>19, <2>20 DEF OwnershipNext
  <1> QED BY <1>1, InitIInv, PTL DEF OwnershipSpec

LEMMA OwnerAlone == IInv => OneOwner
  <1> SUFFICES ASSUME IInv PROVE OneOwner OBVIOUS
  <1>1. \A p \in Open : Locked(p) /\ writer = p
    BY DEF IInv, Ownership, Open, Locked
  <1>2. Cardinality(Open) <= 1
    <2>1. CASE Open = {}
      <3>1. Cardinality(Open) = 0 BY <2>1, FS_EmptySet, Zenon
      <3> QED BY <3>1
    <2>2. CASE Open # {}
      <3>1. Open = {writer} BY <2>2, <1>1
      <3>2. Cardinality(Open) = 1 BY <3>1, FS_Singleton, Zenon
      <3> QED BY <3>2
    <2> QED BY <2>1, <2>2
  <1>3. \A c \in Commands : handling[c] # Nobody => handling[c] \in Open
    BY DEF IInv, Handlers, Open
  <1>4. \A c \in Commands : /\ ran[c] <= 1
                            /\ command[c] = "done" => ran[c] = 1
                            /\ command[c] = "unavailable" => ran[c] = 0
    BY DEF IInv, Executions
  <1> QED BY <1>1, <1>2, <1>3, <1>4 DEF OneOwner

\* One process at a time has the account's ledger open and holds both locks, and what a
\* command's caller is told of its execution is true.  (OperatorLease, WriterLock, serve)
THEOREM SingleOwner == OwnershipSpec => []OneOwner
  BY Invariance, OwnerAlone, PTL
=============================================================================
