------------------------------ MODULE QmpClient ------------------------------
(***************************************************************************)
(* QmpClient, src/core/qmpclient.cpp: one connection at a time to the QMP  *)
(* socket of a QEMU, the commands that wait for it and the callbacks that  *)
(* wait for their reply.                                                   *)
(*                                                                         *)
(* The code runs on one thread.  A handler is one action, save for         *)
(* failAll(), whose callbacks may call execute() again: each callback is a *)
(* step, and until the last one (Busy) the event loop delivers nothing     *)
(* else.  QEMU's side of the socket is modelled as qmpclient.cpp uses it:  *)
(* a greeting, then one reply per command, in the order they were sent; it *)
(* may close at any time, and what it had written may or may not be read.  *)
(***************************************************************************)
EXTENDS Naturals, SequencesExt

CONSTANTS
    MaxId,              \* bound: no command is executed once nextId is larger
    MaxConnections,     \* bound: calls of connectToSocket in a behaviour
    MaxInFlight         \* bound: messages of QEMU the client has not read

ASSUME ConstantsAssumption ==
    /\ MaxId \in Nat
    /\ MaxConnections \in Nat
    /\ MaxInFlight \in Nat \ {0}

VARIABLES
    socket,         \* d->socket: "none", "opening", or "up" once d->connected
    ready,          \* d->ready
    nextId,         \* d->nextId
    capabilitiesId, \* d->capabilitiesId, NoId while none was sent
    queued,         \* d->queued: what execute() was called with before ready
    sent,           \* d->sent: the ids of the callbacks that wait for a reply
    failing,        \* in failAll(): the ids of the callbacks still to call
    after,          \* what the caller of failAll() does next
    inbox,          \* written to the socket, not read by QEMU yet
    outbox,         \* written by QEMU, not read by the client yet
    server,         \* QEMU: "absent", "greeted", "negotiated", or "closed"
    heard,          \* history: the last signal since the owner connected or left
    connections,    \* history: how many connections were opened
    wanted,         \* history: the ids executed with a callback
    calls,          \* history: how often the callback of an id was called
    ran             \* history: the last command that QEMU has run

clientVars == <<socket, ready, nextId, capabilitiesId, queued, sent, failing, after>>
qemuVars == <<inbox, outbox, server, ran>>
ledgerVars == <<connections, wanted, calls>>
vars == <<clientVars, qemuVars, heard, ledgerVars>>

Ids == 1 .. MaxId
NoId == 0

Command == [id : Ids, callback : BOOLEAN]

Init ==
    /\ socket = "none"
    /\ ready = FALSE
    /\ nextId = 1
    /\ capabilitiesId = NoId
    /\ queued = <<>>
    /\ sent = {}
    /\ failing = {}
    /\ after = "nothing"
    /\ inbox = <<>>
    /\ outbox = <<>>
    /\ server = "absent"
    /\ heard = "nothing"
    /\ connections = 0
    /\ wanted = {}
    /\ calls = [id \in Ids |-> 0]
    /\ ran = 0

-----------------------------------------------------------------------------
(* Helpers of the handlers.                                                *)

Busy == failing # {} \/ after # "nothing"

WithCallback(commands) == {c.id : c \in {d \in ToSet(commands) : d.callback}}

RequestOf(c) == [id |-> c.id, capabilities |-> FALSE]

DropReady ==                \* mutant: drop() leaves d->ready as it was
    /\ socket' = "none"
    /\ ready' = ready
    /\ capabilitiesId' = NoId
    /\ inbox' = <<>>
    /\ outbox' = <<>>
    /\ server' = "absent"

(* drop(): the connection and what was in flight on it are gone.           *)
Drop ==
    /\ socket' = "none"
    /\ ready' = FALSE
    /\ capabilitiesId' = NoId
    /\ inbox' = <<>>
    /\ outbox' = <<>>
    /\ server' = "absent"

FailAllTwice(next) ==       \* mutant: the callbacks are called from the live list
    /\ failing' = sent \cup WithCallback(queued)
    /\ queued' = <<>>
    /\ after' = next
    /\ UNCHANGED sent

FailAllQueued(next) ==      \* mutant: only the queue is seen to
    /\ failing' = WithCallback(queued)
    /\ sent' = {}
    /\ queued' = <<>>
    /\ after' = next

FailAllSilently(next) ==    \* mutant: disconnected() is not emitted
    /\ failing' = sent \cup WithCallback(queued)
    /\ sent' = {}
    /\ queued' = <<>>
    /\ after' = "nothing"

(* failAll(): takes every command, then calls the callbacks one by one.    *)
FailAll(next) ==
    /\ failing' = sent \cup WithCallback(queued)
    /\ sent' = {}
    /\ queued' = <<>>
    /\ after' = next

Open ==
    /\ socket' = "opening"
    /\ server' = "absent"

-----------------------------------------------------------------------------
(* The owner's calls.                                                      *)

(* execute(), also from within a callback that failAll() calls             *)
Execute(callback) ==
    /\ nextId \in Ids
    /\ nextId' = nextId + 1
    /\ wanted' = IF callback THEN wanted \cup {nextId} ELSE wanted
    /\ LET c == [id |-> nextId, callback |-> callback] IN
       \/ /\ ~ready
          /\ queued' = Append(queued, c)
          /\ UNCHANGED <<sent, inbox>>
       \/ /\ ready
          /\ sent' = IF callback THEN sent \cup {nextId} ELSE sent
          /\ inbox' = Append(inbox, RequestOf(c))
          /\ UNCHANGED queued
    /\ UNCHANGED <<socket, ready, capabilitiesId, failing, after, outbox, server, ran,
                   heard, connections, calls>>

(* connectToSocket(), up to the socket's connectToServer()                 *)
ConnectToSocket ==
    /\ ~Busy
    /\ connections < MaxConnections
    /\ connections' = connections + 1
    /\ heard' = "nothing"
    /\ \/ /\ socket = "up"
          /\ Drop
          /\ FailAll("open")
       \/ /\ socket # "up"
          /\ Open
          /\ ready' = FALSE
          /\ capabilitiesId' = NoId
          /\ inbox' = <<>>
          /\ outbox' = <<>>
          /\ UNCHANGED <<failing, sent, queued, after>>
    /\ UNCHANGED <<nextId, ran, wanted, calls>>

(* disconnectFromSocket(): no callback of the manager calls it.            *)
DisconnectFromSocket ==
    /\ ~Busy
    /\ Drop
    /\ FailAll("nothing")
    /\ heard' = "nothing"
    /\ UNCHANGED <<nextId, ran, ledgerVars>>

-----------------------------------------------------------------------------
(* failAll() under way.                                                    *)

CallFailed(id) ==       \* callback(QJsonValue(), error)
    /\ id \in failing
    /\ failing' = failing \ {id}
    /\ calls' = [calls EXCEPT ![id] = @ + 1]
    /\ UNCHANGED <<socket, ready, nextId, capabilitiesId, queued, sent, after, qemuVars,
                   heard, connections, wanted>>

(* connectToSocket() goes on with the new socket                           *)
Reopen ==
    /\ failing = {}
    /\ after = "open"
    /\ after' = "nothing"
    /\ Open
    /\ UNCHANGED <<ready, nextId, capabilitiesId, queued, sent, failing, inbox, outbox, ran,
                   heard, ledgerVars>>

(* closed() goes on to emit disconnected()                                 *)
EmitDisconnected ==
    /\ failing = {}
    /\ after = "disconnected"
    /\ after' = "nothing"
    /\ heard' = "disconnected"
    /\ UNCHANGED <<socket, ready, nextId, capabilitiesId, queued, sent, failing, qemuVars,
                   ledgerVars>>

-----------------------------------------------------------------------------
(* The socket's signals.                                                   *)

Connected ==
    /\ ~Busy
    /\ socket = "opening"
    /\ socket' = "up"
    /\ UNCHANGED <<ready, nextId, capabilitiesId, queued, sent, failing, after, qemuVars,
                   heard, ledgerVars>>

(* errorOccurred before connected: nobody listens, or no such socket       *)
ConnectError ==
    /\ ~Busy
    /\ socket = "opening"
    /\ Drop
    /\ heard' = "connectionFailed"
    /\ UNCHANGED <<nextId, queued, sent, failing, after, ran, ledgerVars>>

(* closed(): a connection that was not ready keeps its queued commands     *)
Closed ==
    /\ ~Busy
    /\ socket = "up"
    /\ server = "closed"
    /\ Drop
    /\ \/ /\ ready
          /\ FailAll("disconnected")
          /\ UNCHANGED heard
       \/ /\ ~ready
          /\ heard' = "connectionFailed"
          /\ UNCHANGED <<queued, sent, failing, after>>
    /\ UNCHANGED <<nextId, ran, ledgerVars>>

(* handle(), the greeting: negotiate the capabilities                      *)
HandleGreeting ==
    /\ capabilitiesId' = nextId
    /\ nextId' = nextId + 1
    /\ inbox' = Append(inbox, [id |-> nextId, capabilities |-> TRUE])
    /\ outbox' = Tail(outbox)
    /\ UNCHANGED <<socket, ready, queued, sent, server, heard, calls>>

FlushedBackwards == Reverse([i \in DOMAIN queued |-> RequestOf(queued[i])])    \* mutant

Flushed == [i \in DOMAIN queued |-> RequestOf(queued[i])]

(* handle(), the reply to qmp_capabilities                                 *)
HandleCapabilities(ok) ==
    \/ /\ ~ok
       /\ Drop
       /\ heard' = "connectionFailed"
       /\ UNCHANGED <<nextId, queued, sent, calls>>
    \/ /\ ok
       /\ ready' = TRUE
       /\ queued' = <<>>
       /\ sent' = sent \cup WithCallback(queued)
       /\ inbox' = inbox \o Flushed
       /\ outbox' = Tail(outbox)
       /\ heard' = "ready"
       /\ UNCHANGED <<socket, nextId, capabilitiesId, server, calls>>

(* handle(), any other reply: its callback, if one waits                   *)
HandleReply(id) ==
    /\ sent' = sent \ {id}
    /\ calls' = IF id \in sent THEN [calls EXCEPT ![id] = @ + 1] ELSE calls
    /\ outbox' = Tail(outbox)
    /\ UNCHANGED <<socket, ready, nextId, capabilitiesId, queued, inbox, server, heard>>

(* read(): one message of the buffer, through handle()                     *)
Read ==
    /\ ~Busy
    /\ socket = "up"
    /\ outbox # <<>>
    /\ LET m == Head(outbox) IN
       \/ m.kind = "greeting" /\ HandleGreeting
       \/ /\ m.kind = "event"
          /\ outbox' = Tail(outbox)
          /\ UNCHANGED <<socket, ready, nextId, capabilitiesId, queued, sent, inbox, server,
                         heard, calls>>
       \/ /\ m.kind = "reply"
          /\ \/ /\ ~ready /\ m.id = capabilitiesId
                /\ HandleCapabilities(m.ok)
             \/ /\ ready \/ m.id # capabilitiesId
                /\ HandleReply(m.id)
    /\ UNCHANGED <<failing, after, ran, connections, wanted>>

-----------------------------------------------------------------------------
(* QEMU.                                                                   *)

Says(m) ==
    /\ Len(outbox) < MaxInFlight
    /\ outbox' = Append(outbox, m)

QemuGreets ==
    /\ socket = "up"
    /\ server = "absent"
    /\ server' = "greeted"
    /\ Says([kind |-> "greeting"])
    /\ UNCHANGED <<inbox, ran, clientVars, heard, ledgerVars>>

QemuServes ==           \* the oldest request, successfully or not
    /\ server \in {"greeted", "negotiated"}
    /\ inbox # <<>>
    /\ inbox' = Tail(inbox)
    /\ \E ok \in BOOLEAN :
          LET r == Head(inbox) IN
          /\ Says([kind |-> "reply", id |-> r.id, ok |-> ok])
          /\ server' = IF r.capabilities /\ ok THEN "negotiated" ELSE server
          /\ ran' = IF r.capabilities THEN ran ELSE r.id
    /\ UNCHANGED <<clientVars, heard, ledgerVars>>

QemuEvent ==            \* of the places MaxInFlight bounds, one is left to a reply
    /\ server = "negotiated"
    /\ Len(outbox) + 1 < MaxInFlight
    /\ Says([kind |-> "event"])
    /\ UNCHANGED <<inbox, server, ran, clientVars, heard, ledgerVars>>

QemuCloses ==           \* it quits, is killed, or closes the connection
    /\ socket = "up"
    /\ server # "closed"
    /\ server' = "closed"
    /\ UNCHANGED <<inbox, outbox, ran, clientVars, heard, ledgerVars>>

-----------------------------------------------------------------------------
Next ==
    \/ \E callback \in BOOLEAN : Execute(callback)
    \/ ConnectToSocket
    \/ DisconnectFromSocket
    \/ \E id \in Ids : CallFailed(id)
    \/ Reopen
    \/ EmitDisconnected
    \/ Connected
    \/ ConnectError
    \/ Closed
    \/ Read
    \/ QemuGreets
    \/ QemuServes
    \/ QemuEvent
    \/ QemuCloses

SafeSpec == Init /\ [][Next]_vars

(***************************************************************************)
(* failAll() and its caller run to their end, the event loop delivers what *)
(* it has, and QEMU, while its end is open, serves the requests it has     *)
(* been sent.  Nobody has to execute, connect, disconnect or close.        *)
(***************************************************************************)
Fairness ==
    /\ WF_vars(\E id \in Ids : CallFailed(id))
    /\ WF_vars(Reopen)
    /\ WF_vars(EmitDisconnected)
    /\ WF_vars(Read)
    /\ WF_vars(Closed)
    /\ WF_vars(QemuServes)

Spec == SafeSpec /\ Fairness

-----------------------------------------------------------------------------
(* Properties.                                                             *)

TypeOK ==
    /\ socket \in {"none", "opening", "up"}
    /\ ready \in BOOLEAN
    /\ nextId \in Nat \ {0}
    /\ capabilitiesId \in Nat
    /\ queued \in Seq(Command)
    /\ sent \subseteq Ids
    /\ failing \subseteq Ids
    /\ after \in {"nothing", "open", "disconnected"}
    /\ server \in {"absent", "greeted", "negotiated", "closed"}
    /\ wanted \subseteq Ids
    /\ calls \in [Ids -> Nat]

(***************************************************************************)
(* Every callback handed to execute() is called exactly once or is still   *)
(* held in exactly one place: it waits for a connection (queued), for a    *)
(* reply (sent), or for failAll() to reach it.  None is lost when a        *)
(* connection drops, none is called twice, re-entrant calls included.      *)
(***************************************************************************)
CalledOnce ==
    LET waiting == WithCallback(queued)
        held == waiting \cup sent \cup failing
    IN
    /\ waiting \cap sent = {}
    /\ (waiting \cup sent) \cap failing = {}
    /\ held \subseteq wanted
    /\ \A id \in Ids : calls[id] = IF id \in wanted \ held THEN 1 ELSE 0

(***************************************************************************)
(* No command waits for a reply that cannot come: replies are awaited only *)
(* on a ready connection, and while it is ready nothing waits for it       *)
(* (execute() and handle(), "queued until ready").                         *)
(***************************************************************************)
NoOrphans ==
    /\ sent # {} => ready
    /\ ready => queued = <<>>
    /\ ready => socket = "up"

(***************************************************************************)
(* QEMU refuses commands before the capabilities are negotiated: none is   *)
(* written to the socket before, on any connection.                        *)
(***************************************************************************)
NegotiatedFirst ==
    \A i \in DOMAIN inbox :
        inbox[i].capabilities \/ server \in {"negotiated", "closed"}

(***************************************************************************)
(* The handshake on any connection, also one that drops or is opened over  *)
(* another: no command waits for what cannot come, none goes out before.   *)
(***************************************************************************)
Handshake == NoOrphans /\ NegotiatedFirst

(***************************************************************************)
(* QEMU runs the commands in the order execute() was called, those queued  *)
(* before it was ready included, and none of them twice.                   *)
(***************************************************************************)
InOrder == [][ran' > ran]_ran

(***************************************************************************)
(* The owner of a command QEMU was sent gets to know its outcome: QEMU     *)
(* replies, or its end closes and failAll() tells.                         *)
(***************************************************************************)
EventuallyCalled == \A id \in Ids : (id \in sent) ~> (calls[id] = 1)

(***************************************************************************)
(* QmpClient implements the contract of QmpLink.                           *)
(***************************************************************************)
Link == INSTANCE QmpLink WITH
    Commands <- Ids,
    link <- IF after = "disconnected" THEN "closing"
            ELSE IF ready THEN "ready"
            ELSE IF after = "open" \/ socket # "none" THEN "waiting"
            ELSE "none",
    heard <- heard,
    owed <- WithCallback(queued) \cup sent \cup failing,
    doomed <- failing,
    settled <- {id \in Ids : calls[id] > 0}

KeepsContract == Link!Spec
=============================================================================
