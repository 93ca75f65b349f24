--------------------------- MODULE QmpClientProofs ---------------------------
(***************************************************************************)
(* Proofs about QmpClient, for any number of commands and connections.     *)
(* The argument: the ids the client has handed out are smaller than        *)
(* nextId, so a command is new when it is executed; a handler moves an id  *)
(* between queued, sent and failing or calls its callback, never both; and *)
(* while failAll() is under way the connection is down, so that nothing    *)
(* but a re-entrant execute() can add to what it was taking care of.       *)
(* The handshake and the order of commands rest on the stages of one       *)
(* connection: what is on its way at each of them, and that ids go up.     *)
(***************************************************************************)
EXTENDS QmpClient, TLAPS

(* The commands that were executed have got their ids.                     *)
IdsHandedOut == wanted \subseteq 1 .. nextId - 1

(* Until failAll()'s caller is done, there is no connection.               *)
DownWhileBusy == Busy => socket = "none" /\ ~ready

IInv ==
    /\ TypeOK
    /\ CalledOnce
    /\ NoOrphans
    /\ IdsHandedOut
    /\ DownWhileBusy

-----------------------------------------------------------------------------
(* The callbacks of a queue.                                               *)

LEMMA NoCallbacks == WithCallback(<<>>) = {}
  BY DEF WithCallback, ToSet

LEMMA CallbacksAreIds ==
  ASSUME NEW s \in Seq(Command)
  PROVE  WithCallback(s) \subseteq Ids
<1>1. ToSet(s) \subseteq Command
  BY DEF ToSet
<1> QED
  BY <1>1 DEF WithCallback, Command

LEMMA AppendCallback ==
  ASSUME NEW s \in Seq(Command), NEW c \in Command
  PROVE  WithCallback(Append(s, c)) =
           WithCallback(s) \cup (IF c.callback THEN {c.id} ELSE {})
<1>1. ToSet(Append(s, c)) = ToSet(s) \cup {c}
  <2>1. Len(Append(s, c)) = Len(s) + 1
    OBVIOUS
  <2>2. \A i \in 1 .. Len(s) : Append(s, c)[i] = s[i]
    OBVIOUS
  <2>3. Append(s, c)[Len(s) + 1] = c
    OBVIOUS
  <2>4. DOMAIN Append(s, c) = DOMAIN s \cup {Len(s) + 1}
    BY <2>1
  <2>5. DOMAIN s = 1 .. Len(s)
    OBVIOUS
  <2> QED
    BY <2>2, <2>3, <2>4, <2>5 DEF ToSet
<1> QED
  BY <1>1 DEF WithCallback

-----------------------------------------------------------------------------
(* A lost connection: drop(), then failAll() if something was pending.      *)

LEMMA FailAllKeepsIInv ==
  ASSUME IInv, ~Busy, Drop, NEW next \in {"nothing", "open", "disconnected"}, FailAll(next),
         UNCHANGED <<nextId, wanted, calls>>
  PROVE  IInv'
<1>1. WithCallback(queued) \subseteq Ids
  BY CallbacksAreIds DEF IInv, TypeOK
<1>2. TypeOK'
  <2>1. queued' \in Seq(Command)
    BY DEF FailAll
  <2>2. failing' \subseteq Ids /\ sent' \subseteq Ids /\ after' = next
    BY <1>1 DEF IInv, TypeOK, FailAll
  <2> QED
    BY <2>1, <2>2 DEF IInv, TypeOK, Drop, NoId
<1>3. CalledOnce'
  <2>1. failing = {} /\ failing' = sent \cup WithCallback(queued) /\ sent' = {}
    BY DEF Busy, FailAll
  <2>2. WithCallback(queued') = {}
    BY NoCallbacks DEF FailAll
  <2> QED
    BY <2>1, <2>2 DEF IInv, CalledOnce
<1>4. NoOrphans' /\ IdsHandedOut' /\ DownWhileBusy'
  BY DEF IInv, Drop, FailAll, NoOrphans, IdsHandedOut, DownWhileBusy
<1> QED
  BY <1>2, <1>3, <1>4 DEF IInv

LEMMA DropKeepsIInv ==
  ASSUME IInv, ~Busy, ~ready, Drop,
         UNCHANGED <<nextId, queued, sent, failing, after, wanted, calls>>
  PROVE  IInv'
<1>1. TypeOK'
  BY DEF IInv, TypeOK, Drop, NoId
<1>2. CalledOnce'
  BY DEF IInv, CalledOnce
<1>3. NoOrphans' /\ IdsHandedOut' /\ DownWhileBusy'
  BY DEF IInv, Drop, NoOrphans, IdsHandedOut, DownWhileBusy
<1> QED
  BY <1>1, <1>2, <1>3 DEF IInv

-----------------------------------------------------------------------------
(* A client that was just made has handed out nothing.                     *)
THEOREM InitIInv == Init => IInv
<1> SUFFICES ASSUME Init PROVE IInv
  OBVIOUS
<1>1. TypeOK
  <2>1. queued \in Seq(Command) /\ calls \in [Ids -> Nat]
    BY DEF Init
  <2>2. nextId \in Nat \ {0} /\ capabilitiesId \in Nat /\ ready \in BOOLEAN
    <3>1. nextId \in Nat \ {0} /\ capabilitiesId \in Nat
      BY DEF Init, NoId
    <3>2. ready \in BOOLEAN
      BY DEF Init
    <3> QED
      BY <3>1, <3>2
  <2>3. sent \subseteq Ids /\ failing \subseteq Ids /\ wanted \subseteq Ids
    BY DEF Init
  <2>4. /\ socket \in {"none", "opening", "up"}
        /\ after \in {"nothing", "open", "disconnected"}
        /\ server \in {"absent", "greeted", "negotiated", "closed"}
    BY DEF Init
  <2> QED
    BY <2>1, <2>2, <2>3, <2>4 DEF TypeOK
<1>2. CalledOnce
  BY NoCallbacks DEF Init, CalledOnce
<1>3. NoOrphans /\ IdsHandedOut /\ DownWhileBusy
  BY DEF Init, NoOrphans, IdsHandedOut, DownWhileBusy, Busy
<1> QED
  BY <1>1, <1>2, <1>3 DEF IInv

(* Every handler of the client, and all that QEMU does, keep each callback *)
(* in one place.                                                           *)
THEOREM StepIInv == IInv /\ [Next]_vars => IInv'
<1> SUFFICES ASSUME IInv, [Next]_vars PROVE IInv'
  OBVIOUS
<1> USE ConstantsAssumption DEF IInv
<1>q. WithCallback(queued) \subseteq Ids
  BY CallbacksAreIds DEF TypeOK
<1>1. ASSUME NEW callback \in BOOLEAN, Execute(callback) PROVE IInv'
  <2> DEFINE c == [id |-> nextId, callback |-> callback]
  <2>0. c \in Command
    BY <1>1 DEF Execute, Command
  <2>1. TypeOK'
    <3>1. queued' \in Seq(Command)
      BY <1>1, <2>0 DEF Execute, TypeOK
    <3>2. nextId \in Ids /\ nextId' \in Nat \ {0}
      BY <1>1 DEF Execute, TypeOK
    <3>3. sent' \subseteq Ids /\ wanted' \subseteq Ids
      BY <1>1, <3>2 DEF Execute, TypeOK
    <3> QED
      BY <1>1, <3>1, <3>2, <3>3 DEF Execute, TypeOK
  <2>2. nextId \notin wanted /\ wanted' \subseteq 1 .. nextId' - 1
    BY <1>1 DEF Execute, IdsHandedOut, TypeOK, Ids
  <2>3. CalledOnce'
    <3>1. CASE ~ready
      <4>1. queued' = Append(queued, c) /\ sent' = sent
        BY <1>1, <3>1 DEF Execute
      <4>2. WithCallback(queued') =
              WithCallback(queued) \cup (IF callback THEN {nextId} ELSE {})
        BY <4>1, <2>0, AppendCallback DEF TypeOK
      <4>3. sent = {}
        BY <3>1 DEF NoOrphans
      <4> QED
        BY <1>1, <4>1, <4>2, <4>3, <2>2 DEF Execute, CalledOnce
    <3>2. CASE ready
      <4>1. queued' = queued /\ sent' = IF callback THEN sent \cup {nextId} ELSE sent
        BY <1>1, <3>2 DEF Execute
      <4> QED
        BY <1>1, <4>1, <2>2 DEF Execute, CalledOnce
    <3> QED
      BY <3>1, <3>2 DEF TypeOK
  <2>4. NoOrphans'
    BY <1>1 DEF Execute, NoOrphans, TypeOK
  <2>5. DownWhileBusy'
    BY <1>1 DEF Execute, DownWhileBusy, Busy
  <2> QED
    BY <2>1, <2>2, <2>3, <2>4, <2>5 DEF IdsHandedOut
<1>2. ASSUME ConnectToSocket PROVE IInv'
  <2>1. CASE socket = "up"
    BY <1>2, <2>1, FailAllKeepsIInv DEF ConnectToSocket
  <2>2. CASE socket # "up"
    <3>1. ~ready /\ sent = {} /\ ~Busy
      BY <1>2, <2>2 DEF ConnectToSocket, NoOrphans
    <3>2. /\ socket' = "opening" /\ ready' = FALSE /\ capabilitiesId' = NoId
          /\ server' = "absent"
          /\ UNCHANGED <<nextId, queued, sent, failing, after, wanted, calls>>
      BY <1>2, <2>2 DEF ConnectToSocket, Open
    <3> QED
      BY <3>1, <3>2
         DEF Busy, NoId, TypeOK, CalledOnce, NoOrphans, IdsHandedOut, DownWhileBusy
  <2> QED
    BY <2>1, <2>2
<1>3. ASSUME DisconnectFromSocket PROVE IInv'
  BY <1>3, FailAllKeepsIInv DEF DisconnectFromSocket, ledgerVars
<1>4. ASSUME NEW id \in Ids, CallFailed(id) PROVE IInv'
  <2>1. TypeOK'
    BY <1>4 DEF CallFailed, qemuVars, TypeOK
  <2>2. CalledOnce'
    BY <1>4 DEF CallFailed, TypeOK, CalledOnce
  <2>3. NoOrphans' /\ IdsHandedOut' /\ DownWhileBusy'
    BY <1>4 DEF CallFailed, Busy, NoOrphans, IdsHandedOut, DownWhileBusy
  <2> QED
    BY <2>1, <2>2, <2>3
<1>5. ASSUME Reopen PROVE IInv'
  BY <1>5
     DEF Reopen, Open, ledgerVars, Busy, TypeOK, CalledOnce, NoOrphans, IdsHandedOut,
         DownWhileBusy
<1>6. ASSUME EmitDisconnected PROVE IInv'
  BY <1>6
     DEF EmitDisconnected, qemuVars, ledgerVars, Busy, TypeOK, CalledOnce, NoOrphans,
         IdsHandedOut, DownWhileBusy
<1>7. ASSUME Connected PROVE IInv'
  BY <1>7
     DEF Connected, qemuVars, ledgerVars, Busy, TypeOK, CalledOnce, NoOrphans, IdsHandedOut,
         DownWhileBusy
<1>8. ASSUME ConnectError PROVE IInv'
  <2>1. ~ready
    BY <1>8 DEF ConnectError, NoOrphans
  <2> QED
    BY <1>8, <2>1, DropKeepsIInv DEF ConnectError, ledgerVars
<1>9. ASSUME Closed PROVE IInv'
  BY <1>9, FailAllKeepsIInv, DropKeepsIInv DEF Closed, ledgerVars
<1>10. ASSUME Read PROVE IInv'
  <2>0. /\ failing = {} /\ after = "nothing"
        /\ UNCHANGED <<failing, after, ran, connections, wanted>>
        /\ socket = "up"
    BY <1>10 DEF Read, Busy
  <2>1. ASSUME HandleGreeting PROVE IInv'
    BY <2>0, <2>1
       DEF HandleGreeting, Busy, TypeOK, CalledOnce, NoOrphans, IdsHandedOut, DownWhileBusy
  <2>2. ASSUME UNCHANGED <<socket, ready, nextId, capabilitiesId, queued, sent, inbox, server,
                           heard, calls>>
        PROVE  IInv'
    BY <2>0, <2>2 DEF Busy, TypeOK, CalledOnce, NoOrphans, IdsHandedOut, DownWhileBusy
  <2>3. ASSUME NEW ok, ~ready, HandleCapabilities(ok) PROVE IInv'
    <3>1. CASE ok
      <4>1. queued' \in Seq(Command) /\ WithCallback(queued') = {}
        BY <2>3, <3>1, NoCallbacks DEF HandleCapabilities
      <4>2. sent' = WithCallback(queued)
        BY <2>3, <3>1 DEF HandleCapabilities, NoOrphans
      <4>3. TypeOK'
        BY <2>0, <2>3, <3>1, <4>1, <4>2, <1>q DEF HandleCapabilities, TypeOK
      <4>4. CalledOnce'
        BY <2>0, <2>3, <3>1, <4>1, <4>2 DEF HandleCapabilities, CalledOnce, NoOrphans
      <4> QED
        BY <2>0, <2>3, <3>1, <4>3, <4>4
           DEF HandleCapabilities, Busy, NoOrphans, IdsHandedOut, DownWhileBusy
    <3>2. CASE ~ok
      BY <2>0, <2>3, <3>2, DropKeepsIInv DEF HandleCapabilities, Busy
    <3> QED
      BY <3>1, <3>2
  <2>4. ASSUME NEW id, HandleReply(id) PROVE IInv'
    <3>1. TypeOK'
      BY <2>0, <2>4 DEF HandleReply, TypeOK
    <3>2. CalledOnce'
      BY <2>0, <2>4 DEF HandleReply, TypeOK, CalledOnce
    <3> QED
      BY <2>0, <2>4, <3>1, <3>2
         DEF HandleReply, Busy, NoOrphans, IdsHandedOut, DownWhileBusy
  <2> QED
    BY <1>10, <2>1, <2>2, <2>3, <2>4 DEF Read
<1>11. ASSUME QemuGreets \/ QemuServes \/ QemuEvent \/ QemuCloses PROVE IInv'
  <2>1. /\ UNCHANGED <<clientVars, ledgerVars>>
        /\ server' \in {"greeted", "negotiated", "closed"}
    BY <1>11 DEF QemuGreets, QemuServes, QemuEvent, QemuCloses
  <2> QED
    BY <2>1
       DEF clientVars, ledgerVars, Busy, TypeOK, CalledOnce, NoOrphans, IdsHandedOut,
           DownWhileBusy
<1>12. CASE UNCHANGED vars
  BY <1>12
     DEF vars, clientVars, qemuVars, ledgerVars, Busy, TypeOK, CalledOnce, NoOrphans,
         IdsHandedOut, DownWhileBusy
<1> QED
  BY <1>1, <1>2, <1>3, <1>4, <1>5, <1>6, <1>7, <1>8, <1>9, <1>10, <1>11, <1>12 DEF Next

(* The invariant holds, for any number of commands and connections.        *)
THEOREM Invariance == SafeSpec => []IInv
  BY InitIInv, StepIInv, PTL DEF SafeSpec

(***************************************************************************)
(* The variables keep their types (d->queued, d->sent and the rest of      *)
(* QmpClient::Private), however many commands and connections there are.   *)
(***************************************************************************)
THEOREM TypeCorrect == Spec => []TypeOK
<1>1. IInv => TypeOK
  BY DEF IInv
<1> QED
  BY <1>1, Invariance, PTL DEF Spec

(***************************************************************************)
(* No callback given to execute() is lost or called twice, and none waits  *)
(* for the reply of a connection that is gone: failAll() and handle().     *)
(***************************************************************************)
THEOREM CallbacksAccountedFor == Spec => [](CalledOnce /\ NoOrphans)
<1>1. IInv => CalledOnce /\ NoOrphans
  BY DEF IInv
<1> QED
  BY <1>1, Invariance, PTL DEF Spec

-----------------------------------------------------------------------------
(* The handshake, stage by stage.  On each connection QEMU says one        *)
(* greeting, the client asks once for the capabilities, and nothing else   *)
(* is on its way until the answer to that has been read: so the reply that *)
(* makes the connection ready is the one to qmp_capabilities.              *)

Request == [id : Nat \ {0}, capabilities : {FALSE}]
Answer == [kind : {"event"}] \cup [kind : {"reply"}, id : Nat, ok : BOOLEAN]

Silent ==       \* no connection, or QEMU has not said anything
    /\ ~ready
    /\ server \in {"absent", "closed"}
    /\ inbox = <<>>
    /\ outbox = <<>>

Greeting ==     \* the greeting has not been read
    /\ ~ready
    /\ server \in {"greeted", "closed"}
    /\ inbox = <<>>
    /\ outbox = <<[kind |-> "greeting"]>>

Asked ==        \* qmp_capabilities waits for QEMU
    /\ ~ready
    /\ server \in {"greeted", "closed"}
    /\ inbox = <<[id |-> capabilitiesId, capabilities |-> TRUE]>>
    /\ outbox = <<>>

Answered ==     \* its answer waits for the client
    /\ ~ready
    /\ server \in {"greeted", "negotiated", "closed"}
    /\ inbox = <<>>
    /\ outbox \in Seq(Answer)
    /\ outbox # <<>>
    /\ outbox[1].kind = "reply"
    /\ outbox[1].id = capabilitiesId
    /\ outbox[1].ok => server # "greeted"

Negotiated ==   \* only commands and answers from here on
    /\ ready
    /\ server \in {"negotiated", "closed"}
    /\ inbox \in Seq(Request)
    /\ outbox \in Seq(Answer)

Stages ==
    /\ Silent \/ Greeting \/ Asked \/ Answered \/ Negotiated
    /\ socket # "up" => Silent

(* The ids of s go up, from above low to below high.                       *)
Climbing(s, low, high) ==
    /\ \A i \in 1 .. Len(s) : low < s[i].id /\ s[i].id < high
    /\ \A i, j \in 1 .. Len(s) : i < j => s[i].id < s[j].id

(* What QEMU has yet to run was executed later than what it has run.       *)
Ordered ==
    /\ ran \in 0 .. nextId - 1
    /\ Climbing(queued, ran, nextId)
    /\ ready => Climbing(inbox, ran, nextId)

HInv == IInv /\ Stages /\ Ordered
-----------------------------------------------------------------------------
(* Sequences of ids that go up.                                            *)

LEMMA ClimbingEmpty == \A low, high : Climbing(<<>>, low, high)
  BY DEF Climbing

LEMMA ClimbingHigher ==
  ASSUME NEW S, NEW s \in Seq(S), \A e \in S : e.id \in Nat,
         NEW low \in Nat, NEW high \in Nat, Climbing(s, low, high)
  PROVE  Climbing(s, low, high + 1)
<1>1. \A i \in 1 .. Len(s) : s[i].id \in Nat
  OBVIOUS
<1> QED
  BY <1>1 DEF Climbing

LEMMA ClimbingAppend ==
  ASSUME NEW S, NEW s \in Seq(S), \A e \in S : e.id \in Nat, NEW e \in S,
         NEW low \in Nat, low < e.id, Climbing(s, low, e.id)
  PROVE  Climbing(Append(s, e), low, e.id + 1)
<1> DEFINE t == Append(s, e)
<1>1. Len(t) = Len(s) + 1 /\ Len(s) \in Nat
  OBVIOUS
<1>2. \A i \in 1 .. Len(s) : t[i] = s[i] /\ s[i].id \in Nat
  OBVIOUS
<1>3. t[Len(s) + 1] = e /\ e.id \in Nat
  OBVIOUS
<1> HIDE DEF t
<1>4. \A i \in 1 .. Len(t) : i \in 1 .. Len(s) \/ i = Len(s) + 1
  BY <1>1
<1>5. \A i \in 1 .. Len(t) : low < t[i].id /\ t[i].id < e.id + 1
  BY <1>2, <1>3, <1>4 DEF Climbing
<1>6. ASSUME NEW i \in 1 .. Len(t), NEW j \in 1 .. Len(t), i < j PROVE t[i].id < t[j].id
  <2>1. i \in 1 .. Len(s)
    BY <1>1, <1>6
  <2>2. CASE j \in 1 .. Len(s)
    BY <1>2, <1>6, <2>1, <2>2 DEF Climbing
  <2>3. CASE j = Len(s) + 1
    BY <1>2, <1>3, <2>1, <2>3 DEF Climbing
  <2> QED
    BY <1>4, <2>2, <2>3
<1> QED
  BY <1>5, <1>6 DEF Climbing, t

LEMMA ClimbingTail ==
  ASSUME NEW S, NEW s \in Seq(S), \A e \in S : e.id \in Nat, s # <<>>,
         NEW low \in Nat, NEW high \in Nat, Climbing(s, low, high)
  PROVE  /\ Climbing(Tail(s), Head(s).id, high)
         /\ low < Head(s).id
         /\ Head(s).id < high
         /\ Head(s).id \in Nat
<1>1. Len(s) \in Nat \ {0} /\ Head(s) = s[1] /\ Len(Tail(s)) = Len(s) - 1
  OBVIOUS
<1>2. \A i \in 1 .. Len(s) - 1 : Tail(s)[i] = s[i + 1]
  OBVIOUS
<1>3. \A i \in 1 .. Len(s) : s[i].id \in Nat
  OBVIOUS
<1>4. \A i \in 1 .. Len(s) - 1 : i + 1 \in 1 .. Len(s) /\ 1 < i + 1
  BY <1>1
<1>5. 1 \in 1 .. Len(s)
  BY <1>1
<1>6. low < s[1].id /\ s[1].id < high
  BY <1>5 DEF Climbing
<1>7. \A i \in 1 .. Len(s) - 1 : s[1].id < s[i + 1].id /\ s[i + 1].id < high
  BY <1>4, <1>5 DEF Climbing
<1>8. \A i, j \in 1 .. Len(s) - 1 : i < j => i + 1 < j + 1
  BY <1>1
<1>9. \A i, j \in 1 .. Len(s) - 1 : i < j => s[i + 1].id < s[j + 1].id
  BY <1>4, <1>8 DEF Climbing
<1> QED
  BY <1>1, <1>2, <1>3, <1>5, <1>6, <1>7, <1>9 DEF Climbing

LEMMA FlushedClimbs ==
  ASSUME queued \in Seq(Command), NEW low \in Nat, NEW high \in Nat,
         Climbing(queued, low, high)
  PROVE  Flushed \in Seq(Request) /\ Climbing(Flushed, low, high)
<1>1. Len(Flushed) = Len(queued) /\ DOMAIN queued = 1 .. Len(queued)
  BY DEF Flushed
<1>2. \A i \in 1 .. Len(queued) : queued[i] \in Command
  OBVIOUS
<1>3. ASSUME NEW i \in 1 .. Len(queued)
      PROVE  Flushed[i] \in Request /\ Flushed[i].id = queued[i].id
  <2>1. Flushed[i] = [id |-> queued[i].id, capabilities |-> FALSE]
    BY <1>1 DEF Flushed, RequestOf
  <2>2. queued[i].id \in Nat \ {0}
    BY <1>2, ConstantsAssumption DEF Command, Ids
  <2>3. [id |-> queued[i].id, capabilities |-> FALSE] \in Request
    BY <2>2 DEF Request
  <2> QED
    BY <2>1, <2>3
<1>4. Flushed \in Seq(Request)
  BY <1>1, <1>3 DEF Flushed
<1> QED
  BY <1>1, <1>3, <1>4 DEF Climbing
-----------------------------------------------------------------------------
(* Before the first connection nothing is on its way.                      *)
THEOREM InitHInv == Init => HInv
<1> SUFFICES ASSUME Init PROVE HInv
  OBVIOUS
<1>1. IInv
  BY InitIInv
<1>2. Stages
  BY DEF Init, Stages, Silent
<1>3. Ordered
  BY ClimbingEmpty DEF Init, Ordered
<1> QED
  BY <1>1, <1>2, <1>3 DEF HInv

(* A connection that is given up, or opened anew, is silent.               *)
LEMMA DownKeepsHInv ==
  ASSUME HInv, ~ready', server' = "absent", inbox' = <<>>, outbox' = <<>>,
         queued' \in {queued, <<>>}, UNCHANGED <<nextId, ran>>
  PROVE  Stages' /\ Ordered'
<1>1. Stages'
  BY DEF Stages, Silent
<1>2. Ordered'
  BY ClimbingEmpty DEF HInv, Ordered
<1> QED
  BY <1>1, <1>2

LEMMA ExecuteKeepsHInv ==
  ASSUME HInv, NEW callback \in BOOLEAN, Execute(callback)
  PROVE  Stages' /\ Ordered'
<1> DEFINE c == [id |-> nextId, callback |-> callback]
<1>0. nextId \in Nat \ {0} /\ ran \in Nat /\ ran < nextId /\ queued \in Seq(Command)
  BY DEF HInv, IInv, TypeOK, Ordered
<1>1. c \in Command /\ c.id = nextId
  BY DEF Execute, Command
<1>2. RequestOf(c) \in Request /\ RequestOf(c).id = nextId
  BY <1>0 DEF RequestOf, Request
<1>3. \A e \in Command : e.id \in Nat
  BY ConstantsAssumption DEF Command, Ids
<1>4. \A e \in Request : e.id \in Nat
  BY DEF Request
<1>5. nextId' = nextId + 1 /\ ran' = ran /\ ready' = ready /\ ran \in 0 .. nextId' - 1
  BY <1>0 DEF Execute
<1>6. UNCHANGED <<socket, ready, capabilitiesId, outbox, server>>
  BY DEF Execute
<1>7. CASE ~ready
  <2>1. queued' = Append(queued, c) /\ inbox' = inbox
    BY <1>7 DEF Execute
  <2>2. Climbing(queued', ran, nextId + 1)
    BY <1>0, <1>1, <1>3, <2>1, ClimbingAppend DEF HInv, Ordered
  <2>3. Ordered'
    BY <1>5, <1>7, <2>2 DEF Ordered
  <2>4. Stages'
    BY <1>6, <2>1 DEF HInv, Stages, Silent, Greeting, Asked, Answered, Negotiated
  <2> QED
    BY <2>3, <2>4
<1>8. CASE ready
  <2>1. queued' = queued /\ inbox' = Append(inbox, RequestOf(c))
    BY <1>8 DEF Execute
  <2>2. Negotiated /\ socket = "up"
    BY <1>8 DEF HInv, IInv, NoOrphans, Stages, Silent, Greeting, Asked, Answered
  <2>3. Negotiated' /\ socket' = "up"
    BY <1>2, <1>6, <2>1, <2>2 DEF Negotiated
  <2>4. Climbing(inbox', ran, nextId + 1)
    BY <1>0, <1>2, <1>4, <1>8, <2>1, <2>2, ClimbingAppend DEF HInv, Ordered, Negotiated
  <2>5. Climbing(queued', ran, nextId + 1)
    BY <1>0, <1>3, <2>1, ClimbingHigher DEF HInv, Ordered
  <2> QED
    BY <1>5, <2>3, <2>4, <2>5 DEF Stages, Ordered
<1> QED
  BY <1>7, <1>8

LEMMA ReadKeepsHInv ==
  ASSUME HInv, Read
  PROVE  Stages' /\ Ordered'
<1>0. /\ socket = "up" /\ outbox # <<>> /\ ran' = ran
      /\ nextId \in Nat \ {0} /\ ran \in Nat /\ ran < nextId /\ queued \in Seq(Command)
  BY DEF Read, HInv, IInv, TypeOK, Ordered
<1>1. Greeting \/ Answered \/ Negotiated
  BY <1>0 DEF HInv, Stages, Silent, Asked
<1>2. CASE Greeting
  <2>1. Head(outbox).kind = "greeting" /\ Tail(outbox) = <<>>
    BY <1>2 DEF Greeting
  <2>2. HandleGreeting
    BY <2>1 DEF Read
  <2>3. Asked'
    BY <1>2, <2>1, <2>2 DEF HandleGreeting, Greeting, Asked
  <2>4. \A e \in Command : e.id \in Nat
    BY ConstantsAssumption DEF Command, Ids
  <2>5. Climbing(queued, ran, nextId + 1)
    BY <1>0, <2>4, ClimbingHigher DEF HInv, Ordered
  <2>6. Ordered'
    BY <1>0, <2>2, <2>3, <2>5 DEF HandleGreeting, Ordered, Asked
  <2> QED
    BY <1>0, <2>2, <2>3, <2>6 DEF Stages, HandleGreeting
<1>3. CASE Answered
  <2> DEFINE m == Head(outbox)
  <2>1. m = outbox[1] /\ m.kind = "reply" /\ m.id = capabilitiesId /\ ~ready
    BY <1>0, <1>3 DEF Answered
  <2>2. HandleCapabilities(m.ok)
    BY <2>1 DEF Read
  <2>3. CASE ~m.ok
    BY <1>0, <2>2, <2>3, DownKeepsHInv DEF HandleCapabilities, Drop
  <2>4. CASE m.ok
    <3>1. /\ ready' = TRUE /\ queued' = <<>> /\ inbox' = Flushed /\ outbox' = Tail(outbox)
          /\ UNCHANGED <<socket, nextId, server>>
      <4>1. \A t \in Seq(Request) : <<>> \o t = t
        OBVIOUS
      <4>2. Flushed \in Seq(Request)
        BY <1>0, FlushedClimbs DEF HInv, Ordered
      <4> QED
        BY <1>3, <2>2, <2>4, <4>1, <4>2 DEF HandleCapabilities, Answered
    <3>2. Flushed \in Seq(Request) /\ Climbing(Flushed, ran, nextId)
      BY <1>0, FlushedClimbs DEF HInv, Ordered
    <3>3. Negotiated'
      BY <1>0, <1>3, <2>1, <2>4, <3>1, <3>2 DEF Answered, Negotiated
    <3>4. Ordered'
      BY <1>0, <3>1, <3>2, ClimbingEmpty DEF Ordered
    <3> QED
      BY <1>0, <3>1, <3>3, <3>4 DEF Stages
  <2> QED
    BY <2>3, <2>4
<1>4. CASE Negotiated
  <2> DEFINE m == Head(outbox)
  <2>1. m \in Answer /\ m.kind # "greeting" /\ Tail(outbox) \in Seq(Answer)
    BY <1>0, <1>4 DEF Negotiated, Answer
  <2>2. outbox' = Tail(outbox)
        /\ UNCHANGED <<socket, ready, nextId, queued, inbox, server>>
    BY <1>4, <2>1 DEF Read, HandleReply, Negotiated
  <2>3. Negotiated'
    BY <1>4, <2>1, <2>2 DEF Negotiated
  <2>4. Ordered'
    BY <1>0, <2>2 DEF HInv, Ordered
  <2> QED
    BY <1>0, <2>2, <2>3, <2>4 DEF Stages
<1> QED
  BY <1>1, <1>2, <1>3, <1>4

LEMMA QemuKeepsHInv ==
  ASSUME HInv, QemuGreets \/ QemuServes \/ QemuEvent \/ QemuCloses
  PROVE  Stages' /\ Ordered' /\ (ran' # ran => ran' > ran)
<1>0. UNCHANGED <<socket, ready, nextId, capabilitiesId, queued>>
  BY DEF QemuGreets, QemuServes, QemuEvent, QemuCloses, clientVars
<1>1. nextId \in Nat \ {0} /\ ran \in Nat /\ ran < nextId /\ queued \in Seq(Command)
  BY DEF HInv, IInv, TypeOK, Ordered
<1>2. CASE QemuGreets
  <2>1. Silent
    BY <1>2 DEF QemuGreets, HInv, Stages, Greeting, Asked, Answered, Negotiated
  <2>2. Greeting'
    BY <1>0, <1>2, <2>1 DEF QemuGreets, Says, Silent, Greeting
  <2>3. socket' = "up" /\ ran' = ran /\ ~ready'
    BY <1>0, <1>2, <2>1 DEF QemuGreets, Silent
  <2> QED
    BY <1>0, <2>2, <2>3 DEF HInv, Stages, Ordered
<1>3. CASE QemuServes
  <2>1. inbox # <<>> /\ inbox' = Tail(inbox) /\ (Asked \/ Negotiated) /\ socket = "up"
    BY <1>3 DEF QemuServes, HInv, Stages, Silent, Greeting, Answered
  <2>2. PICK ok \in BOOLEAN :
          LET r == Head(inbox) IN
          /\ Says([kind |-> "reply", id |-> r.id, ok |-> ok])
          /\ server' = IF r.capabilities /\ ok THEN "negotiated" ELSE server
          /\ ran' = IF r.capabilities THEN ran ELSE r.id
    BY <1>3 DEF QemuServes
  <2> DEFINE a == [kind |-> "reply", id |-> Head(inbox).id, ok |-> ok]
  <2>3. outbox' = Append(outbox, a)
    BY <2>2 DEF Says
  <2>4. CASE Asked
    <3>1. Head(inbox).id = capabilitiesId /\ Head(inbox).capabilities /\ Tail(inbox) = <<>>
      BY <2>4 DEF Asked
    <3>2. a \in Answer /\ a.kind = "reply" /\ a.id = capabilitiesId /\ a.ok = ok
      BY <3>1 DEF Answer, HInv, IInv, TypeOK
    <3>3. outbox' = <<a>>
      BY <2>3, <2>4 DEF Asked
    <3>4. Answered'
      <4>1. outbox' \in Seq(Answer) /\ outbox' # <<>> /\ outbox'[1] = a
        BY <3>2, <3>3
      <4> QED
        BY <1>0, <2>1, <2>2, <2>4, <3>1, <3>2, <4>1 DEF Asked, Answered
    <3>5. ran' = ran /\ ~ready'
      BY <1>0, <2>2, <2>4, <3>1 DEF Asked
    <3> QED
      BY <1>0, <2>1, <3>4, <3>5 DEF HInv, Stages, Ordered
  <2>5. CASE Negotiated
    <3>1. \A e \in Request : e.id \in Nat /\ e.capabilities = FALSE
      BY DEF Request
    <3>2. Head(inbox) \in Request /\ Tail(inbox) \in Seq(Request)
      BY <2>1, <2>5 DEF Negotiated
    <3>3. ran' = Head(inbox).id /\ server' = server
      BY <2>2, <3>1, <3>2
    <3>4. /\ Climbing(inbox', ran', nextId)
          /\ ran < ran' /\ ran' < nextId /\ ran' \in Nat
      BY <1>1, <2>1, <2>5, <3>1, <3>3, ClimbingTail DEF HInv, Ordered, Negotiated
    <3>5. queued = <<>>
      BY <2>5 DEF Negotiated, HInv, IInv, NoOrphans
    <3>6. a \in Answer
      BY <3>1, <3>2 DEF Answer
    <3>7. Negotiated'
      BY <1>0, <2>1, <2>3, <2>5, <3>2, <3>3, <3>6 DEF Negotiated
    <3>8. Ordered'
      BY <1>0, <1>1, <3>4, <3>5, ClimbingEmpty DEF Ordered
    <3> QED
      BY <1>0, <2>1, <3>4, <3>7, <3>8 DEF Stages
  <2> QED
    BY <2>1, <2>4, <2>5
<1>4. CASE QemuEvent
  <2>1. /\ Answered \/ Negotiated
        /\ socket = "up"
        /\ UNCHANGED <<inbox, server, ran>>
        /\ outbox' = Append(outbox, [kind |-> "event"])
    BY <1>4 DEF QemuEvent, Says, HInv, Stages, Silent, Greeting, Asked
  <2>2. [kind |-> "event"] \in Answer
    BY DEF Answer
  <2>3. CASE Answered
    <3>1. outbox' \in Seq(Answer) /\ outbox' # <<>> /\ outbox'[1] = outbox[1]
      BY <2>1, <2>2, <2>3 DEF Answered
    <3>2. Answered'
      BY <1>0, <2>1, <2>3, <3>1 DEF Answered
    <3> QED
      BY <1>0, <2>1, <3>2 DEF HInv, Stages, Ordered
  <2>4. CASE Negotiated
    <3>1. Negotiated'
      BY <1>0, <2>1, <2>2, <2>4 DEF Negotiated
    <3> QED
      BY <1>0, <2>1, <3>1 DEF HInv, Stages, Ordered
  <2> QED
    BY <2>1, <2>3, <2>4
<1>5. CASE QemuCloses
  <2>1. socket = "up" /\ server' = "closed" /\ UNCHANGED <<inbox, outbox, ran>>
    BY <1>5 DEF QemuCloses
  <2>2. Stages'
    BY <1>0, <2>1 DEF HInv, Stages, Silent, Greeting, Asked, Answered, Negotiated
  <2> QED
    BY <1>0, <2>1, <2>2 DEF HInv, Ordered
<1> QED
  BY <1>2, <1>3, <1>4, <1>5

(* Every step leaves a connection in one of its stages, and QEMU runs only *)
(* commands newer than those it has run.                                   *)
THEOREM StepHInv == HInv /\ [Next]_vars => HInv' /\ (ran' # ran => ran' > ran)
<1> SUFFICES ASSUME HInv, [Next]_vars
             PROVE  Stages' /\ Ordered' /\ (ran' # ran => ran' > ran)
  BY StepIInv DEF HInv
<1>1. ASSUME NEW callback \in BOOLEAN, Execute(callback)
      PROVE  Stages' /\ Ordered' /\ ran' = ran
  BY <1>1, ExecuteKeepsHInv DEF Execute
<1>2. ASSUME ConnectToSocket PROVE Stages' /\ Ordered' /\ ran' = ran
  BY <1>2, DownKeepsHInv DEF ConnectToSocket, Drop, FailAll, Open
<1>3. ASSUME DisconnectFromSocket PROVE Stages' /\ Ordered' /\ ran' = ran
  BY <1>3, DownKeepsHInv DEF DisconnectFromSocket, Drop, FailAll
<1>4. ASSUME Reopen PROVE Stages' /\ Ordered' /\ ran' = ran
  <2>1. Silent
    BY <1>4 DEF Reopen, HInv, IInv, DownWhileBusy, Busy, Stages
  <2> QED
    BY <1>4, <2>1, DownKeepsHInv DEF Reopen, Open, Silent
<1>5. ASSUME ConnectError \/ Closed PROVE Stages' /\ Ordered' /\ ran' = ran
  BY <1>5, DownKeepsHInv DEF ConnectError, Closed, Drop, FailAll
<1>6. ASSUME Read PROVE Stages' /\ Ordered' /\ ran' = ran
  BY <1>6, ReadKeepsHInv DEF Read
<1>7. ASSUME \/ \E id \in Ids : CallFailed(id)
             \/ EmitDisconnected \/ Connected \/ UNCHANGED vars
      PROVE  Stages' /\ Ordered' /\ ran' = ran
  <2>1. UNCHANGED <<ready, nextId, capabilitiesId, queued, qemuVars>>
    BY <1>7 DEF CallFailed, EmitDisconnected, Connected, vars, clientVars
  <2>2. socket' = socket \/ (socket = "opening" /\ socket' = "up")
    BY <1>7 DEF CallFailed, EmitDisconnected, Connected, vars, clientVars
  <2> QED
    BY <2>1, <2>2
       DEF qemuVars, HInv, Stages, Ordered, Silent, Greeting, Asked, Answered, Negotiated
<1>8. ASSUME QemuGreets \/ QemuServes \/ QemuEvent \/ QemuCloses
      PROVE  Stages' /\ Ordered' /\ (ran' # ran => ran' > ran)
  BY <1>8, QemuKeepsHInv
<1> QED
  BY <1>1, <1>2, <1>3, <1>4, <1>5, <1>6, <1>7, <1>8 DEF Next

(***************************************************************************)
(* No command waits for a reply that cannot come, and none is written      *)
(* before the capabilities are negotiated (handle(), execute(), drop()),   *)
(* on any number of connections.                                           *)
(***************************************************************************)
THEOREM HandshakeKept == Spec => []Handshake
<1>1. HInv => Handshake
  <2> SUFFICES ASSUME HInv PROVE NegotiatedFirst
    BY DEF HInv, IInv, Handshake
  <2>1. inbox = <<>> => NegotiatedFirst
    BY DEF NegotiatedFirst
  <2>2. Asked => NegotiatedFirst
    BY DEF Asked, NegotiatedFirst
  <2>3. Negotiated => NegotiatedFirst
    BY DEF Negotiated, NegotiatedFirst
  <2> QED
    BY <2>1, <2>2, <2>3 DEF HInv, Stages, Silent, Greeting, Answered
<1>2. SafeSpec => []HInv
  BY InitHInv, StepHInv, PTL DEF SafeSpec
<1> QED
  BY <1>1, <1>2, PTL DEF Spec

(***************************************************************************)
(* QEMU runs the commands in the order in which execute() was called, and  *)
(* none twice: the queue is flushed in order, before anything newer.       *)
(***************************************************************************)
THEOREM RunInOrder == Spec => InOrder
<1>1. SafeSpec => []HInv
  BY InitHInv, StepHInv, PTL DEF SafeSpec
<1>2. HInv /\ [Next]_vars => [ran' > ran]_ran
  BY StepHInv
<1> QED
  BY <1>1, <1>2, PTL DEF Spec, SafeSpec, InOrder
-----------------------------------------------------------------------------
(* The steps of QmpClient as steps of QmpLink.                             *)

Owed == WithCallback(queued) \cup sent \cup failing
Settled == {id \in Ids : calls[id] > 0}
State ==
    IF after = "disconnected" THEN "closing"
    ELSE IF ready THEN "ready"
    ELSE IF after = "open" \/ socket # "none" THEN "waiting"
    ELSE "none"

LEMMA InitLink == Init => Link!Init
<1> SUFFICES ASSUME Init PROVE Link!Init
  OBVIOUS
<1>1. WithCallback(queued) \cup sent \cup failing = {}
  BY NoCallbacks DEF Init
<1>2. {id \in Ids : calls[id] > 0} = {}
  BY DEF Init
<1> QED
  BY <1>1, <1>2 DEF Init, Link!Init

(* The callback of id is called: it was owed, and is settled.              *)
LEMMA CallSettles ==
  ASSUME IInv, NEW id \in Ids, calls' = [calls EXCEPT ![id] = @ + 1]
  PROVE  Settled' = Settled \cup {id}
  BY DEF IInv, TypeOK, Settled

(* A step that the owner of the client sees nothing of.                    *)
LEMMA UnseenByOwner ==
  ASSUME UNCHANGED <<socket, ready, after, queued, sent, failing, calls, heard>>
  PROVE  UNCHANGED Link!vars
  BY DEF Link!vars, WithCallback

LEMMA ExecuteLinks ==
  ASSUME IInv, NEW callback \in BOOLEAN, Execute(callback)
  PROVE  [Link!Next]_(Link!vars)
<1> DEFINE c == [id |-> nextId, callback |-> callback]
<1>0. /\ c \in Command /\ nextId \in Ids
      /\ UNCHANGED <<socket, ready, after, failing, calls, heard>>
  BY DEF Execute, Command
<1>1. Owed' = IF callback THEN Owed \cup {nextId} ELSE Owed
  <2>1. CASE ~ready
    <3>1. queued' = Append(queued, c) /\ sent' = sent
      BY <2>1 DEF Execute
    <3>2. WithCallback(queued') =
            WithCallback(queued) \cup (IF callback THEN {nextId} ELSE {})
      BY <1>0, <3>1, AppendCallback DEF IInv, TypeOK
    <3> QED
      BY <1>0, <3>1, <3>2 DEF Owed
  <2>2. CASE ready
    <3>1. queued' = queued /\ sent' = IF callback THEN sent \cup {nextId} ELSE sent
      BY <2>2 DEF Execute
    <3>2. WithCallback(queued') = WithCallback(queued)
      BY <3>1
    <3> QED
      BY <1>0, <3>1, <3>2 DEF Owed
  <2> QED
    BY <2>1, <2>2
<1>2. nextId \notin wanted
  BY <1>0 DEF IInv, IdsHandedOut, TypeOK
<1>3. nextId \notin Owed /\ nextId \notin Settled
  BY <1>0, <1>2 DEF IInv, CalledOnce, Owed, Settled
<1>4. CASE callback
  <2>1. Link!Execute(nextId)
    BY <1>0, <1>1, <1>3, <1>4 DEF Link!Execute, Owed, Settled
  <2> QED
    BY <1>0, <2>1 DEF Link!Next
<1>5. CASE ~callback
  BY <1>0, <1>1, <1>5 DEF Link!vars, Owed
<1> QED
  BY <1>4, <1>5

LEMMA GivingUpLinks ==       \* failAll() has what was owed
  ASSUME IInv, ~Busy, NEW next, FailAll(next)
  PROVE  failing = {} /\ after = "nothing" /\ failing' = Owed /\ Owed' = Owed
<1>1. failing = {} /\ after = "nothing" /\ failing' = Owed /\ sent' = {}
  BY DEF Busy, FailAll, Owed
<1>2. WithCallback(queued') = {}
  BY NoCallbacks DEF FailAll
<1> QED
  BY <1>1, <1>2 DEF Owed

LEMMA OwnerLinks ==
  ASSUME IInv, ConnectToSocket \/ DisconnectFromSocket
  PROVE  Link!Next
<1>0. ~Busy /\ failing = {} /\ after = "nothing" /\ calls' = calls
  BY DEF ConnectToSocket, DisconnectFromSocket, Busy, ledgerVars
<1>1. CASE ConnectToSocket /\ socket = "up"
  <2>1. Drop /\ FailAll("open") /\ heard' = "nothing"
    BY <1>1 DEF ConnectToSocket
  <2>2. failing' = Owed /\ Owed' = Owed /\ after' = "open"
    BY <1>0, <2>1, GivingUpLinks DEF FailAll
  <2>3. State \in {"ready", "waiting"}
    BY <1>0, <1>1 DEF State
  <2>4. State' = "waiting"
    BY <2>1, <2>2 DEF Drop, State
  <2>5. Link!Connect
    BY <1>0, <2>1, <2>2, <2>3, <2>4 DEF Link!Connect, Owed, State
  <2> QED
    BY <2>5 DEF Link!Next
<1>2. CASE ConnectToSocket /\ socket # "up"
  <2>1. /\ ~ready /\ ~ready' /\ socket' = "opening" /\ heard' = "nothing"
        /\ UNCHANGED <<failing, sent, queued, after>>
    BY <1>2 DEF ConnectToSocket, Open, IInv, NoOrphans
  <2>2. Owed' = Owed
    BY <2>1 DEF Owed, WithCallback
  <2>3. Link!Connect
    BY <1>0, <2>1, <2>2 DEF Link!Connect, Owed
  <2> QED
    BY <2>3 DEF Link!Next
<1>3. CASE DisconnectFromSocket
  <2>1. Drop /\ FailAll("nothing") /\ heard' = "nothing"
    BY <1>3 DEF DisconnectFromSocket
  <2>2. failing' = Owed /\ Owed' = Owed /\ after' = "nothing"
    BY <1>0, <2>1, GivingUpLinks DEF FailAll
  <2>3. Link!Disconnect
    BY <1>0, <2>1, <2>2 DEF Link!Disconnect, Drop, Owed
  <2> QED
    BY <2>3 DEF Link!Next
<1> QED
  BY <1>1, <1>2, <1>3

LEMMA SocketLinks ==
  ASSUME IInv, ConnectError \/ Closed
  PROVE  Link!Next
<1>0. ~Busy /\ failing = {} /\ after = "nothing" /\ calls' = calls /\ Drop
  BY DEF ConnectError, Closed, Busy, ledgerVars
<1>1. CASE Closed /\ ready
  <2>1. FailAll("disconnected") /\ heard' = heard
    BY <1>1 DEF Closed
  <2>2. failing' = Owed /\ Owed' = Owed /\ after' = "disconnected"
    BY <1>0, <2>1, GivingUpLinks DEF FailAll
  <2>3. State = "ready"
    BY <1>0, <1>1 DEF State
  <2>4. State' = "closing"
    BY <2>2 DEF State
  <2>5. Link!Lose
    BY <1>0, <2>1, <2>2, <2>3, <2>4 DEF Link!Lose, Owed, State
  <2> QED
    BY <2>5 DEF Link!Next
<1>2. CASE ~(Closed /\ ready)
  <2>1. /\ ~ready /\ socket # "none" /\ heard' = "connectionFailed"
        /\ UNCHANGED <<queued, sent, failing, after>>
    BY <1>2 DEF ConnectError, Closed, IInv, NoOrphans
  <2>2. Owed' = Owed
    BY <2>1 DEF Owed, WithCallback
  <2>3. Link!ConnectionFailed
    BY <1>0, <2>1, <2>2 DEF Link!ConnectionFailed, Drop, Owed
  <2> QED
    BY <2>3 DEF Link!Next
<1> QED
  BY <1>1, <1>2

LEMMA ReadLinks ==
  ASSUME IInv, Read
  PROVE  [Link!Next]_(Link!vars)
<1>0. /\ socket = "up" /\ failing = {} /\ after = "nothing"
      /\ UNCHANGED <<failing, after>>
  BY DEF Read, Busy
<1>1. CASE HandleGreeting
  BY <1>0, <1>1, UnseenByOwner DEF HandleGreeting
<1>2. CASE UNCHANGED <<socket, ready, queued, sent, calls, heard>>
  BY <1>0, <1>2, UnseenByOwner
<1>3. ASSUME NEW ok, ~ready, HandleCapabilities(ok) PROVE Link!Next
  <2>1. CASE ok
    <3>1. /\ ready' = TRUE /\ socket' = "up" /\ heard' = "ready" /\ calls' = calls
          /\ sent' = sent \cup WithCallback(queued)
          /\ queued' = <<>>
      BY <1>0, <1>3, <2>1 DEF HandleCapabilities
    <3>2. Owed' = Owed
      BY <1>0, <3>1, NoCallbacks DEF Owed
    <3>3. State = "waiting"
      BY <1>0, <1>3 DEF State
    <3>4. State' = "ready"
      BY <1>0, <3>1 DEF State
    <3>5. Link!Ready
      BY <1>0, <3>1, <3>2, <3>3, <3>4 DEF Link!Ready, Owed, State
    <3> QED
      BY <3>5 DEF Link!Next
  <2>2. CASE ~ok
    <3>1. /\ Drop /\ heard' = "connectionFailed" /\ UNCHANGED <<queued, sent, calls>>
      BY <1>3, <2>2 DEF HandleCapabilities
    <3>2. Owed' = Owed
      BY <1>0, <3>1 DEF Owed, WithCallback
    <3>3. Link!ConnectionFailed
      BY <1>0, <1>3, <3>1, <3>2 DEF Link!ConnectionFailed, Drop, Owed
    <3> QED
      BY <3>3 DEF Link!Next
  <2> QED
    BY <2>1, <2>2
<1>4. ASSUME NEW id, HandleReply(id) PROVE [Link!Next]_(Link!vars)
  <2>1. UNCHANGED <<socket, ready, queued, heard>>
    BY <1>4 DEF HandleReply
  <2>2. CASE id \in sent
    <3>1. id \in Ids /\ ready /\ sent' = sent \ {id}
          /\ calls' = [calls EXCEPT ![id] = @ + 1]
      BY <1>4, <2>2 DEF HandleReply, IInv, TypeOK, NoOrphans
    <3>2. id \in Owed /\ Owed' = Owed \ {id}
      <4>1. WithCallback(queued') = WithCallback(queued)
        BY <2>1
      <4> QED
        BY <1>0, <2>2, <3>1, <4>1 DEF Owed, IInv, CalledOnce
    <3>3. Settled' = Settled \cup {id}
      BY <3>1, CallSettles
    <3>4. State = "ready" /\ State' = State
      <4>1. State = "ready"
        BY <1>0, <3>1 DEF State
      <4>2. State' = State
        BY <1>0, <2>1 DEF State
      <4> QED
        BY <4>1, <4>2
    <3>5. Link!Answer(id)
      BY <1>0, <2>1, <3>2, <3>3, <3>4 DEF Link!Answer, Link!Settle, Owed, Settled, State
    <3> QED
      BY <3>1, <3>5 DEF Link!Next
  <2>3. CASE id \notin sent
    <3>1. sent' = sent /\ calls' = calls
      BY <1>4, <2>3 DEF HandleReply
    <3> QED
      BY <1>0, <2>1, <3>1, UnseenByOwner
  <2> QED
    BY <2>2, <2>3
<1> QED
  BY <1>1, <1>2, <1>3, <1>4 DEF Read

(***************************************************************************)
(* The safety half of KeepsContract: whatever its socket, QEMU and its     *)
(* owner do, the client is a link of QmpLink.  That it also fails what is  *)
(* owed, and tells, without waiting for anybody is left to the runs.       *)
(***************************************************************************)
THEOREM ImplementsLink == Spec => Link!SafeSpec
<1>1. IInv /\ [Next]_vars => [Link!Next]_(Link!vars)
  <2> SUFFICES ASSUME IInv, [Next]_vars PROVE [Link!Next]_(Link!vars)
    OBVIOUS
  <2>1. ASSUME NEW callback \in BOOLEAN, Execute(callback) PROVE [Link!Next]_(Link!vars)
    BY <2>1, ExecuteLinks
  <2>2. CASE ConnectToSocket \/ DisconnectFromSocket
    BY <2>2, OwnerLinks
  <2>3. ASSUME NEW id \in Ids, CallFailed(id) PROVE [Link!Next]_(Link!vars)
    <3>1. /\ id \in failing /\ failing' = failing \ {id}
          /\ UNCHANGED <<socket, ready, after, queued, sent, heard>>
      BY <2>3 DEF CallFailed
    <3>2. Owed' = Owed \ {id}
      <4>1. WithCallback(queued') = WithCallback(queued)
        BY <3>1
      <4> QED
        BY <3>1, <4>1 DEF Owed, IInv, CalledOnce
    <3>3. Settled' = Settled \cup {id}
      BY <2>3, CallSettles DEF CallFailed
    <3>4. Link!Refuse(id)
      BY <3>1, <3>2, <3>3 DEF Link!Refuse, Link!Settle, Owed, Settled
    <3> QED
      BY <2>3, <3>4 DEF Link!Next
  <2>4. CASE Reopen
    <3>1. /\ ~ready /\ after = "open" /\ after' = "nothing" /\ socket' = "opening"
          /\ UNCHANGED <<ready, queued, sent, failing, calls, heard>>
      BY <2>4 DEF Reopen, Open, ledgerVars, IInv, DownWhileBusy, Busy
    <3> QED
      BY <3>1 DEF Link!vars, WithCallback
  <2>5. CASE EmitDisconnected
    <3>1. /\ ~ready /\ socket = "none" /\ failing = {}
          /\ after = "disconnected" /\ after' = "nothing" /\ heard' = "disconnected"
          /\ UNCHANGED <<socket, ready, queued, sent, failing, calls>>
      BY <2>5 DEF EmitDisconnected, ledgerVars, IInv, DownWhileBusy, Busy
    <3>2. Link!Disconnected
      BY <3>1 DEF Link!Disconnected, WithCallback
    <3> QED
      BY <3>2 DEF Link!Next
  <2>6. CASE Connected
    <3>1. /\ ~ready /\ socket = "opening" /\ socket' = "up"
          /\ UNCHANGED <<ready, after, queued, sent, failing, calls, heard>>
      BY <2>6 DEF Connected, ledgerVars, IInv, NoOrphans
    <3> QED
      BY <3>1 DEF Link!vars, WithCallback
  <2>7. CASE ConnectError \/ Closed
    BY <2>7, SocketLinks
  <2>8. CASE Read
    BY <2>8, ReadLinks
  <2>9. CASE QemuGreets \/ QemuServes \/ QemuEvent \/ QemuCloses \/ UNCHANGED vars
    <3>1. UNCHANGED <<clientVars, heard, calls>>
      BY <2>9 DEF QemuGreets, QemuServes, QemuEvent, QemuCloses, ledgerVars, vars
    <3> QED
      BY <3>1, UnseenByOwner DEF clientVars
  <2> QED
    BY <2>1, <2>2, <2>3, <2>4, <2>5, <2>6, <2>7, <2>8, <2>9 DEF Next
<1> QED
  BY <1>1, InitLink, Invariance, PTL DEF Spec, SafeSpec, Link!SafeSpec
=============================================================================
