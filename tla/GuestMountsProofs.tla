-------------------------- MODULE GuestMountsProofs --------------------------
(***************************************************************************)
(* Proofs about GuestMounts, for any number of shares, of connections and  *)
(* of restarts.  The argument: connections are counted, so that a new one  *)
(* is newer than all that is in flight; the port loses only the ends of    *)
(* what it carries and the agent answers in order, so that behind what     *)
(* belongs to the connection there is nothing that does not; and when the  *)
(* reply to its guest-sync was read, all that went before it was skipped.  *)
(***************************************************************************)
EXTENDS GuestMounts, Integers, TLAPS

Pids == [connection : Nat, share : 0 .. NumShares]
Commands == {"sync", "exec", "status"}
Requests == [connection : Nat, command : Commands, share : 0 .. NumShares, pid : Pids]
Replies ==
    [connection : Nat, command : Commands, share : 0 .. NumShares, pid : Pids,
     value : {"sync", "pid", "error", "running", "done", "failed"}]
Programs == [pid : Pids, state : {"running", "done", "failed"}]

TypeOK ==
    /\ opened \in Nat /\ events \in 0 .. opened
    /\ agent \in Nat /\ syncing \in BOOLEAN
    /\ step \in {"none", "exec", "status", "sleep"}
    /\ share \in 0 .. NumShares /\ pid \in Pids
    /\ toGuest \in Seq(Requests) /\ fromGuest \in Seq(Replies)
    /\ programs \subseteq Programs
    /\ succeeded \subseteq Pids

(* The script that a request or a reply is about.                          *)
Script(r) == [connection |-> r.connection, share |-> r.share]

(* Nobody invents the end of a script, or another's pid.                   *)
TrueRequest(r) == r.command = "status" => r.pid = Script(r)
TrueReply(r) ==
    /\ r.command = "status" /\ r.value = "done" => Script(r) \in succeeded
    /\ r.command = "exec" /\ r.value = "pid" => r.pid = Script(r)

Truth ==
    /\ \A i \in 1 .. Len(toGuest) : TrueRequest(toGuest[i])
    /\ \A i \in 1 .. Len(fromGuest) : TrueReply(fromGuest[i])

KnownEnds == \A p \in programs : p.state = "done" => p.pid \in succeeded

(* What is in flight is not newer than the events that were read.          *)
NothingNewer ==
    /\ agent <= opened - events
    /\ \A i \in 1 .. Len(toGuest) : toGuest[i].connection <= opened - events
    /\ \A i \in 1 .. Len(fromGuest) : fromGuest[i].connection <= opened - events

(* Behind what belongs to the connection there is nothing that does not.   *)
Ordered ==
    agent # 0 =>
        /\ \A i, j \in 1 .. Len(toGuest) :
            i < j /\ toGuest[i].connection = agent => toGuest[j].connection = agent
        /\ \A i, j \in 1 .. Len(fromGuest) :
            i < j /\ fromGuest[i].connection = agent => fromGuest[j].connection = agent
        /\ \A i \in 1 .. Len(fromGuest), j \in 1 .. Len(toGuest) :
            fromGuest[i].connection = agent => toGuest[j].connection = agent

(* Once in sync, there is nothing else at all.                             *)
InSyncOnly ==
    agent # 0 /\ ~syncing =>
        /\ \A i \in 1 .. Len(toGuest) : toGuest[i].connection = agent
        /\ \A i \in 1 .. Len(fromGuest) : fromGuest[i].connection = agent

(* The shares are mounted in their order, and each is accounted for.       *)
Halfway ==
    step # "none" =>
        /\ agent # 0 /\ ~syncing /\ share # 0
        /\ mounted \cap problems = {}
        /\ mounted \cup problems = 1 .. share - 1
        /\ \A s \in mounted : [connection |-> agent, share |-> s] \in succeeded
        /\ step # "exec" => pid = [connection |-> agent, share |-> share]

Port == Truth /\ NothingNewer /\ Ordered /\ InSyncOnly

IInv == TypeOK /\ KnownEnds /\ Port /\ Halfway /\ TellsTruly

-----------------------------------------------------------------------------
(* What a port that loses one end of its bytes still carries.              *)

PartOf(t, s) ==
    \E k \in Nat : Len(t) + k <= Len(s) /\ \A i \in 1 .. Len(t) : t[i] = s[i + k]

LEMMA WholeIsPart ==
  ASSUME NEW S, NEW s \in Seq(S)
  PROVE  PartOf(s, s)
<1>1. Len(s) + 0 <= Len(s) /\ \A i \in 1 .. Len(s) : s[i] = s[i + 0]
  OBVIOUS
<1> QED
  BY <1>1 DEF PartOf

LEMMA PrefixIsPart ==
  ASSUME NEW S, NEW s \in Seq(S), NEW t \in Prefixes(s)
  PROVE  t \in Seq(S) /\ PartOf(t, s)
<1>1. PICK k \in 0 .. Len(s) : t = SubSeq(s, 1, k)
  BY DEF Prefixes
<1>2. /\ t \in Seq(S) /\ Len(t) + 0 <= Len(s)
      /\ \A i \in 1 .. Len(t) : t[i] = s[i + 0]
  BY <1>1
<1> QED
  BY <1>2 DEF PartOf

LEMMA SuffixIsPart ==
  ASSUME NEW S, NEW s \in Seq(S), NEW t \in Suffixes(s)
  PROVE  t \in Seq(S) /\ PartOf(t, s)
<1>1. PICK k \in 1 .. Len(s) + 1 : t = SubSeq(s, k, Len(s))
  BY DEF Suffixes
<1> DEFINE lost == k - 1
<1>2. /\ t \in Seq(S) /\ Len(t) + lost <= Len(s)
      /\ \A i \in 1 .. Len(t) : t[i] = s[i + lost]
  BY <1>1
<1>3. lost \in Nat
  OBVIOUS
<1> QED
  <2> HIDE DEF lost
  <2> QED
    BY <1>2, <1>3 DEF PartOf

LEMMA TailIsPart ==
  ASSUME NEW S, NEW s \in Seq(S), s # <<>>
  PROVE  /\ Tail(s) \in Seq(S) /\ PartOf(Tail(s), s)
         /\ Head(s) \in S /\ Len(s) > 0 /\ Head(s) = s[1]
<1>1. /\ Tail(s) \in Seq(S) /\ Len(Tail(s)) = Len(s) - 1 /\ Len(s) > 0
      /\ Head(s) \in S /\ Head(s) = s[1]
      /\ \A i \in 1 .. Len(Tail(s)) : Tail(s)[i] = s[i + 1]
  OBVIOUS
<1> QED
  BY <1>1 DEF PartOf

(* Whatever is in flight has the number of a connection; those which were   *)
(* opened, less the events that were not read, are a number as well.        *)
LEMMA RestIsNat == \A m \in Nat : \A n \in 0 .. m : m - n \in Nat
  OBVIOUS

LEMMA AtMost == \A a, b, c \in Nat : a <= b /\ b <= c => a <= c
  OBVIOUS

LEMMA ReadMore == \A m \in Nat : \A n \in 0 .. m : \A k \in Nat :
                      k <= n => k \in 0 .. m /\ m - n <= m - k
  OBVIOUS

LEMMA SharesFit == 0 \in 0 .. NumShares /\ Shares \subseteq 0 .. NumShares /\ NoPid \in Pids
  BY ConstantsAssumption DEF Shares, NoPid, Pids

LEMMA RequestsNumbered ==
  ASSUME NEW s \in Seq(Requests)
  PROVE  \A i \in 1 .. Len(s) : s[i].connection \in Nat
<1>1. \A i \in 1 .. Len(s) : s[i] \in Requests
  OBVIOUS
<1> QED
  BY <1>1 DEF Requests

LEMMA RepliesNumbered ==
  ASSUME NEW s \in Seq(Replies)
  PROVE  \A i \in 1 .. Len(s) : s[i].connection \in Nat
<1>1. \A i \in 1 .. Len(s) : s[i] \in Replies
  OBVIOUS
<1> QED
  BY <1>1 DEF Replies

-----------------------------------------------------------------------------
(* What the port may lose, at either end, breaks nothing.                   *)
LEMMA PortLoses ==
  ASSUME TypeOK, Port,
         toGuest' \in Seq(Requests), PartOf(toGuest', toGuest),
         fromGuest' \in Seq(Replies), PartOf(fromGuest', fromGuest),
         agent' = 0 \/ (agent' = agent /\ syncing' = syncing),
         succeeded \subseteq succeeded',
         opened' \in Nat, events' \in 0 .. opened', opened - events <= opened' - events'
  PROVE  Port'
<1>1. PICK k \in Nat : /\ Len(toGuest') + k <= Len(toGuest)
                       /\ \A i \in 1 .. Len(toGuest') : toGuest'[i] = toGuest[i + k]
  BY DEF PartOf
<1>2. PICK l \in Nat : /\ Len(fromGuest') + l <= Len(fromGuest)
                       /\ \A i \in 1 .. Len(fromGuest') : fromGuest'[i] = fromGuest[i + l]
  BY DEF PartOf
<1>3. Len(toGuest) \in Nat /\ Len(toGuest') \in Nat /\ Len(fromGuest) \in Nat /\ Len(fromGuest') \in Nat
  BY DEF TypeOK
<1>4. \A i \in 1 .. Len(toGuest') : i + k \in 1 .. Len(toGuest)
  BY <1>1, <1>3
<1>5. \A i \in 1 .. Len(fromGuest') : i + l \in 1 .. Len(fromGuest)
  BY <1>2, <1>3
<1>6. Truth'
  BY <1>1, <1>2, <1>4, <1>5 DEF Port, Truth, TrueRequest, TrueReply
<1>7. NothingNewer'
  <2> DEFINE before == opened - events
             after == opened' - events'
  <2>1. \A i \in 1 .. Len(toGuest) : toGuest[i].connection \in Nat /\ toGuest[i].connection <= before
    BY RequestsNumbered DEF Port, NothingNewer, TypeOK
  <2>2. \A i \in 1 .. Len(fromGuest) : fromGuest[i].connection \in Nat /\ fromGuest[i].connection <= before
    BY RepliesNumbered DEF Port, NothingNewer, TypeOK
  <2>3. before \in Nat /\ after \in Nat
    BY RestIsNat DEF TypeOK
  <2>7. before <= after
    OBVIOUS
  <2>8. agent \in Nat /\ agent <= before
    BY DEF Port, NothingNewer, TypeOK
  <2> HIDE DEF before, after
  <2>4. \A i \in 1 .. Len(toGuest') : toGuest'[i].connection <= after
    <3>1. \A i \in 1 .. Len(toGuest) : toGuest[i].connection <= after
      BY <2>1, <2>3, <2>7, AtMost
    <3> QED
      BY <1>1, <1>4, <3>1
  <2>5. \A i \in 1 .. Len(fromGuest') : fromGuest'[i].connection <= after
    <3>1. \A i \in 1 .. Len(fromGuest) : fromGuest[i].connection <= after
      BY <2>2, <2>3, <2>7, AtMost
    <3> QED
      BY <1>2, <1>5, <3>1
  <2>6. agent' <= after
    BY <2>3, <2>7, <2>8
  <2> QED
    BY <2>4, <2>5, <2>6 DEF NothingNewer, after
<1>8. Ordered'
  <2> SUFFICES ASSUME agent' # 0 PROVE Ordered'
    BY DEF Ordered
  <2>0. agent' = agent /\ agent # 0
    OBVIOUS
  <2>1. \A i, j \in 1 .. Len(toGuest') :
            i < j /\ toGuest'[i].connection = agent => toGuest'[j].connection = agent
    <3>1. \A i, j \in 1 .. Len(toGuest) :
              i < j /\ toGuest[i].connection = agent => toGuest[j].connection = agent
      BY DEF Port, Ordered
    <3>2. \A i, j \in 1 .. Len(toGuest') : i < j => i + k < j + k
      OBVIOUS
    <3> QED
      BY <1>1, <1>4, <3>1, <3>2
  <2>2. \A i, j \in 1 .. Len(fromGuest') :
            i < j /\ fromGuest'[i].connection = agent => fromGuest'[j].connection = agent
    <3>1. \A i, j \in 1 .. Len(fromGuest) :
              i < j /\ fromGuest[i].connection = agent => fromGuest[j].connection = agent
      BY DEF Port, Ordered
    <3>2. \A i, j \in 1 .. Len(fromGuest') : i < j => i + l < j + l
      OBVIOUS
    <3> QED
      BY <1>2, <1>5, <3>1, <3>2
  <2>3. \A i \in 1 .. Len(fromGuest'), j \in 1 .. Len(toGuest') :
            fromGuest'[i].connection = agent => toGuest'[j].connection = agent
    BY <1>1, <1>2, <1>4, <1>5, ZenonT(40) DEF Port, Ordered
  <2> QED
    BY <2>0, <2>1, <2>2, <2>3 DEF Ordered
<1>9. InSyncOnly'
  BY <1>1, <1>2, <1>4, <1>5 DEF Port, InSyncOnly
<1> QED
  BY <1>6, <1>7, <1>8, <1>9 DEF Port

(* The agent goes, and the port with it.                                    *)
LEMMA PortClosing ==
  ASSUME TypeOK, Port, PortCloses
  PROVE  /\ toGuest' \in Seq(Requests) /\ PartOf(toGuest', toGuest)
         /\ fromGuest' \in Seq(Replies) /\ PartOf(fromGuest', fromGuest)
<1>1. toGuest \in Seq(Requests) /\ fromGuest \in Seq(Replies)
  BY DEF TypeOK
<1>2. CASE agent = 0
  BY <1>1, <1>2, WholeIsPart DEF PortCloses, portVars
<1>3. CASE agent # 0
  BY <1>1, <1>3, PrefixIsPart, SuffixIsPart DEF PortCloses
<1> QED
  BY <1>2, <1>3

(* In sync, the manager asks for something more.                            *)
LEMMA PortAsks ==
  ASSUME TypeOK, Port, agent # 0,
         \A i \in 1 .. Len(toGuest) : toGuest[i].connection = agent,
         \A i \in 1 .. Len(fromGuest) : fromGuest[i].connection = agent,
         NEW r \in Requests, r.connection = agent, TrueRequest(r),
         toGuest' = Append(toGuest, r),
         fromGuest' \in Seq(Replies), PartOf(fromGuest', fromGuest),
         UNCHANGED <<agent, succeeded, opened, events>>
  PROVE  toGuest' \in Seq(Requests) /\ Port'
<1>1. PICK l \in Nat : /\ Len(fromGuest') + l <= Len(fromGuest)
                       /\ \A i \in 1 .. Len(fromGuest') : fromGuest'[i] = fromGuest[i + l]
  BY DEF PartOf
<1>2. \A i \in 1 .. Len(fromGuest') : i + l \in 1 .. Len(fromGuest)
  BY <1>1 DEF TypeOK
<1>3. /\ toGuest' \in Seq(Requests)
      /\ Len(toGuest') = Len(toGuest) + 1
      /\ toGuest'[Len(toGuest) + 1] = r
      /\ \A i \in 1 .. Len(toGuest) : toGuest'[i] = toGuest[i]
  BY DEF TypeOK
<1>4. \A i \in 1 .. Len(toGuest') : i \in 1 .. Len(toGuest) \/ toGuest'[i] = r
  BY <1>3 DEF TypeOK
<1>5. \A i \in 1 .. Len(toGuest') : toGuest'[i].connection = agent /\ TrueRequest(toGuest'[i])
  BY <1>3, <1>4 DEF Port, Truth
<1>6. \A i \in 1 .. Len(fromGuest') : fromGuest'[i].connection = agent /\ TrueReply(fromGuest'[i])
  BY <1>1, <1>2 DEF Port, Truth
<1>7. Truth'
  BY <1>5, <1>6 DEF Truth, TrueRequest, TrueReply
<1>8. NothingNewer' /\ Ordered' /\ InSyncOnly'
  BY <1>5, <1>6 DEF Port, NothingNewer, Ordered, InSyncOnly
<1> QED
  BY <1>3, <1>7, <1>8 DEF Port

(* A new connection, newer than all that is in flight.                      *)
LEMMA PortConnects ==
  ASSUME TypeOK, Port, MountShares, qemu, Wanted
  PROVE  /\ toGuest' \in Seq(Requests) /\ fromGuest' \in Seq(Replies)
         /\ Port'
<1> DEFINE c == opened - events'
           r == Request(c, "sync", 0, NoPid)
<1>1. /\ c \in Nat /\ c = opened - events + 1 /\ c # 0
      /\ agent' = c /\ syncing' = TRUE /\ opened' = opened /\ succeeded' = succeeded
      /\ events' \in Nat
  BY DEF MountShares, Connect, TypeOK, guestVars
<1>2. PICK sent \in Prefixes(toGuest), left \in Suffixes(fromGuest) :
          toGuest' = Append(sent, r) /\ fromGuest' = left
  BY DEF MountShares, Connect
<1>3. sent \in Seq(Requests) /\ left \in Seq(Replies) /\ PartOf(sent, toGuest) /\ PartOf(left, fromGuest)
  BY PrefixIsPart, SuffixIsPart DEF TypeOK
<1>4. r \in Requests /\ r.connection = c /\ r.command = "sync"
  BY <1>1, ConstantsAssumption DEF Request, Requests, Commands, NoPid, Pids
<1> HIDE DEF c, r
<1>5. PICK k \in Nat : Len(sent) + k <= Len(toGuest) /\ \A i \in 1 .. Len(sent) : sent[i] = toGuest[i + k]
  BY <1>3 DEF PartOf
<1>6. PICK l \in Nat : Len(left) + l <= Len(fromGuest) /\ \A i \in 1 .. Len(left) : left[i] = fromGuest[i + l]
  BY <1>3 DEF PartOf
<1>7. \A i \in 1 .. Len(sent) : i + k \in 1 .. Len(toGuest)
  BY <1>3, <1>5 DEF TypeOK
<1>8. \A i \in 1 .. Len(left) : i + l \in 1 .. Len(fromGuest)
  BY <1>3, <1>6 DEF TypeOK
<1>9. \A i \in 1 .. Len(left) : left[i].connection < c /\ TrueReply(left[i])
  <2>1. \A i \in 1 .. Len(fromGuest) : fromGuest[i].connection \in Nat /\ fromGuest[i].connection <= opened - events
    BY RepliesNumbered DEF Port, NothingNewer, TypeOK
  <2>2. \A i \in 1 .. Len(fromGuest) : fromGuest[i].connection < c
    BY <1>1, <2>1 DEF TypeOK
  <2>3. \A i \in 1 .. Len(fromGuest) : TrueReply(fromGuest[i])
    BY DEF Port, Truth
  <2> QED
    BY <1>6, <1>8, <2>2, <2>3
<1>10. \A i \in 1 .. Len(sent) : sent[i].connection < c /\ TrueRequest(sent[i])
  <2>1. \A i \in 1 .. Len(toGuest) : toGuest[i].connection \in Nat /\ toGuest[i].connection <= opened - events
    BY RequestsNumbered DEF Port, NothingNewer, TypeOK
  <2>2. \A i \in 1 .. Len(toGuest) : toGuest[i].connection < c
    BY <1>1, <2>1 DEF TypeOK
  <2>3. \A i \in 1 .. Len(toGuest) : TrueRequest(toGuest[i])
    BY DEF Port, Truth
  <2> QED
    BY <1>5, <1>7, <2>2, <2>3
<1>11. /\ toGuest' \in Seq(Requests)
       /\ Len(toGuest') = Len(sent) + 1
       /\ toGuest'[Len(sent) + 1] = r
       /\ \A i \in 1 .. Len(sent) : toGuest'[i] = sent[i]
  BY <1>2, <1>3, <1>4
<1>12. \A i \in 1 .. Len(toGuest') : i \in 1 .. Len(sent) \/ i = Len(sent) + 1
  BY <1>3, <1>11
<1>13. Truth'
  BY <1>1, <1>2, <1>4, <1>9, <1>10, <1>11, <1>12 DEF Truth, TrueRequest, TrueReply
<1>14. NothingNewer'
  <2>1. opened' - events' = c
    BY <1>1 DEF c
  <2>2. \A i \in 1 .. Len(sent) : sent[i].connection \in Nat
    BY <1>3, RequestsNumbered
  <2>3. \A i \in 1 .. Len(left) : left[i].connection \in Nat
    BY <1>3, RepliesNumbered
  <2>4. \A i \in 1 .. Len(fromGuest') : fromGuest'[i].connection <= opened' - events'
    BY <1>1, <1>2, <1>9, <2>1, <2>3
  <2>5. \A i \in 1 .. Len(toGuest') : toGuest'[i].connection <= opened' - events'
    BY <1>1, <1>4, <1>10, <1>11, <1>12, <2>1, <2>2
  <2> QED
    BY <1>1, <2>1, <2>4, <2>5 DEF NothingNewer
<1>15. Ordered'
  <2>1. \A i \in 1 .. Len(fromGuest') : fromGuest'[i].connection # agent'
    <3>1. \A i \in 1 .. Len(left) : left[i].connection \in Nat
      BY <1>3, RepliesNumbered
    <3> QED
      BY <1>1, <1>2, <1>9, <3>1
  <2>2. \A i \in 1 .. Len(sent) : toGuest'[i].connection # agent'
    <3>1. \A i \in 1 .. Len(sent) : sent[i].connection \in Nat
      BY <1>3, RequestsNumbered
    <3> QED
      BY <1>1, <1>10, <1>11, <3>1
  <2>3. \A i, j \in 1 .. Len(toGuest') : i < j => i \in 1 .. Len(sent)
    BY <1>3, <1>11
  <2> QED
    BY <2>1, <2>2, <2>3 DEF Ordered
<1>16. InSyncOnly'
  BY <1>1 DEF InSyncOnly
<1> QED
  BY <1>2, <1>3, <1>11, <1>13, <1>14, <1>15, <1>16 DEF Port

(* The agent answers the oldest request.                                    *)
LEMMA PortServes ==
  ASSUME TypeOK, Port, toGuest # <<>>, NEW r \in Replies,
         r.connection = Head(toGuest).connection,
         TrueReply(r),
         fromGuest' = Append(fromGuest, r), toGuest' = Tail(toGuest),
         UNCHANGED <<agent, syncing, succeeded, opened, events>>
  PROVE  toGuest' \in Seq(Requests) /\ fromGuest' \in Seq(Replies) /\ Port'
<1>1. /\ toGuest' \in Seq(Requests)
      /\ Len(toGuest) > 0 /\ Len(toGuest') = Len(toGuest) - 1 /\ Head(toGuest) = toGuest[1]
      /\ \A i \in 1 .. Len(toGuest') : toGuest'[i] = toGuest[i + 1]
  BY TailIsPart DEF TypeOK
<1>2. /\ fromGuest' \in Seq(Replies)
      /\ Len(fromGuest') = Len(fromGuest) + 1 /\ fromGuest'[Len(fromGuest) + 1] = r
      /\ \A i \in 1 .. Len(fromGuest) : fromGuest'[i] = fromGuest[i]
  BY DEF TypeOK
<1>3. Len(toGuest) \in Nat /\ Len(fromGuest) \in Nat
  BY DEF TypeOK
<1>4. \A i \in 1 .. Len(toGuest') : i + 1 \in 1 .. Len(toGuest) /\ 1 < i + 1
  BY <1>1, <1>3
<1>5. \A i \in 1 .. Len(fromGuest') : i \in 1 .. Len(fromGuest) \/ i = Len(fromGuest) + 1
  BY <1>2, <1>3
<1>6. 1 \in 1 .. Len(toGuest)
  BY <1>1, <1>3
<1>7. Truth'
  BY <1>1, <1>2, <1>4, <1>5 DEF Port, Truth, TrueRequest, TrueReply
<1>8. NothingNewer'
  BY <1>1, <1>2, <1>4, <1>5, <1>6 DEF Port, NothingNewer
<1>9. Ordered'
  <2> SUFFICES ASSUME agent # 0 PROVE Ordered'
    BY DEF Ordered
  <2>1. \A i, j \in 1 .. Len(toGuest) :
            i < j /\ toGuest[i].connection = agent => toGuest[j].connection = agent
    BY DEF Port, Ordered
  <2>2. \A i, j \in 1 .. Len(fromGuest) :
            i < j /\ fromGuest[i].connection = agent => fromGuest[j].connection = agent
    BY DEF Port, Ordered
  <2>3. \A i \in 1 .. Len(fromGuest), j \in 1 .. Len(toGuest) :
            fromGuest[i].connection = agent => toGuest[j].connection = agent
    BY DEF Port, Ordered
  <2>4. \A i, j \in 1 .. Len(toGuest') :
            i < j /\ toGuest'[i].connection = agent => toGuest'[j].connection = agent
    <3>1. \A i, j \in 1 .. Len(toGuest') : i < j => i + 1 < j + 1
      OBVIOUS
    <3> QED
      BY <1>1, <1>4, <2>1, <3>1
  <2>5. ASSUME NEW i \in 1 .. Len(fromGuest'), NEW j \in 1 .. Len(fromGuest'), i < j,
               fromGuest'[i].connection = agent
        PROVE  fromGuest'[j].connection = agent
    <3>1. i \in 1 .. Len(fromGuest)
      BY <1>2, <1>3, <2>5
    <3>2. CASE j \in 1 .. Len(fromGuest)
      BY <1>2, <2>2, <2>5, <3>1, <3>2
    <3>3. CASE j = Len(fromGuest) + 1
      BY <1>1, <1>2, <1>6, <2>3, <2>5, <3>1, <3>3
    <3> QED
      BY <1>5, <3>2, <3>3
  <2>6. ASSUME NEW i \in 1 .. Len(fromGuest'), NEW j \in 1 .. Len(toGuest'),
               fromGuest'[i].connection = agent
        PROVE  toGuest'[j].connection = agent
    <3>1. toGuest'[j] = toGuest[j + 1] /\ j + 1 \in 1 .. Len(toGuest) /\ 1 < j + 1
      BY <1>1, <1>4
    <3>2. CASE i \in 1 .. Len(fromGuest)
      BY <1>2, <2>3, <2>6, <3>1, <3>2
    <3>3. CASE i = Len(fromGuest) + 1
      <4>1. toGuest[1].connection = agent
        BY <1>1, <1>2, <2>6, <3>3
      <4> QED
        BY <1>6, <2>1, <3>1, <4>1
    <3> QED
      BY <1>5, <3>2, <3>3
  <2> QED
    BY <2>4, <2>5, <2>6 DEF Ordered
<1>10. InSyncOnly'
  BY <1>1, <1>2, <1>4, <1>5, <1>6 DEF Port, InSyncOnly
<1> QED
  BY <1>1, <1>2, <1>7, <1>8, <1>9, <1>10 DEF Port

-----------------------------------------------------------------------------
(* What the handlers of the manager have in common.                         *)

(* The agent is let go of.                                                  *)
LEMMA LettingGo ==
  ASSUME IInv, NoAgent, PortCloses, UNCHANGED <<guestVars, opened>>,
         events' \in Nat, events' <= events, TellsTruly'
  PROVE  IInv'
<1> USE DEF IInv
<1>1. /\ toGuest' \in Seq(Requests) /\ PartOf(toGuest', toGuest)
      /\ fromGuest' \in Seq(Replies) /\ PartOf(fromGuest', fromGuest)
  BY PortClosing
<1>2. opened' \in Nat /\ events' \in 0 .. opened' /\ opened - events <= opened' - events'
  BY ReadMore DEF TypeOK
<1>3. Port'
  BY <1>1, <1>2, PortLoses DEF NoAgent, guestVars
<1>4. TypeOK'
  BY <1>1, <1>2, SharesFit DEF TypeOK, NoAgent, guestVars
<1>5. KnownEnds' /\ Halfway'
  BY DEF KnownEnds, Halfway, NoAgent, guestVars
<1> QED
  BY <1>3, <1>4, <1>5

(* The next share is started.                                               *)
LEMMA Executing ==
  ASSUME IInv, Heard, NEW s \in Shares, NEW m, NEW p, Exec(s, m, p, Tail(fromGuest)),
         \A i \in 1 .. Len(toGuest) : toGuest[i].connection = agent,
         \A i \in 1 .. Len(fromGuest) : fromGuest[i].connection = agent,
         m \cap p = {}, m \cup p = 1 .. s - 1,
         \A x \in m : [connection |-> agent, share |-> x] \in succeeded,
         syncing' = FALSE
  PROVE  IInv'
<1> USE DEF IInv
<1> DEFINE r == Request(agent, "exec", s, NoPid)
<1>1. fromGuest' \in Seq(Replies) /\ PartOf(fromGuest', fromGuest)
  BY TailIsPart DEF Heard, Exec, TypeOK
<1>2. r \in Requests /\ r.connection = agent /\ TrueRequest(r)
  BY ConstantsAssumption DEF Request, Requests, Commands, Pids, NoPid, TrueRequest, TypeOK, Shares
<1>3. toGuest' \in Seq(Requests) /\ Port'
  <2> HIDE DEF r
  <2>1. UNCHANGED <<agent, succeeded, opened, events>> /\ agent # 0
    BY DEF Exec, Heard, guestVars
  <2>2. toGuest' = Append(toGuest, r)
    BY DEF Exec, r
  <2> QED
    BY <1>1, <1>2, <2>1, <2>2, PortAsks
<1>4. TypeOK'
  BY <1>1, <1>3, SharesFit DEF TypeOK, Exec, Heard, guestVars
<1>5. KnownEnds' /\ TellsTruly'
  BY DEF KnownEnds, TellsTruly, Exec, Heard, guestVars
<1>6. Halfway'
  BY DEF Halfway, Exec, Heard, guestVars, Shares
<1> QED
  BY <1>3, <1>4, <1>5, <1>6

(* A share is done with: the next one, or all is told.                      *)
LEMMA MountingOn ==
  ASSUME IInv, Heard, step # "none", NEW m, NEW p, MountNext(m, p),
         m \cap p = {}, m \cup p = 1 .. share,
         \A x \in m : [connection |-> agent, share |-> x] \in succeeded
  PROVE  IInv'
<1> USE DEF IInv
<1>1. agent # 0 /\ ~syncing /\ share \in Shares
  BY ConstantsAssumption DEF Halfway, TypeOK, Shares
<1>2. CASE share = NumShares
  <2>1. EndMounts(m, p)
    BY <1>2 DEF MountNext
  <2>2. TellsTruly'
    BY <1>2, <2>1 DEF EndMounts, Tells, Told, TellsTruly, Heard, guestVars, Shares
  <2> QED
    BY <2>1, <2>2, LettingGo DEF EndMounts, Heard, TypeOK
<1>3. CASE share # NumShares
  <2>1. Exec(share + 1, m, p, Tail(fromGuest)) /\ syncing' = FALSE
    BY <1>1, <1>3 DEF MountNext, TypeOK
  <2>2. share + 1 \in Shares /\ (share + 1) - 1 = share
    BY <1>1, <1>3, ConstantsAssumption DEF Shares
  <2>3. /\ \A i \in 1 .. Len(toGuest) : toGuest[i].connection = agent
        /\ \A i \in 1 .. Len(fromGuest) : fromGuest[i].connection = agent
    BY <1>1 DEF Port, InSyncOnly
  <2> QED
    BY <2>1, <2>2, <2>3, Executing
<1> QED
  BY <1>2, <1>3

(* The status of a script is asked for.                                     *)
LEMMA Polling ==
  ASSUME IInv, agent # 0, ~syncing, step # "none", NEW replies,
         replies \in Seq(Replies), PartOf(replies, fromGuest),
         PollExec([connection |-> agent, share |-> share], replies),
         UNCHANGED <<events, guestVars, opened>>
  PROVE  IInv'
<1> USE DEF IInv
<1> DEFINE program == [connection |-> agent, share |-> share]
           r == Request(agent, "status", share, program)
<1>1. program \in Pids
  BY DEF Pids, TypeOK
<1>2. r \in Requests /\ r.connection = agent /\ TrueRequest(r)
  BY <1>1 DEF Request, Requests, Commands, TrueRequest, Script, TypeOK
<1>3. toGuest' \in Seq(Requests) /\ Port'
  <2>1. UNCHANGED <<agent, succeeded, opened, events>> /\ toGuest' = Append(toGuest, r) /\ fromGuest' = replies
    BY DEF PollExec, guestVars
  <2>2. /\ \A i \in 1 .. Len(toGuest) : toGuest[i].connection = agent
        /\ \A i \in 1 .. Len(fromGuest) : fromGuest[i].connection = agent
    BY DEF Port, InSyncOnly
  <2> HIDE DEF r
  <2> QED
    BY <1>2, <2>1, <2>2, PortAsks
<1>4. TypeOK'
  BY <1>1, <1>3 DEF TypeOK, PollExec, guestVars
<1>5. KnownEnds' /\ TellsTruly' /\ Halfway'
  BY DEF KnownEnds, TellsTruly, Halfway, PollExec, guestVars
<1> QED
  BY <1>3, <1>4, <1>5

(* The callback that waits, the port and the guest are left alone; the port *)
(* may have lost something.                                                 *)
LEMMA Otherwise ==
  ASSUME IInv,
         toGuest' \in Seq(Requests), PartOf(toGuest', toGuest),
         fromGuest' \in Seq(Replies), PartOf(fromGuest', fromGuest),
         UNCHANGED <<mountVars, succeeded>>,
         programs' \subseteq programs,
         opened' \in Nat, events' \in 0 .. opened', opened - events <= opened' - events',
         told' = told \/ told' = {}
  PROVE  IInv'
<1> USE DEF IInv
<1>1. Port'
  BY PortLoses DEF mountVars
<1>2. TypeOK'
  BY DEF TypeOK, mountVars
<1>3. KnownEnds' /\ Halfway' /\ TellsTruly'
  BY DEF KnownEnds, Halfway, TellsTruly, mountVars
<1> QED
  BY <1>1, <1>2, <1>3

-----------------------------------------------------------------------------
(* At the start nothing is in flight and nothing was told.                  *)
THEOREM InitIInv == Init => IInv
<1> SUFFICES ASSUME Init PROVE IInv
  OBVIOUS
<1>1. TypeOK
  <2>1. toGuest \in Seq(Requests) /\ fromGuest \in Seq(Replies)
    BY DEF Init
  <2>2. opened \in Nat /\ events \in 0 .. opened /\ agent \in Nat
    BY DEF Init
  <2>5. syncing \in BOOLEAN /\ step \in {"none", "exec", "status", "sleep"}
    BY DEF Init
  <2>3. share \in 0 .. NumShares /\ pid \in Pids
    BY SharesFit DEF Init
  <2>4. programs \subseteq Programs /\ succeeded \subseteq Pids
    BY DEF Init
  <2> QED
    BY <2>1, <2>2, <2>3, <2>4, <2>5 DEF TypeOK
<1>2. Port
  BY DEF Init, Port, Truth, NothingNewer, Ordered, InSyncOnly
<1>3. KnownEnds /\ Halfway /\ TellsTruly
  BY DEF Init, KnownEnds, Halfway, TellsTruly
<1> QED
  BY <1>1, <1>2, <1>3 DEF IInv

(* Every step of the manager, of QEMU, of the guest and of its agent keeps  *)
(* the port and what the manager thinks of it in line.                      *)
THEOREM StepIInv == IInv /\ [Next]_vars => IInv'
<1> SUFFICES ASSUME IInv, [Next]_vars PROVE IInv'
  OBVIOUS
<1> USE DEF IInv
<1>a. /\ toGuest \in Seq(Requests) /\ fromGuest \in Seq(Replies)
      /\ opened \in Nat /\ events \in 0 .. opened /\ opened - events <= opened - events
  BY RestIsNat DEF TypeOK
<1>b. PartOf(toGuest, toGuest) /\ PartOf(fromGuest, fromGuest)
  BY <1>a, WholeIsPart
<1>c. ASSUME fromGuest # <<>>
      PROVE  /\ Tail(fromGuest) \in Seq(Replies) /\ PartOf(Tail(fromGuest), fromGuest)
             /\ Head(fromGuest) \in Replies /\ Head(fromGuest) = fromGuest[1]
             /\ 1 \in 1 .. Len(fromGuest)
  <2>1. /\ Tail(fromGuest) \in Seq(Replies) /\ PartOf(Tail(fromGuest), fromGuest)
        /\ Head(fromGuest) \in Replies /\ Head(fromGuest) = fromGuest[1]
        /\ Len(fromGuest) > 0 /\ Len(fromGuest) \in Nat
    BY <1>a, <1>c, TailIsPart
  <2> QED
    BY <2>1
<1>1. CASE MountShares
  <2>1. events' \in Nat /\ events' <= events
    BY <1>1, <1>a DEF MountShares
  <2>2. CASE ~Wanted
    <3>1. /\ UNCHANGED <<mountVars, portVars, guestVars, opened>> /\ told' = {}
      BY <1>1, <2>2 DEF MountShares
    <3>2. events' \in 0 .. opened' /\ opened - events <= opened' - events'
      BY <1>a, <2>1, <3>1, ReadMore
    <3> QED
      BY <1>a, <1>b, <3>1, <3>2, Otherwise DEF portVars, guestVars
  <2>3. CASE Wanted /\ qemu
    <3>1. toGuest' \in Seq(Requests) /\ fromGuest' \in Seq(Replies) /\ Port'
      BY <1>1, <2>3, PortConnects
    <3>2. /\ UNCHANGED <<guestVars, opened>> /\ told' = {}
          /\ agent' = opened - events' /\ syncing' = TRUE /\ step' = "none" /\ share' = 0 /\ pid' = NoPid
      BY <1>1, <2>3 DEF MountShares, Connect
    <3>3. events' \in 0 .. opened' /\ agent' \in Nat
      BY <1>a, <2>1, <3>2, ReadMore, RestIsNat
    <3>4. TypeOK'
      BY <3>1, <3>2, <3>3, SharesFit DEF TypeOK, guestVars
    <3>5. KnownEnds' /\ Halfway' /\ TellsTruly'
      BY <3>2 DEF KnownEnds, Halfway, TellsTruly, guestVars
    <3> QED
      BY <3>1, <3>4, <3>5
  <2>4. CASE Wanted /\ ~qemu
    <3>1. NoAgent /\ PortCloses /\ UNCHANGED <<guestVars, opened>> /\ told' = {ToldError}
      BY <1>1, <2>4 DEF MountShares
    <3>2. TellsTruly'
      BY <3>1 DEF TellsTruly, ToldError
    <3> QED
      BY <2>1, <3>1, <3>2, LettingGo
  <2> QED
    BY <2>2, <2>3, <2>4
<1>2. CASE Skip
  BY <1>2, <1>a, <1>b, <1>c, Otherwise DEF Skip, Heard, guestVars
<1>3. CASE Ready
  <2>1. agent # 0 /\ fromGuest # <<>> /\ fromGuest[1].connection = agent
    BY <1>3, <1>c DEF Ready, Heard, InSync
  <2>2. \A i \in 1 .. Len(fromGuest) : fromGuest[i].connection = agent
    <3>1. \A i \in 1 .. Len(fromGuest) : i = 1 \/ 1 < i
      BY <1>a
    <3> QED
      BY <1>c, <2>1, <3>1 DEF Port, Ordered
  <2>3. \A i \in 1 .. Len(toGuest) : toGuest[i].connection = agent
    BY <1>c, <2>1 DEF Port, Ordered
  <2>4. 1 \in Shares /\ 1 .. 1 - 1 = {}
    BY ConstantsAssumption DEF Shares
  <2> QED
    BY <1>3, <2>2, <2>3, <2>4, Executing DEF Ready
<1>4. CASE Started
  <2>1. agent # 0 /\ fromGuest # <<>> /\ ~syncing /\ step = "exec"
    BY <1>4 DEF Started, Heard
  <2>2. /\ fromGuest[1].command = "exec" /\ fromGuest[1].share = share /\ fromGuest[1].value = "pid"
        /\ PollExec(fromGuest[1].pid, Tail(fromGuest))
    BY <1>4, <1>c, <2>1 DEF Started, IsAnswer
  <2>3. fromGuest[1].pid = [connection |-> agent, share |-> share]
    BY <1>c, <2>1, <2>2 DEF Port, Truth, TrueReply, InSyncOnly, Script
  <2> QED
    BY <1>4, <1>c, <2>1, <2>2, <2>3, Polling DEF Started, Heard
<1>5. CASE StillRuns
  <2>1. /\ step = "status" /\ step' = "sleep" /\ fromGuest # <<>> /\ fromGuest' = Tail(fromGuest) /\ told' = {}
        /\ UNCHANGED <<agent, syncing, share, pid, mounted, problems, toGuest, events, guestVars, opened>>
    BY <1>5 DEF StillRuns, Heard
  <2>2. Port'
    BY <1>a, <1>b, <1>c, <2>1, PortLoses DEF guestVars
  <2>3. TypeOK'
    BY <1>c, <2>1 DEF TypeOK, guestVars
  <2>4. KnownEnds' /\ Halfway' /\ TellsTruly'
    BY <2>1 DEF KnownEnds, Halfway, TellsTruly, guestVars
  <2> QED
    BY <2>2, <2>3, <2>4
<1>6. CASE PollAgain
  <2>1. agent # 0 /\ ~syncing /\ step = "sleep" /\ pid = [connection |-> agent, share |-> share]
    BY <1>6 DEF PollAgain, Halfway
  <2> QED
    BY <1>6, <1>a, <1>b, <2>1, Polling DEF PollAgain
<1>7. CASE Mounted
  <2>1. agent # 0 /\ fromGuest # <<>> /\ ~syncing /\ step = "status"
    BY <1>7 DEF Mounted, Heard
  <2>2. /\ fromGuest[1].command = "status" /\ fromGuest[1].share = share /\ fromGuest[1].value = "done"
        /\ MountNext(mounted \cup {share}, problems)
    BY <1>7, <1>c, <2>1 DEF Mounted, IsAnswer
  <2>3. [connection |-> agent, share |-> share] \in succeeded
    BY <1>c, <2>1, <2>2 DEF Port, Truth, TrueReply, InSyncOnly, Script
  <2>4. share \in Nat /\ share # 0 /\ mounted \cap problems = {} /\ mounted \cup problems = 1 .. share - 1
    BY <2>1 DEF Halfway, TypeOK
  <2>5. (mounted \cup {share}) \cap problems = {} /\ (mounted \cup {share}) \cup problems = 1 .. share
    BY <2>4
  <2>6. \A x \in mounted \cup {share} : [connection |-> agent, share |-> x] \in succeeded
    BY <2>1, <2>3 DEF Halfway
  <2> QED
    BY <1>7, <2>1, <2>2, <2>5, <2>6, MountingOn DEF Mounted
<1>8. ASSUME Heard, ~syncing, step # "none", MountNext(mounted, problems \cup {share})
      PROVE  IInv'
  <2>1. share \in Nat /\ share # 0 /\ mounted \cap problems = {} /\ mounted \cup problems = 1 .. share - 1
    BY <1>8 DEF Halfway, TypeOK
  <2>2. mounted \cap (problems \cup {share}) = {} /\ mounted \cup (problems \cup {share}) = 1 .. share
    BY <2>1
  <2>3. \A x \in mounted : [connection |-> agent, share |-> x] \in succeeded
    BY <1>8 DEF Halfway
  <2> QED
    BY <1>8, <2>2, <2>3, MountingOn
<1>9. CASE NotMounted
  <2>1. fromGuest # <<>> /\ Head(fromGuest).command = step
    BY <1>9 DEF NotMounted, Heard, IsAnswer
  <2>2. step # "none"
    BY <1>c, <2>1 DEF Replies, Commands
  <2> QED
    BY <1>8, <1>9, <2>2 DEF NotMounted
<1>10. CASE DidNotEnd
  BY <1>8, <1>10 DEF DidNotEnd
<1>11. ASSUME Fail, UNCHANGED <<vmVars, events, guestVars, opened>> PROVE IInv'
  <2>1. NoAgent /\ PortCloses /\ succeeded' = succeeded
    BY <1>11 DEF Fail, guestVars
  <2>2. CASE step \in {"none", "sleep"}
    BY <1>11, <1>a, <2>1, <2>2, LettingGo DEF Fail, Tells, TellsTruly, ToldError
  <2>3. CASE step \notin {"none", "sleep"}
    <3>1. told' = {Told(mounted, Shares \ mounted), ToldError}
      BY <1>11, <2>3 DEF Fail, Tells
    <3>2. mounted \subseteq Shares
      BY <2>3, ConstantsAssumption DEF Halfway, TypeOK, Shares
    <3>3. TellsTruly'
      BY <2>1, <2>3, <3>1, <3>2 DEF TellsTruly, Told, ToldError, Halfway
    <3> QED
      BY <1>11, <1>a, <2>1, <3>3, LettingGo
  <2> QED
    BY <2>2, <2>3
<1>12. CASE SyncTimesOut
  BY <1>11, <1>12 DEF SyncTimesOut
<1>13. CASE SocketFails
  BY <1>11, <1>13 DEF SocketFails
<1>14. CASE Cleanup
  <2>1. TellsTruly'
    BY <1>14 DEF Cleanup, TellsTruly
  <2> QED
    BY <1>14, <1>a, <2>1, LettingGo DEF Cleanup
<1>15. CASE ManagerQuits
  <2>1. TellsTruly'
    BY <1>15 DEF ManagerQuits, TellsTruly
  <2> QED
    BY <1>15, <1>a, <2>1, LettingGo DEF ManagerQuits
<1>16. CASE Start
  BY <1>16, <1>a, <1>b, Otherwise DEF Start, portVars
<1>17. ASSUME NEW known \in {"vm", "none"}, Attach(known) PROVE IInv'
  BY <1>17, <1>a, <1>b, Otherwise DEF Attach, portVars, guestVars
<1>18. CASE QemuEnds
  <2>1. fromGuest' \in Seq(Replies) /\ PartOf(fromGuest', fromGuest)
    BY <1>18, <1>a, PrefixIsPart DEF QemuEnds
  <2>2. toGuest' \in Seq(Requests) /\ PartOf(toGuest', toGuest)
    <3>1. toGuest' = <<>> /\ Len(toGuest) \in Nat
      BY <1>18, <1>a DEF QemuEnds
    <3> QED
      BY <3>1 DEF PartOf
  <2>3. UNCHANGED <<mountVars, succeeded, opened, events, told>> /\ programs' = {}
    BY <1>18 DEF QemuEnds
  <2> QED
    BY <1>a, <2>1, <2>2, <2>3, Otherwise
<1>19. ASSUME GuestGone, UNCHANGED <<mountVars, succeeded, opened, events, told>> PROVE IInv'
  <2>1. /\ fromGuest' \in Seq(Replies) /\ PartOf(fromGuest', fromGuest)
        /\ toGuest' \in Seq(Requests) /\ PartOf(toGuest', toGuest)
        /\ programs' = {}
    BY <1>19, <1>a, PrefixIsPart, SuffixIsPart DEF GuestGone
  <2> QED
    BY <1>19, <1>a, <2>1, Otherwise
<1>20. CASE GuestReboots
  BY <1>19, <1>20 DEF GuestReboots
<1>21. CASE AgentCloses
  BY <1>19, <1>21 DEF AgentCloses
<1>22. CASE AgentOpens
  <2>1. /\ UNCHANGED <<mountVars, told, portVars, programs, succeeded>> /\ opened' = opened + 1
        /\ events' = events \/ events' = events + 1
    BY <1>22 DEF AgentOpens
  <2>2. opened' \in Nat /\ events' \in 0 .. opened' /\ opened - events <= opened' - events'
    BY <1>a, <2>1
  <2> QED
    BY <1>a, <1>b, <2>1, <2>2, Otherwise DEF portVars
<1>23. CASE AgentServes
  <2> DEFINE request == Head(toGuest)
             program == Script(request)
  <2>1. /\ toGuest # <<>> /\ toGuest' = Tail(toGuest)
        /\ UNCHANGED <<events, mountVars, told, succeeded, opened>>
    BY <1>23 DEF AgentServes
  <2>2. request \in Requests /\ TrueRequest(request)
    <3>1. request \in Requests /\ Len(toGuest) > 0 /\ Len(toGuest) \in Nat /\ request = toGuest[1]
      BY <1>a, <2>1, TailIsPart
    <3>2. 1 \in 1 .. Len(toGuest)
      BY <3>1
    <3> QED
      BY <3>1, <3>2 DEF Port, Truth
  <2>3. program \in Pids
    BY <2>2 DEF Script, Requests, Pids
  <2>4. ASSUME NEW pids \in Pids, NEW v \in {"sync", "pid", "error", "running", "done", "failed"},
               Answers(v, pids),
               v = "pid" => pids = program,
               v = "done" => program \in succeeded,
               programs' \subseteq programs \cup {[pid |-> program, state |-> "running"]}
        PROVE  IInv'
    <3> DEFINE r == Reply(request, pids, v)
    <3>1. r \in Replies
      BY <2>2, <2>4 DEF Reply, Replies, Requests
    <3>2. TrueReply(r) /\ r.connection = request.connection
      BY <2>4 DEF Reply, TrueReply, Script
    <3>3. toGuest' \in Seq(Requests) /\ fromGuest' \in Seq(Replies) /\ Port'
      <4>1. fromGuest' = Append(fromGuest, r)
        BY <2>4 DEF Answers
      <4>2. UNCHANGED <<agent, syncing, succeeded, opened, events>>
        BY <2>1 DEF mountVars
      <4> HIDE DEF r
      <4> QED
        BY <2>1, <3>1, <3>2, <4>1, <4>2, PortServes
    <3>4. programs' \subseteq Programs /\ KnownEnds'
      <4>1. [pid |-> program, state |-> "running"] \in Programs
        BY <2>3 DEF Programs
      <4> HIDE DEF program
      <4> QED
        BY <2>1, <2>4, <4>1 DEF TypeOK, KnownEnds
    <3>5. TypeOK'
      BY <2>1, <3>3, <3>4 DEF TypeOK, mountVars
    <3>6. Halfway' /\ TellsTruly'
      BY <2>1 DEF Halfway, TellsTruly, mountVars
    <3> QED
      BY <3>3, <3>4, <3>5, <3>6
  <2>5. CASE Answers("sync", NoPid) /\ UNCHANGED programs
    BY <2>4, <2>5, SharesFit
  <2>6. CASE Answers("pid", program) /\ programs' = programs \cup {[pid |-> program, state |-> "running"]}
    BY <2>3, <2>4, <2>6
  <2>7. CASE Answers("error", NoPid) /\ UNCHANGED programs
    BY <2>4, <2>7, SharesFit
  <2>8. ASSUME NEW p \in programs, p.pid = request.pid, request.command = "status",
               Answers(p.state, p.pid),
               programs' = IF p.state = "running" THEN programs ELSE programs \ {p}
        PROVE  IInv'
    <3>1. p \in Programs
      BY DEF TypeOK
    <3>2. p.pid \in Pids /\ p.state \in {"running", "done", "failed"}
      BY <3>1 DEF Programs
    <3>3. p.pid = program
      BY <2>2, <2>8 DEF TrueRequest
    <3>4. p.state = "done" => program \in succeeded
      BY <3>3 DEF KnownEnds
    <3> QED
      BY <2>4, <2>8, <3>2, <3>3, <3>4
  <2> QED
    BY <1>23, <2>5, <2>6, <2>7, <2>8 DEF AgentServes, Script
<1>24. ASSUME NEW p \in programs, ScriptEnds(p) PROVE IInv'
  <2>1. p \in Programs /\ p.pid \in Pids
    BY DEF TypeOK, Programs
  <2>2. /\ UNCHANGED <<vmVars, events, mountVars, told, portVars, running, opened, owed>>
        /\ succeeded \subseteq succeeded' /\ succeeded' \subseteq Pids
        /\ programs' \subseteq Programs /\ KnownEnds'
    <3>1. /\ [p EXCEPT !.state = "done"] \in Programs
          /\ [p EXCEPT !.state = "done"].pid = p.pid
      BY <2>1 DEF Programs
    <3>2. /\ [p EXCEPT !.state = "failed"] \in Programs
          /\ [p EXCEPT !.state = "failed"].state = "failed"
      BY <2>1 DEF Programs
    <3>3. CASE /\ programs' = (programs \ {p}) \cup {[p EXCEPT !.state = "done"]}
               /\ succeeded' = succeeded \cup {p.pid}
      BY <1>24, <2>1, <3>1, <3>3 DEF ScriptEnds, TypeOK, KnownEnds
    <3>4. CASE /\ programs' = (programs \ {p}) \cup {[p EXCEPT !.state = "failed"]}
               /\ UNCHANGED succeeded
      BY <1>24, <2>1, <3>2, <3>4 DEF ScriptEnds, TypeOK, KnownEnds
    <3> QED
      BY <1>24, <3>3, <3>4 DEF ScriptEnds
  <2>3. Port'
    BY <1>a, <1>b, <2>2, PortLoses DEF mountVars, portVars
  <2>4. TypeOK'
    BY <2>2 DEF TypeOK, mountVars, portVars
  <2>5. Halfway' /\ TellsTruly'
    BY <2>2 DEF Halfway, TellsTruly, mountVars
  <2> QED
    BY <2>2, <2>3, <2>4, <2>5
<1>25. CASE UNCHANGED vars
  BY <1>25, <1>a, <1>b, Otherwise DEF vars, portVars, guestVars
<1> QED
  BY <1>1, <1>2, <1>3, <1>4, <1>5, <1>6, <1>7, <1>9, <1>10, <1>12, <1>13, <1>14, <1>15, <1>16,
     <1>17, <1>18, <1>20, <1>21, <1>22, <1>23, <1>24, <1>25 DEF Next, Read

(* What VmRunner tells with sharesMounted() is true: each share is told of  *)
(* once, and one that is told to be mounted is one whose script ended with  *)
(* 0 on this very connection, however often the agent, the guest or the     *)
(* manager went away and came back meanwhile.                               *)
THEOREM Truthful == Spec => []TellsTruly
<1>1. Init => IInv
  BY InitIInv
<1>2. IInv /\ [Next]_vars => IInv'
  BY StepIInv
<1>3. IInv => TellsTruly
  BY DEF IInv
<1> QED
  BY <1>1, <1>2, <1>3, PTL DEF Spec

=============================================================================
