-------------------------- MODULE OMXAnswersProofs --------------------------
(***************************************************************************)
(* More theorems about OMXEvents, for every set of failing exchanges and   *)
(* every bound: what the adapter may conclude from an answer.  A signalled *)
(* wait means that the command is done, between operations mComponentState *)
(* is the component's state, a component back in Loaded owes no answer,    *)
(* and no semaphore but mStopCaptureSem holds a signal left over.          *)
(***************************************************************************)
EXTENDS OMXEventsProofs, SequenceTheorems

-----------------------------------------------------------------------------
(* The inductive invariant.  While the adapter has the handle of a         *)
(* component without a hardware error, the only commands outstanding from  *)
(* earlier exchanges are port disables (initialize does not wait for its   *)
(* own, disableImagePort gives up on one, and stopPreview's wait can be    *)
(* ended by another's event), the only registrations left over are         *)
(* disableImagePort's, and everything else belongs to the current exchange. *)

Command(x) == <<Exchange[x].arg1, Exchange[x].arg2>>
Disables   == {PortDisable} \X Ports
Lingering  == Exchange["stopImage"]   \* the registration that may be left over

Live == mHandleComp /\ comp.ok

(* The current exchange's command may be outstanding.                      *)
Sent == call.op # NONE /\ call.at \in {"wait", "reset", "check", "remove", "fail"}

(* Its registration may be in the queue, or its semaphore signalled.       *)
Registered ==
  /\ call.op # NONE
  /\ call.at \in {"send", "wait", "reset", "check", "remove", "fail"}
  /\ call.at = "check" => ~call.ok

(* Port disables may be outstanding.                                       *)
MayLinger ==
  IF Quiet THEN session = "preview"
  ELSE /\ call.x \in {"init", "stop", "stopImage", "useImage", "toIdle"}
       /\ call.at # "destroy"
       /\ call.at = "switch" => mComponentState = Executing

(* What the component has done when it has answered x.                     *)
Carried(x) ==
  IF Exchange[x].arg1 = StateSet THEN comp.state = Exchange[x].arg2
                                 ELSE Exchange[x].arg2 \in comp.enabled

(* The current exchange has been answered; the port disables can be        *)
(* answered by an event for another port.                                  *)
Answered ==
  /\ call.op # NONE /\ call.x \notin {"stop", "stopImage"}
  /\ \/ call.at = "wait" /\ sem[Exchange[call.x].sem] = 1
     \/ call.at = "check" /\ call.ok
     \/ call.at = "done"

OpInv ==
  /\ call.op = "initialize" => call.x = "init" /\ session = "closed"
  /\ call.op = "UseBuffersPreview" =>
       call.x \in {"useIdle", "useEnable"} /\ session = "initialized"
  /\ call.op = "startPreview" => call.x = "start" /\ session = "loaded"
  /\ call.op = "stopPreview" =>
       call.x \in {"stop", "stopImage", "toIdle", "toLoaded", "toEnable"} /\ session = "preview"
  /\ call.op = "getPictureBufferSize" => call.x = "stopImage" /\ session = "preview"
  /\ call.op = "UseBuffersCapture" => call.x = "useImage" /\ session = "preview"
  /\ call.op = "destructor" => call.x \in {"toIdle", "toLoaded", "toEnable"}
  /\ call.at = "lock" => call.op = "UseBuffersPreview"
  /\ call.at = "queue" => call.op = "startPreview"
  /\ call.at = "switch" => call.op \in {"stopPreview", "destructor"}
  /\ call.at = "destroy" => call.op = "destructor"
  /\ call.op = NONE <=> call.at = NONE

CommandInv ==
  \A i \in 1..Len(cmds) :
    \/ cmds[i] \in Disables /\ MayLinger
    \/ i = Len(cmds) /\ Sent /\ cmds[i] = Command(call.x)

(* A queue holds registrations left over, and at most one of exchange x,   *)
(* whose semaphore is not signalled yet; no other signal is left over.     *)
QueueOf(q, counts, registered, x) ==
  /\ \A i \in 1..Len(q) :
       \/ q[i] = Lingering
       \/ registered /\ q[i] = Exchange[x] /\ counts[Exchange[x].sem] = 0
  /\ \A i, j \in 1..Len(q) : q[i] # Lingering /\ q[j] # Lingering => i = j

SignalsOf(counts, registered, x) ==
  \A s \in Sems \ {"mStopCaptureSem"} :
    \/ counts[s] = 0
    \/ registered /\ s = Exchange[x].sem /\ counts[s] = 1

QueueInv == QueueOf(mEventSignalQ, sem, Registered, call.x)

SemInv ==
  /\ SignalsOf(sem, Registered, call.x)
  /\ call.op # NONE /\ call.at = "send" /\ call.x \notin {"stop", "stopImage"} =>
       sem[Exchange[call.x].sem] = 0

(* What each operation knows of mComponentState.                           *)
KnownState ==
  /\ call.op = NONE =>
       /\ session = "initialized" => mComponentState \in {Loaded, StateIdle}
       /\ session = "loaded"      => mComponentState = StateIdle
       /\ session = "preview"     => mComponentState = Executing
  /\ call.op = "initialize" => mComponentState = Loaded
  /\ call.op = "UseBuffersPreview" =>
       /\ mComponentState \in {Loaded, StateIdle}
       /\ call.x = "useEnable" \/ call.at \in {"wait", "reset", "check", "remove", "done"} =>
            mComponentState = StateIdle
       /\ call.x = "useIdle" /\ call.at \in {"register", "send"} => mComponentState = Loaded
  /\ call.op = "startPreview" =>
       mComponentState = (IF call.at = "queue" THEN Executing ELSE StateIdle)
  /\ call.op \in {"getPictureBufferSize", "UseBuffersCapture"} => mComponentState = Executing
  /\ call.op = "stopPreview" /\ call.x \in {"stop", "stopImage", "toIdle"} =>
       mComponentState = Executing
  /\ call.op = "destructor" /\ call.x = "toIdle" /\ call.at \notin {"switch", "destroy"} =>
       mComponentState = Executing
  /\ /\ call.op \in {"stopPreview", "destructor"}
     /\ call.x = "toEnable" \/ call.at = "destroy"
     => mComponentState = Loaded

(* A change of state is on its way, and mComponentState ahead or behind.   *)
Shifting ==
  /\ call.op # NONE
  /\ \/ /\ call.x \in {"useIdle", "start"}
        /\ call.at \in {"wait", "reset", "check", "remove", "fail", "done"}
     \/ call.x \in {"toIdle", "toLoaded"} /\ call.at \notin {"switch", "destroy"}

StateInv ==
  /\ mComponentState # Invalid
  /\ KnownState
  /\ ~Shifting => mComponentState = comp.state

AnswerInv == Answered => cmds = <<>> /\ Carried(call.x)

AliveInv == ~fatal /\ CommandInv /\ QueueInv /\ SemInv /\ StateInv /\ AnswerInv

LiveInv ==
  /\ OpInv
  /\ session = "closed" => ~fatal
  /\ Live => AliveInv
-----------------------------------------------------------------------------
(* Facts about the exchanges and the queue                                 *)

(* The exchange whose registration could be left over has a semaphore of   *)
(* its own.                                                                *)
LEMMA ExchangeFacts ==
  ASSUME NEW x \in Exchanges
  PROVE  /\ Exchange[x].sem \in Sems
         /\ Exchange[x].sem = "mStopCaptureSem" <=> x = "stopImage"
         /\ Exchange[x] = Lingering <=> x = "stopImage"
         /\ Lingering.sem = "mStopCaptureSem"
         /\ Command(x) \in Disables <=> x \in {"stop", "stopImage"}
<1>1. Exchange[x].sem \in Sems
  BY ExchangeTyped
<1>2. Exchange[x].sem = "mStopCaptureSem" <=> x = "stopImage"
  BY ExchangeNames DEF Exchange, Entry
<1>3. Lingering.sem = "mStopCaptureSem"
  BY DEF Lingering, Exchange, Entry
<1>4. Exchange[x] = Lingering <=> x = "stopImage"
  BY <1>2, <1>3 DEF Lingering
<1>5. Command(x) \in Disables <=> x \in {"stop", "stopImage"}
  <2>1. Command(x) \in Disables <=> Exchange[x].arg1 = PortDisable /\ Exchange[x].arg2 \in Ports
    BY Zenon DEF Command, Disables
  <2>2. Exchange[x].arg1 = PortDisable /\ Exchange[x].arg2 \in Ports <=>
          x \in {"stop", "stopImage"}
    BY ExchangeNames DEF Exchange, Entry, Ports, PortDisable, StateSet, PortEnable, Prev, Image,
       Loaded, StateIdle, Executing
  <2> QED BY <2>1, <2>2
<1> QED BY <1>1, <1>2, <1>3, <1>4, <1>5

(* The registrations that take a port disable's event, whichever port's.   *)
LEMMA DisableMatches ==
  ASSUME NEW x \in Exchanges, NEW port \in Ports, Matches(Exchange[x], PortDisable, port)
  PROVE  x \in {"stop", "stopImage", "toLoaded"}
  BY ExchangeNames DEF Matches, Exchange, Entry, Ports, PortDisable, StateSet,
     PortEnable, Prev, Image, Loaded, StateIdle, Executing

LEMMA RemoveAtElements ==
  ASSUME NEW q \in Seq(Entries), NEW i \in 1..Len(q)
  PROVE  /\ RemoveAt(q, i) \in Seq(Entries)
         /\ Len(RemoveAt(q, i)) = Len(q) - 1
         /\ \A j \in 1..(Len(q) - 1) :
              RemoveAt(q, i)[j] = IF j < i THEN q[j] ELSE q[j + 1]
<1> DEFINE A == SubSeq(q, 1, i - 1)
           B == SubSeq(q, i + 1, Len(q))
<1>1. /\ A \in Seq(Entries) /\ Len(A) = i - 1
      /\ \A j \in 1..(i - 1) : A[j] = q[j]
  OBVIOUS
<1>2. /\ B \in Seq(Entries) /\ Len(B) = Len(q) - i
      /\ \A j \in 1..(Len(q) - i) : B[j] = q[i + j]
  OBVIOUS
<1>3. RemoveAt(q, i) = A \o B
  BY DEF RemoveAt
<1> HIDE DEF A, B
<1>4. RemoveAt(q, i) \in Seq(Entries) /\ Len(RemoveAt(q, i)) = Len(q) - 1
  BY <1>1, <1>2, <1>3
<1>5. ASSUME NEW j \in 1..(Len(q) - 1)
      PROVE  RemoveAt(q, i)[j] = IF j < i THEN q[j] ELSE q[j + 1]
  <2>1. CASE j < i
    BY <1>1, <1>2, <1>3, <2>1
  <2>2. CASE ~(j < i)
    <3>1. RemoveAt(q, i)[j] = B[j - Len(A)] /\ j - Len(A) \in 1..(Len(q) - i)
      BY <1>1, <1>2, <1>3, <2>2
    <3>2. B[j - Len(A)] = q[i + (j - Len(A))] /\ i + (j - Len(A)) = j + 1
      BY <1>1, <1>2, <3>1
    <3> QED BY <2>2, <3>1, <3>2
  <2> QED BY <2>1, <2>2
<1> QED BY <1>4, <1>5

(* FirstMatch finds a registration that matches, if it finds one.          *)
LEMMA FirstMatchMatches ==
  ASSUME mEventSignalQ \in Seq(Entries), NEW nData1, NEW nData2, FirstMatch(nData1, nData2) # 0
  PROVE  /\ FirstMatch(nData1, nData2) \in 1..Len(mEventSignalQ)
         /\ Matches(mEventSignalQ[FirstMatch(nData1, nData2)], nData1, nData2)
<1> DEFINE hits == {i \in 1..Len(mEventSignalQ) : Matches(mEventSignalQ[i], nData1, nData2)}
<1>1. hits # {}
  BY DEF FirstMatch
<1>2. hits \in SUBSET Nat
  OBVIOUS
<1>3. \E m \in hits : \A n \in hits : m <= n
  BY <1>1, <1>2, LeastNumber
<1>4. FirstMatch(nData1, nData2) \in hits
  BY <1>1, <1>3 DEF FirstMatch
<1> QED BY <1>4

(* A registration is taken out of the queue, and signalled or not.         *)
LEMMA TakeOut ==
  ASSUME NEW q \in Seq(Entries), NEW counts \in [Sems -> Nat], NEW r \in BOOLEAN,
         NEW x \in Exchanges, NEW i \in 1..Len(q), QueueOf(q, counts, r, x)
  PROVE  QueueOf(RemoveAt(q, i), counts, r, x)
<1> DEFINE p == RemoveAt(q, i)
<1>1. /\ Len(p) = Len(q) - 1 /\ Len(q) \in Nat
      /\ \A j \in 1..(Len(q) - 1) : p[j] = IF j < i THEN q[j] ELSE q[j + 1]
  BY RemoveAtElements
<1> HIDE DEF p
<1>2. ASSUME NEW j \in 1..Len(p)
      PROVE  p[j] = Lingering \/ (r /\ p[j] = Exchange[x] /\ counts[Exchange[x].sem] = 0)
  <2>1. PICK k \in 1..Len(q) : p[j] = q[k]
    BY <1>1
  <2> QED BY <2>1, Zenon DEF QueueOf
<1>3. ASSUME NEW j \in 1..Len(p), NEW k \in 1..Len(p), p[j] # Lingering, p[k] # Lingering
      PROVE  j = k
  <2>1. /\ p[j] = q[IF j < i THEN j ELSE j + 1] /\ (IF j < i THEN j ELSE j + 1) \in 1..Len(q)
        /\ p[k] = q[IF k < i THEN k ELSE k + 1] /\ (IF k < i THEN k ELSE k + 1) \in 1..Len(q)
    BY <1>1
  <2>2. (IF j < i THEN j ELSE j + 1) = (IF k < i THEN k ELSE k + 1)
    BY <1>3, <2>1, Zenon DEF QueueOf
  <2> QED BY <1>1, <2>2
<1>4. QueueOf(p, counts, r, x)
  BY <1>2, <1>3, Zenon DEF QueueOf
<1> QED BY <1>4 DEF p

Signalled(counts, after, s) == after = [counts EXCEPT ![s] = @ + 1]
OthersKept(counts, after)   == \A s \in Sems \ {"mStopCaptureSem"} : after[s] = counts[s]

LEMMA TakeOutSignalled ==
  ASSUME NEW q \in Seq(Entries), NEW counts \in [Sems -> Nat], NEW r \in BOOLEAN,
         NEW x \in Exchanges, NEW i \in 1..Len(q),
         QueueOf(q, counts, r, x), SignalsOf(counts, r, x),
         NEW after, Signalled(counts, after, q[i].sem)
  PROVE  /\ QueueOf(RemoveAt(q, i), after, r, x)
         /\ SignalsOf(after, r, x)
         /\ \/ OthersKept(counts, after)
            \/ r /\ x # "stopImage" /\ q[i] = Exchange[x]
<1> DEFINE p == RemoveAt(q, i)
<1> USE DEF Signalled, OthersKept
<1>1. QueueOf(p, counts, r, x)
  BY TakeOut
<1>2. /\ Len(p) = Len(q) - 1 /\ Len(q) \in Nat
      /\ \A j \in 1..(Len(q) - 1) : p[j] = IF j < i THEN q[j] ELSE q[j + 1]
  BY RemoveAtElements
<1> HIDE DEF p
<1>3. q[i].sem \in Sems
  BY EntryTyped
<1>4. CASE q[i] = Lingering
  <2>1. q[i].sem = "mStopCaptureSem"
    BY <1>4, ExchangeFacts
  <2>2. \A s \in Sems \ {"mStopCaptureSem"} : after[s] = counts[s]
    BY <1>3, <2>1
  <2>3. SignalsOf(after, r, x)
    BY <2>2 DEF SignalsOf
  <2>4. ASSUME NEW j \in 1..Len(p)
        PROVE  p[j] = Lingering \/ (r /\ p[j] = Exchange[x] /\ after[Exchange[x].sem] = 0)
    <3>1. p[j] = Lingering \/ (r /\ p[j] = Exchange[x] /\ counts[Exchange[x].sem] = 0)
      BY <1>1, Zenon DEF QueueOf
    <3>2. p[j] # Lingering => p[j] = Exchange[x] /\ x # "stopImage"
      BY <3>1, ExchangeFacts
    <3>3. p[j] # Lingering => Exchange[x].sem \in Sems \ {"mStopCaptureSem"}
      BY <3>2, ExchangeFacts
    <3> QED BY <2>2, <3>1, <3>3, Zenon
  <2>5. QueueOf(p, after, r, x)
    BY <1>1, <2>4, Zenon DEF QueueOf
  <2> QED BY <2>2, <2>3, <2>5 DEF p
<1>5. CASE q[i] # Lingering
  <2>1. r /\ q[i] = Exchange[x] /\ counts[Exchange[x].sem] = 0 /\ x # "stopImage"
    BY <1>5, ExchangeFacts, Zenon DEF QueueOf
  <2>2. /\ after[Exchange[x].sem] = 1
        /\ \A s \in Sems : s # Exchange[x].sem => after[s] = counts[s]
    BY <1>3, <2>1
  <2>3. SignalsOf(after, r, x)
    BY <2>1, <2>2, Zenon DEF SignalsOf
  <2>4. ASSUME NEW j \in 1..Len(p) PROVE p[j] = Lingering
    <3>1. PICK k \in 1..Len(q) : p[j] = q[k] /\ k # i
      BY <1>2
    <3> QED BY <1>5, <3>1, Zenon DEF QueueOf
  <2>5. QueueOf(p, after, r, x)
    BY <2>4, Zenon DEF QueueOf
  <2> QED BY <2>1, <2>3, <2>5 DEF p
<1> QED BY <1>4, <1>5

LEMMA SignalEventKeeps ==
  ASSUME TypeOK, QueueInv, SemInv, NEW nData1, NEW nData2, SignalEvent(nData1, nData2)
  PROVE  /\ QueueOf(mEventSignalQ', sem', Registered, call.x)
         /\ SignalsOf(sem', Registered, call.x)
         /\ \/ OthersKept(sem, sem')
            \/ /\ Registered /\ call.x # "stopImage"
               /\ Matches(Exchange[call.x], nData1, nData2)
<1>1. /\ mEventSignalQ \in Seq(Entries) /\ sem \in [Sems -> Nat] /\ call.x \in Exchanges
      /\ Registered \in BOOLEAN
  BY DEF TypeOK, Calls, Registered
<1> DEFINE i == FirstMatch(nData1, nData2)
<1>2. CASE i = 0
  <2>1. mEventSignalQ' = mEventSignalQ /\ sem' = sem
    BY <1>2 DEF SignalEvent
  <2> QED BY <2>1 DEF QueueInv, SemInv, OthersKept
<1>3. CASE i # 0
  <2>1. /\ i \in 1..Len(mEventSignalQ)
        /\ Matches(mEventSignalQ[i], nData1, nData2)
    BY <1>1, <1>3, FirstMatchMatches
  <2>2. /\ mEventSignalQ' = RemoveAt(mEventSignalQ, i)
        /\ Signalled(sem, sem', mEventSignalQ[i].sem)
    BY <1>3, Zenon DEF SignalEvent, Signalled
  <2> HIDE DEF i
  <2>3. /\ QueueOf(RemoveAt(mEventSignalQ, i), sem', Registered, call.x)
        /\ SignalsOf(sem', Registered, call.x)
        /\ \/ OthersKept(sem, sem')
           \/ Registered /\ call.x # "stopImage" /\ mEventSignalQ[i] = Exchange[call.x]
    BY <1>1, <2>1, <2>2, TakeOutSignalled DEF QueueInv, SemInv
  <2> QED BY <2>1, <2>2, <2>3, Zenon
<1> QED BY <1>2, <1>3

LEMMA RemoveEventKeeps ==
  ASSUME TypeOK, QueueInv, NEW nData1, NEW nData2, RemoveEvent(nData1, nData2)
  PROVE  QueueOf(mEventSignalQ', sem, Registered, call.x) /\ sem' = sem
<1>1. /\ mEventSignalQ \in Seq(Entries) /\ sem \in [Sems -> Nat] /\ call.x \in Exchanges
      /\ Registered \in BOOLEAN
  BY DEF TypeOK, Calls, Registered
<1> DEFINE i == FirstMatch(nData1, nData2)
<1>2. /\ mEventSignalQ' = IF i = 0 THEN mEventSignalQ ELSE RemoveAt(mEventSignalQ, i)
      /\ sem' = sem
  BY Zenon DEF RemoveEvent
<1>3. i # 0 => i \in 1..Len(mEventSignalQ)
  BY <1>1, FirstMatchMatches
<1> HIDE DEF i
<1>4. i # 0 => QueueOf(RemoveAt(mEventSignalQ, i), sem, Registered, call.x)
  BY <1>1, <1>3, TakeOut DEF QueueInv
<1>5. CASE i = 0
  <2>1. mEventSignalQ' = mEventSignalQ
    BY <1>2, <1>5
  <2> QED BY <1>2, <2>1 DEF QueueInv
<1>6. CASE i # 0
  <2>1. mEventSignalQ' = RemoveAt(mEventSignalQ, i)
    BY <1>2, <1>6
  <2> QED BY <1>2, <1>4, <1>6, <2>1
<1> QED BY <1>5, <1>6

-----------------------------------------------------------------------------
(* What stays true when the commands, the queue or the semaphores do       *)

LEMMA InsideOpInv ==
  ASSUME OpInv, call.op # NONE, call'.op = call.op, call'.x = call.x, session' = session,
         call'.at \notin {NONE, "lock", "queue", "switch", "destroy"}
  PROVE  OpInv'
  BY DEF OpInv

LEMMA CommandsStay ==
  ASSUME call.x \in Exchanges, CommandInv, cmds' = cmds, MayLinger => MayLinger',
         Sent => \/ Sent' /\ call'.x = call.x
                 \/ call.x \in {"stop", "stopImage"}
                 \/ cmds = <<>>
  PROVE  CommandInv'
<1>1. ASSUME NEW i \in 1..Len(cmds)
      PROVE  \/ cmds[i] \in Disables /\ MayLinger'
             \/ i = Len(cmds) /\ Sent' /\ cmds[i] = Command(call'.x)
  <2>1. CASE cmds[i] \in Disables /\ MayLinger
    BY <2>1
  <2>2. CASE i = Len(cmds) /\ Sent /\ cmds[i] = Command(call.x)
    <3>1. CASE Sent' /\ call'.x = call.x
      BY <2>2, <3>1
    <3>2. CASE call.x \in {"stop", "stopImage"}
      <4>1. cmds[i] \in Disables
        BY <2>2, <3>2, ExchangeFacts
      <4>2. MayLinger
        BY <2>2, <3>2 DEF MayLinger, Sent, Quiet
      <4> QED BY <4>1, <4>2
    <3>3. CASE cmds = <<>>
      BY <3>3
    <3> QED BY <2>2, <3>1, <3>2, <3>3
  <2> QED BY <2>1, <2>2, Zenon DEF CommandInv
<1> QED BY <1>1, Zenon DEF CommandInv

LEMMA QueueStays ==
  ASSUME call.x \in Exchanges, QueueInv, mEventSignalQ' = mEventSignalQ,
         Registered => \/ call.x = "stopImage"
                       \/ sem[Exchange[call.x].sem] # 0
                       \/ Registered' /\ call'.x = call.x /\ sem'[Exchange[call.x].sem] = 0
  PROVE  QueueInv'
<1>1. ASSUME NEW i \in 1..Len(mEventSignalQ), mEventSignalQ[i] # Lingering
      PROVE  Registered' /\ mEventSignalQ[i] = Exchange[call'.x] /\ sem'[Exchange[call'.x].sem] = 0
  <2>1. Registered /\ mEventSignalQ[i] = Exchange[call.x] /\ sem[Exchange[call.x].sem] = 0
    BY <1>1, Zenon DEF QueueInv, QueueOf
  <2>2. call.x # "stopImage"
    BY <1>1, <2>1, ExchangeFacts
  <2>3. Registered' /\ call'.x = call.x /\ sem'[Exchange[call.x].sem] = 0
    BY <2>1, <2>2, Zenon
  <2> QED BY <2>1, <2>3
<1> QED BY <1>1, Zenon DEF QueueInv, QueueOf

LEMMA SignalsStay ==
  ASSUME call.x \in Exchanges, SemInv, sem' = sem,
         Registered => \/ call.x = "stopImage"
                       \/ sem[Exchange[call.x].sem] = 0
                       \/ Registered' /\ call'.x = call.x
  PROVE  SignalsOf(sem', Registered', call'.x)
<1>1. ASSUME NEW s \in Sems \ {"mStopCaptureSem"}, sem[s] # 0
      PROVE  Registered' /\ s = Exchange[call'.x].sem /\ sem[s] = 1
  <2>1. Registered /\ s = Exchange[call.x].sem /\ sem[s] = 1
    BY <1>1, Zenon DEF SemInv, SignalsOf
  <2>2. call.x # "stopImage"
    BY <1>1, <2>1, ExchangeFacts
  <2> QED BY <1>1, <2>1, <2>2
<1> QED BY <1>1, Zenon DEF SignalsOf

-----------------------------------------------------------------------------
(* The steps of an exchange                                                *)

Kept == OpInv' /\ (Live' => AliveInv')

LEMMA RegisterForEventKeeps == ASSUME TypeOK, LiveInv, RegisterForEvent PROVE Kept
<1>1. /\ call.op # NONE /\ call.at = "register" /\ call.x \in Exchanges
      /\ call'.op = call.op /\ call'.x = call.x /\ call'.at = "send" /\ call'.ok = call.ok
      /\ mEventSignalQ' = Append(mEventSignalQ, Exchange[call.x])
      /\ UNCHANGED <<mComponentState, mHandleComp, session, sem, comp, cmds, fatal>>
  BY DEF RegisterForEvent, At, TypeOK, Calls, adapterVars
<1>2. OpInv'
  BY <1>1, InsideOpInv, Zenon DEF LiveInv, NONE
<1>3. ASSUME Live PROVE AliveInv'
  <2> USE <1>3 DEF LiveInv, AliveInv
  <2>1. CommandInv'
    <3>1. MayLinger' = MayLinger /\ ~Sent
      BY <1>1 DEF MayLinger, Sent, Quiet
    <3> QED BY <1>1, <3>1, CommandsStay
  <2>2. ~Registered /\ Registered'
    BY <1>1 DEF Registered
  <2>3. \A s \in Sems \ {"mStopCaptureSem"} : sem[s] = 0
    BY <2>2, Zenon DEF SemInv, SignalsOf
  <2>4. call.x # "stopImage" => sem[Exchange[call.x].sem] = 0
    <3>1. call.x # "stopImage" => Exchange[call.x].sem \in Sems \ {"mStopCaptureSem"}
      BY <1>1, ExchangeFacts
    <3> QED BY <2>3, <3>1
  <2>5. QueueInv'
    <3>1. /\ mEventSignalQ \in Seq(Entries) /\ Exchange[call.x] \in Entries
          /\ \A i \in 1..Len(mEventSignalQ) : mEventSignalQ[i] = Lingering
      BY <1>1, <2>2, ExchangeTyped, Zenon DEF TypeOK, QueueInv, QueueOf
    <3> DEFINE n == Len(mEventSignalQ)
    <3>2. /\ Len(mEventSignalQ') = n + 1 /\ n \in Nat
          /\ \A i \in 1..n : mEventSignalQ'[i] = Lingering
          /\ mEventSignalQ'[n + 1] = Exchange[call.x]
      BY <1>1, <3>1
    <3> HIDE DEF n
    <3>3. \A i \in 1..(n + 1) : mEventSignalQ'[i] # Lingering => i = n + 1
      BY <3>2
    <3>4. ASSUME NEW i \in 1..(n + 1), mEventSignalQ'[i] # Lingering
          PROVE  mEventSignalQ'[i] = Exchange[call.x] /\ sem[Exchange[call.x].sem] = 0
      <4>1. mEventSignalQ'[i] = Exchange[call.x]
        BY <3>2, <3>3, <3>4
      <4> QED BY <1>1, <2>4, <3>4, <4>1, ExchangeFacts
    <3> QED BY <1>1, <2>2, <3>2, <3>3, <3>4 DEF QueueInv, QueueOf
  <2>6. SemInv'
    <3>1. SignalsOf(sem', Registered', call'.x)
      BY <1>1, <2>3 DEF SignalsOf
    <3> QED BY <1>1, <2>4, <3>1 DEF SemInv
  <2>7. StateInv'
    BY <1>1 DEF StateInv, KnownState, Shifting
  <2>8. ~Answered'
    BY <1>1 DEF Answered
  <2> QED BY <1>1, <2>1, <2>5, <2>6, <2>7, <2>8 DEF AnswerInv
<1>4. Live' = Live
  BY <1>1 DEF Live
<1> QED BY <1>2, <1>3, <1>4 DEF Kept

LEMMA WaitSignalledKeeps == ASSUME TypeOK, LiveInv, WaitSignalled PROVE Kept
<1>1. /\ call.op # NONE /\ call.at = "wait" /\ call.x \in Exchanges
      /\ call'.op = call.op /\ call'.x = call.x /\ call'.at = "check" /\ call'.ok = TRUE
      /\ sem[Exchange[call.x].sem] > 0 /\ sem \in [Sems -> Nat]
      /\ sem' = [sem EXCEPT ![Exchange[call.x].sem] = @ - 1]
      /\ UNCHANGED <<mComponentState, mHandleComp, session, mEventSignalQ, comp, cmds, fatal>>
  BY DEF WaitSignalled, At, TypeOK, Calls, adapterVars
<1>2. OpInv'
  BY <1>1, InsideOpInv, Zenon DEF LiveInv, NONE
<1>3. ASSUME Live PROVE AliveInv'
  <2> USE <1>3 DEF LiveInv, AliveInv
  <2>1. CommandInv'
    <3>1. MayLinger' = MayLinger
      BY <1>1 DEF MayLinger, Quiet
    <3>2. Sent'
      BY <1>1 DEF Sent
    <3> QED BY <1>1, <3>1, <3>2, CommandsStay
  <2>2. QueueInv'
    BY <1>1, QueueStays
  <2>3. call.x # "stopImage" => sem[Exchange[call.x].sem] = 1
    <3>1. call.x # "stopImage" => Exchange[call.x].sem \in Sems \ {"mStopCaptureSem"}
      BY <1>1, ExchangeFacts
    <3> QED BY <1>1, <3>1 DEF SemInv, SignalsOf
  <2>4. SemInv'
    <3>1. ASSUME NEW s \in Sems \ {"mStopCaptureSem"} PROVE sem'[s] = 0
      <4>1. sem[s] = 0 \/ s = Exchange[call.x].sem
        BY Zenon DEF SemInv, SignalsOf
      <4>2. CASE s = Exchange[call.x].sem
        BY <1>1, <2>3, <4>2, ExchangeFacts
      <4>3. CASE s # Exchange[call.x].sem
        BY <1>1, <4>1, <4>3
      <4> QED BY <4>2, <4>3
    <3> QED BY <1>1, <3>1 DEF SemInv, SignalsOf
  <2>5. StateInv'
    BY <1>1 DEF StateInv, KnownState, Shifting
  <2>6. AnswerInv'
    <3>1. Answered' => Answered
      BY <1>1, <2>3 DEF Answered
    <3> QED BY <1>1, <3>1 DEF AnswerInv, Carried
  <2> QED BY <1>1, <2>1, <2>2, <2>4, <2>5, <2>6
<1>4. Live' = Live
  BY <1>1 DEF Live
<1> QED BY <1>2, <1>3, <1>4 DEF Kept

LEMMA WaitTimesOutKeeps == ASSUME TypeOK, LiveInv, WaitTimesOut PROVE Kept
<1>1. /\ call.op # NONE /\ call.at = "wait" /\ call.x \in Exchanges
      /\ call'.op = call.op /\ call'.x = call.x /\ call'.at = "reset" /\ call'.ok = call.ok
      /\ UNCHANGED <<mComponentState, mHandleComp, session, sem, mEventSignalQ, comp, cmds,
                     fatal>>
  BY DEF WaitTimesOut, At, TypeOK, Calls, adapterVars
<1>2. OpInv'
  BY <1>1, InsideOpInv, Zenon DEF LiveInv, NONE
<1>3. ASSUME Live PROVE AliveInv'
  <2> USE <1>3 DEF LiveInv, AliveInv
  <2>1. CommandInv'
    <3>1. MayLinger' = MayLinger
      BY <1>1 DEF MayLinger, Quiet
    <3>2. Sent'
      BY <1>1 DEF Sent
    <3> QED BY <1>1, <3>1, <3>2, CommandsStay
  <2>2. Registered'
    BY <1>1 DEF Registered
  <2>3. QueueInv'
    BY <1>1, <2>2, QueueStays
  <2>4. SemInv'
    BY <1>1, <2>2, SignalsStay DEF SemInv
  <2>5. StateInv'
    BY <1>1 DEF StateInv, KnownState, Shifting
  <2>6. ~Answered'
    BY <1>1 DEF Answered
  <2> QED BY <1>1, <2>1, <2>3, <2>4, <2>5, <2>6 DEF AnswerInv
<1>4. Live' = Live
  BY <1>1 DEF Live
<1> QED BY <1>2, <1>3, <1>4 DEF Kept

LEMMA ResetSemaphoreKeeps == ASSUME TypeOK, LiveInv, ResetSemaphore PROVE Kept
<1>1. /\ call.op # NONE /\ call.at = "reset" /\ call.x \in Exchanges
      /\ call'.op = call.op /\ call'.x = call.x /\ call'.at = "check" /\ call'.ok = FALSE
      /\ sem \in [Sems -> Nat] /\ sem' = [sem EXCEPT ![Exchange[call.x].sem] = 0]
      /\ UNCHANGED <<mComponentState, mHandleComp, session, mEventSignalQ, comp, cmds, fatal>>
  BY DEF ResetSemaphore, At, TypeOK, Calls, adapterVars
<1>2. OpInv'
  BY <1>1, InsideOpInv, Zenon DEF LiveInv, NONE
<1>3. ASSUME Live PROVE AliveInv'
  <2> USE <1>3 DEF LiveInv, AliveInv
  <2>1. CommandInv'
    <3>1. MayLinger' = MayLinger
      BY <1>1 DEF MayLinger, Quiet
    <3>2. Sent'
      BY <1>1 DEF Sent
    <3> QED BY <1>1, <3>1, <3>2, CommandsStay
  <2>2. Registered'
    BY <1>1 DEF Registered
  <2>3. QueueInv'
    <3>1. sem'[Exchange[call.x].sem] = 0
      BY <1>1, ExchangeFacts
    <3> QED BY <1>1, <2>2, <3>1, QueueStays
  <2>4. SemInv'
    <3>1. ASSUME NEW s \in Sems \ {"mStopCaptureSem"} PROVE sem'[s] = 0
      <4>1. sem[s] = 0 \/ s = Exchange[call.x].sem
        BY Zenon DEF SemInv, SignalsOf
      <4> QED BY <1>1, <4>1, ExchangeFacts
    <3> QED BY <1>1, <3>1 DEF SemInv, SignalsOf
  <2>5. StateInv'
    BY <1>1 DEF StateInv, KnownState, Shifting
  <2>6. ~Answered'
    BY <1>1 DEF Answered
  <2> QED BY <1>1, <2>1, <2>3, <2>4, <2>5, <2>6 DEF AnswerInv
<1>4. Live' = Live
  BY <1>1 DEF Live
<1> QED BY <1>2, <1>3, <1>4 DEF Kept

LEMMA CheckWaitKeeps == ASSUME TypeOK, LiveInv, CheckWait PROVE Kept
<1>1. /\ call.op # NONE /\ call.at = "check" /\ call.x \in Exchanges
      /\ call'.op = call.op /\ call'.x = call.x /\ call'.ok = call.ok
      /\ call'.at \in {"fail", "done", "remove"}
      /\ mComponentState # Invalid => call'.at = (IF call.ok THEN "done" ELSE "remove")
      /\ UNCHANGED <<mComponentState, mHandleComp, session, sem, mEventSignalQ, comp, cmds,
                     fatal>>
  BY DEF CheckWait, At, TypeOK, Calls, adapterVars
<1>2. OpInv'
  BY <1>1, InsideOpInv, Zenon DEF LiveInv, NONE
<1>3. ASSUME Live PROVE AliveInv'
  <2> USE <1>3 DEF LiveInv, AliveInv
  <2>1. call'.at = (IF call.ok THEN "done" ELSE "remove")
    BY <1>1 DEF StateInv
  <2>2. AnswerInv'
    <3>1. Answered' => Answered
      BY <1>1, <2>1 DEF Answered
    <3> QED BY <1>1, <3>1 DEF AnswerInv, Carried
  <2>3. CommandInv'
    <3>1. MayLinger' = MayLinger
      BY <1>1, <2>1 DEF MayLinger, Quiet
    <3>2. \/ Sent'
          \/ call.x \in {"stop", "stopImage"}
          \/ cmds = <<>>
      BY <1>1, <2>1 DEF Sent, AnswerInv, Answered
    <3> QED BY <1>1, <3>1, <3>2, CommandsStay
  <2>4. Registered => Registered'
    BY <1>1, <2>1 DEF Registered
  <2>5. QueueInv'
    BY <1>1, <2>4, QueueStays
  <2>6. SemInv'
    BY <1>1, <2>1, <2>4, SignalsStay DEF SemInv
  <2>7. StateInv'
    BY <1>1, <2>1 DEF StateInv, KnownState, Shifting
  <2> QED BY <1>1, <2>2, <2>3, <2>5, <2>6, <2>7
<1>4. Live' = Live
  BY <1>1 DEF Live
<1> QED BY <1>2, <1>3, <1>4 DEF Kept

LEMMA DeregisterKeeps == ASSUME TypeOK, LiveInv, Deregister PROVE Kept
<1>1. /\ call.op # NONE /\ call.at = "remove" /\ call.x \in Exchanges
      /\ call'.op = call.op /\ call'.x = call.x /\ call'.at = "fail"
      /\ UNCHANGED <<mComponentState, mHandleComp, session, comp, cmds, fatal>>
  BY DEF Deregister, At, TypeOK, Calls, adapterVars
<1>2. OpInv'
  BY <1>1, InsideOpInv, Zenon DEF LiveInv, NONE
<1>3. ASSUME Live PROVE AliveInv'
  <2> USE <1>3 DEF LiveInv, AliveInv
  <2>1. CommandInv'
    <3>1. MayLinger' = MayLinger
      BY <1>1 DEF MayLinger, Quiet
    <3>2. Sent'
      BY <1>1 DEF Sent
    <3> QED BY <1>1, <3>1, <3>2, CommandsStay
  <2>2. Registered /\ Registered'
    BY <1>1 DEF Registered
  <2>3. /\ QueueOf(mEventSignalQ', sem', Registered, call.x)
        /\ SignalsOf(sem', Registered, call.x)
    <3>1. CASE SignalEvent(PortEnable, Prev)
      BY <3>1, SignalEventKeeps
    <3>2. CASE RemoveEvent(Exchange[call.x].arg1, Exchange[call.x].arg2)
      BY <3>2, RemoveEventKeeps DEF SemInv
    <3> QED BY <3>1, <3>2 DEF Deregister
  <2>4. QueueInv'
    BY <1>1, <2>2, <2>3 DEF QueueInv, QueueOf
  <2>5. SemInv'
    BY <1>1, <2>2, <2>3 DEF SemInv, SignalsOf
  <2>6. StateInv'
    BY <1>1 DEF StateInv, KnownState, Shifting
  <2>7. ~Answered'
    BY <1>1 DEF Answered
  <2> QED BY <1>1, <2>1, <2>4, <2>5, <2>6, <2>7 DEF AnswerInv
<1>4. Live' = Live
  BY <1>1 DEF Live
<1> QED BY <1>2, <1>3, <1>4 DEF Kept

LEMMA InitializeFailsKeeps == ASSUME TypeOK, LiveInv, NEW ok \in BOOLEAN, InitializeFails(ok) PROVE Kept
<1>1. /\ call.op # NONE /\ call.at = "done" /\ call.x = "init" /\ call.x \in Exchanges
      /\ call'.op = call.op /\ call'.x = call.x /\ call'.at = "fail"
      /\ UNCHANGED <<mComponentState, mHandleComp, session, sem, mEventSignalQ, comp, cmds,
                     fatal>>
  BY DEF InitializeFails, At, TypeOK, Calls, adapterVars
<1>2. OpInv'
  BY <1>1, InsideOpInv, Zenon DEF LiveInv, NONE
<1>3. ASSUME Live PROVE AliveInv'
  <2> USE <1>3 DEF LiveInv, AliveInv
  <2>1. CommandInv'
    <3>1. MayLinger' = MayLinger /\ ~Sent
      BY <1>1 DEF MayLinger, Quiet, Sent
    <3> QED BY <1>1, <3>1, CommandsStay
  <2>2. ~Registered
    BY <1>1 DEF Registered
  <2>3. QueueInv'
    BY <1>1, <2>2, QueueStays
  <2>4. SemInv'
    BY <1>1, <2>2, SignalsStay DEF SemInv
  <2>5. StateInv'
    <3>1. call.op = "initialize"
      BY <1>1 DEF OpInv, TypeOK, Calls, Operations
    <3> QED BY <1>1, <3>1 DEF StateInv, KnownState, Shifting
  <2>6. ~Answered'
    BY <1>1 DEF Answered
  <2> QED BY <1>1, <2>1, <2>3, <2>4, <2>5, <2>6 DEF AnswerInv
<1>4. Live' = Live
  BY <1>1 DEF Live
<1> QED BY <1>2, <1>3, <1>4 DEF Kept

LEMMA SendCommandKeeps == ASSUME TypeOK, LiveInv, NEW sent \in BOOLEAN, NEW ok \in BOOLEAN, SendCommand(sent, ok) PROVE Kept
<1>1. /\ call.op # NONE /\ call.at = "send" /\ call.x \in Exchanges
      /\ call'.op = call.op /\ call'.x = call.x /\ call'.at = (IF ok THEN "wait" ELSE "fail")
      /\ cmds' = (IF sent THEN Append(cmds, Command(call.x)) ELSE cmds)
      /\ mComponentState' =
           (IF call.x = "useIdle" /\ sent THEN StateIdle ELSE mComponentState)
      /\ ~sent /\ ok => call.x # "useIdle"
      /\ UNCHANGED <<mHandleComp, session, sem, mEventSignalQ, comp, fatal>>
  BY DEF SendCommand, Command, Unchecked, At, TypeOK, Calls, adapterVars
<1>2. OpInv'
  BY <1>1, InsideOpInv, Zenon DEF LiveInv, NONE
<1>3. ASSUME Live PROVE AliveInv'
  <2> USE <1>3 DEF LiveInv, AliveInv
  <2>1. CommandInv'
    <3>1. MayLinger' = MayLinger /\ ~Sent /\ Sent'
      BY <1>1 DEF MayLinger, Quiet, Sent
    <3>2. CASE ~sent
      <4>1. cmds' = cmds
        BY <1>1, <3>2
      <4> QED BY <1>1, <3>1, <4>1, CommandsStay
    <3>3. CASE sent
      <4> DEFINE n == Len(cmds)
      <4>1. cmds \in Seq(Commands) /\ cmds' = Append(cmds, Command(call.x))
        BY <1>1, <3>3 DEF TypeOK
      <4>2. /\ Len(cmds') = n + 1 /\ n \in Nat
            /\ \A i \in 1..n : cmds'[i] = cmds[i]
            /\ cmds'[n + 1] = Command(call.x)
        BY <4>1
      <4>3. \A i \in 1..n : cmds[i] \in Disables /\ MayLinger
        BY <3>1, Zenon DEF CommandInv
      <4> HIDE DEF n
      <4>4. ASSUME NEW i \in 1..(n + 1)
            PROVE  \/ cmds'[i] \in Disables /\ MayLinger'
                   \/ i = n + 1 /\ Sent' /\ cmds'[i] = Command(call'.x)
        <5>1. CASE i = n + 1
          BY <1>1, <3>1, <4>2, <5>1
        <5>2. CASE i \in 1..n
          BY <3>1, <4>2, <4>3, <5>2
        <5> QED BY <4>2, <5>1, <5>2
      <4> QED BY <4>2, <4>4 DEF CommandInv
    <3> QED BY <3>2, <3>3
  <2>2. Registered'
    BY <1>1 DEF Registered
  <2>3. QueueInv'
    BY <1>1, <2>2, QueueStays
  <2>4. SemInv'
    BY <1>1, <2>2, SignalsStay DEF SemInv
  <2>5. StateInv'
    BY <1>1 DEF StateInv, KnownState, Shifting, OpInv, StateIdle, Loaded, Invalid
  <2>6. ~Answered'
    BY <1>1 DEF Answered, SemInv
  <2> QED BY <1>1, <2>1, <2>3, <2>4, <2>5, <2>6 DEF AnswerInv
<1>4. Live' = Live
  BY <1>1 DEF Live
<1> QED BY <1>2, <1>3, <1>4 DEF Kept

-----------------------------------------------------------------------------
(* The component                                                           *)

(* The oldest command is taken from the queue.                             *)
LEMMA TailKeepsCommands ==
  ASSUME cmds \in Seq(Commands), cmds # <<>>, CommandInv, cmds' = Tail(cmds),
         MayLinger => MayLinger', Sent => Sent', call' = call
  PROVE  CommandInv'
<1>1. /\ Len(cmds') = Len(cmds) - 1 /\ Len(cmds) \in Nat
      /\ \A i \in 1..(Len(cmds) - 1) : cmds'[i] = cmds[i + 1]
  OBVIOUS
<1>2. ASSUME NEW i \in 1..Len(cmds')
      PROVE  \/ cmds'[i] \in Disables /\ MayLinger'
             \/ i = Len(cmds') /\ Sent' /\ cmds'[i] = Command(call'.x)
  <2>1. i + 1 \in 1..Len(cmds) /\ cmds'[i] = cmds[i + 1]
    BY <1>1
  <2>2. \/ cmds[i + 1] \in Disables /\ MayLinger
        \/ i + 1 = Len(cmds) /\ Sent /\ cmds[i + 1] = Command(call.x)
    BY <2>1, Zenon DEF CommandInv
  <2>3. i + 1 = Len(cmds) => i = Len(cmds')
    <3> DEFINE n == Len(cmds)
               m == Len(cmds')
    <3>1. m = n - 1 /\ n \in Nat /\ i \in 1..m
      BY <1>1
    <3> HIDE DEF n, m
    <3>2. i + 1 = n => i = m
      BY <3>1
    <3> QED BY <3>2 DEF n, m
  <2> QED BY <2>1, <2>2, <2>3, Zenon
<1> QED BY <1>2, Zenon DEF CommandInv

LEMMA RejectCommandKeeps == ASSUME TypeOK, LiveInv, RejectCommand PROVE Kept
<1>1. /\ cmds # <<>> /\ cmds' = Tail(cmds) /\ cmds \in Seq(Commands)
      /\ UNCHANGED <<mComponentState, mHandleComp, session, sem, mEventSignalQ, comp, call,
                     fatal>>
  BY DEF RejectCommand, Answering, TypeOK, adapterVars
<1>2. OpInv'
  BY <1>1 DEF LiveInv, OpInv
<1>3. ASSUME Live PROVE AliveInv'
  <2> USE <1>3 DEF LiveInv, AliveInv
  <2>1. CommandInv'
    <3>1. MayLinger' = MayLinger /\ Sent' = Sent
      BY <1>1 DEF MayLinger, Sent, Quiet
    <3> QED BY <1>1, <3>1, TailKeepsCommands
  <2>2. Registered' = Registered
    BY <1>1 DEF Registered
  <2>3. QueueInv'
    BY <1>1, <2>2 DEF QueueInv
  <2>4. SemInv'
    BY <1>1, <2>2 DEF SemInv
  <2>5. StateInv'
    BY <1>1 DEF StateInv, KnownState, Shifting
  <2>6. ~Answered'
    BY <1>1 DEF Answered, AnswerInv
  <2> QED BY <1>1, <2>1, <2>3, <2>4, <2>5, <2>6 DEF AnswerInv
<1>4. Live' = Live
  BY <1>1 DEF Live
<1> QED BY <1>2, <1>3, <1>4 DEF Kept

(* What the command at the head of the queue can be.                       *)
LEMMA HeadOfCommands ==
  ASSUME TypeOK, CommandInv, cmds # <<>>
  PROVE  \/ Head(cmds) \in Disables /\ MayLinger
         \/ Head(cmds) = Command(call.x) /\ Sent /\ Tail(cmds) = <<>>
<1>1. cmds \in Seq(Commands)
  BY DEF TypeOK
<1>2. Head(cmds) = cmds[1] /\ 1 \in 1..Len(cmds)
  BY <1>1
<1>3. Len(cmds) = 1 => Tail(cmds) = <<>>
  <2> DEFINE t == Tail(cmds)
  <2>1. t \in Seq(Commands) /\ Len(t) = Len(cmds) - 1
    BY <1>1
  <2> HIDE DEF t
  <2>2. t # <<>> => Len(t) \in Nat \ {0}
    BY <2>1, EmptySeq, Zenon
  <2>3. Len(cmds) = 1 => t = <<>>
    BY <2>1, <2>2
  <2> QED BY <2>3 DEF t
<1> QED BY <1>2, <1>3 DEF CommandInv

LEMMA CompleteCommandKeeps == ASSUME TypeOK, LiveInv, CompleteCommand PROVE Kept
<1> DEFINE nData1 == Head(cmds)[1]
           nData2 == Head(cmds)[2]
<1>1. /\ Answering /\ cmds # <<>> /\ cmds' = Tail(cmds) /\ cmds \in Seq(Commands)
      /\ call.x \in Exchanges /\ comp \in Components
      /\ SignalEvent(nData1, nData2)
      /\ UNCHANGED <<mComponentState, mHandleComp, session, call, fatal>>
  BY DEF CompleteCommand, Answering, TypeOK, Calls, adapterVars
<1>2. comp' = CASE nData1 = StateSet    -> [comp EXCEPT !.state = nData2]
                [] nData1 = PortEnable  -> [comp EXCEPT !.enabled = @ \cup {nData2}]
                [] nData1 = PortDisable -> [comp EXCEPT !.enabled = @ \ {nData2}]
  BY Zenon DEF CompleteCommand
<1>3. OpInv'
  BY <1>1 DEF LiveInv, OpInv
<1>4. ASSUME Live PROVE AliveInv'
  <2> USE <1>4 DEF LiveInv, AliveInv
  <2>1. \/ Head(cmds) \in Disables /\ MayLinger
        \/ Head(cmds) = Command(call.x) /\ Sent /\ Tail(cmds) = <<>>
    BY <1>1, HeadOfCommands
  <2>2. Head(cmds) \in Disables => nData1 = PortDisable /\ nData2 \in Ports
    BY DEF Disables
  <2>3. Head(cmds) = Command(call.x) =>
          nData1 = Exchange[call.x].arg1 /\ nData2 = Exchange[call.x].arg2
    BY DEF Command
  <2>4. /\ QueueOf(mEventSignalQ', sem', Registered, call.x)
        /\ SignalsOf(sem', Registered, call.x)
        /\ \/ OthersKept(sem, sem')
           \/ /\ Registered /\ call.x # "stopImage"
              /\ Matches(Exchange[call.x], nData1, nData2)
    BY <1>1, SignalEventKeeps
  <2>5. /\ Registered /\ call.x \notin {"stop", "stopImage"}
        /\ Matches(Exchange[call.x], nData1, nData2)
        => Head(cmds) = Command(call.x) /\ Sent /\ Tail(cmds) = <<>>
    <3> SUFFICES ASSUME Registered, call.x \notin {"stop", "stopImage"},
                        Matches(Exchange[call.x], nData1, nData2),
                        Head(cmds) \in Disables, MayLinger
                 PROVE  FALSE
      BY <2>1
    <3>1. nData1 = PortDisable /\ nData2 \in Ports
      BY <2>2
    <3> HIDE DEF nData1, nData2
    <3>2. call.x = "toLoaded"
      BY <1>1, <3>1, DisableMatches
    <3>3. Quiet
      BY <3>2 DEF MayLinger
    <3> QED BY <3>3 DEF Registered, Quiet
  <2> HIDE DEF nData1, nData2
  <2>6. CommandInv'
    <3>1. MayLinger' = MayLinger /\ Sent' = Sent
      BY <1>1 DEF MayLinger, Sent, Quiet
    <3> QED BY <1>1, <3>1, TailKeepsCommands
  <2>7. Registered' = Registered
    BY <1>1 DEF Registered
  <2>8. QueueInv'
    BY <1>1, <2>4, <2>7 DEF QueueInv
  <2>9. call.x # "stopImage" => Exchange[call.x].sem \in Sems \ {"mStopCaptureSem"}
    BY <1>1, ExchangeFacts
  <2>10. SemInv'
    <3>1. SignalsOf(sem', Registered', call'.x)
      BY <1>1, <2>4, <2>7
    <3>2. ASSUME call.op # NONE, call.at = "send", call.x \notin {"stop", "stopImage"}
          PROVE  sem'[Exchange[call.x].sem] = 0
      <4>1. ~Sent
        BY <3>2 DEF Sent
      <4>2. OthersKept(sem, sem')
        BY <2>4, <2>5, <3>2, <4>1
      <4> QED BY <2>9, <3>2, <4>2 DEF OthersKept, SemInv
    <3> QED BY <1>1, <3>1, <3>2 DEF SemInv
  <2>11. StateInv'
    <3>1. KnownState' /\ mComponentState' # Invalid /\ Shifting' = Shifting
      BY <1>1 DEF StateInv, KnownState, Shifting
    <3>2. ASSUME ~Shifting PROVE comp'.state = comp.state
      <4>1. nData1 # StateSet
        <5>1. CASE Head(cmds) \in Disables
          BY <2>2, <5>1 DEF PortDisable, StateSet
        <5>2. CASE Head(cmds) = Command(call.x) /\ Sent
          BY <1>1, <2>3, <3>2, <5>2, ExchangeNames
             DEF Shifting, Sent, Exchange, Entry, StateSet, PortEnable, PortDisable
        <5> QED BY <2>1, <5>1, <5>2
      <4>2. nData1 \in {PortEnable, PortDisable}
        <5>1. Head(cmds) \in Commands
          BY <1>1
        <5> QED BY <4>1, <5>1 DEF nData1, Commands
      <4>3. CASE nData1 = PortEnable
        BY <1>1, <1>2, <4>3 DEF PortEnable, PortDisable, StateSet, Components
      <4>4. CASE nData1 = PortDisable
        BY <1>1, <1>2, <4>4 DEF PortEnable, PortDisable, StateSet, Components
      <4> QED BY <4>2, <4>3, <4>4
    <3> QED BY <1>1, <3>1, <3>2 DEF StateInv
  <2>12. AnswerInv'
    <3> SUFFICES ASSUME Answered' PROVE cmds' = <<>> /\ Carried(call.x)'
      BY <1>1 DEF AnswerInv
    <3>1. ~Answered
      BY <1>1 DEF AnswerInv
    <3>2. /\ call.at = "wait" /\ call.x \notin {"stop", "stopImage"}
          /\ sem'[Exchange[call.x].sem] # sem[Exchange[call.x].sem]
      BY <1>1, <3>1 DEF Answered
    <3>3. Head(cmds) = Command(call.x) /\ Tail(cmds) = <<>>
      BY <2>4, <2>5, <2>9, <3>2 DEF OthersKept
    <3>4. Exchange[call.x].arg1 \in {StateSet, PortEnable}
      BY <1>1, <3>2, ExchangeNames DEF Exchange, Entry
    <3>5. nData1 = Exchange[call.x].arg1 /\ nData2 = Exchange[call.x].arg2
      BY <2>3, <3>3
    <3>6. CASE Exchange[call.x].arg1 = StateSet
      BY <1>1, <1>2, <3>5, <3>6, <3>3 DEF PortEnable, PortDisable, StateSet, Components, Carried
    <3>7. CASE Exchange[call.x].arg1 = PortEnable
      BY <1>1, <1>2, <3>5, <3>7, <3>3 DEF PortEnable, PortDisable, StateSet, Components, Carried
    <3> QED BY <3>4, <3>6, <3>7
  <2> QED BY <1>1, <2>6, <2>8, <2>10, <2>11, <2>12
<1>5. Live' => Live
  BY <1>1 DEF Live, Answering
<1> QED BY <1>3, <1>4, <1>5 DEF Kept

-----------------------------------------------------------------------------
(* From one exchange to the next, and between operations                   *)

(* The adapter turns to something else: no exchange is under way, or the   *)
(* image port's disable is given up.                                       *)
LEMMA TurnKeeps ==
  ASSUME TypeOK, LiveInv, Live, StateInv',
         UNCHANGED <<sem, comp, cmds, fatal>>, mEventSignalQ' \in {mEventSignalQ, <<>>},
         (~Registered /\ ~Sent) \/ call.x = "stopImage",
         call'.at \notin {"send", "wait", "check", "done"},
         MayLinger /\ cmds # <<>> => MayLinger'
  PROVE  AliveInv'
<1> USE DEF LiveInv, AliveInv
<1>1. call.x \in Exchanges
  BY DEF TypeOK, Calls
<1>2. CommandInv'
  <2>1. CASE cmds = <<>>
    BY <2>1 DEF CommandInv
  <2>2. CASE cmds # <<>>
    BY <1>1, <2>2, CommandsStay
  <2> QED BY <2>1, <2>2
<1>3. QueueInv'
  <2>1. CASE mEventSignalQ' = mEventSignalQ
    BY <1>1, <2>1, QueueStays
  <2>2. CASE mEventSignalQ' = <<>>
    BY <2>2 DEF QueueInv, QueueOf
  <2> QED BY <2>1, <2>2
<1>4. SemInv'
  BY <1>1, SignalsStay DEF SemInv
<1>5. ~Answered'
  BY DEF Answered
<1> QED BY <1>2, <1>3, <1>4, <1>5 DEF AnswerInv

LEMMA OperationKeeps == ASSUME TypeOK, LiveInv, Operation PROVE Kept
<1> USE DEF Quiet, Begin, adapterVars, NONE
<1>1. CASE initialize
  <2>1. /\ call'.op = "initialize" /\ call'.x = "init" /\ call'.at = "register" /\ call'.ok = TRUE
        /\ session = "closed" /\ session' = session /\ fatal' = fatal
        /\ mComponentState' = Loaded /\ mEventSignalQ' = <<>> /\ sem' = [s \in Sems |-> 0]
        /\ comp'.state = Loaded
        /\ cmds' = << <<PortDisable, Prev>>, <<PortDisable, Image>> >>
    BY <1>1 DEF initialize, NoComponent
  <2>2. OpInv'
    BY <2>1 DEF OpInv
  <2>3. CommandInv'
    <3>1. <<PortDisable, Prev>> \in Disables /\ <<PortDisable, Image>> \in Disables
      BY DEF Disables, Ports
    <3>2. MayLinger'
      BY <2>1 DEF MayLinger
    <3> QED BY <2>1, <3>1, <3>2 DEF CommandInv
  <2>4. QueueInv' /\ SemInv'
    BY <2>1 DEF QueueInv, QueueOf, SemInv, SignalsOf
  <2>5. StateInv' /\ ~Answered'
    BY <2>1 DEF StateInv, KnownState, Shifting, Answered, Loaded, Invalid
  <2> QED BY <2>1, <2>2, <2>3, <2>4, <2>5 DEF Kept, AliveInv, LiveInv, AnswerInv
<1>2. CASE ~initialize
  <2>1. /\ call.op = NONE
        /\ UNCHANGED <<mComponentState, mHandleComp, mEventSignalQ, sem, comp, cmds, fatal>>
    BY <1>2 DEF Operation, UseBuffersPreview, startPreview, stopLoadedPreview, stopPreview,
       getPictureBufferSize, UseBuffersCapture, destructor, Ready
  <2>2. Live' = Live /\ ~Registered /\ ~Sent
    BY <2>1 DEF Live, Registered, Sent
  <2>3. Live => KnownState /\ mComponentState = comp.state /\ mComponentState # Invalid
    BY <2>1 DEF LiveInv, AliveInv, StateInv, Shifting
  <2>4. ASSUME OpInv', call'.at \notin {"send", "wait", "check", "done"},
               Live => StateInv', Live /\ MayLinger => MayLinger'
        PROVE  Kept
    <3>1. Live => AliveInv'
      BY <2>1, <2>2, <2>4, TurnKeeps
    <3> QED BY <2>2, <2>4, <3>1 DEF Kept
  <2>5. CASE UseBuffersPreview
    <3>1. /\ call'.op = "UseBuffersPreview" /\ call'.x = "useIdle" /\ call'.at = "lock"
          /\ session = "initialized" /\ session' = session
      BY <2>5 DEF UseBuffersPreview
    <3> QED BY <2>1, <2>3, <2>4, <3>1 DEF OpInv, StateInv, KnownState, Shifting, MayLinger
  <2>6. CASE startPreview
    <3>1. /\ call'.op = "startPreview" /\ call'.x = "start"
          /\ session = "loaded" /\ session' = session
          /\ call'.at \in {"fail", "register", "queue"}
          /\ call'.at = "queue" => mComponentState # StateIdle
      BY <2>6 DEF startPreview
    <3> QED BY <2>1, <2>3, <2>4, <3>1 DEF OpInv, StateInv, KnownState, Shifting, MayLinger
  <2>7. CASE stopLoadedPreview
    <3>1. call' = call /\ session = "loaded" /\ session' = "initialized"
      BY <2>7 DEF stopLoadedPreview
    <3>2. call.at = NONE
      BY <2>1 DEF LiveInv, OpInv
    <3> QED BY <2>1, <2>3, <2>4, <3>1, <3>2 DEF OpInv, StateInv, KnownState, Shifting, MayLinger
  <2>8. CASE stopPreview
    <3>1. /\ call'.op = "stopPreview" /\ call'.x = "stop" /\ call'.at = "register"
          /\ session = "preview" /\ session' = session
      BY <2>8 DEF stopPreview
    <3> QED BY <2>1, <2>3, <2>4, <3>1 DEF OpInv, StateInv, KnownState, Shifting, MayLinger
  <2>9. CASE getPictureBufferSize
    <3>1. /\ call'.op = "getPictureBufferSize" /\ call'.x = "stopImage"
          /\ call'.at = "register" /\ session = "preview" /\ session' = session
      BY <2>9 DEF getPictureBufferSize
    <3> QED BY <2>1, <2>3, <2>4, <3>1 DEF OpInv, StateInv, KnownState, Shifting, MayLinger
  <2>10. CASE UseBuffersCapture
    <3>1. /\ call'.op = "UseBuffersCapture" /\ call'.x = "useImage"
          /\ call'.at = "register" /\ session = "preview" /\ session' = session
      BY <2>10 DEF UseBuffersCapture
    <3> QED BY <2>1, <2>3, <2>4, <3>1 DEF OpInv, StateInv, KnownState, Shifting, MayLinger
  <2>11. CASE destructor
    <3>1. /\ call'.op = "destructor" /\ call'.x = "toIdle" /\ call'.at = "switch"
          /\ session \in {"initialized", "preview"} /\ session' = session
      BY <2>11 DEF destructor
    <3> QED BY <2>1, <2>3, <2>4, <3>1 DEF OpInv, StateInv, KnownState, Shifting, MayLinger
  <2> QED BY <1>2, <2>5, <2>6, <2>7, <2>8, <2>9, <2>10, <2>11 DEF Operation
<1> QED BY <1>1, <1>2

(* An operation returns, or goes on to its next exchange.                  *)
LEMMA ReturnFacts ==
  ASSUME TypeOK, OpInv, call.op # NONE, NEW ok \in BOOLEAN, Return(ok)
  PROVE  /\ OpInv'
         /\ call.op = "destructor" =>
              /\ call'.op = call.op /\ call'.x = call.x /\ call'.at = "destroy"
              /\ session' = session
         /\ call.op # "destructor" =>
              call' = IdleCall /\ session' = NextSession(call.op, ok)
<1>1. CASE call.op = "destructor"
  <2>1. /\ call'.op = call.op /\ call'.x = call.x /\ call'.at = "destroy"
        /\ session' = session
    BY <1>1 DEF Return, TypeOK, Calls
  <2> QED BY <1>1, <2>1 DEF OpInv, NONE
<1>2. CASE call.op # "destructor"
  <2>1. call' = IdleCall /\ session' = NextSession(call.op, ok)
    BY <1>2 DEF Return
  <2> QED BY <1>2, <2>1 DEF OpInv, IdleCall, NONE
<1> QED BY <1>1, <1>2

LEMMA IdleFacts == IdleCall.op = NONE /\ IdleCall.at = NONE
  BY DEF IdleCall

LEMMA GoFacts ==
  ASSUME TypeOK, NEW x, Go(x)
  PROVE  /\ call'.op = call.op /\ call'.x = x /\ call'.at = "register"
         /\ call'.ok = TRUE
  BY DEF Go, TypeOK, Calls

LEMMA LockStateSwitchKeeps == ASSUME TypeOK, LiveInv, LockStateSwitch PROVE Kept
<1> USE DEF NONE
<1>1. /\ call.op = "UseBuffersPreview" /\ call.at = "lock"
      /\ call'.op = call.op /\ call'.at = "register"
      /\ call'.x = (IF mComponentState = Loaded THEN "useIdle" ELSE "useEnable")
      /\ UNCHANGED <<mComponentState, mHandleComp, session, mEventSignalQ, sem, comp, cmds,
                     fatal>>
  BY GoFacts DEF LockStateSwitch, At, LiveInv, OpInv
<1>2. OpInv'
  BY <1>1 DEF LiveInv, OpInv
<1>3. ASSUME Live PROVE AliveInv'
  <2>1. StateInv'
    BY <1>1, <1>3 DEF LiveInv, AliveInv, StateInv, KnownState, Shifting, OpInv
  <2>2. ~Registered /\ ~Sent
    BY <1>1 DEF Registered, Sent
  <2>3. ~MayLinger
    BY <1>1 DEF MayLinger, Quiet, LiveInv, OpInv
  <2> QED BY <1>1, <1>3, <2>1, <2>2, <2>3, TurnKeeps
<1>4. Live' = Live
  BY <1>1 DEF Live
<1> QED BY <1>2, <1>3, <1>4 DEF Kept

LEMMA ExchangeFailsKeeps == ASSUME TypeOK, LiveInv, ExchangeFails PROVE Kept
<1> USE DEF NONE
<1>1. call.op # NONE /\ call.at = "fail"
  BY DEF ExchangeFails, At
<1>2. CASE call.x = "stopImage" /\ call.op = "stopPreview" /\ call.ok
  <2>1. /\ call'.op = call.op /\ call'.x = call.x /\ call'.at = "switch"
        /\ UNCHANGED <<mComponentState, mHandleComp, session, mEventSignalQ, sem, comp, cmds,
                       fatal>>
    BY <1>2 DEF ExchangeFails, TypeOK, Calls
  <2>2. OpInv'
    BY <1>1, <1>2, <2>1 DEF LiveInv, OpInv
  <2>3. ASSUME Live PROVE AliveInv'
    <3>1. StateInv' /\ MayLinger'
      BY <1>1, <1>2, <2>1, <2>3
         DEF LiveInv, AliveInv, StateInv, KnownState, Shifting, MayLinger, Quiet
    <3> QED BY <1>2, <2>1, <2>3, <3>1, TurnKeeps
  <2>4. Live' = Live
    BY <2>1 DEF Live
  <2> QED BY <2>2, <2>3, <2>4 DEF Kept
<1>3. CASE ~(call.x = "stopImage" /\ call.op = "stopPreview" /\ call.ok)
  <2> DEFINE ok == call.ok \/ call.x \in Ignored
  <2>1. Return(ok) /\ ok \in BOOLEAN
    BY <1>3, Zenon DEF ExchangeFails
  <2> HIDE DEF ok
  <2>2. /\ OpInv'
        /\ call.op # "destructor" =>
             call' = IdleCall /\ session' = NextSession(call.op, ok)
    BY <1>1, <2>1, ReturnFacts DEF LiveInv
  <2>3. ASSUME Live' PROVE AliveInv'
    <3>1. call.x = "stopImage" /\ call.op # "stopPreview"
      BY <1>3, <2>3 DEF ExchangeFails, performCleanupAfterError, Live, Ignored
    <3>2. UNCHANGED <<mComponentState, mHandleComp, mEventSignalQ, sem, comp, cmds, fatal>>
      BY <3>1 DEF ExchangeFails
    <3>3. call.op = "getPictureBufferSize" /\ session = "preview"
      BY <1>1, <3>1 DEF LiveInv, OpInv, TypeOK, Calls, Operations
    <3>4. call'.op = NONE /\ call'.at = NONE /\ session' = "preview"
      BY <2>2, <3>3 DEF NextSession, IdleCall
    <3>5. Live
      BY <2>3, <3>2 DEF Live
    <3>6. StateInv' /\ MayLinger'
      BY <1>1, <3>1, <3>2, <3>3, <3>4, <3>5
         DEF LiveInv, AliveInv, StateInv, KnownState, Shifting, MayLinger, Quiet
    <3> QED BY <3>1, <3>2, <3>4, <3>5, <3>6, TurnKeeps
  <2> QED BY <2>2, <2>3 DEF Kept
<1> QED BY <1>2, <1>3

LEMMA QueueBuffersKeeps ==
  ASSUME TypeOK, LiveInv, NEW ok \in BOOLEAN, QueueBuffers(ok)
  PROVE  Kept
<1> USE DEF NONE
<1>1. /\ call.op = "startPreview" /\ call.at = "queue" /\ call.x = "start"
      /\ Return(ok) /\ UNCHANGED <<mEventSignalQ, sem, fatal>>
  BY DEF QueueBuffers, At, LiveInv, OpInv
<1>2. OpInv' /\ call' = IdleCall /\ session' = NextSession(call.op, ok)
  BY <1>1, ReturnFacts DEF LiveInv
<1>3. ASSUME Live' PROVE AliveInv'
  <2>1. ok /\ UNCHANGED <<mComponentState, mHandleComp, comp, cmds>>
    BY <1>3 DEF QueueBuffers, performCleanupAfterError, Live
  <2>2. call'.op = NONE /\ call'.at = NONE /\ session' = "preview"
    BY <1>1, <1>2, <2>1 DEF NextSession, IdleCall
  <2>3. Live
    BY <1>3, <2>1 DEF Live
  <2>4. StateInv' /\ MayLinger'
    BY <1>1, <2>1, <2>2, <2>3
       DEF LiveInv, AliveInv, StateInv, KnownState, Shifting, MayLinger, Quiet
  <2>5. ~Registered /\ ~Sent
    BY <1>1 DEF Registered, Sent
  <2> QED BY <1>1, <2>1, <2>2, <2>3, <2>4, <2>5, TurnKeeps
<1> QED BY <1>2, <1>3 DEF Kept

LEMMA SwitchToLoadedKeeps == ASSUME TypeOK, LiveInv, SwitchToLoaded PROVE Kept
<1> USE DEF NONE
<1>1. /\ call.at = "switch" /\ call.op \in {"stopPreview", "destructor"}
      /\ UNCHANGED <<mEventSignalQ, sem, fatal>>
  BY DEF SwitchToLoaded, At, LiveInv, OpInv
<1>2. ~Registered /\ ~Sent
  BY <1>1 DEF Registered, Sent
<1>3. CASE mComponentState \in {Loaded, Invalid} \/ sem["mSwitchToLoadedSem"] # 0
  <2>1. Return(TRUE)
    BY <1>3 DEF SwitchToLoaded, switchToLoaded
  <2>2. /\ OpInv'
        /\ call.op = "destructor" =>
              /\ call'.op = call.op /\ call'.x = call.x /\ call'.at = "destroy"
              /\ session' = session
        /\ call.op # "destructor" => call' = IdleCall /\ session' = NextSession(call.op, TRUE)
    BY <1>1, <2>1, ReturnFacts DEF LiveInv
  <2>3. ASSUME Live' PROVE AliveInv'
    <3>1. /\ UNCHANGED <<mComponentState, mHandleComp, comp, cmds>>
          /\ mComponentState \in {Loaded, Invalid}
      BY <1>3, <2>3 DEF SwitchToLoaded, switchToLoaded, performCleanupAfterError, Live
    <3>2. Live
      BY <2>3, <3>1 DEF Live
    <3>3. mComponentState = Loaded /\ ~MayLinger
      BY <1>1, <3>1, <3>2 DEF LiveInv, AliveInv, StateInv, MayLinger, Quiet, Loaded, Executing
    <3>4. call'.at \in {NONE, "destroy"}
      BY <1>1, <2>2, IdleFacts, Zenon
    <3>5. StateInv'
      <4>1. CASE call.op = "destructor"
        BY <1>1, <2>2, <3>1, <3>2, <3>3, <4>1
           DEF LiveInv, AliveInv, StateInv, KnownState, Shifting
      <4>2. CASE call.op = "stopPreview"
        <5>1. call'.op = NONE /\ session' = "initialized"
          BY <2>2, <4>2 DEF IdleCall, NextSession
        <5> QED BY <1>1, <3>1, <3>2, <3>3, <5>1
                DEF LiveInv, AliveInv, StateInv, KnownState, Shifting
      <4> QED BY <1>1, <4>1, <4>2
    <3> QED BY <1>1, <1>2, <3>1, <3>2, <3>3, <3>4, <3>5, TurnKeeps
  <2> QED BY <2>2, <2>3 DEF Kept
<1>4. CASE ~(mComponentState \in {Loaded, Invalid} \/ sem["mSwitchToLoadedSem"] # 0)
  <2>1. /\ call'.op = call.op /\ call'.at = "register"
        /\ call'.x = (IF mComponentState = Executing THEN "toIdle" ELSE "toLoaded")
        /\ UNCHANGED <<mComponentState, mHandleComp, comp, cmds, session>>
    BY <1>4, GoFacts DEF SwitchToLoaded, switchToLoaded
  <2>2. OpInv'
    BY <1>1, <2>1 DEF LiveInv, OpInv
  <2>3. ASSUME Live PROVE AliveInv'
    <3>1. MayLinger => MayLinger'
      BY <1>1, <2>1 DEF MayLinger, Quiet
    <3>2. StateInv'
      BY <1>1, <1>4, <2>1, <2>3 DEF LiveInv, AliveInv, StateInv, KnownState, Shifting, TypeOK
    <3> QED BY <1>1, <1>2, <2>1, <2>3, <3>1, <3>2, TurnKeeps
  <2>4. Live' = Live
    BY <2>1 DEF Live
  <2> QED BY <2>2, <2>3, <2>4 DEF Kept
<1> QED BY <1>3, <1>4

LEMMA ExchangeDoneKeeps == ASSUME TypeOK, LiveInv, ExchangeDone PROVE Kept
<1> USE DEF NONE
<1>1. /\ call.op # NONE /\ call.at = "done" /\ call.x \in Exchanges
      /\ UNCHANGED <<mHandleComp, sem, comp, cmds, fatal>>
      /\ mEventSignalQ' \in {mEventSignalQ, <<>>}
      /\ mComponentState' = CASE call.x \in {"init", "toLoaded"} -> Loaded
                              [] call.x = "start"                -> Executing
                              [] OTHER                           -> mComponentState
  BY DEF ExchangeDone, At, TypeOK, Calls
<1>2. ~Registered /\ ~Sent /\ Live' = Live
  BY <1>1 DEF Registered, Sent, Live
<1>3. call.op \in Operations
  BY <1>1 DEF TypeOK, Calls
<1>4. Live /\ call.x \notin {"stop", "stopImage"} => cmds = <<>> /\ Carried(call.x)
  BY <1>1 DEF LiveInv, AliveInv, AnswerInv, Answered
<1>5. ASSUME OpInv', call'.at \notin {"send", "wait", "check", "done"},
             Live => StateInv', Live /\ call.x \in {"stop", "stopImage"} => MayLinger'
      PROVE  Kept
  <2>1. Live => AliveInv'
    BY <1>1, <1>2, <1>4, <1>5, TurnKeeps
  <2> QED BY <1>2, <1>5, <2>1 DEF Kept
<1>6. Live => KnownState /\ mComponentState # Invalid
              /\ (Shifting \/ mComponentState = comp.state)
  BY DEF LiveInv, AliveInv, StateInv
<1>7. CASE call.x = "start"
  <2>1. /\ call'.op = call.op /\ call'.x = call.x /\ call'.at = "queue" /\ session' = session
        /\ mComponentState' = Executing
    BY <1>1, <1>7 DEF ExchangeDone, TypeOK, Calls
  <2>2. call.op = "startPreview"
    BY <1>3, <1>7 DEF LiveInv, OpInv, Operations
  <2>3. OpInv'
    BY <1>7, <2>1, <2>2 DEF LiveInv, OpInv
  <2>4. Live => comp'.state = Executing
    BY <1>1, <1>4, <1>7 DEF Carried, Exchange, Entry
  <2> QED BY <1>5, <1>7, <2>1, <2>2, <2>3, <2>4
          DEF StateInv, KnownState, Shifting, Executing, Invalid
<1>8. CASE call.x = "stop" /\ mCaptureConfigured
  <2>1. /\ call'.op = call.op /\ call'.x = "stopImage" /\ call'.at = "register"
        /\ session' = session /\ mComponentState' = mComponentState
    BY <1>1, <1>8, GoFacts DEF ExchangeDone
  <2>2. call.op = "stopPreview"
    BY <1>3, <1>8 DEF LiveInv, OpInv, Operations
  <2>3. OpInv' /\ MayLinger'
    BY <1>8, <2>1, <2>2 DEF LiveInv, OpInv, MayLinger, Quiet
  <2> QED BY <1>1, <1>5, <1>6, <1>8, <2>1, <2>2, <2>3 DEF StateInv, KnownState, Shifting
<1>9. CASE \/ call.x = "stop" /\ ~mCaptureConfigured
           \/ call.x = "stopImage" /\ call.op = "stopPreview"
  <2>1. /\ call'.op = call.op /\ call'.x = call.x /\ call'.at = "switch" /\ session' = session
        /\ mComponentState' = mComponentState
    BY <1>1, <1>9 DEF ExchangeDone, TypeOK, Calls
  <2>2. call.op = "stopPreview"
    BY <1>3, <1>9 DEF LiveInv, OpInv, Operations
  <2>3. OpInv'
    BY <1>9, <2>1, <2>2 DEF LiveInv, OpInv
  <2>4. Live => mComponentState = Executing
    BY <1>6, <1>9, <2>2 DEF KnownState
  <2>5. Live => MayLinger'
    BY <1>9, <2>1, <2>2, <2>4 DEF MayLinger, Quiet
  <2> QED BY <1>1, <1>5, <1>6, <1>9, <2>1, <2>2, <2>3, <2>5 DEF StateInv, KnownState, Shifting
<1>10. CASE call.x = "toIdle"
  <2>1. /\ call'.op = call.op /\ call'.x = "toLoaded" /\ call'.at = "register"
        /\ session' = session /\ mComponentState' = mComponentState
    BY <1>1, <1>10, GoFacts DEF ExchangeDone
  <2>2. call.op \in {"stopPreview", "destructor"}
    BY <1>3, <1>10 DEF LiveInv, OpInv, Operations
  <2>3. OpInv'
    BY <1>10, <2>1, <2>2 DEF LiveInv, OpInv
  <2> QED BY <1>1, <1>5, <1>6, <1>10, <2>1, <2>2, <2>3 DEF StateInv, KnownState, Shifting
<1>11. CASE call.x = "toLoaded"
  <2>1. /\ call'.op = call.op /\ call'.x = "toEnable" /\ call'.at = "register"
        /\ session' = session /\ mComponentState' = Loaded
    BY <1>1, <1>11, GoFacts DEF ExchangeDone
  <2>2. call.op \in {"stopPreview", "destructor"}
    BY <1>3, <1>11 DEF LiveInv, OpInv, Operations
  <2>3. OpInv'
    BY <1>11, <2>1, <2>2 DEF LiveInv, OpInv
  <2>4. Live => comp'.state = Loaded
    BY <1>1, <1>4, <1>11 DEF Carried, Exchange, Entry
  <2> QED BY <1>5, <1>11, <2>1, <2>2, <2>3, <2>4
          DEF StateInv, KnownState, Shifting, Loaded, Invalid
<1>12. CASE \/ call.x \in {"init", "useIdle", "useEnable", "useImage", "toEnable"}
            \/ call.x = "stopImage" /\ call.op # "stopPreview"
  <2>1. /\ Return(TRUE)
        /\ mComponentState' = (IF call.x = "init" THEN Loaded ELSE mComponentState)
    BY <1>1, <1>12 DEF ExchangeDone
  <2>2. /\ OpInv'
        /\ call.op = "destructor" =>
              /\ call'.op = call.op /\ call'.x = call.x /\ call'.at = "destroy"
              /\ session' = session
        /\ call.op # "destructor" => call' = IdleCall /\ session' = NextSession(call.op, TRUE)
    BY <1>1, <2>1, ReturnFacts DEF LiveInv
  <2>3. CASE call.op = "destructor"
    <3>1. call.x = "toEnable"
      BY <1>12, <2>3 DEF LiveInv, OpInv
    <3> QED BY <1>1, <1>5, <1>6, <2>1, <2>2, <2>3, <3>1 DEF StateInv, KnownState, Shifting
  <2>4. CASE call.op # "destructor"
    <3>1. call'.op = NONE /\ call'.at = NONE /\ session' = NextSession(call.op, TRUE)
      BY <2>2, <2>4, IdleFacts, Zenon
    <3>2. \/ call.op = "initialize" /\ call.x = "init" /\ session' = "initialized"
          \/ call.op = "UseBuffersPreview" /\ call.x \in {"useIdle", "useEnable"}
             /\ session' = "loaded"
          \/ call.op = "stopPreview" /\ call.x = "toEnable" /\ session' = "initialized"
          \/ call.op = "getPictureBufferSize" /\ call.x = "stopImage" /\ session' = "preview"
          \/ call.op = "UseBuffersCapture" /\ call.x = "useImage" /\ session' = "preview"
      BY <1>3, <1>12, <2>4, <3>1 DEF LiveInv, OpInv, Operations, NextSession
    <3>3. Live /\ call.x = "useIdle" => comp.state = StateIdle
      BY <1>4 DEF Carried, Exchange, Entry
    <3>4. Live => StateInv'
      BY <1>1, <1>6, <2>1, <3>1, <3>2, <3>3
         DEF StateInv, KnownState, Shifting, Loaded, StateIdle, Executing, Invalid
    <3>5. call.x \in {"stop", "stopImage"} => MayLinger'
      BY <3>1, <3>2 DEF MayLinger, Quiet
    <3> QED BY <1>5, <2>2, <3>1, <3>4, <3>5
  <2> QED BY <2>3, <2>4
<1> QED BY <1>1, <1>7, <1>8, <1>9, <1>10, <1>11, <1>12, ExchangeNames

(* The rest ends the adapter, or loses the component or the handle.        *)
LEMMA OtherStepsKeep ==
  ASSUME TypeOK, HandleInv, LiveInv,
         Destroy \/ HardwareError \/ SignalAll \/ UNCHANGED vars
  PROVE  Kept
<1> USE DEF NONE
<1>1. CASE Destroy
  <2>1. mHandleComp' = FALSE /\ call' = IdleCall
    BY <1>1 DEF Destroy, At, HandleInv, LiveInv, OpInv
  <2>2. OpInv' /\ ~Live'
    BY <2>1 DEF OpInv, IdleCall, Live
  <2> QED BY <2>2 DEF Kept
<1>2. CASE HardwareError
  <2>1. comp'.ok = FALSE /\ UNCHANGED <<session, call>>
    BY <1>2 DEF HardwareError, TypeOK, Components
  <2> QED BY <2>1 DEF Kept, Live, LiveInv, OpInv
<1>3. CASE SignalAll
  <2>1. fatal /\ UNCHANGED <<mHandleComp, comp, session, call>>
    BY <1>3 DEF SignalAll, adapterVars
  <2>2. ~Live'
    BY <2>1 DEF Live, LiveInv, AliveInv
  <2> QED BY <2>1, <2>2 DEF Kept, LiveInv, OpInv
<1>4. CASE UNCHANGED vars
  <2>1. UNCHANGED <<mComponentState, mHandleComp, comp, session, call, cmds, fatal, sem,
                    mEventSignalQ>>
    BY <1>4 DEF vars, adapterVars
  <2>2. OpInv' /\ Live' = Live
    BY <2>1 DEF LiveInv, OpInv, Live
  <2>3. CommandInv' = CommandInv /\ QueueInv' = QueueInv /\ SemInv' = SemInv
    BY <2>1 DEF CommandInv, QueueInv, SemInv, MayLinger, Sent, Registered, Quiet
  <2>4. StateInv' = StateInv /\ AnswerInv' = AnswerInv
    BY <2>1 DEF StateInv, KnownState, Shifting, AnswerInv, Answered, Carried
  <2> QED BY <2>1, <2>2, <2>3, <2>4, Zenon DEF Kept, LiveInv, AliveInv
<1> QED BY <1>1, <1>2, <1>3, <1>4

(* A closed adapter reports no hardware error.                             *)
LEMMA ClosedStep ==
  ASSUME TypeOK, LiveInv, [Next]_vars
  PROVE  session' = "closed" => ~fatal'
<1> USE DEF LiveInv
<1>1. CASE HardwareError
  BY <1>1 DEF HardwareError
<1>2. CASE SignalAll
  BY <1>2 DEF SignalAll
<1>3. ASSUME NEW ok \in BOOLEAN, call.op # NONE, Return(ok)
      PROVE  session' = "closed" => session = "closed"
  <2>1. session' = session \/ session' = NextSession(call.op, ok)
    BY <1>3 DEF Return
  <2> QED BY <2>1 DEF NextSession, OpInv
<1>4. CASE Operation
  BY <1>4 DEF Operation, initialize, UseBuffersPreview, startPreview, stopLoadedPreview,
     stopPreview, getPictureBufferSize, UseBuffersCapture, destructor, adapterVars
<1>5. CASE \/ LockStateSwitch \/ RegisterForEvent \/ WaitSignalled \/ WaitTimesOut
           \/ ResetSemaphore \/ CheckWait \/ Deregister
  BY <1>5 DEF LockStateSwitch, RegisterForEvent, WaitSignalled, WaitTimesOut, ResetSemaphore,
     CheckWait, Deregister, adapterVars
<1>6. ASSUME NEW sent \in BOOLEAN, NEW ok \in BOOLEAN, SendCommand(sent, ok)
      PROVE  session' = "closed" => ~fatal'
  BY <1>6 DEF SendCommand
<1>7. ASSUME NEW ok \in BOOLEAN, InitializeFails(ok)
      PROVE  session' = "closed" => ~fatal'
  BY <1>7 DEF InitializeFails, adapterVars
<1>8. CASE CompleteCommand \/ RejectCommand \/ Destroy \/ UNCHANGED vars
  BY <1>8 DEF CompleteCommand, RejectCommand, Destroy, vars, adapterVars
<1>9. CASE ExchangeFails
  <2>1. fatal' = fatal /\ call.op # NONE
    BY <1>9 DEF ExchangeFails, At
  <2>2. session' = session \/ Return(call.ok \/ call.x \in Ignored)
    BY <1>9, Zenon DEF ExchangeFails
  <2> QED BY <1>3, <2>1, <2>2
<1>10. CASE ExchangeDone
  <2>1. fatal' = fatal /\ call.op # NONE /\ call.x \in Exchanges
    BY <1>10 DEF ExchangeDone, At, TypeOK, Calls
  <2>2. session' = session \/ Return(TRUE)
    BY <1>10 DEF ExchangeDone
  <2> QED BY <1>3, <2>1, <2>2
<1>11. ASSUME NEW ok \in BOOLEAN, QueueBuffers(ok)
       PROVE  session' = "closed" => ~fatal'
  BY <1>3, <1>11 DEF QueueBuffers, At
<1>12. CASE SwitchToLoaded
  BY <1>3, <1>12 DEF SwitchToLoaded, switchToLoaded, At
<1> QED
  BY <1>1, <1>2, <1>4, <1>5, <1>6, <1>7, <1>8, <1>9, <1>10, <1>11, <1>12
     DEF Next, HalStep, Component

LEMMA NextLiveInv == TypeOK /\ HandleInv /\ LiveInv /\ [Next]_vars => LiveInv'
<1> SUFFICES ASSUME TypeOK, HandleInv, LiveInv, [Next]_vars PROVE LiveInv'
  OBVIOUS
<1>1. Kept
  <2>1. CASE Operation
    BY <2>1, OperationKeeps
  <2>2. CASE HalStep
    <3>1. CASE LockStateSwitch
      BY <3>1, LockStateSwitchKeeps
    <3>2. CASE RegisterForEvent
      BY <3>2, RegisterForEventKeeps
    <3>3. ASSUME NEW sent \in BOOLEAN, NEW ok \in BOOLEAN, SendCommand(sent, ok) PROVE Kept
      BY <3>3, SendCommandKeeps
    <3>4. CASE WaitSignalled
      BY <3>4, WaitSignalledKeeps
    <3>5. CASE WaitTimesOut
      BY <3>5, WaitTimesOutKeeps
    <3>6. CASE ResetSemaphore
      BY <3>6, ResetSemaphoreKeeps
    <3>7. CASE CheckWait
      BY <3>7, CheckWaitKeeps
    <3>8. CASE Deregister
      BY <3>8, DeregisterKeeps
    <3>9. CASE ExchangeFails
      BY <3>9, ExchangeFailsKeeps
    <3>10. CASE ExchangeDone
      BY <3>10, ExchangeDoneKeeps
    <3>11. CASE SwitchToLoaded
      BY <3>11, SwitchToLoadedKeeps
    <3>12. CASE Destroy
      BY <3>12, OtherStepsKeep
    <3>13. ASSUME NEW ok \in BOOLEAN, InitializeFails(ok) \/ QueueBuffers(ok) PROVE Kept
      BY <3>13, InitializeFailsKeeps, QueueBuffersKeeps
    <3> QED
      BY <2>2, <3>1, <3>2, <3>3, <3>4, <3>5, <3>6, <3>7, <3>8, <3>9, <3>10, <3>11, <3>12, <3>13
         DEF HalStep
  <2>3. CASE Component
    BY <2>3, CompleteCommandKeeps, RejectCommandKeeps, OtherStepsKeep DEF Component
  <2>4. CASE SignalAll \/ UNCHANGED vars
    BY <2>4, OtherStepsKeep
  <2> QED BY <2>1, <2>2, <2>3, <2>4 DEF Next
<1> QED BY <1>1, ClosedStep DEF Kept, LiveInv

LEMMA InitLiveInv == Init => LiveInv
<1> SUFFICES ASSUME Init PROVE LiveInv
  OBVIOUS
<1>1. call.op = NONE /\ call.at = NONE /\ ~mHandleComp /\ ~fatal
  BY IdleFacts DEF Init
<1> QED BY <1>1 DEF LiveInv, OpInv, Live, NONE

-----------------------------------------------------------------------------
(* An exchange is only made with a handle, and a state that has to be left *)
(* is only known with one.                                                 *)
HoldInv ==
  /\ ~mHandleComp => mComponentState \in {Loaded, Invalid}
  /\ call.op # NONE /\ call.at \notin {"switch", "destroy"} => mHandleComp

LEMMA ReturnHoldInv ==
  ASSUME TypeOK, NEW ok \in BOOLEAN, Return(ok),
         ~mHandleComp' => mComponentState' \in {Loaded, Invalid}
  PROVE  HoldInv'
<1>1. call'.op = NONE \/ call'.at = "destroy"
  BY IdleFacts DEF Return, TypeOK, Calls
<1> QED BY <1>1 DEF HoldInv

LEMMA NextHoldInv == TypeOK /\ HoldInv /\ [Next]_vars => HoldInv'
<1> SUFFICES ASSUME TypeOK, HoldInv, [Next]_vars PROVE HoldInv'
  OBVIOUS
<1> USE DEF Loaded, StateIdle, Executing, Invalid
<1>1. CASE initialize
  BY <1>1 DEF initialize, HoldInv
<1>2. CASE Operation /\ ~initialize
  <2>1. /\ UNCHANGED <<mHandleComp, mComponentState>>
        /\ call' = call \/ mHandleComp \/ call'.at = "switch"
    BY <1>2 DEF Operation, UseBuffersPreview, startPreview, stopLoadedPreview, stopPreview,
       getPictureBufferSize, UseBuffersCapture, destructor, adapterVars, HoldInv
  <2> QED BY <2>1 DEF HoldInv
<1>3. CASE \/ LockStateSwitch \/ RegisterForEvent \/ WaitSignalled \/ WaitTimesOut
           \/ ResetSemaphore \/ CheckWait \/ Deregister
           \/ \E sent, ok \in BOOLEAN : SendCommand(sent, ok)
           \/ \E ok \in BOOLEAN : InitializeFails(ok)
  <2>1. mHandleComp' = mHandleComp /\ mHandleComp
    BY <1>3 DEF LockStateSwitch, RegisterForEvent, WaitSignalled, WaitTimesOut,
       ResetSemaphore, CheckWait, Deregister, SendCommand, InitializeFails, At, adapterVars,
       HoldInv
  <2> QED BY <2>1 DEF HoldInv
<1>4. CASE ExchangeFails
  <2>1. CASE call.x = "stopImage" /\ call.op = "stopPreview" /\ call.ok
    <3>1. call'.at = "switch" /\ UNCHANGED <<mHandleComp, mComponentState>>
      BY <1>4, <2>1 DEF ExchangeFails, TypeOK, Calls
    <3> QED BY <3>1 DEF HoldInv
  <2>2. CASE ~(call.x = "stopImage" /\ call.op = "stopPreview" /\ call.ok)
    <3> DEFINE ok == call.ok \/ call.x \in Ignored
    <3>1. Return(ok) /\ ok \in BOOLEAN
      BY <1>4, <2>2, Zenon DEF ExchangeFails
    <3>2. ~mHandleComp' => mComponentState' \in {Loaded, Invalid}
      BY <1>4 DEF ExchangeFails, performCleanupAfterError, HoldInv
    <3> HIDE DEF ok
    <3> QED BY <3>1, <3>2, ReturnHoldInv
  <2> QED BY <2>1, <2>2
<1>5. CASE ExchangeDone
  <2>1. mHandleComp' = mHandleComp /\ mHandleComp
    BY <1>5 DEF ExchangeDone, At, HoldInv
  <2> QED BY <2>1 DEF HoldInv
<1>6. ASSUME NEW ok \in BOOLEAN, QueueBuffers(ok) PROVE HoldInv'
  <2>1. Return(ok) /\ (~mHandleComp' => mComponentState' \in {Loaded, Invalid})
    BY <1>6 DEF QueueBuffers, performCleanupAfterError, HoldInv
  <2> QED BY <2>1, ReturnHoldInv
<1>7. CASE SwitchToLoaded
  <2>1. CASE mComponentState \in {Loaded, Invalid} \/ sem["mSwitchToLoadedSem"] # 0
    <3>1. Return(TRUE) /\ mComponentState' \in {Loaded, Invalid}
      BY <1>7, <2>1 DEF SwitchToLoaded, switchToLoaded, performCleanupAfterError
    <3> QED BY <3>1, ReturnHoldInv
  <2>2. CASE ~(mComponentState \in {Loaded, Invalid} \/ sem["mSwitchToLoadedSem"] # 0)
    <3>1. mHandleComp' = mHandleComp /\ mHandleComp
      BY <1>7, <2>2 DEF SwitchToLoaded, switchToLoaded, HoldInv
    <3> QED BY <3>1 DEF HoldInv
  <2> QED BY <2>1, <2>2
<1>8. CASE Destroy
  <2>1. call'.op = NONE /\ mComponentState' = Loaded
    BY <1>8, IdleFacts DEF Destroy
  <2> QED BY <2>1 DEF HoldInv
<1>9. CASE Component \/ SignalAll \/ UNCHANGED vars
  <2>1. /\ UNCHANGED <<mHandleComp, call>>
        /\ mComponentState' \in {mComponentState, Invalid}
    BY <1>9 DEF Component, CompleteCommand, RejectCommand, HardwareError, SignalAll, vars,
       adapterVars
  <2> QED BY <2>1 DEF HoldInv
<1> QED
  BY <1>1, <1>2, <1>3, <1>4, <1>5, <1>6, <1>7, <1>8, <1>9 DEF Next, HalStep

(* The invariants in every state; the theorems are their consequences.     *)
LEMMA LiveCorrect == Spec => [](TypeOK /\ LiveInv /\ HoldInv)
<1>1. Init => HandleInv
  BY DEF Init, IdleCall, HandleInv, HandleFreed, Quiet, NONE
<1>2. TypeOK /\ HandleInv /\ [Next]_vars => HandleInv'
  BY NextHandleInv
<1>3. TypeOK /\ HandleInv /\ LiveInv /\ [Next]_vars => LiveInv'
  BY NextLiveInv
<1>4. Init => HoldInv
  BY IdleFacts DEF Init, HoldInv
<1>5. TypeOK /\ HoldInv /\ [Next]_vars => HoldInv'
  BY NextHoldInv
<1> QED BY <1>1, <1>2, <1>3, <1>4, <1>5, InitLiveInv, TypeCorrect, PTL DEF Spec

-----------------------------------------------------------------------------
(* The theorems                                                            *)

(* A wait that ends with a signal ends with the component having done what *)
(* it was asked, for every exchange but the two port disables, whichever   *)
(* registrations match with wildcards and however late an event comes:     *)
(* only port disables can be answered late, no other registration but      *)
(* toLoaded's takes their event, and toIdle was answered before that.      *)
THEOREM AnswersCorrect == Spec => []AnsweredMeansDone
<1>1. TypeOK /\ LiveInv /\ HoldInv => AnsweredMeansDone
  <2> SUFFICES ASSUME TypeOK, LiveInv, HoldInv,
                      At("done"), comp.ok, call.x \notin {"stop", "stopImage"}
               PROVE  Carried(call.x)
    BY DEF AnsweredMeansDone, Carried
  <2>1. Live /\ Answered
    BY DEF Live, HoldInv, At, Answered
  <2> QED BY <2>1 DEF LiveInv, AliveInv, AnswerInv
<1> QED BY <1>1, LiveCorrect, PTL

(* Between operations the adapter's mComponentState is the component's     *)
(* state, although it is assigned before the answer (UseBuffersPreview) or *)
(* two states later (switchToLoaded): no operation that leaves the two     *)
(* apart keeps the handle.                                                 *)
THEOREM StatesAgree == Spec => []StateAgrees
<1>1. TypeOK /\ LiveInv /\ HoldInv => StateAgrees
  BY DEF StateAgrees, Healthy, Quiet, Live, LiveInv, AliveInv, StateInv, Shifting
<1> QED BY <1>1, LiveCorrect, PTL

(* A component that is back in Loaded owes no answer: an event that comes  *)
(* late cannot reach the next session.                                     *)
THEOREM LoadedQuiet == Spec => []LoadedIsQuiet
<1>1. TypeOK /\ LiveInv /\ HoldInv => LoadedIsQuiet
  <2> SUFFICES ASSUME TypeOK, LiveInv, HoldInv, Healthy, mComponentState = Loaded
               PROVE  cmds = <<>>
    BY DEF LoadedIsQuiet
  <2>1. Live /\ call.op = NONE /\ ~Sent
    BY DEF Healthy, Quiet, Live, Sent
  <2>2. ~MayLinger
    BY <2>1 DEF LiveInv, AliveInv, StateInv, KnownState, MayLinger, Quiet, Loaded, Executing
  <2>3. 1..Len(cmds) = {}
    BY <2>1, <2>2 DEF LiveInv, AliveInv, CommandInv
  <2>4. cmds \in Seq(Commands)
    BY DEF TypeOK
  <2>5. cmds # <<>> => Len(cmds) \in Nat \ {0}
    BY <2>4, EmptySeq, Zenon
  <2> QED BY <2>3, <2>5
<1> QED BY <1>1, LiveCorrect, PTL

(* Between operations no semaphore but mStopCaptureSem, which nobody       *)
(* tests, holds a signal that an earlier wait left over, so the Count()    *)
(* checks at the start of the next operation never refuse it.              *)
THEOREM NoSignalLeft == Spec => []SemaphoresClear
<1>1. TypeOK /\ LiveInv /\ HoldInv => SemaphoresClear
  <2> SUFFICES ASSUME TypeOK, LiveInv, Healthy PROVE SemaphoresClear
    BY DEF SemaphoresClear
  <2>1. Live /\ ~Registered
    BY DEF Healthy, Quiet, Live, Registered
  <2> QED BY <2>1 DEF LiveInv, AliveInv, SemInv, SignalsOf, SemaphoresClear
<1> QED BY <1>1, LiveCorrect, PTL
=============================================================================
