---------------------------- MODULE DwmIpcProofs ----------------------------
(***************************************************************************)
(* Machine-checked proofs about DwmIpc, for any timeout, any sizes and any *)
(* number of calls.                                                        *)
(***************************************************************************)
EXTENDS DwmIpc, TLAPS

(* Time only passes while recv waits, and every recv of a call, armed with   *)
(* what is left of the deadline, times out at the same moment.               *)
TimeInv ==
  /\ elapsed \in 0..TIMEOUT
  /\ Receiving => wake = TIMEOUT

(* Nothing is in dwm's socket of a call that has not come to its send.       *)
SentInv ==
  /\ sent \subseteq 1..cur
  /\ pc \in {"preflight", "connect", "send"} => cur \in 1..MaxCalls /\ cur \notin sent
  /\ Receiving => cur \in sent

(* Only calls that were sent are carried out; bytes on the wire are of the   *)
(* reply of this very call, and a body is read only after a good header.     *)
ReplyInv ==
  /\ DOMAIN reply \subseteq sent
  /\ unwritten # 0 \/ wire # 0 => cur \in DOMAIN reply
  /\ pc = "body" => cur \in DOMAIN reply /\ HeaderOk(reply[cur])

IInv == TypeOK /\ TimeInv /\ NothingLeftOpen /\ SentInv /\ ReplyInv

(* A reply has a length. *)
LEMMA SizeType == \A r : Size(r) \in Nat
  BY SizeAssumption DEF Size

(* Putting a value of the range into a map leaves it a map. *)
LEMMA PutMap ==
  ASSUME NEW f, NEW K, NEW V, IsMap(f, K, V), NEW k \in K, NEW v \in V
  PROVE  IsMap(Put(f, k, v), K, V) /\ DOMAIN Put(f, k, v) = DOMAIN f \cup {k}
  BY DEF IsMap, Put

(* A body with a good header decodes to what dwm said, or fails. *)
LEMMA DecodeCases ==
  ASSUME NEW r \in Replies, HeaderOk(r)
  PROVE  \/ Decode(r) = r /\ r \in Answers
         \/ Decode(r) \in Failures
<1>1. r \in Answers \cup {"badjson", "deep"}
  BY SizeAssumption DEF HeaderOk, Size, Replies, Answers
<1>2. CASE r = "deep"
  BY <1>2 DEF Decode, Failures
<1>3. CASE r = "badjson"
  BY <1>3 DEF Decode, Failures
<1>4. CASE r \in Answers
  BY <1>4 DEF Decode, Failures, Answers
<1> QED
  BY <1>1, <1>2, <1>3, <1>4

(* In the initial state no call has been made. *)
LEMMA InitIInv == IpcInit => IInv
<1> SUFFICES ASSUME IpcInit PROVE IInv
  OBVIOUS
<1> USE DEF IpcInit, Nothing
<1>1. IsMap(reply, Calls, Replies) /\ IsMap(outcome, Calls, Answers \cup Failures)
  BY DEF IsMap
<1>2. /\ cur \in 0..MaxCalls /\ verb \in Verbs
      /\ open \subseteq Calls /\ sent \subseteq Calls
  BY CallsAssumption DEF Verbs
<1>3. TypeOK
  BY <1>1, <1>2 DEF TypeOK
<1>4. TimeInv /\ NothingLeftOpen /\ SentInv /\ ReplyInv
  BY TimeAssumption DEF TimeInv, NothingLeftOpen, SentInv, ReplyInv, Receiving
<1> QED
  BY <1>3, <1>4 DEF IInv

(* A call under way may end at any point with any outcome of the contract. *)
LEMMA ReturnKeeps ==
  ASSUME IInv, pc # "idle", NEW o \in Answers \cup Failures, Return(o),
         UNCHANGED <<cur, verb, sent, reply, unwritten, shut>>,
         wire' \in Nat, wire' # 0 => wire # 0
  PROVE  IInv'
<1> USE DEF IInv
<1>1. pc' = "idle" /\ elapsed' = 0 /\ open' = open \ {cur} /\ outcome' = Put(outcome, cur, o)
  BY DEF Return, Closed
<1>2. cur \in Calls
  BY DEF TypeOK, SentInv, Receiving, Calls
<1>3. IsMap(outcome', Calls, Answers \cup Failures)
  BY <1>1, <1>2, PutMap DEF TypeOK
<1>4. TypeOK'
  BY <1>1, <1>3 DEF TypeOK
<1>5. TimeInv' /\ NothingLeftOpen'
  BY <1>1, TimeAssumption DEF TimeInv, NothingLeftOpen, Receiving
<1>6. SentInv'
  BY <1>1 DEF SentInv, Receiving
<1>7. ReplyInv'
  BY <1>1 DEF ReplyInv
<1> QED
  BY <1>4, <1>5, <1>6, <1>7

(* The loop of _recvall goes on with a part that is of a legal size. *)
LEMMA AwaitKeeps ==
  ASSUME IInv, Receiving, NEW p \in {"header", "body"}, NEW n, NEW b, Await(p, n, b),
         UNCHANGED <<cur, verb, sent, reply, unwritten, shut>>,
         wire' \in Nat, wire' # 0 => wire # 0,
         p = "header" => n = HDR /\ b \in 0..HDR - 1,
         p = "body" => /\ n \in 1..MAX_REPLY_SIZE /\ b \in 0..n - 1
                       /\ cur \in DOMAIN reply /\ HeaderOk(reply[cur])
  PROVE  IInv'
<1>1. CASE Unavailable
  BY <1>1, ReturnKeeps DEF Unavailable, Failures, Receiving, IInv, TypeOK
<1>2. CASE ~ Unavailable
  <2>1. /\ pc' = p /\ need' = n /\ buf' = b /\ wake' = elapsed + (TIMEOUT - elapsed)
        /\ UNCHANGED <<open, elapsed, outcome>>
    BY <1>2 DEF Await, Budget
  <2>2. TypeOK'
    BY <2>1 DEF IInv, TypeOK
  <2>3. TimeInv'
    BY <2>1, TimeAssumption DEF IInv, TimeInv
  <2>4. NothingLeftOpen' /\ SentInv'
    BY <2>1 DEF IInv, NothingLeftOpen, SentInv, Receiving
  <2>5. ReplyInv'
    BY <2>1 DEF IInv, ReplyInv
  <2> QED
    BY <2>2, <2>3, <2>4, <2>5 DEF IInv
<1> QED
  BY <1>1, <1>2

(* recv returns a chunk of the reply to this call. *)
LEMMA RecvKeeps == IInv /\ Recv => IInv'
<1> SUFFICES ASSUME IInv, Recv PROVE IInv'
  OBVIOUS
<1>1. /\ Receiving /\ pc # "idle"
      /\ UNCHANGED <<cur, verb, sent, reply, unwritten, shut>>
  BY DEF Recv, Receiving
<1>2. PICK k \in 1..wire :
        /\ buf + k <= need
        /\ wire' = wire - k
        /\ IF buf + k < need THEN Await(pc, need, buf + k)
           ELSE IF pc = "body" THEN Return(Decode(reply[cur]))
           ELSE IF HeaderOk(reply[cur]) THEN Await("body", Size(reply[cur]), 0)
           ELSE Unavailable
  BY DEF Recv
<1>3. wire' \in Nat /\ (wire' # 0 => wire # 0) /\ wire # 0
  BY <1>2 DEF IInv, TypeOK
<1>4. cur \in DOMAIN reply /\ reply[cur] \in Replies
  BY <1>3 DEF IInv, ReplyInv, TypeOK, IsMap
<1>5. CASE buf + k < need
  <2>1. pc = "header" => need = HDR /\ buf + k \in 0..HDR - 1
    BY <1>2, <1>5, SizeAssumption DEF IInv, TypeOK
  <2>2. pc = "body" => need \in 1..MAX_REPLY_SIZE /\ buf + k \in 0..need - 1
    BY <1>2, <1>5, SizeAssumption DEF IInv, TypeOK
  <2>3. pc = "body" => HeaderOk(reply[cur])
    BY DEF IInv, ReplyInv
  <2>4. pc \in {"header", "body"} /\ Await(pc, need, buf + k)
    BY <1>1, <1>2, <1>5 DEF Receiving
  <2> QED
    BY <1>1, <1>3, <1>4, <2>1, <2>2, <2>3, <2>4, AwaitKeeps
<1>6. CASE ~ (buf + k < need) /\ pc = "body"
  <2>1. Return(Decode(reply[cur]))
    BY <1>2, <1>6
  <2>2. HeaderOk(reply[cur])
    BY <1>6 DEF IInv, ReplyInv
  <2>3. Decode(reply[cur]) \in Answers \cup Failures
    BY <1>4, <2>2, DecodeCases
  <2> QED
    BY <1>1, <1>3, <2>1, <2>3, ReturnKeeps
<1>7. CASE ~ (buf + k < need) /\ pc # "body" /\ HeaderOk(reply[cur])
  <2>1. Await("body", Size(reply[cur]), 0)
    BY <1>2, <1>7
  <2>2. Size(reply[cur]) \in 1..MAX_REPLY_SIZE
    BY <1>7, SizeType, SizeAssumption DEF HeaderOk
  <2>3. 0 \in 0..Size(reply[cur]) - 1
    BY <2>2, SizeAssumption
  <2> QED
    BY <1>1, <1>3, <1>4, <1>7, <2>1, <2>2, <2>3, AwaitKeeps
<1>8. CASE ~ (buf + k < need) /\ pc # "body" /\ ~ HeaderOk(reply[cur])
  <2>1. Return("unavailable")
    BY <1>2, <1>8 DEF Unavailable
  <2> QED
    BY <1>1, <1>3, <2>1, ReturnKeeps DEF Failures
<1> QED
  BY <1>5, <1>6, <1>7, <1>8

(* The client's steps. *)
LEMMA ClientKeeps == IInv /\ Client => IInv'
<1> SUFFICES ASSUME IInv, Client PROVE IInv'
  OBVIOUS
<1>u. ASSUME pc # "idle", Unavailable, UNCHANGED <<cur, verb, sent, peerVars>> PROVE IInv'
  BY <1>u, ReturnKeeps DEF Unavailable, Failures, peerVars, IInv, TypeOK
<1>1. ASSUME Preflight PROVE IInv'
  <2>1. CASE Unavailable \/ Return("raised")
    BY <1>1, <2>1, ReturnKeeps DEF Preflight, Unavailable, Failures, peerVars, IInv, TypeOK
  <2>2. CASE ~ (Unavailable \/ Return("raised"))
    <3>1. /\ pc = "preflight" /\ pc' = "connect" /\ open' = open \cup {cur}
          /\ UNCHANGED <<buf, need, elapsed, wake, outcome, cur, verb, sent, peerVars>>
      BY <1>1, <2>2 DEF Preflight
    <3>2. TypeOK'
      BY <3>1 DEF IInv, TypeOK, SentInv, peerVars, Calls
    <3>3. TimeInv' /\ NothingLeftOpen' /\ SentInv' /\ ReplyInv'
      BY <3>1 DEF IInv, TimeInv, NothingLeftOpen, SentInv, ReplyInv, Receiving, peerVars
    <3> QED
      BY <3>2, <3>3 DEF IInv
  <2> QED
    BY <2>1, <2>2
<1>2. ASSUME Connect PROVE IInv'
  <2>1. CASE Unavailable
    BY <1>2, <1>u, <2>1 DEF Connect
  <2>2. CASE ~ Unavailable
    <3>1. /\ pc = "connect" /\ pc' = "send" /\ elapsed' = 0
          /\ UNCHANGED <<open, buf, need, wake, outcome, cur, verb, sent, peerVars>>
      BY <1>2, <2>2 DEF Connect
    <3>2. TypeOK'
      BY <3>1 DEF IInv, TypeOK, peerVars
    <3>3. TimeInv' /\ NothingLeftOpen' /\ SentInv' /\ ReplyInv'
      BY <3>1, TimeAssumption
      DEF IInv, TimeInv, NothingLeftOpen, SentInv, ReplyInv, Receiving, peerVars
    <3> QED
      BY <3>2, <3>3 DEF IInv
  <2> QED
    BY <2>1, <2>2
<1>3. ASSUME SendAll PROVE IInv'
  <2>1. CASE shut
    BY <1>3, <1>u, <2>1 DEF SendAll
  <2>2. CASE ~ shut
    <3>1. /\ pc = "send" /\ sent' = sent \cup {cur} /\ pc' = "header"
          /\ need' = HDR /\ buf' = 0 /\ wake' = elapsed + (TIMEOUT - elapsed)
          /\ UNCHANGED <<open, elapsed, outcome, cur, verb, peerVars>>
      BY <1>3, <2>2 DEF SendAll, Budget
    <3>2. TypeOK'
      BY <3>1, SizeAssumption DEF IInv, TypeOK, SentInv, peerVars, Calls
    <3>3. TimeInv'
      BY <3>1, TimeAssumption DEF IInv, TimeInv
    <3>4. SentInv'
      <4>1. cur \in 1..MaxCalls /\ sent \subseteq 1..cur
        BY <3>1 DEF IInv, SentInv
      <4>2. sent \cup {cur} \subseteq 1..cur
        BY <4>1, CallsAssumption
      <4> QED
        BY <3>1, <4>2 DEF SentInv
    <3>5. NothingLeftOpen' /\ ReplyInv'
      BY <3>1 DEF IInv, NothingLeftOpen, ReplyInv, peerVars
    <3> QED
      BY <3>2, <3>3, <3>4, <3>5 DEF IInv
  <2> QED
    BY <2>1, <2>2
<1>4. ASSUME HungUp \/ TimedOut PROVE IInv'
  BY <1>4, <1>u DEF HungUp, TimedOut, Receiving
<1> QED
  BY <1>1, <1>2, <1>3, <1>4, RecvKeeps DEF Client

(* A new call, the peer's steps, and time. *)
LEMMA NextKeeps == IInv /\ [IpcNext]_ipcVars => IInv'
<1> SUFFICES ASSUME IInv, [IpcNext]_ipcVars PROVE IInv'
  OBVIOUS
<1>1. ASSUME NEW v \in Verbs, Begin(v) PROVE IInv'
  <2>1. /\ pc = "idle" /\ cur < MaxCalls /\ pc' = "preflight" /\ cur' = cur + 1
        /\ verb' = v /\ unwritten' = 0 /\ wire' = 0 /\ shut' = FALSE
        /\ UNCHANGED <<open, sent, reply, buf, need, elapsed, wake, outcome>>
    BY <1>1 DEF Begin
  <2>2. cur \in Nat /\ cur + 1 \in 1..MaxCalls /\ cur + 1 \in 0..MaxCalls
    BY <2>1, CallsAssumption DEF IInv, TypeOK
  <2>3. TypeOK'
    BY <2>1, <2>2 DEF IInv, TypeOK
  <2>4. sent \subseteq 1..(cur + 1) /\ cur + 1 \notin sent
    BY <2>2 DEF IInv, SentInv
  <2>5. SentInv'
    BY <2>1, <2>2, <2>4 DEF SentInv, Receiving
  <2>6. TimeInv' /\ NothingLeftOpen' /\ ReplyInv'
    BY <2>1 DEF IInv, TimeInv, NothingLeftOpen, ReplyInv, Receiving
  <2> QED
    BY <2>3, <2>5, <2>6 DEF IInv
<1>2. ASSUME NEW c \in Calls, Handle(c) PROVE IInv'
  <2>1. PICK r \in Replies :
          /\ reply' = Put(reply, c, r)
          /\ unwritten' = IF c \in open /\ ~shut THEN HDR + Size(r) ELSE unwritten
    BY <1>2 DEF Handle
  <2>2. /\ c \in sent \ DOMAIN reply
        /\ UNCHANGED <<pc, cur, verb, open, sent, wire, shut, buf, need, elapsed, wake, outcome>>
    BY <1>2 DEF Handle
  <2>3. IsMap(reply', Calls, Replies) /\ DOMAIN reply' = DOMAIN reply \cup {c}
    <3>1. IsMap(reply, Calls, Replies)
      BY DEF IInv, TypeOK
    <3>2. IsMap(Put(reply, c, r), Calls, Replies) /\ DOMAIN Put(reply, c, r) = DOMAIN reply \cup {c}
      BY <3>1, PutMap
    <3> QED
      BY <2>1, <3>2
  <2>4. \A k \in DOMAIN reply : reply'[k] = reply[k]
    BY <2>1, <2>2 DEF Put
  <2>5. unwritten' \in Nat
    BY <2>1, SizeType, SizeAssumption DEF IInv, TypeOK
  <2>6. TypeOK'
    BY <2>2, <2>3, <2>5 DEF IInv, TypeOK
  <2>7. unwritten' # 0 \/ wire' # 0 => cur \in DOMAIN reply'
    BY <2>1, <2>2, <2>3 DEF IInv, NothingLeftOpen, ReplyInv
  <2>8. ReplyInv'
    BY <2>2, <2>3, <2>4, <2>7 DEF IInv, ReplyInv, HeaderOk
  <2>9. TimeInv' /\ NothingLeftOpen' /\ SentInv'
    BY <2>2 DEF IInv, TimeInv, NothingLeftOpen, SentInv, Receiving
  <2> QED
    BY <2>6, <2>8, <2>9 DEF IInv
<1>3. ASSUME Write PROVE IInv'
  <2>1. PICK k \in 1..unwritten : wire' = wire + k /\ unwritten' = unwritten - k
    BY <1>3 DEF Write
  <2>2. UNCHANGED <<pc, cur, verb, open, sent, reply, shut, buf, need, elapsed, wake, outcome>>
    BY <1>3 DEF Write
  <2>3. wire' \in Nat /\ unwritten' \in Nat /\ unwritten # 0
    BY <2>1 DEF IInv, TypeOK
  <2>4. TypeOK'
    BY <2>2, <2>3 DEF IInv, TypeOK
  <2>5. TimeInv' /\ NothingLeftOpen' /\ SentInv' /\ ReplyInv'
    BY <2>2, <2>3 DEF IInv, TimeInv, NothingLeftOpen, SentInv, ReplyInv, Receiving
  <2> QED
    BY <2>4, <2>5 DEF IInv
<1>4. ASSUME HangUp PROVE IInv'
  <2>1. /\ shut' = TRUE
        /\ UNCHANGED <<pc, cur, verb, open, sent, reply, unwritten, wire, buf, need, elapsed,
                       wake, outcome>>
    BY <1>4 DEF HangUp
  <2>2. TypeOK'
    BY <2>1 DEF IInv, TypeOK
  <2>3. TimeInv' /\ NothingLeftOpen' /\ SentInv' /\ ReplyInv'
    BY <2>1 DEF IInv, TimeInv, NothingLeftOpen, SentInv, ReplyInv, Receiving
  <2> QED
    BY <2>2, <2>3 DEF IInv
<1>5. ASSUME TimePasses PROVE IInv'
  <2>1. /\ Receiving /\ elapsed < wake /\ elapsed' = elapsed + 1
        /\ UNCHANGED <<pc, cur, verb, open, sent, reply, unwritten, wire, shut, buf, need, wake,
                       outcome>>
    BY <1>5 DEF TimePasses, peerVars
  <2>2. TypeOK'
    BY <2>1 DEF IInv, TypeOK
  <2>3. TimeInv'
    BY <2>1, TimeAssumption DEF IInv, TimeInv, Receiving
  <2>4. NothingLeftOpen' /\ SentInv' /\ ReplyInv'
    BY <2>1 DEF IInv, NothingLeftOpen, SentInv, ReplyInv, Receiving
  <2> QED
    BY <2>2, <2>3, <2>4 DEF IInv
<1>6. ASSUME UNCHANGED ipcVars PROVE IInv'
  <2>1. UNCHANGED <<pc, cur, verb, open, sent, reply, unwritten, wire, shut, buf, need, elapsed,
                    wake, outcome>>
    BY <1>6 DEF ipcVars, peerVars
  <2>2. TypeOK'
    BY <2>1 DEF IInv, TypeOK
  <2>3. TimeInv' /\ NothingLeftOpen' /\ SentInv' /\ ReplyInv'
    BY <2>1 DEF IInv, TimeInv, NothingLeftOpen, SentInv, ReplyInv, Receiving
  <2> QED
    BY <2>2, <2>3 DEF IInv
<1> QED
  BY <1>1, <1>2, <1>3, <1>4, <1>5, <1>6, ClientKeeps DEF IpcNext

(* The inductive invariant holds throughout. *)
LEMMA AlwaysIInv == IpcSpec => []IInv
  BY InitIInv, NextKeeps, PTL DEF IpcSpec

(* Whatever the peer sends, every variable keeps its type, and no more than     *)
(* MAX_REPLY_SIZE is ever asked for or buffered.                                *)
THEOREM Typed == IpcSpec => []TypeOK
<1>1. IInv => TypeOK
  BY DEF IInv
<1> QED
  BY <1>1, AlwaysIInv, PTL

(* However the peer paces its bytes, no call waits past its one deadline.       *)
THEOREM DeadlineKept == IpcSpec => []OverInTime
<1>1. IInv => OverInTime
  BY TimeAssumption DEF IInv, TimeInv, OverInTime
<1> QED
  BY <1>1, AlwaysIInv, PTL

(* No way out of a call leaves its socket open.                                 *)
THEOREM SocketsClosed == IpcSpec => []NothingLeftOpen
<1>1. IInv => NothingLeftOpen
  BY DEF IInv
<1> QED
  BY <1>1, AlwaysIInv, PTL

(***************************************************************************)
(* The contract of RoundTrip.                                              *)
(***************************************************************************)
(* What dwm made of a request, as the contract tells it. *)
Verdict(r) == IF r \in Answers THEN r ELSE "garbled"
Step == [Contract!Next]_(Contract!rtVars)

(* The initial states of the client are initial states of the contract. *)
LEMMA ContractInit == IpcInit => Contract!Init
  BY DEF IpcInit, Nothing, Contract!Init

(* A step that leaves alone what the caller and dwm exchange is a stutter. *)
LEMMA Stutter ==
  ASSUME UNCHANGED <<cur, sent, reply, outcome>>, (pc # "idle")' = (pc # "idle")
  PROVE  Step
  BY DEF Step, Contract!rtVars

(* Ending a call under way is a Return of the contract. *)
LEMMA ReturnMaps ==
  ASSUME NEW o, Return(o), pc # "idle", UNCHANGED <<cur, sent, reply>>
  PROVE  Contract!Return(o)
<1>1. pc' = "idle" /\ outcome' = Put(outcome, cur, o)
  BY DEF Return
<1> QED
  BY <1>1 DEF Put, Contract!Return

(* So is failing, at whatever point. *)
LEMMA FailMaps ==
  ASSUME Unavailable \/ \E f \in Failures : Return(f), pc # "idle",
         UNCHANGED <<cur, sent, reply>>
  PROVE  Step
<1>1. PICK f \in Failures : Return(f)
  BY DEF Unavailable, Failures
<1>2. Contract!Return(f)
  BY <1>1, ReturnMaps
<1> QED
  BY <1>2 DEF Failures, Step, Contract!Next, Contract!Fail

(* dwm carries a request out. *)
LEMMA HandleMaps ==
  ASSUME NEW c \in Calls, Handle(c)
  PROVE  Step
<1>1. PICK r \in Replies : reply' = Put(reply, c, r)
  BY DEF Handle
<1>2. c \in sent \ DOMAIN reply /\ UNCHANGED <<pc, cur, sent, outcome>>
  BY DEF Handle
<1>3. Verdict(r) \in Contract!Decisions
  BY DEF Verdict, Contract!Decisions, Contract!Answers, Answers
<1>4. [k \in DOMAIN reply' |-> Verdict(reply'[k])] =
      [k \in DOMAIN reply \cup {c} |-> IF k = c THEN Verdict(r) ELSE Verdict(reply[k])]
  BY <1>1 DEF Put
<1>5. Contract!CarryOut(c)
  BY <1>2, <1>3, <1>4 DEF Contract!CarryOut, Verdict
<1> QED
  BY <1>5 DEF Step, Contract!Next, Contract!Calls, Calls

(* recv returns a chunk: the call goes on, fails, or returns dwm's answer. *)
LEMMA RecvMaps == IInv /\ Recv => Step
<1> SUFFICES ASSUME IInv, Recv PROVE Step
  OBVIOUS
<1>1. pc # "idle" /\ UNCHANGED <<cur, sent, reply>>
  BY DEF Recv, Receiving
<1>2. PICK k \in 1..wire :
        IF buf + k < need THEN Await(pc, need, buf + k)
        ELSE IF pc = "body" THEN Return(Decode(reply[cur]))
        ELSE IF HeaderOk(reply[cur]) THEN Await("body", Size(reply[cur]), 0)
        ELSE Unavailable
  BY DEF Recv
<1>3. ASSUME NEW p \in {"header", "body"}, NEW n, NEW b, Await(p, n, b) PROVE Step
  <2>1. CASE Unavailable
    BY <1>1, <2>1, FailMaps
  <2>2. CASE ~ Unavailable
    BY <1>1, <1>3, <2>2, Stutter DEF Await
  <2> QED
    BY <2>1, <2>2
<1>4. CASE buf + k < need
  BY <1>2, <1>3, <1>4 DEF Recv, Receiving
<1>5. CASE ~ (buf + k < need) /\ pc = "body"
  <2>1. Return(Decode(reply[cur])) /\ cur \in DOMAIN reply
    BY <1>2, <1>5 DEF IInv, ReplyInv
  <2>2. CASE Decode(reply[cur]) \in Failures
    BY <1>1, <2>1, <2>2, FailMaps
  <2>3. CASE Decode(reply[cur]) \notin Failures
    <3>1. Decode(reply[cur]) = reply[cur] /\ reply[cur] \in Answers
      <4>1. HeaderOk(reply[cur]) /\ reply[cur] \in Replies
        BY <1>5, <2>1 DEF IInv, ReplyInv, TypeOK, IsMap
      <4> QED
        BY <2>3, <4>1, DecodeCases
    <3>2. Contract!Return(reply[cur])
      BY <1>1, <2>1, <3>1, ReturnMaps
    <3>3. Contract!Answer
      BY <2>1, <3>1, <3>2 DEF Contract!Answer, Contract!Answers, Answers
    <3> QED
      BY <3>3 DEF Step, Contract!Next
  <2> QED
    BY <2>2, <2>3
<1>6. CASE ~ (buf + k < need) /\ pc # "body" /\ HeaderOk(reply[cur])
  BY <1>2, <1>3, <1>6
<1>7. CASE ~ (buf + k < need) /\ pc # "body" /\ ~ HeaderOk(reply[cur])
  BY <1>1, <1>2, <1>7, FailMaps
<1> QED
  BY <1>4, <1>5, <1>6, <1>7

(* Every step of the client, its peer and time is a step of the contract. *)
LEMMA NextMaps == IInv /\ [IpcNext]_ipcVars => Step
<1> SUFFICES ASSUME IInv, [IpcNext]_ipcVars PROVE Step
  OBVIOUS
<1>1. ASSUME NEW v \in Verbs, Begin(v) PROVE Step
  <2>1. Contract!Begin
    BY <1>1 DEF Begin, Contract!Begin
  <2> QED
    BY <2>1 DEF Step, Contract!Next
<1>2. ASSUME Preflight \/ Connect PROVE Step
  <2>1. pc \notin {"idle"} /\ UNCHANGED <<cur, sent, reply>>
    BY <1>2 DEF Preflight, Connect, peerVars
  <2>2. CASE Unavailable \/ Return("raised")
    BY <2>1, <2>2, FailMaps DEF Failures
  <2>3. CASE ~ (Unavailable \/ Return("raised"))
    BY <1>2, <2>1, <2>3, Stutter DEF Preflight, Connect
  <2> QED
    BY <2>2, <2>3
<1>3. ASSUME SendAll PROVE Step
  <2>1. CASE shut
    BY <1>3, <2>1, FailMaps DEF SendAll, peerVars
  <2>2. CASE ~ shut
    <3>1. /\ pc = "send" /\ sent' = sent \cup {cur} /\ pc' = "header"
          /\ UNCHANGED <<cur, reply, outcome>> /\ cur \notin sent
      BY <1>3, <2>2 DEF SendAll, IInv, SentInv, peerVars
    <3>2. Contract!Send
      BY <3>1 DEF Contract!Send
    <3> QED
      BY <3>2 DEF Step, Contract!Next
  <2> QED
    BY <2>1, <2>2
<1>4. ASSUME HungUp \/ TimedOut PROVE Step
  BY <1>4, FailMaps DEF HungUp, TimedOut, Receiving, peerVars
<1>5. ASSUME Write \/ HangUp \/ TimePasses \/ UNCHANGED ipcVars PROVE Step
  <2>1. UNCHANGED <<pc, cur, sent, reply, outcome>>
    BY <1>5 DEF Write, HangUp, TimePasses, ipcVars, peerVars
  <2> QED
    BY <2>1, Stutter
<1> QED
  BY <1>1, <1>2, <1>3, <1>4, <1>5, RecvMaps, HandleMaps DEF IpcNext, Client

(* The client implements the contract: a call never returns another call's      *)
(* answer, a garbled one or a second decision, and sends its request once.      *)
THEOREM ImplementsContract == IpcSpec => KeepsContract
<1>1. IInv /\ [IpcNext]_ipcVars => [Contract!Next]_(Contract!rtVars)
  BY NextMaps DEF Step
<1> QED
  BY <1>1, ContractInit, AlwaysIInv, PTL DEF IpcSpec, KeepsContract, Contract!Spec
=============================================================================
