------------------------------- MODULE DwmIpc -------------------------------
(***************************************************************************)
(* The dwm IPC client (dwmipc.py): one framed request and reply per call,  *)
(* over a fresh connection, under one deadline.  The peer, dwm or whatever *)
(* listens on the socket, writes its reply in pieces, late, not at all, or *)
(* hangs up, and may carry out a request its caller has given up on.       *)
(*                                                                         *)
(* Bytes are counted, not spelled out.  connect and the send of a short    *)
(* request on a local socket succeed or fail at once (a full backlog may   *)
(* hold connect up for the timeout, before the deadline is set); time      *)
(* passes only while the client is blocked in recv.                        *)
(***************************************************************************)
EXTENDS Naturals, FiniteSets

CONSTANTS
  TIMEOUT,               \* the timeout of a call, in ticks
  HDR, MAX_REPLY_SIZE,   \* pieces of a header, and of the longest body accepted
  MaxCalls               \* bound on the calls of one behaviour

ASSUME TimeAssumption == TIMEOUT \in Nat \ {0}
ASSUME SizeAssumption == HDR \in Nat \ {0} /\ MAX_REPLY_SIZE \in Nat \ {0}
ASSUME CallsAssumption == MaxCalls \in Nat

Calls == 1..MaxCalls
Verbs == {"run_command", "query"}   \* the verb that returns its reply as it is, and
                                    \* those that validate its shape

(* Replies: well-formed ones, a body of only the terminator, and broken ones; *)
(* one nested too deep makes json.loads raise RecursionError.                 *)
Answers == {"ok", "refused", "null"}
Replies == Answers \cup {"badjson", "deep", "badmagic", "empty", "huge"}
Failures == {"unavailable", "raised"}   \* DwmIpcUnavailable, or another exception
Size(r) == CASE r = "empty" -> 0
             [] r = "null" -> 1
             [] r = "huge" -> MAX_REPLY_SIZE + 1
             [] OTHER -> MAX_REPLY_SIZE

VARIABLES
  pc, cur, verb,         \* where request() is; the number and the verb of the call
  open,                  \* calls whose socket is open at the client
  sent,                  \* calls whose request is in dwm's socket
  reply,                 \* per call carried out: the reply its handler made
  unwritten, wire,       \* of the call's reply: not yet written, written and not yet read
  shut,                  \* the peer has closed this call's connection
  buf, need,             \* pieces in _recvall's buffer, pieces it was asked for
  elapsed, wake,         \* time since the deadline was set; when recv times out
  outcome                \* what the calls returned

peerVars == <<reply, unwritten, wire, shut>>
ipcVars == <<pc, cur, verb, open, sent, peerVars, buf, need, elapsed, wake, outcome>>

Put(f, k, v) == [x \in DOMAIN f \cup {k} |-> IF x = k THEN v ELSE f[x]]
Nothing == [c \in {} |-> "ok"]
Receiving == pc \in {"header", "body"}

(***************************************************************************)
(* The client.                                                             *)
(***************************************************************************)
(* The call is over; `finally` closed the socket. *)
CloseOnConnectFailureForgotten == IF pc = "connect" THEN open ELSE open \ {cur}
Closed == open \ {cur}
Return(o) ==
  /\ pc' = "idle"
  /\ outcome' = Put(outcome, cur, o)
  /\ open' = Closed
  /\ buf' = 0 /\ need' = 0 /\ elapsed' = 0 /\ wake' = 0
Unavailable == Return("unavailable")

Begin(v) ==
  /\ pc = "idle" /\ cur < MaxCalls
  /\ pc' = "preflight" /\ cur' = cur + 1 /\ verb' = v
  /\ unwritten' = 0 /\ wire' = 0 /\ shut' = FALSE
  /\ UNCHANGED <<open, sent, reply, buf, need, elapsed, wake, outcome>>

(* _preflight_socket: no such path, no socket, or another user's; else socket(), *)
(* outside the try (dwmipc.py:310): its OSError, with no descriptor left, gets   *)
(* out as it is.                                                                 *)
Preflight ==
  /\ pc = "preflight"
  /\ \/ Unavailable
     \/ Return("raised")
     \/ /\ pc' = "connect" /\ open' = open \cup {cur}
        /\ UNCHANGED <<buf, need, elapsed, wake, outcome>>
  /\ UNCHANGED <<cur, verb, sent, peerVars>>

(* connect; the deadline is set once it has returned. *)
Connect ==
  /\ pc = "connect"
  /\ \/ Unavailable
     \/ pc' = "send" /\ elapsed' = 0 /\ UNCHANGED <<open, buf, need, wake, outcome>>
  /\ UNCHANGED <<cur, verb, sent, peerVars>>

(* The budget each recv is armed with: what is left of the deadline. *)
BudgetPerRecv == TIMEOUT
Budget == TIMEOUT - elapsed

SendAll ==
  /\ pc = "send"
  /\ \/ shut /\ Unavailable /\ UNCHANGED sent
     \/ /\ ~shut
        /\ sent' = sent \cup {cur}
        /\ pc' = "header" /\ need' = HDR /\ buf' = 0 /\ wake' = elapsed + Budget
        /\ UNCHANGED <<open, elapsed, outcome>>
  /\ UNCHANGED <<cur, verb, peerVars>>

(* parse_header. *)
HeaderUncapped(r) == r # "badmagic" /\ Size(r) # 0
HeaderOk(r) == r # "badmagic" /\ Size(r) # 0 /\ Size(r) <= MAX_REPLY_SIZE

(* decode_reply, and the validator of the verb. *)
DecodeTrusting(r) == CASE r = "deep" -> "raised" [] r = "badjson" -> "null" [] OTHER -> r
Decode(r) ==
  CASE r = "deep" -> "raised"
    [] r = "badjson" \/ (verb = "query" /\ r \in {"refused", "null"}) -> "unavailable"
    [] OTHER -> r

(* The loop of _recvall goes on: out of budget, or the next recv is armed. *)
Await(p, n, b) ==
  \/ /\ Budget <= 0 /\ Unavailable
  \/ /\ Budget > 0
     /\ pc' = p /\ need' = n /\ buf' = b /\ wake' = elapsed + Budget
     /\ UNCHANGED <<open, elapsed, outcome>>

(* recv returns a chunk; the part may be complete with it. *)
Recv ==
  /\ Receiving
  /\ \E k \in 1..wire :
       /\ buf + k <= need
       /\ wire' = wire - k
       /\ IF buf + k < need THEN Await(pc, need, buf + k)
          ELSE IF pc = "body" THEN Return(Decode(reply[cur]))
          ELSE IF HeaderOk(reply[cur]) THEN Await("body", Size(reply[cur]), 0)
          ELSE Unavailable
  /\ UNCHANGED <<cur, verb, sent, reply, unwritten, shut>>

(* recv raises, or returns nothing: hung up or reset. *)
HungUp ==
  /\ Receiving /\ shut
  /\ Unavailable
  /\ UNCHANGED <<cur, verb, sent, peerVars>>

RecvNeverExpires == FALSE
RecvExpires == elapsed >= wake
TimedOut ==
  /\ Receiving /\ RecvExpires
  /\ Unavailable
  /\ UNCHANGED <<cur, verb, sent, peerVars>>

Client == Preflight \/ Connect \/ SendAll \/ Recv \/ HungUp \/ TimedOut

(***************************************************************************)
(* The peer, and time.                                                     *)
(***************************************************************************)
(* A request is carried out, in time or after its caller is gone. *)
Handle(c) ==
  /\ c \in sent \ DOMAIN reply
  /\ \E r \in Replies :
       /\ reply' = Put(reply, c, r)
       /\ unwritten' = IF c \in open /\ ~shut THEN HDR + Size(r) ELSE unwritten
  /\ UNCHANGED <<pc, cur, verb, open, sent, wire, shut, buf, need, elapsed, wake, outcome>>

Write ==
  /\ cur \in open /\ ~shut
  /\ \E k \in 1..unwritten : wire' = wire + k /\ unwritten' = unwritten - k
  /\ UNCHANGED <<pc, cur, verb, open, sent, reply, shut, buf, need, elapsed, wake, outcome>>

HangUp ==
  /\ pc \in {"send", "header", "body"} /\ ~shut
  /\ shut' = TRUE
  /\ UNCHANGED <<pc, cur, verb, open, sent, reply, unwritten, wire, buf, need, elapsed,
                 wake, outcome>>

TimePasses ==
  /\ Receiving /\ wire = 0 /\ ~shut /\ elapsed < wake
  /\ elapsed' = elapsed + 1
  /\ UNCHANGED <<pc, cur, verb, open, sent, peerVars, buf, need, wake, outcome>>

IpcInit ==
  /\ pc = "idle" /\ cur = 0 /\ verb = "query"
  /\ open = {} /\ sent = {}
  /\ reply = Nothing /\ unwritten = 0 /\ wire = 0 /\ shut = FALSE
  /\ buf = 0 /\ need = 0 /\ elapsed = 0 /\ wake = 0
  /\ outcome = Nothing

IpcNext ==
  \/ Client \/ Write \/ HangUp \/ TimePasses
  \/ \E v \in Verbs : Begin(v)
  \/ \E c \in Calls : Handle(c)

(* The calling thread runs and time passes; the peer owes nothing. *)
IpcFairness == WF_ipcVars(Client) /\ WF_ipcVars(TimePasses)

IpcSpec == IpcInit /\ [][IpcNext]_ipcVars

(***************************************************************************)
(* Properties.                                                             *)
(***************************************************************************)
IsMap(f, K, V) == DOMAIN f \subseteq K /\ \A k \in DOMAIN f : f[k] \in V

(* Every variable has its type; no more than MAX_REPLY_SIZE is ever buffered or *)
(* asked for, whatever size a reply announces.                                  *)
TypeOK ==
  /\ pc \in {"idle", "preflight", "connect", "send", "header", "body"}
  /\ cur \in 0..MaxCalls /\ verb \in Verbs
  /\ open \subseteq Calls /\ sent \subseteq Calls
  /\ IsMap(reply, Calls, Replies) /\ IsMap(outcome, Calls, Answers \cup Failures)
  /\ unwritten \in Nat /\ wire \in Nat /\ shut \in BOOLEAN
  /\ pc = "header" => need = HDR /\ buf \in 0..HDR - 1
  /\ pc = "body" => need \in 1..MAX_REPLY_SIZE /\ buf \in 0..need - 1

(* "TOTAL request wall-time is bounded regardless of how the peer paces its     *)
(* bytes" (dwmipc.py:269): a call never blocks past its one deadline.           *)
OverInTime == elapsed <= TIMEOUT

(* On every way out of a call, connect failures and parse errors included, its  *)
(* socket is closed; so a late reply finds nobody to be mistaken by.            *)
NothingLeftOpen == open \subseteq (IF pc \in {"idle", "preflight"} THEN {} ELSE {cur})

(* Every call returns, also from a peer that accepts and then says nothing.     *)
CallReturns == pc # "idle" ~> pc = "idle"

(* The client keeps the contract its callers are written against.               *)
Contract == INSTANCE RoundTrip WITH
  busy <- pc # "idle",
  decided <- [c \in DOMAIN reply |-> IF reply[c] \in Answers THEN reply[c] ELSE "garbled"]
KeepsContract == Contract!Spec
=============================================================================
