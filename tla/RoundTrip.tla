----------------------------- MODULE RoundTrip ------------------------------
(***************************************************************************)
(* What a caller of dwmipc (dwmipc.py) may rely on.  Calls are made one    *)
(* after another.  dwm carries a request out at most once, at some time    *)
(* after it was sent, also after the call has failed.  A call ends with    *)
(* what dwm decided on that very request, or fails, which says nothing of  *)
(* whether the request was or will be carried out.  "Nothing else escapes" *)
(* than DwmIpcUnavailable, says dwmipc.py:302; the contract does not: an   *)
(* OSError of socket() and a RecursionError of json.loads do.              *)
(***************************************************************************)
EXTENDS Naturals

CONSTANT MaxCalls      \* bound on the calls of one behaviour

Calls == 1..MaxCalls
Answers == {"ok", "refused", "null"}
Decisions == Answers \cup {"garbled"}

VARIABLES
  cur, busy,             \* the number of the last call, and whether it is under way
  sent,                  \* calls whose request has left
  decided,               \* what dwm made of the requests it has carried out
  outcome                \* what the finished calls returned

rtVars == <<cur, busy, sent, decided, outcome>>

Init ==
  /\ cur = 0 /\ busy = FALSE /\ sent = {}
  /\ decided = [c \in {} |-> "ok"] /\ outcome = [c \in {} |-> "ok"]

Begin ==
  /\ ~busy /\ cur < MaxCalls
  /\ cur' = cur + 1 /\ busy' = TRUE
  /\ UNCHANGED <<sent, decided, outcome>>

Send ==
  /\ busy /\ cur \notin sent
  /\ sent' = sent \cup {cur}
  /\ UNCHANGED <<cur, busy, decided, outcome>>

CarryOut(c) ==
  /\ c \in sent \ DOMAIN decided
  /\ \E d \in Decisions :
       decided' = [k \in DOMAIN decided \cup {c} |-> IF k = c THEN d ELSE decided[k]]
  /\ UNCHANGED <<cur, busy, sent, outcome>>

Return(o) ==
  /\ busy /\ busy' = FALSE
  /\ outcome' = [k \in DOMAIN outcome \cup {cur} |-> IF k = cur THEN o ELSE outcome[k]]
  /\ UNCHANGED <<cur, sent, decided>>

Answer == cur \in DOMAIN decided /\ decided[cur] \in Answers /\ Return(decided[cur])
Fail == \E f \in {"unavailable", "raised"} : Return(f)

Next == Begin \/ Send \/ Answer \/ Fail \/ \E c \in Calls : CarryOut(c)

Spec == Init /\ [][Next]_rtVars
=============================================================================
