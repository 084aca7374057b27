----------------------------- MODULE PolicyGate -----------------------------
(***************************************************************************)
(* Pre-commit policy consultation of one organisation: _consult_policy in  *)
(* api/api-server-v2.py over api/policy_client.py and                      *)
(* api/policy_engine_store.py, with the reference engine of                *)
(* api/at_policy_engine.py, which is served by the same process.           *)
(*                                                                         *)
(* A request is one call of a write path.  approve_delegation,             *)
(* rotate_agent_key and submit_transaction are plain functions, each in a  *)
(* thread; submit_tron_receipt is a coroutine, and what follows its rail   *)
(* check (the consultation's blocking HTTP call included) runs on the      *)
(* event loop without giving it up.                                        *)
(***************************************************************************)
EXTENDS Clock

CONSTANTS Threaded,     \* requests to plain-function endpoints
          Coroutines,   \* requests to submit_tron_receipt
          NoReq,        \* the event loop is free
          Limit         \* RATE_LIMIT_PER_SEC, in one unit of time

Requests == Threaded \cup Coroutines

ASSUME GateAssumption ==
  /\ Limit \in Nat \ {0} /\ MaxTime \in Nat
  /\ NoReq \notin Requests /\ Threaded \cap Coroutines = {}

VARIABLES engine,       \* the active row of policy_engines
          req,          \* the requests
          loop,         \* the coroutine that occupies the event loop
          limiter,      \* the organisation's entry of _rate_limits
          log           \* policy_consultation_log: the decisions logged for each request

gateVars == <<engine, req, loop, limiter, log, now>>

Engines == {"external", "at"}
Answers == {"permit", "deny", "pending_approval", "unavailable"}
NoEntry == [count |-> 0, start |-> MaxTime + 1]

\* url is the engine get_engine returned, seen the entry and the time
\* _check_rate_limit read, answer the decision, from the engine at arrival, open
\* whether an exception of the consultation was swallowed.
New == [pc |-> "queued", url |-> "none", seen |-> NoEntry, at |-> 0,
        answer |-> "none", from |-> "none", open |-> FALSE]

GateInit ==
  /\ engine = "none"
  /\ req = [r \in Requests |-> New]
  /\ loop = NoReq
  /\ limiter = NoEntry
  /\ log = [r \in Requests |-> {}]
  /\ now = 0

\* A request that has its answer gives the event loop back.
Released(r) == IF loop = r THEN NoReq ELSE loop

-----------------------------------------------------------------------------
GateTick ==
  /\ Later
  /\ UNCHANGED <<engine, req, loop, limiter, log>>

\* An engine that changes while a request is on its way is none that the request
\* can be held to.
Forget == [r \in Requests |-> [req[r] EXCEPT !.from = "none"]]

\* register_engine, from either of its two endpoints: coroutines, so they need
\* the event loop.
RegisterEngine(e) ==
  /\ loop = NoReq
  /\ engine # e
  /\ engine' = e
  /\ req' = Forget
  /\ UNCHANGED <<loop, limiter, log, now>>

\* deactivate_engine: back to permit-by-default.
DeactivateEngine ==
  /\ engine # "none"
  /\ engine' = "none"
  /\ req' = Forget
  /\ UNCHANGED <<loop, limiter, log, now>>

\* The handler reaches _consult_policy; without an organisation there is nothing
\* to consult.
Arrive(r, hasOrg) ==
  /\ req[r].pc = "queued"
  /\ r \in Coroutines => loop = NoReq
  /\ loop' = IF r \in Coroutines THEN r ELSE loop
  /\ req' = [req EXCEPT ![r].pc = IF hasOrg THEN "lookup" ELSE "act",
                        ![r].from = IF hasOrg THEN engine ELSE "none",
                        ![r].answer = IF hasOrg THEN "none" ELSE "permit"]
  /\ UNCHANGED <<engine, limiter, log, now>>

\* get_engine.
LookUpEngine(r) ==
  /\ req[r].pc = "lookup"
  /\ req' = [req EXCEPT ![r].url = engine,
                        ![r].pc = IF engine = "none" THEN "log" ELSE "limit",
                        ![r].answer = IF engine = "none" THEN "permit" ELSE "none"]
  /\ UNCHANGED <<engine, loop, limiter, log, now>>

NewWindow(entry, t) == entry = NoEntry \/ t >= entry.start + 1

\* _check_rate_limit up to the entry it reads; a full window refuses.
RateLimitRead(r) ==
  /\ req[r].pc = "limit"
  /\ req' = IF NewWindow(limiter, now) \/ limiter.count < Limit
            THEN [req EXCEPT ![r].pc = "count", ![r].seen = limiter, ![r].at = now]
            ELSE [req EXCEPT ![r].pc = "log", ![r].answer = "unavailable"]
  /\ UNCHANGED <<engine, loop, limiter, log, now>>

\* The entry it writes.
Counted(r) ==
  IF NewWindow(req[r].seen, req[r].at) THEN [count |-> 1, start |-> req[r].at]
  ELSE [req[r].seen EXCEPT !.count = @ + 1]

RateLimitWrite(r) ==
  /\ req[r].pc = "count"
  /\ limiter' = Counted(r)
  /\ req' = [req EXCEPT ![r].pc = "call"]
  /\ UNCHANGED <<engine, loop, log, now>>

\* The engine answers.  The reference engine permits everything, when the event
\* loop it is served by is free.
EngineAnswers(r, d) ==
  /\ req[r].pc = "call"
  /\ req[r].url = "at" => loop = NoReq /\ d = "permit"
  /\ req' = [req EXCEPT ![r].pc = "log", ![r].answer = d]
  /\ UNCHANGED <<engine, loop, limiter, log, now>>

\* Mutant: httpx.Client(timeout=None).
EngineTimeoutNever(r) == FALSE /\ UNCHANGED gateVars

\* ENGINE_TIMEOUT_SECONDS pass.  A free event loop answers within them.
EngineTimeout(r) ==
  /\ req[r].pc = "call"
  /\ req[r].url = "at" => loop # NoReq
  /\ req' = [req EXCEPT ![r].pc = "log", ![r].answer = "unavailable"]
  /\ UNCHANGED <<engine, loop, limiter, log, now>>

\* Mutant: a pending approval goes through.
DecidedPendingActs(r) == IF req[r].answer \in {"permit", "pending_approval"} THEN "act" ELSE "refused"

\* What _consult_policy makes of the decision.
Decided(r) == IF req[r].answer = "permit" THEN "act" ELSE "refused"

\* log_consultation, and the end of the consultation: a decision other than
\* permit ends the request with 403, 202 or 503.
LogConsultation(r) ==
  /\ req[r].pc = "log"
  /\ log' = [log EXCEPT ![r] = @ \cup {req[r].answer}]
  /\ req' = [req EXCEPT ![r].pc = Decided(r)]
  /\ loop' = IF Decided(r) = "refused" THEN Released(r) ELSE loop
  /\ UNCHANGED <<engine, limiter, now>>

\* The database fails the consultation: no connection, no engine row, no log row,
\* or a log row that is committed and cannot be read back.  The exception is
\* swallowed and the request goes on.
InfrastructureFails(r, logged) ==
  /\ req[r].pc \in {"lookup", "log"}
  /\ logged => req[r].pc = "log"
  /\ log' = IF logged THEN [log EXCEPT ![r] = @ \cup {req[r].answer}] ELSE log
  /\ req' = [req EXCEPT ![r].pc = "act", ![r].open = TRUE]
  /\ UNCHANGED <<engine, loop, limiter, now>>

\* The write path commits what was asked for, or finds it impossible.
Act(r, ok) ==
  /\ req[r].pc = "act"
  /\ req' = [req EXCEPT ![r].pc = IF ok THEN "done" ELSE "failed"]
  /\ loop' = Released(r)
  /\ UNCHANGED <<engine, limiter, log, now>>

Advance(r) ==
  \/ \E hasOrg \in BOOLEAN : Arrive(r, hasOrg)
  \/ LookUpEngine(r)
  \/ RateLimitRead(r)
  \/ RateLimitWrite(r)
  \/ \E d \in Answers : EngineAnswers(r, d)
  \/ EngineTimeout(r)
  \/ LogConsultation(r)
  \/ \E ok \in BOOLEAN : Act(r, ok)

GateNext ==
  \/ GateTick
  \/ \E e \in Engines : RegisterEngine(e)
  \/ DeactivateEngine
  \/ \E r \in Requests : Advance(r) \/ \E logged \in BOOLEAN : InfrastructureFails(r, logged)

\* Threads and the event loop run what they have, a call ends by its timeout at
\* the latest; administrators and the database need not do anything.
GateSpec == GateInit /\ [][GateNext]_gateVars /\ \A r \in Requests : WF_gateVars(Advance(r))

-----------------------------------------------------------------------------
GateTypeOK ==
  /\ engine \in Engines \cup {"none"}
  /\ req \in [Requests ->
       [pc: {"queued", "lookup", "limit", "count", "call", "log", "act", "refused", "done", "failed"},
        url: Engines \cup {"none"},
        seen: [count: 0 .. Limit, start: 0 .. MaxTime + 1], at: 0 .. now,
        answer: Answers \cup {"none"}, from: Engines \cup {"none"}, open: BOOLEAN]]
  /\ loop \in Coroutines \cup {NoReq}
  /\ limiter \in [count: 0 .. Limit, start: 0 .. MaxTime + 1]
  /\ log \in [Requests -> SUBSET Answers]
  /\ now \in 0 .. MaxTime

\* "Write paths call the registered engine before committing": an action of an
\* organisation whose engine was registered when the request came in, and not
\* changed since, is carried out only if that engine was asked and permitted it
\* and the permit is in the log, unless the database failed the consultation.  A
\* refused request has its refusal, and nothing else, in the log.
OutcomesAreLogged ==
  \A r \in Requests :
    /\ req[r].pc = "done" /\ req[r].from # "none" /\ ~req[r].open
         => req[r].url = req[r].from /\ log[r] = {"permit"}
    /\ req[r].pc = "refused"
         => log[r] = {req[r].answer} /\ req[r].answer # "permit" /\ loop # r

\* Every request comes to an end, though the reference engine and a coroutine
\* that asks it wait for each other.
RequestsEnd == \A r \in Requests : <>(req[r].pc \in {"done", "failed", "refused"})

=============================================================================
