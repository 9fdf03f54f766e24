----------------------------- MODULE CarrierProxy -----------------------------
(***************************************************************************)
(* Requests for carriers (src/src/binary/carriers/proxy.rs) while the      *)
(* worker of Carriers restarts the sidecar under them.  The accept loop    *)
(* hands each request to a thread of its own, which learns the sidecar's   *)
(* port, sends the request there and sends it again when the sidecar moved.*)
(***************************************************************************)
EXTENDS Carriers, FiniteSets

CONSTANTS
  Client,         \* the requests made
  Wants,          \* the carrier each one names
  MaxConcurrent,  \* MAX_CONCURRENT
  MaxAttempts     \* MAX_ATTEMPTS

\* What a request can be answered.
Answers == {"static", "busy", "notFound", "failed", "starting", "refused", "ok",
            "cutShort", "unanswered"}

ASSUME ProxyAssumption ==
  /\ None \notin Answers
  /\ Wants \in [Client -> Carrier]
  /\ MaxConcurrent \in Nat
  /\ MaxAttempts \in Nat \ {0}

VARIABLES
  rpc,       \* where each request is
  port,      \* the port it was last sent to
  attempts,  \* attempts_left
  at,        \* the process that is running it
  runs,      \* how often a carrier has run for it
  answer,    \* what it was answered
  inFlight   \* CarrierProxy::in_flight

requestVars == <<rpc, port, attempts, at, runs, answer, inFlight>>
proxyVars == <<carrierVars, requestVars>>
butFaults == <<devVars, supervisor, inbox, workerVars, procs>>

ProxyInit ==
  /\ Init
  /\ rpc = [r \in Client |-> "new"]
  /\ port = [r \in Client |-> None]
  /\ attempts = [r \in Client |-> 0]
  /\ at = [r \in Client |-> None]
  /\ runs = [r \in Client |-> 0]
  /\ answer = [r \in Client |-> None]
  /\ inFlight = 0

Step(r, here, next) == rpc[r] = here /\ rpc' = [rpc EXCEPT ![r] = next]

\* STARTUP_GRACE or the client's timeout runs out: a fault, but one that no bound
\* on the others keeps from a request that waits.
Timeout ==
  /\ MaxFaults > 0
  /\ faults' = IF faults < MaxFaults THEN faults + 1 ELSE faults

\* Answered by the accept loop itself, or handed to a thread.
Inline(r, a) ==
  /\ Step(r, "new", "done")
  /\ answer' = [answer EXCEPT ![r] = a]
  /\ UNCHANGED inFlight

\* Slip: the thread is started and not counted.
HandleUncounted(r) ==
  /\ \/ state.is = "Idle" /\ Inline(r, "static")
     \/ state.is # "Idle" /\ inFlight >= MaxConcurrent /\ Inline(r, "busy")
     \/ /\ state.is # "Idle" /\ inFlight < MaxConcurrent
        /\ Step(r, "new", "port")
        /\ UNCHANGED <<answer, inFlight>>
  /\ UNCHANGED <<carrierVars, port, attempts, at, runs>>

\* handle, on the accept loop.
Handle(r) ==
  /\ \/ state.is = "Idle" /\ Inline(r, "static")
     \/ state.is # "Idle" /\ inFlight >= MaxConcurrent /\ Inline(r, "busy")
     \/ /\ state.is # "Idle" /\ inFlight < MaxConcurrent
        /\ Step(r, "new", "port")
        /\ inFlight' = inFlight + 1
        /\ UNCHANGED answer
  /\ UNCHANGED <<carrierVars, port, attempts, at, runs>>

\* Slip: the slot is kept when the answer is an error.
AnswerKeepingSlot(r, here, a) ==
  /\ Step(r, here, "done")
  /\ answer' = [answer EXCEPT ![r] = a]
  /\ at' = [at EXCEPT ![r] = None]
  /\ inFlight' = IF a = "ok" THEN inFlight - 1 ELSE inFlight

\* forward returns, and its thread gives the slot back.
Answer(r, here, a) ==
  /\ Step(r, here, "done")
  /\ answer' = [answer EXCEPT ![r] = a]
  /\ at' = [at EXCEPT ![r] = None]
  /\ inFlight' = inFlight - 1

\* Slip: a failure is waited out like a restart.
ResolveReady(r) ==
  /\ state.is = "Ready"
  /\ Step(r, "port", "send")
  /\ port' = [port EXCEPT ![r] = state.port]
  /\ attempts' = [attempts EXCEPT ![r] = MaxAttempts]
  /\ UNCHANGED <<carrierVars, runs, at, answer, inFlight>>

\* port(): wait while the sidecar is (re)started.  Then the method or the body
\* may be refused.
Resolve(r) ==
  /\ \/ /\ state.is = "Ready"
        /\ Step(r, "port", "send")
        /\ port' = [port EXCEPT ![r] = state.port]
        /\ attempts' = [attempts EXCEPT ![r] = MaxAttempts]
        /\ UNCHANGED <<faults, at, answer, inFlight>>
     \/ /\ \/ state.is = "Ready" /\ Answer(r, "port", "refused")
           \/ state.is = "Idle" /\ Answer(r, "port", "notFound")
           \/ state.is = "Failed" /\ Answer(r, "port", "failed")
        /\ UNCHANGED <<faults, port, attempts>>
     \/ /\ state.is = "Starting" /\ Timeout /\ Answer(r, "port", "starting")
        /\ UNCHANGED <<port, attempts>>
  /\ UNCHANGED <<butFaults, runs>>

Listening(r) == {p \in DOMAIN procs : PortOf(p) = port[r]}

\* The sidecar is there, and answers without running a carrier or starts one.
Run(r) ==
  \E p \in Listening(r) :
    LET pushed == procs[p].pushed IN
    /\ \/ pushed = None /\ Answer(r, "send", "starting") /\ UNCHANGED <<procs, runs>>
       \/ /\ pushed # None /\ Wants[r] \notin pushed.roots
          /\ Answer(r, "send", "notFound")
          /\ UNCHANGED <<procs, runs>>
       \/ /\ pushed # None /\ Wants[r] \in pushed.roots
          /\ Step(r, "send", "running")
          /\ Load(p, Wants[r])
          /\ at' = [at EXCEPT ![r] = p]
          /\ runs' = [runs EXCEPT ![r] = @ + 1]
          /\ UNCHANGED <<answer, inFlight>>
    /\ UNCHANGED <<devVars, faults, supervisor, inbox, workerVars, port, attempts>>

\* The carrier has answered: send() returns, and the body is still to be read.
Respond(r) ==
  /\ at[r] \in DOMAIN procs
  /\ Step(r, "running", "body")
  /\ UNCHANGED <<carrierVars, port, attempts, at, runs, answer, inFlight>>

ReadBody(r) ==
  /\ \/ Answer(r, "body", "ok") /\ UNCHANGED faults
     \/ /\ Answer(r, "body", "cutShort")
        /\ (at[r] \notin DOMAIN procs /\ UNCHANGED faults) \/ Timeout
  /\ UNCHANGED <<butFaults, port, attempts, runs>>

\* send() fails: nobody listens, the process died with the request, or the
\* client's timeout ran out.
SendFails(r) ==
  /\ \/ Listening(r) = {} /\ Step(r, "send", "again") /\ UNCHANGED faults
     \/ /\ Step(r, "running", "again")
        /\ (at[r] \notin DOMAIN procs /\ UNCHANGED faults) \/ Timeout
  /\ at' = [at EXCEPT ![r] = None]
  /\ UNCHANGED <<butFaults, port, attempts, runs, answer, inFlight>>

\* Slip: a port that was asked for once is asked for no more.
RetryNever(r) ==
  /\ state.is # "Starting"
  /\ Answer(r, "again", "unanswered")
  /\ UNCHANGED <<carrierVars, port, attempts, runs>>

\* port() once more: sent again when the sidecar is somewhere else by now.
Retry(r) ==
  /\ IF state.is = "Ready" /\ state.port # port[r] /\ attempts[r] > 1
       THEN /\ Step(r, "again", "send")
            /\ port' = [port EXCEPT ![r] = state.port]
            /\ attempts' = [attempts EXCEPT ![r] = @ - 1]
            /\ UNCHANGED <<faults, at, answer, inFlight>>
       ELSE /\ IF state.is = "Starting" THEN Timeout ELSE UNCHANGED faults
            /\ Answer(r, "again", "unanswered")
            /\ UNCHANGED <<port, attempts>>
  /\ UNCHANGED <<butFaults, runs>>

Forward(r) == Resolve(r) \/ Run(r) \/ Respond(r) \/ ReadBody(r) \/ SendFails(r) \/ Retry(r)

ProxyNext ==
  \/ (DevServer \/ Worker \/ Environment) /\ UNCHANGED requestVars
  \/ \E r \in Client : Handle(r) \/ Forward(r)

ProxySpec == ProxyInit /\ [][ProxyNext]_proxyVars

\* Every thread is scheduled, and a carrier that runs ends or is given up on.
FairProxySpec ==
  /\ ProxySpec
  /\ WF_proxyVars(DevServer /\ UNCHANGED requestVars)
  /\ WF_proxyVars(Worker /\ UNCHANGED requestVars)
  /\ \A r \in Client : WF_proxyVars(Handle(r)) /\ WF_proxyVars(Forward(r))

-----------------------------------------------------------------------------

InForward == {"port", "send", "running", "body", "again"}

\* Type invariant.
ProxyTypeOK ==
  /\ rpc \in [Client -> {"new", "done"} \cup InForward]
  /\ port \in [Client -> Version]
  /\ attempts \in [Client -> 0 .. MaxAttempts]
  /\ at \in [Client -> Version]
  /\ runs \in [Client -> Nat]
  /\ answer \in [Client -> Answers \cup {None}]
  /\ inFlight \in 0 .. MaxConcurrent

\* Edits may restart the sidecar and do nothing worse: no carrier is removed,
\* nothing fails and the dev server runs.  A pinned port hides no restart, as it
\* is the port of every sidecar.
OnlyRestarts == Undisturbed /\ ~Pinned /\ "remove" \notin kinds

\* Restarts are hidden from requests: while carriers are only changed or added,
\* and less often than MAX_ATTEMPTS, no request is told that the sidecar did not
\* answer, however many restarts it meets.
RestartsAreHidden ==
  OnlyRestarts /\ edits < MaxAttempts => \A r \in Client : answer[r] # "unanswered"

\* A carrier runs once for a request, whatever becomes of its sidecar.  The code
\* does not keep this (README, Known departures), so no run checks it.
RunsOnce == \A r \in Client : runs[r] <= 1

\* A request is turned away as one too many only while MAX_CONCURRENT others
\* are really being forwarded: no way out of a request keeps its slot.
BusyOnlyWhenFull ==
  [][\A r \in Client :
       answer'[r] = "busy" /\ answer[r] # "busy" =>
         Cardinality({q \in Client : rpc[q] \in InForward}) >= MaxConcurrent]_proxyVars

\* Every request is answered, though sidecars die, hang or never come up.
RequestsAnswered == \A r \in Client : rpc[r] = "port" ~> rpc[r] = "done"

\* What a request is told is one of the handler's answers, and none is told of
\* a restart.
ProxyIsSound == ProxyTypeOK /\ RestartsAreHidden
==============================================================================
