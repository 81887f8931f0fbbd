----------------------------- MODULE Oversight -----------------------------
(***************************************************************************)
(* govd's run store and its oversight channel, with exod behind it.        *)
(*                                                                         *)
(*   POST /govern      creates a run: the record enters memory under the   *)
(*                     store lock, ledger.json is written after the lock   *)
(*                     is dropped, the verdict is logged, the client is    *)
(*                     answered.                                           *)
(*   WS /oversight     one thread per session.  A session binds to a run   *)
(*                     and asks for steps.  In cooperative mode govd       *)
(*                     records a grant and later the status the client     *)
(*                     reports.  In delegated mode govd claims the step,   *)
(*                     hands exod a single-use grant, and records the      *)
(*                     status exod signed.                                 *)
(*   exod              one thread; each grant is run at most once; may be  *)
(*                     restarted at any moment.                            *)
(*   restart           govd loses memory, sessions and in-flight claims,   *)
(*                     and reloads what the disk holds.                    *)
(*                                                                         *)
(* Every action is a stretch of code between two points where another      *)
(* thread can run: the lock-protected sections of Store are single steps,  *)
(* a read under one lock and a write under the next are two.               *)
(***************************************************************************)
EXTENDS RunLedger, FiniteSets

CONSTANTS
    Runs,             \* run ids a client may obtain
    NoRun,            \* the run of a session that is bound to none
    Sessions,         \* WebSocket connections (one server thread each)
    NSteps,           \* len(rec["seq"]): the steps of the blessed plan
    DelegatedRuns,    \* runs whose principal's exec_mode is "delegated"
    ServerDelegated,  \* the server-wide exec_mode is "delegated"
    MaxRuns,          \* Store.max_runs: the cap on runs kept in memory
    MaxRequests,      \* bound: step_request and step_result messages
    MaxRestarts       \* bound: restarts of govd

ASSUME OversightAssumption ==
    /\ NoRun \notin Runs
    /\ NSteps \in Nat \ {0}
    /\ DelegatedRuns \subseteq Runs
    /\ ServerDelegated \in BOOLEAN
    /\ MaxRuns \in Nat \ {0}
    /\ MaxRequests \in Nat
    /\ MaxRestarts \in Nat

VARIABLES
    verdict,    \* run -> the decision govern() reached ("none": no claim yet)
    claim,      \* run -> how far the /govern handler got
    resident,   \* the runs in Store.runs
    age,        \* insertion order of Store.runs: <<q, r>> when q is older
    events,     \* run -> rec["events"] of the in-memory record
    files,      \* the runs that have a ledger.json
    mtime,      \* order of the files by modification time
    disk,       \* run -> the events in its ledger.json
    decisions,  \* decisions.jsonl: the runs whose verdict is logged, in order
    inflight,   \* Store._inflight: run -> the steps claimed for execution
    lapsed,     \* runs whose actor or skill no longer passes the step-time ACL
    ses,        \* session -> what its thread is doing
    grants,     \* nonce -> the grant minted with it and what exod did with it
    reqs,       \* messages received so far
    restarts,   \* restarts of govd so far
    acked       \* history: <<run, result>> pairs acknowledged to a client

claimVars == <<verdict, claim, decisions>>
memVars   == <<resident, age, events>>
diskVars  == <<files, mtime, disk>>
vars == <<verdict, claim, resident, age, events, files, mtime, disk, decisions,
          inflight, lapsed, ses, grants, reqs, restarts, acked>>

(* The store treats push_back as it treats reject: one value stands for both. *)
Verdicts == {"allow", "reject"}
Steps    == 1..NSteps
Nonces   == 1..MaxRequests
NoEvent  == [type |-> "granted", step |-> 0, status |-> "none", nonce |-> 0]

(* Where a session's thread stands.  "closed" and "idle" wait for the      *)
(* client; every other place is inside the handler of one message.         *)
Places == {"closed", "idle", "checked", "claiming", "claimed", "dialled",
           "append", "persist", "recorded", "finishing"}

Session == [pc    : Places,
            run   : Runs \cup {NoRun},
            step  : 0..(NSteps + 1),
            ok    : BOOLEAN,             \* what authorize_step answered
            nonce : 0..MaxRequests,      \* the nonce of this message's grant
            held  : BOOLEAN,             \* this thread holds the step's claim
            ev    : Event,               \* the event it is about to append
            snap  : Seq(Event)]          \* the snapshot it is about to persist

Grant == [run : Runs \cup {NoRun}, step : 0..(NSteps + 1),
          st  : {"free", "dialled", "ran", "answered", "lost"},
          answer : {"none", "ok", "error", "refused", "unsigned"},
          ran : BOOLEAN]                 \* the step's command was started

ClosedSession == [pc |-> "closed", run |-> NoRun, step |-> 0, ok |-> FALSE, nonce |-> 0,
                  held |-> FALSE, ev |-> NoEvent, snap |-> <<>>]
FreeGrant == [run |-> NoRun, step |-> 0, st |-> "free", answer |-> "none", ran |-> FALSE]

(* A session back at its receive loop: still bound, nothing else kept.     *)
Idle(s) == [ClosedSession EXCEPT !.pc = "idle", !.run = ses[s].run]

Init ==
    /\ verdict = [r \in Runs |-> "none"]
    /\ claim = [r \in Runs |-> "none"]
    /\ resident = {} /\ age = {}
    /\ events = [r \in Runs |-> <<>>]
    /\ files = {} /\ mtime = {}
    /\ disk = [r \in Runs |-> <<>>]
    /\ decisions = <<>>
    /\ inflight = [r \in Runs |-> {}]
    /\ lapsed = {}
    /\ ses = [s \in Sessions |-> ClosedSession]
    /\ grants = [n \in Nonces |-> FreeGrant]
    /\ reqs = 0 /\ restarts = 0
    /\ acked = {}

-----------------------------------------------------------------------------
(* The in-memory run table.                                                *)

(* The members of S that the cap keeps: those with fewer than MaxRuns      *)
(* members of S after them in the order ord.                               *)
Newest(S, ord) == {r \in S : Cardinality({q \in S : <<r, q>> \in ord}) < MaxRuns}

(* Store.create / Store.remember: insert, then evict the oldest.           *)
Insert(r) ==
    LET all == resident \cup {r}
        ord == age \cup (resident \X {r})
    IN  /\ resident' = Newest(all, ord)
        /\ age' = ord \cap (resident' \X resident')

(* Store._persist: os.replace makes the snapshot the file, now the newest. *)
ReplaceFile(r, snapshot) ==
    /\ disk' = [disk EXCEPT ![r] = snapshot]
    /\ files' = files \cup {r}
    /\ mtime' = {p \in mtime : p[1] # r} \cup ((files \ {r}) \X {r})

-----------------------------------------------------------------------------
(* POST /govern.                                                           *)

(* The verdict is reached and the record enters memory (Store.create for   *)
(* allow, Store.remember for push_back and reject).                        *)
Govern(r, v) ==
    /\ verdict[r] = "none"
    /\ verdict' = [verdict EXCEPT ![r] = v]
    /\ claim' = [claim EXCEPT ![r] = IF v = "allow" THEN "persist" ELSE "log"]
    /\ Insert(r)
    /\ UNCHANGED <<events, files, mtime, disk, decisions, inflight, lapsed, ses,
                   grants, reqs, restarts, acked>>

(* The rest of Store.create: the first ledger.json, outside the lock.      *)
PersistRun(r) ==
    /\ claim[r] = "persist"
    /\ ReplaceFile(r, <<>>)
    /\ claim' = [claim EXCEPT ![r] = "log"]
    /\ UNCHANGED <<verdict, resident, age, events, decisions, inflight, lapsed, ses,
                   grants, reqs, restarts, acked>>

(* That write fails: the OSError ends the handler.  The record stays in    *)
(* memory, but nobody is told its run id.                                  *)
PersistRunFails(r) ==
    /\ claim[r] = "persist"
    /\ claim' = [claim EXCEPT ![r] = "aborted"]
    /\ UNCHANGED <<verdict, resident, age, events, files, mtime, disk, decisions, inflight,
                   lapsed, ses, grants, reqs, restarts, acked>>

(* Store.record_decision, whose OSError is swallowed, then the answer with *)
(* the run's session token.                                                *)
LogDecision(r, written) ==
    /\ claim[r] = "log"
    /\ decisions' = IF written THEN Append(decisions, r) ELSE decisions
    /\ claim' = [claim EXCEPT ![r] = "answered"]
    /\ UNCHANGED <<verdict, resident, age, events, files, mtime, disk, inflight, lapsed,
                   ses, grants, reqs, restarts, acked>>

-----------------------------------------------------------------------------
(* The oversight channel: binding a session.                               *)

(* hello with the run's session token.  Only an answered client knows the  *)
(* run id; a push_back or reject record has no token and matches an empty  *)
(* one.                                                                    *)
Hello(s, r) ==
    /\ ses[s].pc \in {"closed", "idle"}
    /\ r \in resident
    /\ claim[r] = "answered"
    /\ ses' = [ses EXCEPT ![s] = [ClosedSession EXCEPT !.pc = "idle", !.run = r]]
    /\ UNCHANGED <<verdict, claim, resident, age, events, files, mtime, disk, decisions,
                   inflight, lapsed, grants, reqs, restarts, acked>>

(* The client hangs up, or a hello names an unknown run or a wrong token.  *)
Disconnect(s) ==
    /\ ses[s].pc = "idle"
    /\ ses' = [ses EXCEPT ![s] = ClosedSession]
    /\ UNCHANGED <<verdict, claim, resident, age, events, files, mtime, disk, decisions,
                   inflight, lapsed, grants, reqs, restarts, acked>>

(* Authority lapses while a run is under way: the actor's expires_at       *)
(* passes, or the skill's access.json is tightened.                        *)
AuthorityLapses(r) ==
    /\ r \notin lapsed
    /\ verdict[r] = "allow"
    /\ lapsed' = lapsed \cup {r}
    /\ UNCHANGED <<verdict, claim, resident, age, events, files, mtime, disk, decisions,
                   inflight, ses, grants, reqs, restarts, acked>>

-----------------------------------------------------------------------------
(* step_request: the gates.                                                *)

(* Mutants of authorize_step: one of its gates is missing.                 *)
authorize_step_any_step(r, k, planMatches) ==
    /\ r \in resident /\ verdict[r] = "allow" /\ planMatches
    /\ UpstreamOk(events[r], k)
authorize_step_any_order(r, k, planMatches) ==
    r \in resident /\ verdict[r] = "allow" /\ planMatches /\ k \in Steps
authorize_step_any_verdict(r, k, planMatches) ==
    r \in resident /\ planMatches /\ k \in Steps /\ UpstreamOk(events[r], k)

(* authorize_step: the run is known and allowed, the plan hash is the      *)
(* blessed one, the step is declared, and every earlier step has run ok.   *)
authorize_step(r, k, planMatches) ==
    /\ r \in resident
    /\ verdict[r] = "allow"
    /\ planMatches
    /\ k \in Steps
    /\ UpstreamOk(events[r], k)

(* The run's execution mode.  The principal is read from the resident      *)
(* record; without one the server-wide mode applies.                       *)
Delegated(r) == IF r \in resident THEN r \in DelegatedRuns ELSE ServerDelegated

(* A step_request arrives and authorize_step answers.                      *)
StepRequest(s, k, planMatches) ==
    /\ ses[s].pc = "idle"
    /\ reqs < MaxRequests
    /\ reqs' = reqs + 1
    /\ ses' = [ses EXCEPT ![s].pc = "checked", ![s].step = k, ![s].nonce = reqs + 1,
                          ![s].ok = authorize_step(ses[s].run, k, planMatches)]
    /\ UNCHANGED <<claimVars, memVars, diskVars, inflight, lapsed, grants, restarts, acked>>

(* step_reauthorize on the record as it is now.  A run evicted since then  *)
(* has no record, and step_reauthorize lets it pass.                       *)
step_reauthorize(r) == r \in resident => r \notin lapsed

(* The record is read again, the live ACL is applied, and the handler      *)
(* takes the delegated branch, records a grant, or records a refusal.      *)
Reauthorize(s) ==
    LET r  == ses[s].run
        ok == ses[s].ok /\ step_reauthorize(r)
    IN  /\ ses[s].pc = "checked"
        /\ \/ /\ ok /\ Delegated(r)
              /\ ses' = [ses EXCEPT ![s] = IF r \in resident
                                           THEN [@ EXCEPT !.pc = "claiming"]
                                           ELSE Idle(s)]
           \/ /\ ok /\ ~Delegated(r)
              /\ ses' = [ses EXCEPT ![s].pc = "append", ![s].ev = GrantedEvent(ses[s].step)]
           \/ /\ ~ok
              /\ ses' = [ses EXCEPT ![s].pc = "append", ![s].ev = RefusedEvent(ses[s].step)]
        /\ UNCHANGED <<claimVars, memVars, diskVars, inflight, lapsed, grants, reqs,
                       restarts, acked>>

-----------------------------------------------------------------------------
(* step_request: the delegated branch.                                     *)

(* Mutants of Claimable: the done-set or the in-flight set is not read.    *)
Claimable_ignores_done(r, k) == r \in resident /\ k \notin inflight[r]
Claimable_ignores_inflight(r, k) == r \in resident /\ k \notin done_steps(events[r])

(* The condition under which claim_step reserves the step.                 *)
Claimable(r, k) ==
    /\ r \in resident
    /\ k \notin done_steps(events[r])
    /\ k \notin inflight[r]

(* Store.claim_step: reserve the step, or refuse the request.              *)
claim_step(s) ==
    LET r == ses[s].run
        k == ses[s].step
    IN  /\ ses[s].pc = "claiming"
        /\ \/ /\ Claimable(r, k)
              /\ inflight' = [inflight EXCEPT ![r] = @ \cup {k}]
              /\ ses' = [ses EXCEPT ![s].pc = "claimed", ![s].held = TRUE]
           \/ /\ ~Claimable(r, k)
              /\ ses' = [ses EXCEPT ![s] = Idle(s)]
              /\ UNCHANGED inflight
        /\ UNCHANGED <<claimVars, memVars, diskVars, lapsed, grants, reqs, restarts, acked>>

(* Mutant of release_step: the claim is freed only after a recorded result. *)
release_step_on_success(s) ==
    inflight' = IF ses[s].held /\ ses[s].pc = "recorded"
                THEN [inflight EXCEPT ![ses[s].run] = @ \ {ses[s].step}]
                ELSE inflight

(* Store.release_step, for a thread that holds its step's claim.           *)
release_step(s) ==
    inflight' = IF ses[s].held
                THEN [inflight EXCEPT ![ses[s].run] = @ \ {ses[s].step}]
                ELSE inflight

(* The request carries values and the actor's params axis denies them:     *)
(* refused, and the finally clause frees the claim.                        *)
RefuseParams(s) ==
    /\ ses[s].pc = "claimed"
    /\ ses' = [ses EXCEPT ![s] = Idle(s)]
    /\ release_step(s)
    /\ UNCHANGED <<claimVars, memVars, diskVars, lapsed, grants, reqs, restarts, acked>>

(* Staging the run's workspace fails (a full disk): the OSError ends the   *)
(* session, and the finally clause frees the claim.                        *)
StagingFails(s) ==
    /\ ses[s].pc = "claimed"
    /\ ses' = [ses EXCEPT ![s] = ClosedSession]
    /\ release_step(s)
    /\ UNCHANGED <<claimVars, memVars, diskVars, lapsed, grants, reqs, restarts, acked>>

(* delegate.execute_step up to the request on exod's socket: the workspace *)
(* is staged and a grant with a fresh nonce is sent.                       *)
Dial(s) ==
    /\ ses[s].pc = "claimed"
    /\ ses' = [ses EXCEPT ![s].pc = "dialled"]
    /\ grants' = [grants EXCEPT ![ses[s].nonce] =
                     [run |-> ses[s].run, step |-> ses[s].step, st |-> "dialled",
                      answer |-> "none", ran |-> FALSE]]
    /\ UNCHANGED <<claimVars, memVars, diskVars, inflight, lapsed, reqs, restarts, acked>>

(* exod answered: execute_step verifies the envelope, applies the replay   *)
(* guard and picks the event.                                              *)
ReceiveResult(s) ==
    LET n == ses[s].nonce
    IN  /\ ses[s].pc = "dialled"
        /\ grants[n].st = "answered"
        /\ ses' = [ses EXCEPT ![s] =
                     IF n \in result_nonces(events[ses[s].run])
                     THEN [@ EXCEPT !.pc = "finishing"]
                     ELSE [@ EXCEPT !.pc = "append",
                                    !.ev = DelegatedEvent(ses[s].step, grants[n].answer, n)]]
        /\ UNCHANGED <<claimVars, memVars, diskVars, inflight, lapsed, grants, reqs,
                       restarts, acked>>

(* exod cannot be reached, or the connection ends before an answer: the    *)
(* step is refused as exod_unreachable and nothing is recorded.            *)
ExodUnreachable(s) ==
    /\ ses[s].pc = "dialled"
    /\ grants[ses[s].nonce].st = "lost"
    /\ ses' = [ses EXCEPT ![s].pc = "finishing"]
    /\ UNCHANGED <<claimVars, memVars, diskVars, inflight, lapsed, grants, reqs,
                   restarts, acked>>

-----------------------------------------------------------------------------
(* step_result: the cooperative report.                                    *)

(* Mutant of result_acceptable: no grant is asked for.                     *)
result_acceptable_ungranted(r, k, planMatches) ==
    r \in resident /\ planMatches /\ k \notin done_steps(events[r])

(* result_acceptable: it follows a grant for that step and none is         *)
(* recorded yet.                                                           *)
result_acceptable(r, k, planMatches) ==
    /\ r \in resident
    /\ planMatches
    /\ k \in granted_steps(events[r])
    /\ k \notin done_steps(events[r])

(* The client reports a status.  In delegated mode exod is authoritative   *)
(* and the report is refused.                                              *)
StepResult(s, k, status, planMatches) ==
    LET r == ses[s].run
    IN  /\ ses[s].pc = "idle"
        /\ reqs < MaxRequests
        /\ ~Delegated(r)
        /\ result_acceptable(r, k, planMatches)
        /\ reqs' = reqs + 1
        /\ ses' = [ses EXCEPT ![s].pc = "append", ![s].step = k,
                              ![s].ev = ReportedEvent(k, status)]
        /\ UNCHANGED <<claimVars, memVars, diskVars, inflight, lapsed, grants, restarts,
                       acked>>

-----------------------------------------------------------------------------
(* Recording an event, and ending a message.                               *)

(* Store.append under the lock: the event and the snapshot.  A run that is *)
(* no longer resident is left alone.                                       *)
AppendEvent(s) ==
    LET r == ses[s].run
        new == Append(events[r], ses[s].ev)
    IN  /\ ses[s].pc = "append"
        /\ \/ /\ r \in resident
              /\ events' = [events EXCEPT ![r] = new]
              /\ ses' = [ses EXCEPT ![s].pc = "persist", ![s].snap = new]
           \/ /\ r \notin resident
              /\ ses' = [ses EXCEPT ![s].pc = "finishing"]
              /\ UNCHANGED events
        /\ UNCHANGED <<claimVars, resident, age, diskVars, inflight, lapsed, grants, reqs,
                       restarts, acked>>

(* Store.append after the lock: the snapshot replaces ledger.json.         *)
PersistEvent(s) ==
    /\ ses[s].pc = "persist"
    /\ ReplaceFile(ses[s].run, ses[s].snap)
    /\ ses' = [ses EXCEPT ![s].pc = "recorded", ![s].snap = <<>>]
    /\ UNCHANGED <<claimVars, memVars, inflight, lapsed, grants, reqs, restarts, acked>>

(* The write fails (a full disk): the OSError ends the session, and the    *)
(* claim is released on the way out.                                       *)
PersistFails(s) ==
    /\ ses[s].pc = "persist"
    /\ ses' = [ses EXCEPT ![s] = ClosedSession]
    /\ release_step(s)
    /\ UNCHANGED <<claimVars, memVars, diskVars, lapsed, grants, reqs, restarts, acked>>

(* The reply is sent (or the client is gone) and the claim released.       *)
Reply(s, sent) ==
    /\ ses[s].pc \in {"recorded", "finishing"}
    /\ ses' = [ses EXCEPT ![s] = IF sent THEN Idle(s) ELSE ClosedSession]
    /\ release_step(s)
    /\ acked' = IF sent /\ ses[s].pc = "recorded" /\ ses[s].ev.type = "step_result"
                THEN acked \cup {<<ses[s].run, ses[s].ev>>}
                ELSE acked
    /\ UNCHANGED <<claimVars, memVars, diskVars, lapsed, grants, reqs, restarts>>

-----------------------------------------------------------------------------
(* exod.                                                                   *)

(* What run_step can come to: a signed ok or error of a command that ran;  *)
(* a signed refusal by one of its gates; the signed refusal that any       *)
(* exception of the runner becomes, the runner's own timeout on a command  *)
(* that was running included; or an unsigned error for a bad request.      *)
Outcomes == {o \in [answer : {"ok", "error", "refused", "unsigned"}, ran : BOOLEAN] :
                 /\ o.answer \in {"ok", "error"} => o.ran
                 /\ o.answer = "unsigned" => ~o.ran}

(* Exod.serve takes one request at a time and runs it.                     *)
run_step(n, out) ==
    /\ grants[n].st = "dialled"
    /\ \A m \in Nonces : grants[m].st # "ran"
    /\ grants' = [grants EXCEPT ![n].st = "ran", ![n].answer = out.answer, ![n].ran = out.ran]
    /\ UNCHANGED <<claimVars, memVars, diskVars, inflight, lapsed, ses, reqs, restarts, acked>>

(* The answer is written to the connection.                                *)
ExodReply(n) ==
    /\ grants[n].st = "ran"
    /\ grants' = [grants EXCEPT ![n].st = "answered"]
    /\ UNCHANGED <<claimVars, memVars, diskVars, inflight, lapsed, ses, reqs, restarts, acked>>

(* exod goes away (or was not there): every open connection to it ends     *)
(* without an answer, whether or not its step had run.                     *)
ExodRestart ==
    /\ \E n \in Nonces : grants[n].st \in {"dialled", "ran"}
    /\ grants' = [n \in Nonces |-> IF grants[n].st \in {"dialled", "ran"}
                                   THEN [grants[n] EXCEPT !.st = "lost"]
                                   ELSE grants[n]]
    /\ UNCHANGED <<claimVars, memVars, diskVars, inflight, lapsed, ses, reqs, restarts, acked>>

-----------------------------------------------------------------------------
(* govd stops and starts again.                                            *)

(* Store._hydrate, the run table: the newest ledgers up to the cap, then   *)
(* the logged push_backs and rejects, then the cap again.                  *)
Hydrate ==
    LET found    == Newest(files, mtime)
        restored == {r \in Runs \ found : /\ verdict[r] # "allow"
                                          /\ \E i \in DOMAIN decisions : decisions[i] = r}
        logOrder == {p \in restored \X restored :
                        \E i, j \in DOMAIN decisions :
                            i < j /\ decisions[i] = p[1] /\ decisions[j] = p[2]}
        ord      == (mtime \cap (found \X found)) \cup (found \X restored) \cup logOrder
    IN  /\ resident' = Newest(found \cup restored, ord)
        /\ age' = ord \cap (resident' \X resident')

(* Mutant of LoadedEvents: the record comes back without its events.       *)
LoadedEvents_dropped(r) == <<>>

(* Store._hydrate, one record: the events of its file.  A record rebuilt   *)
(* from the decisions log starts with none.                                *)
LoadedEvents(r) == IF r \in files THEN disk[r] ELSE <<>>

(* A crash and the next boot.  Memory, sessions, claims and unanswered     *)
(* /govern requests are gone; the records are what the files hold.         *)
Restart ==
    /\ restarts < MaxRestarts
    /\ restarts' = restarts + 1
    /\ Hydrate
    /\ events' = [r \in Runs |-> LoadedEvents(r)]
    /\ inflight' = [r \in Runs |-> {}]
    /\ ses' = [s \in Sessions |-> ClosedSession]
    /\ claim' = [r \in Runs |-> IF claim[r] \in {"persist", "log"} THEN "aborted" ELSE claim[r]]
    /\ UNCHANGED <<verdict, decisions, diskVars, lapsed, grants, reqs, acked>>

-----------------------------------------------------------------------------
Handler(r) ==
    \/ PersistRun(r) \/ PersistRunFails(r)
    \/ \E written \in BOOLEAN : LogDecision(r, written)

(* What a session's thread does on its own once a message is in.           *)
Thread(s) ==
    \/ Reauthorize(s) \/ claim_step(s) \/ RefuseParams(s) \/ StagingFails(s) \/ Dial(s)
    \/ ReceiveResult(s) \/ ExodUnreachable(s)
    \/ AppendEvent(s) \/ PersistEvent(s) \/ PersistFails(s)
    \/ \E sent \in BOOLEAN : Reply(s, sent)

Exod == \E n \in Nonces : ExodReply(n) \/ \E out \in Outcomes : run_step(n, out)

Client ==
    \/ \E r \in Runs, v \in Verdicts : Govern(r, v)
    \/ \E s \in Sessions, r \in Runs : Hello(s, r)
    \/ \E s \in Sessions : Disconnect(s)
    \/ \E s \in Sessions, k \in 1..(NSteps + 1), p \in BOOLEAN : StepRequest(s, k, p)
    \/ \E s \in Sessions, k \in Steps, st \in {"ok", "error"}, p \in BOOLEAN :
           StepResult(s, k, st, p)

Next ==
    \/ Client
    \/ \E r \in Runs : Handler(r) \/ AuthorityLapses(r)
    \/ \E s \in Sessions : Thread(s)
    \/ Exod
    \/ ExodRestart
    \/ Restart

Spec == Init /\ [][Next]_vars

(* The scheduler runs every handler thread and exod's loop; the runner has *)
(* a timeout, so a step that was started comes to an answer.  Nothing is   *)
(* assumed of clients, crashes and failures.                               *)
Fairness ==
    /\ \A r \in Runs : WF_vars(Handler(r))
    /\ \A s \in Sessions : WF_vars(Thread(s))
    /\ WF_vars(Exod)

FairSpec == Spec /\ Fairness

-----------------------------------------------------------------------------
(* Properties.                                                             *)

TypeOK ==
    /\ verdict \in [Runs -> Verdicts \cup {"none"}]
    /\ claim \in [Runs -> {"none", "persist", "log", "answered", "aborted"}]
    /\ resident \subseteq Runs
    /\ age \subseteq Runs \X Runs
    /\ events \in [Runs -> Seq(Event)]
    /\ files \subseteq Runs
    /\ mtime \subseteq Runs \X Runs
    /\ disk \in [Runs -> Seq(Event)]
    /\ decisions \in Seq(Runs)
    /\ inflight \in [Runs -> SUBSET Steps]
    /\ lapsed \subseteq Runs
    /\ ses \in [Sessions -> Session]
    /\ grants \in [Nonces -> Grant]
    /\ reqs \in 0..MaxRequests
    /\ restarts \in 0..MaxRestarts
    /\ acked \subseteq Runs \X Event

(* No run's ledger, in memory or on disk, holds a grant or a result of a   *)
(* step before ok results of all the steps it depends on, however sessions *)
(* on the run interleave and whatever a restart reloaded (authorize_step's *)
(* order gate is read under one lock and acted on under later ones).       *)
LedgerInOrder == \A r \in Runs : InOrder(events[r]) /\ InOrder(disk[r])

(* A delegated run's ledger holds at most one result per step, in memory   *)
(* and on disk: the claim of claim_step spans the window from its check of *)
(* the done-set to the append of the result.                               *)
DelegatedRecordedOnce ==
    \A r \in DelegatedRuns : RecordedOnce(events[r]) /\ RecordedOnce(disk[r])

(* Each result in a delegated run's ledger is exod's: the grant with its   *)
(* nonce was minted for that run and step, the step was run under it, and  *)
(* the recorded status is the one exod signed.  A status reported by a     *)
(* client never gets there.                                                *)
DelegatedResultAttested ==
    \A r \in DelegatedRuns : \A evs \in {events[r], disk[r]} :
        \A i \in Positions(evs, "step_result") :
            /\ evs[i].nonce \in Nonces
            /\ LET g == grants[evs[i].nonce]
               IN  /\ g.run = r /\ g.step = evs[i].step
                   /\ g.ran /\ g.answer = evs[i].status

(* Two sessions of one govd never hold the same step of the same run at    *)
(* once (claim_step / release_step), so exod is never dialled twice for it *)
(* concurrently.                                                           *)
SingleFlight ==
    \A s, t \in Sessions :
        /\ ses[s].held /\ ses[t].held
        /\ ses[s].run = ses[t].run /\ ses[s].step = ses[t].step
        => s = t

(* A session that still has to dial exod or to append exod's answer has a  *)
(* step with no recorded result: a step that is known to be complete is    *)
(* never handed to exod again.                                             *)
CompletedNeverRedialled ==
    \A s \in Sessions :
        ses[s].held /\ ses[s].pc \in {"claimed", "dialled", "append"}
        => ses[s].step \notin done_steps(events[ses[s].run])

(* What the disk holds of a run, and what a thread is about to write       *)
(* there, is a prefix of the run's in-memory history: a ledger file is     *)
(* never torn, reordered or invented, also across restarts and evictions.  *)
DiskIsPrefix ==
    /\ \A r \in Runs : IsPrefixOf(disk[r], events[r])
    /\ \A s \in Sessions : ses[s].pc = "persist" => IsPrefixOf(ses[s].snap, events[ses[s].run])

(* In cooperative mode a result is only ever recorded after a grant of the *)
(* same step: result_acceptable keeps unsolicited reports out.             *)
CooperativeResultGranted ==
    \A r \in Runs \ DelegatedRuns : ResultsGranted(events[r]) /\ ResultsGranted(disk[r])

(* A run that was pushed back or rejected is inert: a session can bind to  *)
(* its record, but no step of it is ever granted, recorded as run or       *)
(* handed to exod, before or after a restart brings the record back.       *)
NonAllowInert ==
    \A r \in Runs : verdict[r] # "allow" =>
        /\ NothingRan(events[r])
        /\ \A n \in Nonces : grants[n].run # r

(* A claimed step is always released again, on the success path and on     *)
(* every failure path of the delegated branch, so it can be retried or is  *)
(* blocked by its recorded result only.                                    *)
ClaimsAreReleased ==
    \A r \in Runs, k \in Steps : (k \in inflight[r]) ~> (k \notin inflight[r])

(* When at-most-once execution holds: of two grants under which the same   *)
(* step ran, one was answered with a refusal or lost its connection to     *)
(* exod before the answer, or govd itself restarted.  Concurrent sessions, *)
(* evictions, failed writes and retries alone never cause a second run.    *)
ReexecutionExplained ==
    \A m, n \in Nonces :
        /\ m # n /\ grants[m].ran /\ grants[n].ran
        /\ grants[m].run = grants[n].run /\ grants[m].step = grants[n].step
        => \/ restarts > 0
           \/ \E i \in {m, n} : grants[i].st = "lost" \/ grants[i].answer = "refused"

(* What execute_step's comment says of the event it records for a refusal: *)
(* the step never ran.                                                     *)
RefusedNeverRan ==
    \A r \in Runs : \A i \in Positions(events[r], "step_delegation_refused") :
        ~grants[events[r][i].nonce].ran

(* What result_acceptable's docstring says: a result is recorded only if   *)
(* it has not already been recorded.                                       *)
CooperativeRecordedOnce ==
    \A r \in Runs \ DelegatedRuns : RecordedOnce(events[r])

(* No acknowledged step result is lost: what a client was told is recorded *)
(* is in the run's file, from which the next govd resumes.                 *)
AckedIsDurable ==
    \A a \in acked : \E i \in DOMAIN disk[a[1]] : disk[a[1]][i] = a[2]
=============================================================================
