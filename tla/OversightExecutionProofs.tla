---------------------- MODULE OversightExecutionProofs ----------------------
(***************************************************************************)
(* Theorems about delegated execution: whose result a ledger records, and  *)
(* when a step can be executed twice.  Both rest on what SafeInv says of   *)
(* claims and ledgers, and add the life of a grant: its nonce is fresh     *)
(* when it is minted, belongs to one thread, and its answer never changes  *)
(* once it was given.                                                      *)
(***************************************************************************)
EXTENDS OversightProofs

(* What the grants gr and the number of messages rq say of a session x: it *)
(* carries a nonce of its own from the request on, unused until Dial, and  *)
(* the event it is about to append is the answer given under that nonce.   *)
SessionBacked(x, gr, rq) ==
    /\ x.nonce <= rq
    /\ x.pc \in {"closed", "idle"} => x.nonce = 0
    /\ x.pc \in {"checked", "claiming", "claimed"} => gr[x.nonce].st = "free"
    /\ x.held /\ x.pc \in {"dialled", "append"} =>
           /\ x.nonce \in Nonces
           /\ gr[x.nonce].st # "free"
           /\ gr[x.nonce].run = x.run /\ gr[x.nonce].step = x.step
    /\ x.pc = "append" =>
           IF x.held THEN /\ gr[x.nonce].st = "answered"
                          /\ x.ev = DelegatedEvent(x.step, gr[x.nonce].answer, x.nonce)
                     ELSE x.ev.nonce = 0

(* What the grant g of nonce n can be after rq messages.                   *)
GrantSound(n, g, rq) ==
    /\ rq < n => g.st = "free"
    /\ g.st \in {"free", "dialled"} => ~g.ran
    /\ g.st \in {"ran", "answered"} => g.answer # "none"
    /\ g.answer = "unsigned" \/ g.answer = "none" => ~g.ran
    /\ g.answer \in {"ok", "error"} => g.ran
    /\ g.st # "free" => g.run \in Runs

(* An event of run r that carries a nonce is the answer to that grant; a   *)
(* result without one is a client's report, which no delegated run has.    *)
EventBacked(r, e, gr) ==
    \/ e.nonce = 0 /\ (e.type = "step_result" => r \notin DelegatedRuns)
    \/ /\ e.nonce \in Nonces
       /\ gr[e.nonce].st = "answered"
       /\ gr[e.nonce].run = r /\ gr[e.nonce].step = e.step
       /\ gr[e.nonce].answer = e.status
       /\ \/ e.type = "step_result" /\ e.status \in {"ok", "error"}
          \/ e.type = "step_delegation_refused" /\ e.status = "refused"

LedgerBacked(r, evs, gr) == \A i \in 1..Len(evs) : EventBacked(r, evs[i], gr)

SessionsBacked == \A s \in Sessions : SessionBacked(ses[s], grants, reqs)
NoncesOwned    == \A s, t \in Sessions :
                      ses[s].nonce # 0 /\ ses[s].nonce = ses[t].nonce => s = t
GrantsSound    == \A n \in Nonces : GrantSound(n, grants[n], reqs)
LedgersBacked  == \A r \in Runs : LedgerBacked(r, events[r], grants)

AttestInv == SafeInv /\ SessionsBacked /\ NoncesOwned /\ GrantsSound /\ LedgersBacked

(* Where a grant that was handed to exod can stand while govd runs: the    *)
(* thread that dialled still waits for the answer or is about to record    *)
(* it; the step has its result; the run was evicted before the result      *)
(* could be recorded, and nobody else holds the step; or there is no       *)
(* result to record.                                                       *)
Waiting(n, ss) == \E s \in Sessions : /\ ss[s].nonce = n /\ ss[s].held
                                      /\ ss[s].pc \in {"dialled", "append"}
Dropped(n, g, ss, res) ==
    /\ g.run \notin res
    /\ \A t \in Sessions : ss[t].held /\ ss[t].run = g.run /\ ss[t].step = g.step
                           => ss[t].nonce = n
Unrecordable(g) == g.st = "lost" \/ (g.st = "answered" /\ g.answer \in {"refused", "unsigned"})
Followed(n, g, ss, evs, res) ==
    \/ g.st = "free"
    \/ Waiting(n, ss)
    \/ g.st = "answered" /\ (g.step \in done_steps(evs[g.run]) \/ Dropped(n, g, ss, res))
    \/ Unrecordable(g)

GrantsFollowed == \A n \in Nonces : Followed(n, grants[n], ses, events, resident)

(* A grant under which the step ran and whose outcome govd can learn.      *)
Effective(g) == g.ran /\ g.st # "lost" /\ g.answer # "refused"
RunOnce == \A m, n \in Nonces :
    /\ Effective(grants[m]) /\ Effective(grants[n])
    /\ grants[m].run = grants[n].run /\ grants[m].step = grants[n].step
    => m = n

OnceInv == AttestInv /\ (restarts = 0 => GrantsFollowed /\ RunOnce)

-----------------------------------------------------------------------------
(* Lemmas about one session, one grant and one ledger.                     *)

LEMMA AttestFacts ==
    ASSUME AttestInv
    PROVE  /\ ses \in [Sessions -> Session] /\ events \in [Runs -> Seq(Event)]
           /\ grants \in [Nonces -> Grant] /\ reqs \in Nat /\ SafeInv /\ TypeInv
           /\ \A n \in Nonces : n \in Nat /\ n # 0
  <1>1. SafeInv /\ TypeInv
    BY DEF AttestInv, SafeInv
  <1>2. reqs \in Nat
    BY <1>1, OversightAssumption DEF TypeInv, TypeOK
  <1>3. \A n \in Nonces : n \in Nat /\ n # 0
    BY OversightAssumption DEF Nonces
  <1> QED
    BY <1>1, <1>2, <1>3, Facts

LEMMA BackedOf ==
    ASSUME AttestInv, NEW t \in Sessions
    PROVE  /\ SessionBacked(ses[t], grants, reqs) /\ SessionTyped(ses[t])
           /\ ses[t] \in Session /\ ses[t].nonce \in Nat
           /\ SessionSafe(ses[t], verdict, events, inflight)
  <1>1. SafeInv
    BY AttestFacts
  <1>2. SessionSafe(ses[t], verdict, events, inflight)
    BY <1>1, SafeOf
  <1>3. SessionTyped(ses[t]) /\ ses[t] \in Session /\ ses[t].nonce \in Nat
    BY <1>1, InHandler DEF SafeInv, SessionTyped
  <1> QED
    BY <1>2, <1>3 DEF AttestInv, SessionsBacked

(* A thread that is not inside a handler carries no nonce and relies on no *)
(* grant.                                                                  *)
LEMMA RestBacked ==
    ASSUME NEW gr, NEW rq \in Nat, NEW r
    PROVE  /\ SessionBacked(ClosedSession, gr, rq) /\ ClosedSession.nonce = 0
           /\ LET y == [ClosedSession EXCEPT !.pc = "idle", !.run = r]
              IN  SessionBacked(y, gr, rq) /\ y.nonce = 0
  BY DEF SessionBacked, ClosedSession

(* What a thread relies on survives steps that keep its grant's identity,  *)
(* and its content once it is answered.                                    *)
LEMMA BackedCarried ==
    ASSUME NEW x, SessionTyped(x), NEW gr, NEW gr2, NEW rq \in Nat, NEW rq2 \in Nat, rq <= rq2,
           SessionBacked(x, gr, rq),
           x.nonce \in Nonces =>
               /\ gr2[x.nonce].st = "free" <=> gr[x.nonce].st = "free"
               /\ gr2[x.nonce].run = gr[x.nonce].run /\ gr2[x.nonce].step = gr[x.nonce].step
               /\ gr[x.nonce].st = "answered" => gr2[x.nonce] = gr[x.nonce]
    PROVE  SessionBacked(x, gr2, rq2)
  <1>1. x.nonce \in Nat
    BY OversightAssumption DEF SessionTyped, Session
  <1>2. x.nonce <= rq2
    BY <1>1 DEF SessionBacked
  <1> QED
    BY <1>2 DEF SessionBacked, SessionTyped

(* One thread moves on, keeping its nonce, dropping it or taking the next. *)
LEMMA OneBacked ==
    ASSUME AttestInv, NEW s \in Sessions, NEW y, ses' = [ses EXCEPT ![s] = y],
           grants' = grants, reqs' \in Nat, reqs <= reqs', SessionBacked(y, grants, reqs'),
           y.nonce = 0 \/ y.nonce = ses[s].nonce \/ y.nonce = reqs + 1
    PROVE  SessionsBacked' /\ NoncesOwned'
  <1>1. ses'[s] = y /\ \A t \in Sessions \ {s} : ses'[t] = ses[t]
    BY AttestFacts
  <1>2. ASSUME NEW t \in Sessions PROVE SessionBacked(ses'[t], grants, reqs')
    <2>1. CASE t = s
      BY <1>1, <2>1
    <2>2. CASE t # s
      <3>1. SessionBacked(ses[t], grants, reqs')
        BY BackedOf, BackedCarried, AttestFacts
      <3> QED
        BY <1>1, <2>2, <3>1
    <2> QED
      BY <2>1, <2>2
  <1>3. SessionsBacked'
    BY <1>2 DEF SessionsBacked
  <1>4. NoncesOwned'
    <2>1. \A t \in Sessions : ses[t].nonce \in Nat /\ ses[t].nonce <= reqs
      BY BackedOf DEF SessionBacked
    <2>2. reqs \in Nat
      BY AttestFacts
    <2>3. \A t, u \in Sessions : ses[t].nonce # 0 /\ ses[t].nonce = ses[u].nonce => t = u
      BY DEF AttestInv, NoncesOwned
    <2>4. SUFFICES ASSUME NEW t \in Sessions, NEW u \in Sessions, ses'[t].nonce # 0,
                          ses'[t].nonce = ses'[u].nonce, t # u
                   PROVE  FALSE
      BY DEF NoncesOwned
    <2>5. CASE t # s /\ u # s
      BY <1>1, <2>3, <2>4, <2>5
    <2>6. CASE t = s
      BY <1>1, <2>1, <2>2, <2>3, <2>4, <2>6
    <2>7. CASE u = s
      BY <1>1, <2>1, <2>2, <2>3, <2>4, <2>7
    <2> QED
      BY <2>5, <2>6, <2>7
  <1> QED
    BY <1>3, <1>4

(* exod's steps keep the identity of a grant and every answer given.       *)
LEMMA SessionsUnderExod ==
    ASSUME AttestInv, UNCHANGED <<ses, reqs>>,
           \A n \in Nonces : /\ grants'[n].st = "free" <=> grants[n].st = "free"
                             /\ grants'[n].run = grants[n].run /\ grants'[n].step = grants[n].step
                             /\ grants[n].st = "answered" => grants'[n] = grants[n]
    PROVE  SessionsBacked' /\ NoncesOwned'
  <1>1. ASSUME NEW t \in Sessions PROVE SessionBacked(ses[t], grants', reqs)
    <2> DEFINE x == ses[t]
    <2>1. SessionTyped(x) /\ SessionBacked(x, grants, reqs) /\ reqs \in Nat /\ reqs <= reqs
      BY BackedOf, AttestFacts
    <2> HIDE DEF x
    <2>2. SessionBacked(x, grants', reqs)
      BY <2>1, BackedCarried
    <2> QED
      BY <2>2 DEF x
  <1>2. SessionsBacked'
    BY <1>1 DEF SessionsBacked
  <1> QED
    BY <1>2 DEF AttestInv, NoncesOwned

LEMMA LedgersCarried ==
    ASSUME AttestInv, events' = events,
           \A n \in Nonces : grants[n].st = "answered" => grants'[n] = grants[n]
    PROVE  LedgersBacked'
  <1>1. ASSUME NEW r \in Runs, NEW i \in 1..Len(events[r])
        PROVE  EventBacked(r, events[r][i], grants')
    <2>1. EventBacked(r, events[r][i], grants)
      BY DEF AttestInv, LedgersBacked, LedgerBacked
    <2> QED
      BY <2>1 DEF EventBacked
  <1> QED
    BY <1>1 DEF LedgersBacked, LedgerBacked

(* A grant that nobody touches stays sound while messages arrive.          *)
LEMMA GrantsCarried ==
    ASSUME AttestInv, grants' = grants, reqs' \in Nat, reqs <= reqs'
    PROVE  GrantsSound'
  <1>1. \A n \in Nonces : GrantSound(n, grants[n], reqs) /\ n \in Nat /\ reqs \in Nat
    BY AttestFacts DEF AttestInv, GrantsSound
  <1>2. \A n \in Nonces : reqs' < n => reqs < n
    BY <1>1
  <1> QED
    BY <1>1, <1>2 DEF GrantsSound, GrantSound

(* The steps of exod and Dial on one grant.                                *)
LEMMA SoundAfter ==
    ASSUME NEW n \in Nonces, NEW g \in Grant, NEW rq \in Nat, GrantSound(n, g, rq)
    PROVE  /\ \A out \in Outcomes :
                  g.st = "dialled" =>
                      GrantSound(n, [g EXCEPT !.st = "ran", !.answer = out.answer,
                                              !.ran = out.ran], rq)
           /\ g.st = "ran" => GrantSound(n, [g EXCEPT !.st = "answered"], rq)
           /\ g.st \in {"dialled", "ran"} => GrantSound(n, [g EXCEPT !.st = "lost"], rq)
           /\ \A r \in Runs, k \in 0..(NSteps + 1) :
                  n <= rq => GrantSound(n, [run |-> r, step |-> k, st |-> "dialled",
                                            answer |-> "none", ran |-> FALSE], rq)
  <1>1. n \in Nat
    BY DEF Nonces
  <1> HIDE DEF Nonces
  <1>2. ASSUME NEW out \in Outcomes, g.st = "dialled"
        PROVE  GrantSound(n, [g EXCEPT !.st = "ran", !.answer = out.answer, !.ran = out.ran], rq)
    BY <1>2 DEF GrantSound, Outcomes, Grant
  <1>3. g.st = "ran" => GrantSound(n, [g EXCEPT !.st = "answered"], rq)
    BY DEF GrantSound, Grant
  <1>4. g.st \in {"dialled", "ran"} => GrantSound(n, [g EXCEPT !.st = "lost"], rq)
    BY DEF GrantSound, Grant
  <1>5. ASSUME NEW r \in Runs, NEW k \in 0..(NSteps + 1), n <= rq
        PROVE  GrantSound(n, [run |-> r, step |-> k, st |-> "dialled",
                              answer |-> "none", ran |-> FALSE], rq)
    <2>1. ~(rq < n)
      BY <1>1, <1>5
    <2> QED
      BY <2>1 DEF GrantSound
  <1> QED
    BY <1>2, <1>3, <1>4, <1>5

(* What execute_step makes of an answer is backed by the grant it answers. *)
LEMMA AnswerBacked ==
    ASSUME NEW n \in Nonces, NEW gr \in [Nonces -> Grant], NEW k, NEW r,
           gr[n].st = "answered", gr[n].answer # "none", gr[n].run = r, gr[n].step = k
    PROVE  EventBacked(r, DelegatedEvent(k, gr[n].answer, n), gr)
  <1>1. gr[n].answer \in {"ok", "error", "refused", "unsigned"}
    BY DEF Grant
  <1> DEFINE a == gr[n].answer
  <1>2. CASE a = "unsigned"
    BY <1>2 DEF DelegatedEvent, EventBacked
  <1>3. CASE a = "refused"
    BY <1>3 DEF DelegatedEvent, EventBacked
  <1>4. CASE a \in {"ok", "error"}
    <2>1. DelegatedEvent(k, a, n) = [type |-> "step_result", step |-> k, status |-> a, nonce |-> n]
      BY <1>4 DEF DelegatedEvent
    <2> HIDE DEF a
    <2> QED
      BY <1>4, <2>1 DEF EventBacked, a
  <1> QED
    BY <1>1, <1>2, <1>3, <1>4

(* The values a thread moves to, seen from the grants.                     *)
LEMMA MovesBacked ==
    ASSUME NEW x \in Session, NEW gr, NEW rq \in Nat, SessionBacked(x, gr, rq), x.nonce <= rq
    PROVE  /\ x.pc = "checked" => SessionBacked([x EXCEPT !.pc = "claiming"], gr, rq)
           /\ x.pc = "claiming" => SessionBacked([x EXCEPT !.pc = "claimed", !.held = TRUE], gr, rq)
           /\ SessionBacked([x EXCEPT !.pc = "finishing"], gr, rq)
           /\ \A e, k : x.held = FALSE /\ e.nonce = 0 =>
                  /\ SessionBacked([x EXCEPT !.pc = "append", !.ev = e], gr, rq)
                  /\ SessionBacked([x EXCEPT !.pc = "append", !.step = k, !.ev = e], gr, rq)
           /\ x.pc = "dialled" /\ gr[x.nonce].st = "answered" /\ x.held =>
                  SessionBacked([x EXCEPT !.pc = "append",
                                          !.ev = DelegatedEvent(x.step, gr[x.nonce].answer, x.nonce)],
                                gr, rq)
  BY DEF SessionBacked, Session

LEMMA SnapsBacked ==
    ASSUME NEW x \in Session, NEW gr, NEW rq \in Nat, SessionBacked(x, gr, rq), x.nonce <= rq,
           NEW p \in {"persist", "recorded"}, NEW q
    PROVE  LET y == [x EXCEPT !.pc = p, !.snap = q]
           IN  SessionBacked(y, gr, rq) /\ y.nonce = x.nonce
  BY DEF SessionBacked, Session

(* The thread whose step it is keeps its nonce when it moves.              *)
LEMMA MovesNonce ==
    ASSUME NEW x \in Session
    PROVE  /\ [x EXCEPT !.pc = "claiming"].nonce = x.nonce
           /\ [x EXCEPT !.pc = "claimed", !.held = TRUE].nonce = x.nonce
           /\ \A p : [x EXCEPT !.pc = p].nonce = x.nonce
           /\ \A e : [x EXCEPT !.pc = "append", !.ev = e].nonce = x.nonce
           /\ \A e, k : [x EXCEPT !.pc = "append", !.step = k, !.ev = e].nonce = x.nonce
  BY DEF Session

(* Outside the claimed window a thread holds nothing.                      *)
LEMMA NotHeld ==
    ASSUME AttestInv, NEW s \in Sessions, ses[s].pc \in {"closed", "idle", "checked", "claiming"}
    PROVE  ses[s].held = FALSE
  BY BackedOf DEF SessionSafe, HoldingPlaces, Session

-----------------------------------------------------------------------------
(* AttestInv is inductive.                                                 *)

LEMMA AttestInit == Init => AttestInv
  <1> SUFFICES ASSUME Init PROVE AttestInv
    OBVIOUS
  <1>1. SafeInv
    BY SafeInit
  <1>2. SessionsBacked
    BY RestBacked DEF Init, SessionsBacked
  <1>3. NoncesOwned
    BY DEF Init, NoncesOwned, ClosedSession
  <1>4. GrantsSound
    BY DEF Init, GrantsSound, GrantSound, FreeGrant
  <1>5. LedgersBacked
    BY DEF Init, LedgersBacked, LedgerBacked
  <1> QED
    BY <1>1, <1>2, <1>3, <1>4, <1>5 DEF AttestInv

LEMMA AttestStep == AttestInv /\ [Next]_vars => AttestInv'
<1> SUFFICES ASSUME AttestInv, [Next]_vars PROVE AttestInv'
  OBVIOUS
<1>s. SafeInv'
  BY SafeStep DEF AttestInv
<1>f. reqs \in Nat /\ grants \in [Nonces -> Grant] /\ ses \in [Sessions -> Session]
      /\ events \in [Runs -> Seq(Event)] /\ reqs <= reqs
  BY AttestFacts
<1>1. ASSUME UNCHANGED <<ses, grants, reqs, events>> PROVE AttestInv'
  BY <1>1, <1>s DEF AttestInv, SessionsBacked, NoncesOwned, GrantsSound, LedgersBacked
<1>2. ASSUME NEW s \in Sessions, NEW y, ses' = [ses EXCEPT ![s] = y],
             UNCHANGED <<grants, events>>, reqs' \in Nat, reqs <= reqs',
             SessionBacked(y, grants, reqs'),
             y.nonce = 0 \/ y.nonce = ses[s].nonce \/ y.nonce = reqs + 1
      PROVE  AttestInv'
  <2>1. SessionsBacked' /\ NoncesOwned'
    BY <1>2, OneBacked
  <2>2. GrantsSound' /\ LedgersBacked'
    BY <1>2, GrantsCarried, LedgersCarried
  <2> QED
    BY <2>1, <2>2, <1>s DEF AttestInv
<1>3. ASSUME UNCHANGED <<ses, reqs, events>>, GrantsSound',
             \A n \in Nonces : /\ grants'[n].st = "free" <=> grants[n].st = "free"
                               /\ grants'[n].run = grants[n].run /\ grants'[n].step = grants[n].step
                               /\ grants[n].st = "answered" => grants'[n] = grants[n]
      PROVE  AttestInv'
  <2>1. SessionsBacked' /\ NoncesOwned'
    BY <1>3, SessionsUnderExod
  <2>2. LedgersBacked'
    BY <1>3, LedgersCarried
  <2> QED
    BY <1>3, <2>1, <2>2, <1>s DEF AttestInv
<1>4. ASSUME NEW s \in Sessions,
             \/ ses' = [ses EXCEPT ![s] = ClosedSession]
             \/ ses' = [ses EXCEPT ![s] = Idle(s)]
             \/ \E r \in Runs : ses' = [ses EXCEPT ![s] = [ClosedSession EXCEPT !.pc = "idle", !.run = r]],
             UNCHANGED <<grants, events, reqs>>
      PROVE  AttestInv'
  <2>1. PICK y : /\ ses' = [ses EXCEPT ![s] = y]
                 /\ SessionBacked(y, grants, reqs) /\ y.nonce = 0
    BY <1>4, <1>f, RestBacked DEF Idle
  <2> QED
    BY <1>2, <1>4, <1>f, <2>1
<1>5. ASSUME NEW r \in Runs,
             \/ \E v \in Verdicts : Govern(r, v)
             \/ PersistRun(r) \/ PersistRunFails(r) \/ AuthorityLapses(r)
             \/ \E written \in BOOLEAN : LogDecision(r, written)
      PROVE  AttestInv'
  BY <1>1, <1>5 DEF Govern, PersistRun, PersistRunFails, AuthorityLapses, LogDecision
<1>6. ASSUME NEW s \in Sessions,
             \/ \E r \in Runs : Hello(s, r)
             \/ Disconnect(s) \/ RefuseParams(s) \/ StagingFails(s) \/ PersistFails(s)
             \/ \E sent \in BOOLEAN : Reply(s, sent)
      PROVE  AttestInv'
  <2>1. CASE \E r \in Runs : Hello(s, r)
    BY <1>4, <2>1 DEF Hello
  <2>2. CASE Disconnect(s)
    BY <1>4, <2>2 DEF Disconnect
  <2>3. CASE RefuseParams(s) \/ StagingFails(s) \/ PersistFails(s)
    BY <1>4, <2>3 DEF RefuseParams, StagingFails, PersistFails, memVars
  <2>4. CASE \E sent \in BOOLEAN : Reply(s, sent)
    BY <1>4, <2>4 DEF Reply, memVars
  <2> QED
    BY <1>6, <2>1, <2>2, <2>3, <2>4
<1>7. ASSUME NEW s \in Sessions, NEW k \in 1..(NSteps + 1), NEW p \in BOOLEAN, StepRequest(s, k, p)
      PROVE  AttestInv'
  <2> DEFINE x  == ses[s]
             ok == authorize_step(x.run, k, p)
             n  == reqs + 1
             y  == [x EXCEPT !.pc = "checked", !.step = k, !.nonce = n, !.ok = ok]
  <2>1. /\ ses' = [ses EXCEPT ![s] = y] /\ UNCHANGED <<grants, events>>
        /\ reqs' = n /\ reqs < MaxRequests
    BY <1>7 DEF StepRequest, memVars
  <2>2. n \in Nonces /\ n \in Nat /\ reqs <= n /\ reqs < n
    BY <1>f, <2>1, OversightAssumption DEF Nonces
  <2>3. grants[n].st = "free"
    BY <2>2 DEF AttestInv, GrantsSound, GrantSound
  <2>4. x \in Session /\ x.held = FALSE
    BY <1>7, <1>f, NotHeld DEF StepRequest
  <2> HIDE DEF x, n, ok
  <2>5. SessionBacked(y, grants, n) /\ y.nonce = n
    BY <2>2, <2>3, <2>4 DEF SessionBacked, Session
  <2> HIDE DEF y
  <2> QED
    BY <1>2, <2>1, <2>2, <2>5 DEF n
<1>8. ASSUME NEW s \in Sessions, Reauthorize(s) PROVE AttestInv'
  <2> DEFINE x == ses[s]
  <2>1. UNCHANGED <<grants, events, reqs>>
    BY <1>8 DEF Reauthorize, memVars
  <2>2. /\ x \in Session /\ x.pc = "checked" /\ x.held = FALSE
        /\ SessionBacked(x, grants, reqs) /\ x.nonce <= reqs
    BY <1>8, BackedOf, NotHeld DEF Reauthorize, SessionBacked
  <2>3. GrantedEvent(x.step).nonce = 0 /\ RefusedEvent(x.step).nonce = 0
    BY DEF GrantedEvent, RefusedEvent
  <2>4. \/ ses' = [ses EXCEPT ![s] = [x EXCEPT !.pc = "claiming"]]
        \/ ses' = [ses EXCEPT ![s] = Idle(s)]
        \/ \E e : e.nonce = 0 /\ ses' = [ses EXCEPT ![s] = [x EXCEPT !.pc = "append", !.ev = e]]
    BY <1>8, <2>3 DEF Reauthorize
  <2>5. CASE ses' = [ses EXCEPT ![s] = Idle(s)]
    BY <1>4, <2>1, <2>5
  <2>6. CASE ses' = [ses EXCEPT ![s] = [x EXCEPT !.pc = "claiming"]]
    <3> DEFINE y == [x EXCEPT !.pc = "claiming"]
    <3>1. SessionBacked(y, grants, reqs) /\ y.nonce = x.nonce
      <4> HIDE DEF x
      <4> QED
        BY <1>f, <2>2, MovesBacked, MovesNonce
    <3>2. ses' = [ses EXCEPT ![s] = y]
      BY <2>6
    <3> HIDE DEF y
    <3> QED
      BY <1>2, <1>f, <2>1, <3>1, <3>2
  <2>7. ASSUME NEW e, e.nonce = 0, ses' = [ses EXCEPT ![s] = [x EXCEPT !.pc = "append", !.ev = e]]
        PROVE  AttestInv'
    <3> DEFINE y == [x EXCEPT !.pc = "append", !.ev = e]
    <3>1. SessionBacked(y, grants, reqs) /\ y.nonce = x.nonce
      <4> HIDE DEF x
      <4> QED
        BY <1>f, <2>2, <2>7, MovesBacked, MovesNonce
    <3>2. ses' = [ses EXCEPT ![s] = y]
      BY <2>7
    <3> HIDE DEF y
    <3> QED
      BY <1>2, <1>f, <2>1, <3>1, <3>2
  <2> QED
    BY <2>4, <2>5, <2>6, <2>7
<1>9. ASSUME NEW s \in Sessions, claim_step(s) PROVE AttestInv'
  <2> DEFINE x == ses[s]
             y == [x EXCEPT !.pc = "claimed", !.held = TRUE]
  <2>1. UNCHANGED <<grants, events, reqs>>
    BY <1>9 DEF claim_step, memVars
  <2>2. /\ x \in Session /\ x.pc = "claiming"
        /\ SessionBacked(x, grants, reqs) /\ x.nonce <= reqs
    BY <1>9, BackedOf DEF claim_step, SessionBacked
  <2>3. ses' = [ses EXCEPT ![s] = Idle(s)] \/ ses' = [ses EXCEPT ![s] = y]
    BY <1>9 DEF claim_step
  <2>4. SessionBacked(y, grants, reqs) /\ y.nonce = x.nonce
    <3> HIDE DEF x
    <3> QED
      BY <1>f, <2>2, MovesBacked, MovesNonce
  <2> HIDE DEF y
  <2> QED
    BY <1>2, <1>4, <1>f, <2>1, <2>3, <2>4
<1>10. ASSUME NEW s \in Sessions, Dial(s) PROVE AttestInv'
  <2> DEFINE x == ses[s]
             n == x.nonce
             g == [run |-> x.run, step |-> x.step, st |-> "dialled", answer |-> "none", ran |-> FALSE]
             y == [x EXCEPT !.pc = "dialled"]
  <2>1. /\ ses' = [ses EXCEPT ![s] = y] /\ grants' = [grants EXCEPT ![n] = g]
        /\ UNCHANGED <<events, reqs>>
    BY <1>10 DEF Dial, memVars
  <2>2. /\ x \in Session /\ x.pc = "claimed" /\ SessionTyped(x)
        /\ SessionBacked(x, grants, reqs) /\ n <= reqs
    BY <1>10, BackedOf DEF Dial, SessionBacked
  <2>3. n \in Nonces /\ x.run \in Runs /\ x.step \in 0..(NSteps + 1) /\ grants[n].st = "free"
    BY <2>2 DEF SessionTyped, SessionBacked, Session
  <2>4. n \in Nat /\ n # 0
    BY <2>3, AttestFacts
  <2>5. grants'[n] = g /\ \A m \in Nonces \ {n} : grants'[m] = grants[m]
    BY <1>f, <2>1, <2>3
  <2>6. \A t \in Sessions \ {s} : ses'[t] = ses[t] /\ ses[t].nonce # n
    BY <1>f, <2>1, <2>4 DEF AttestInv, NoncesOwned
  <2>7. ses'[s] = y /\ y.nonce = n
    BY <1>f, <2>1, <2>2 DEF Session
  <2>8. SessionsBacked'
    <3>1. SessionBacked(y, grants', reqs)
      <4>1. g.st = "dialled" /\ g.run = x.run /\ g.step = x.step
        OBVIOUS
      <4>2. /\ y.run = x.run /\ y.step = x.step /\ y.pc = "dialled"
        BY <2>2 DEF Session
      <4> HIDE DEF x, g, y, n
      <4> QED
        BY <2>2, <2>3, <2>5, <2>7, <4>1, <4>2 DEF SessionBacked
    <3>2. ASSUME NEW t \in Sessions, t # s PROVE SessionBacked(ses[t], grants', reqs)
      <4> DEFINE w == ses[t]
      <4>1. SessionTyped(w) /\ SessionBacked(w, grants, reqs)
        BY BackedOf
      <4>2. w.nonce \in Nonces => grants'[w.nonce] = grants[w.nonce]
        BY <2>5, <2>6, <3>2
      <4> HIDE DEF w
      <4>3. SessionBacked(w, grants', reqs)
        BY <1>f, <4>1, <4>2, BackedCarried
      <4> QED
        BY <4>3 DEF w
    <3>3. \A t \in Sessions : SessionBacked(ses'[t], grants', reqs)
      BY <2>6, <2>7, <3>1, <3>2
    <3> QED
      BY <2>1, <3>3 DEF SessionsBacked
  <2>9. NoncesOwned'
    <3>1. \A t \in Sessions : ses'[t].nonce = ses[t].nonce
      BY <2>6, <2>7
    <3> QED
      BY <3>1 DEF AttestInv, NoncesOwned
  <2>10. GrantsSound'
    <3>1. GrantSound(n, grants[n], reqs) /\ grants[n] \in Grant
      BY <1>f, <2>3 DEF AttestInv, GrantsSound
    <3>2. GrantSound(n, g, reqs)
      <4> HIDE DEF x, n
      <4> QED
        BY <1>f, <2>2, <2>3, <3>1, SoundAfter
    <3>3. \A m \in Nonces : GrantSound(m, grants'[m], reqs)
      BY <2>5, <3>2 DEF AttestInv, GrantsSound
    <3> QED
      BY <2>1, <3>3 DEF GrantsSound
  <2>11. LedgersBacked'
    <3>1. \A m \in Nonces : grants[m].st = "answered" => grants'[m] = grants[m]
      BY <2>3, <2>5
    <3> QED
      BY <2>1, <3>1, LedgersCarried
  <2> QED
    BY <2>8, <2>9, <2>10, <2>11, <1>s DEF AttestInv
<1>11. ASSUME NEW s \in Sessions, ReceiveResult(s) \/ ExodUnreachable(s) PROVE AttestInv'
  <2> DEFINE x  == ses[s]
             y1 == [x EXCEPT !.pc = "finishing"]
             y2 == [x EXCEPT !.pc = "append",
                             !.ev = DelegatedEvent(x.step, grants[x.nonce].answer, x.nonce)]
  <2>1. UNCHANGED <<grants, events, reqs>>
    BY <1>11 DEF ReceiveResult, ExodUnreachable, memVars
  <2>2. /\ x \in Session /\ x.pc = "dialled" /\ x.held
        /\ SessionBacked(x, grants, reqs) /\ x.nonce <= reqs
    BY <1>11, BackedOf DEF ReceiveResult, ExodUnreachable, SessionBacked, SessionSafe
  <2>3. \/ ses' = [ses EXCEPT ![s] = y1]
        \/ ses' = [ses EXCEPT ![s] = y2] /\ grants[x.nonce].st = "answered"
    BY <1>11 DEF ReceiveResult, ExodUnreachable
  <2>4. /\ SessionBacked(y1, grants, reqs) /\ y1.nonce = x.nonce
        /\ y2.nonce = x.nonce
        /\ grants[x.nonce].st = "answered" => SessionBacked(y2, grants, reqs)
    <3> HIDE DEF x
    <3> QED
      BY <1>f, <2>2, MovesBacked, MovesNonce
  <2> HIDE DEF y1, y2
  <2> QED
    BY <1>2, <1>f, <2>1, <2>3, <2>4
<1>12. ASSUME NEW s \in Sessions, NEW k \in Steps, NEW st \in {"ok", "error"}, NEW p \in BOOLEAN,
             StepResult(s, k, st, p)
      PROVE  AttestInv'
  <2> DEFINE x == ses[s]
             e == ReportedEvent(k, st)
             y == [x EXCEPT !.pc = "append", !.step = k, !.ev = e]
  <2>1. /\ ses' = [ses EXCEPT ![s] = y] /\ UNCHANGED <<grants, events>> /\ reqs' = reqs + 1
    BY <1>12 DEF StepResult, memVars
  <2>2. /\ x \in Session /\ x.pc = "idle" /\ x.held = FALSE
        /\ SessionBacked(x, grants, reqs) /\ x.nonce = 0
    BY <1>12, BackedOf, NotHeld DEF StepResult, SessionBacked
  <2>3. reqs + 1 \in Nat /\ reqs <= reqs + 1 /\ 0 <= reqs + 1
    BY <1>f
  <2>4. e.nonce = 0
    BY DEF ReportedEvent
  <2> HIDE DEF x, e
  <2>5. SessionBacked(y, grants, reqs + 1) /\ y.nonce = 0
    BY <2>2, <2>3, <2>4 DEF SessionBacked, Session
  <2> HIDE DEF y
  <2> QED
    BY <1>2, <2>1, <2>3, <2>5
<1>13. ASSUME NEW s \in Sessions, PersistEvent(s) PROVE AttestInv'
  <2> DEFINE x == ses[s]
             y == [x EXCEPT !.pc = "recorded", !.snap = <<>>]
  <2>1. ses' = [ses EXCEPT ![s] = y] /\ UNCHANGED <<grants, events, reqs>>
    BY <1>13 DEF PersistEvent, memVars
  <2>2. x \in Session /\ SessionBacked(x, grants, reqs) /\ x.nonce <= reqs
    BY BackedOf DEF SessionBacked
  <2>3. SessionBacked(y, grants, reqs) /\ y.nonce = x.nonce
    <3> HIDE DEF x
    <3> QED
      BY <1>f, <2>2, SnapsBacked
  <2> HIDE DEF y
  <2> QED
    BY <1>2, <1>f, <2>1, <2>3
<1>14. ASSUME NEW s \in Sessions, AppendEvent(s) PROVE AttestInv'
  <2> DEFINE x   == ses[s]
             evs == events[x.run]
             new == Append(evs, x.ev)
             y   == [x EXCEPT !.pc = "persist", !.snap = new]
             z   == [x EXCEPT !.pc = "finishing"]
  <2>1. UNCHANGED <<grants, reqs>>
    BY <1>14 DEF AppendEvent
  <2>2. /\ x \in Session /\ x.pc = "append" /\ SessionTyped(x)
        /\ SessionBacked(x, grants, reqs) /\ x.nonce <= reqs
        /\ SessionSafe(x, verdict, events, inflight)
    BY <1>14, BackedOf DEF AppendEvent, SessionBacked
  <2>3. /\ SessionBacked(y, grants, reqs) /\ y.nonce = x.nonce
        /\ SessionBacked(z, grants, reqs) /\ z.nonce = x.nonce
    <3> HIDE DEF x, new
    <3> QED
      BY <1>f, <2>2, SnapsBacked, MovesBacked, MovesNonce
  <2>4. x.run \in Runs /\ x.ev \in Event /\ evs \in Seq(Event)
    BY <1>f, <2>2 DEF SessionTyped, Session
  <2>5. \/ ses' = [ses EXCEPT ![s] = z] /\ events' = events
        \/ ses' = [ses EXCEPT ![s] = y] /\ events' = [events EXCEPT ![x.run] = new]
    BY <1>14 DEF AppendEvent
  <2>6. SessionsBacked' /\ NoncesOwned' /\ GrantsSound'
    <3> HIDE DEF y, z
    <3>1. SessionsBacked' /\ NoncesOwned'
      BY <1>f, <2>1, <2>3, <2>5, OneBacked
    <3> QED
      BY <1>f, <2>1, <3>1, GrantsCarried
  <2>7. EventBacked(x.run, x.ev, grants)
    <3>1. CASE x.held
      <4>1. /\ x.nonce \in Nonces /\ grants[x.nonce].st = "answered"
            /\ grants[x.nonce].run = x.run /\ grants[x.nonce].step = x.step
            /\ x.ev = DelegatedEvent(x.step, grants[x.nonce].answer, x.nonce)
        BY <2>2, <3>1 DEF SessionBacked
      <4>2. grants[x.nonce].answer # "none"
        BY <4>1 DEF AttestInv, GrantsSound, GrantSound
      <4> HIDE DEF x
      <4> QED
        BY <1>f, <4>1, <4>2, AnswerBacked
    <3>2. CASE ~x.held
      BY <2>2, <3>2 DEF SessionBacked, SessionSafe, AppendSafe, EventBacked
    <3> QED
      BY <3>1, <3>2
  <2>8. LedgersBacked'
    <3>1. CASE events' = events
      BY <2>1, <3>1, LedgersCarried
    <3>2. CASE events' = [events EXCEPT ![x.run] = new]
      <4>1. \A r \in Runs : events'[r] = IF r = x.run THEN new ELSE events[r]
        BY <1>f, <2>4, <3>2
      <4>2. LedgerBacked(x.run, evs, grants)
        BY <2>4 DEF AttestInv, LedgersBacked
      <4>3. LedgerBacked(x.run, new, grants)
        <5>1. /\ \A i \in 1..Len(evs) : new[i] = evs[i]
              /\ new[Len(evs) + 1] = x.ev /\ Len(new) = Len(evs) + 1 /\ Len(evs) \in Nat
          BY <2>4, AppendElements
        <5> HIDE DEF new, evs, x
        <5>2. \A i \in 1..Len(new) : i \in 1..Len(evs) \/ i = Len(evs) + 1
          BY <5>1
        <5> QED
          BY <2>7, <4>2, <5>1, <5>2 DEF LedgerBacked
      <4>4. \A r \in Runs : LedgerBacked(r, events[r], grants)
        BY DEF AttestInv, LedgersBacked
      <4>5. \A r \in Runs : LedgerBacked(r, events'[r], grants)
        BY <4>1, <4>3, <4>4
      <4> QED
        BY <2>1, <4>5 DEF LedgersBacked
    <3> QED
      BY <2>5, <3>1, <3>2
  <2> QED
    BY <2>6, <2>8, <1>s DEF AttestInv
<1>15. ASSUME NEW n \in Nonces, NEW out \in Outcomes, run_step(n, out) PROVE AttestInv'
  <2> DEFINE h == [grants[n] EXCEPT !.st = "ran", !.answer = out.answer, !.ran = out.ran]
  <2>1. /\ grants' = [grants EXCEPT ![n] = h] /\ grants[n].st = "dialled"
        /\ UNCHANGED <<ses, events, reqs>>
    BY <1>15 DEF run_step, memVars
  <2>2. GrantSound(n, h, reqs)
    BY <1>f, <2>1, SoundAfter DEF AttestInv, GrantsSound
  <2>3. h.st = "ran" /\ h.run = grants[n].run /\ h.step = grants[n].step
    BY <1>f DEF Grant
  <2> HIDE DEF h
  <2>4. \A m \in Nonces : grants'[m] = IF m = n THEN h ELSE grants[m]
    BY <1>f, <2>1
  <2>5. GrantsSound'
    BY <2>1, <2>2, <2>4 DEF AttestInv, GrantsSound
  <2> QED
    BY <1>3, <2>1, <2>3, <2>4, <2>5
<1>16. ASSUME NEW n \in Nonces, ExodReply(n) PROVE AttestInv'
  <2> DEFINE h == [grants[n] EXCEPT !.st = "answered"]
  <2>1. /\ grants' = [grants EXCEPT ![n] = h] /\ grants[n].st = "ran"
        /\ UNCHANGED <<ses, events, reqs>>
    BY <1>16 DEF ExodReply, memVars
  <2>2. GrantSound(n, h, reqs)
    BY <1>f, <2>1, SoundAfter DEF AttestInv, GrantsSound
  <2>3. h.st = "answered" /\ h.run = grants[n].run /\ h.step = grants[n].step
    BY <1>f DEF Grant
  <2> HIDE DEF h
  <2>4. \A m \in Nonces : grants'[m] = IF m = n THEN h ELSE grants[m]
    BY <1>f, <2>1
  <2>5. GrantsSound'
    BY <2>1, <2>2, <2>4 DEF AttestInv, GrantsSound
  <2> QED
    BY <1>3, <2>1, <2>3, <2>4, <2>5
<1>17. ASSUME ExodRestart PROVE AttestInv'
  <2>1. /\ UNCHANGED <<ses, events, reqs>>
        /\ \A n \in Nonces : grants'[n] = IF grants[n].st \in {"dialled", "ran"}
                                          THEN [grants[n] EXCEPT !.st = "lost"] ELSE grants[n]
    BY <1>17 DEF ExodRestart, memVars
  <2>2. \A n \in Nonces : LET h == [grants[n] EXCEPT !.st = "lost"]
                          IN  h.st = "lost" /\ h.run = grants[n].run /\ h.step = grants[n].step
    BY <1>f DEF Grant
  <2>3. ASSUME NEW n \in Nonces PROVE GrantSound(n, grants'[n], reqs)
    <3> DEFINE g == grants[n]
    <3>1. g \in Grant /\ GrantSound(n, g, reqs)
      BY <1>f DEF AttestInv, GrantsSound
    <3> HIDE DEF g
    <3>2. g.st \in {"dialled", "ran"} => GrantSound(n, [g EXCEPT !.st = "lost"], reqs)
      BY <1>f, <3>1, SoundAfter
    <3> QED
      BY <2>1, <3>1, <3>2 DEF g
  <2>4. GrantsSound'
    BY <2>1, <2>3 DEF GrantsSound
  <2> QED
    BY <1>3, <2>1, <2>2, <2>4
<1>18. ASSUME Restart PROVE AttestInv'
  <2>1. /\ UNCHANGED <<grants, reqs, diskVars>> /\ ses' = [s \in Sessions |-> ClosedSession]
        /\ events' = [r \in Runs |-> LoadedEvents(r)]
    BY <1>18 DEF Restart
  <2>2. SessionsBacked' /\ NoncesOwned'
    <3>1. SessionBacked(ClosedSession, grants, reqs) /\ ClosedSession.nonce = 0
      BY <1>f, RestBacked
    <3> QED
      BY <2>1, <3>1 DEF SessionsBacked, NoncesOwned
  <2>3. GrantsSound'
    BY <2>1, <1>f, GrantsCarried
  <2>4. LedgersBacked'
    <3>1. ASSUME NEW r \in Runs PROVE LedgerBacked(r, events'[r], grants)
      <4>1. LedgerBacked(r, events[r], grants) /\ IsPrefixOf(disk[r], events[r])
        BY DEF AttestInv, LedgersBacked, SafeInv, FilesSafe
      <4>2. disk[r] \in Seq(Event) /\ events[r] \in Seq(Event)
        BY AttestFacts, Facts
      <4>3. events'[r] = disk[r] \/ events'[r] = <<>>
        BY <2>1 DEF LoadedEvents
      <4>4. LedgerBacked(r, disk[r], grants)
        BY <4>1, <4>2 DEF LedgerBacked, IsPrefixOf
      <4>5. LedgerBacked(r, <<>>, grants)
        BY DEF LedgerBacked
      <4> QED
        BY <4>3, <4>4, <4>5
    <3> QED
      BY <2>1, <3>1 DEF LedgersBacked
  <2> QED
    BY <2>2, <2>3, <2>4, <1>s DEF AttestInv
<1>19. CASE UNCHANGED vars
  BY <1>1, <1>19 DEF vars
<1> QED
  BY <1>5, <1>6, <1>7, <1>8, <1>9, <1>10, <1>11, <1>12, <1>13, <1>14, <1>15, <1>16, <1>17,
     <1>18, <1>19 DEF Next, Client, Handler, Thread, Exod

LEMMA AttestAlways == Spec => []AttestInv
  BY AttestInit, AttestStep, PTL DEF Spec

(* For any number of sessions, runs, restarts of govd and restarts of      *)
(* exod: every result that execute_step let into a delegated run's ledger  *)
(* carries the status exod gave under a grant for that run and step, and   *)
(* that step did run.                                                      *)
THEOREM ResultsAttested == Spec => []DelegatedResultAttested
<1>1. AttestInv => DelegatedResultAttested
  <2> SUFFICES ASSUME AttestInv, NEW r \in DelegatedRuns, NEW evs \in {events[r], disk[r]},
                      NEW i \in Positions(evs, "step_result")
               PROVE  /\ evs[i].nonce \in Nonces
                      /\ grants[evs[i].nonce].run = r /\ grants[evs[i].nonce].step = evs[i].step
                      /\ grants[evs[i].nonce].ran /\ grants[evs[i].nonce].answer = evs[i].status
    BY DEF DelegatedResultAttested
  <2>1. r \in Runs
    BY OversightAssumption
  <2>2. /\ LedgerBacked(r, events[r], grants) /\ IsPrefixOf(disk[r], events[r])
        /\ disk[r] \in Seq(Event) /\ events[r] \in Seq(Event)
    BY <2>1, AttestFacts, Facts DEF AttestInv, LedgersBacked, SafeInv, FilesSafe
  <2>3. i \in 1..Len(evs) /\ evs[i].type = "step_result" /\ evs \in Seq(Event)
    BY <2>2 DEF Positions
  <2>4. i \in 1..Len(events[r]) /\ evs[i] = events[r][i]
    BY <2>2, <2>3 DEF IsPrefixOf
  <2>5. EventBacked(r, evs[i], grants)
    BY <2>2, <2>4 DEF LedgerBacked
  <2> HIDE DEF Nonces
  <2>6. /\ evs[i].nonce \in Nonces /\ grants[evs[i].nonce].answer = evs[i].status
        /\ grants[evs[i].nonce].run = r /\ grants[evs[i].nonce].step = evs[i].step
        /\ evs[i].status \in {"ok", "error"}
    BY <2>3, <2>5 DEF EventBacked
  <2>7. grants[evs[i].nonce].ran
    BY <2>6 DEF AttestInv, GrantsSound, GrantSound
  <2> QED
    BY <2>6, <2>7
<1> QED
  BY <1>1, AttestAlways, PTL

-----------------------------------------------------------------------------
(* Executing a step twice.                                                 *)

LEMMA OnceFacts ==
    ASSUME OnceInv
    PROVE  /\ AttestInv /\ ses \in [Sessions -> Session] /\ events \in [Runs -> Seq(Event)]
           /\ grants \in [Nonces -> Grant]
           /\ \A n \in Nonces : grants[n].st # "free" => grants[n].run \in Runs
  BY AttestFacts DEF OnceInv, AttestInv, GrantsSound, GrantSound

(* A waiting thread holds the step its grant was minted for, and that step *)
(* has no result yet.                                                      *)
LEMMA WaitingOf ==
    ASSUME OnceInv, NEW s \in Sessions, ses[s].held, ses[s].pc \in {"dialled", "append"}
    PROVE  /\ ses[s].nonce \in Nonces /\ ses[s].run \in Runs
           /\ grants[ses[s].nonce].run = ses[s].run /\ grants[ses[s].nonce].step = ses[s].step
           /\ ses[s].step \notin done_steps(events[ses[s].run])
  <1>1. AttestInv
    BY DEF OnceInv
  <1> QED
    BY <1>1, BackedOf DEF SessionBacked, SessionSafe, SessionTyped

(* One thread moves on.  If it was waiting, it still is, or its grant can  *)
(* be followed without it; and it starts to hold a step only of a run that *)
(* is resident.                                                            *)
LEMMA OnceOne ==
    ASSUME OnceInv, restarts = 0, NEW s \in Sessions, NEW y, ses' = [ses EXCEPT ![s] = y],
           UNCHANGED <<grants, resident>>,
           \A r \in Runs : done_steps(events[r]) \subseteq done_steps(events'[r]),
           ses[s].held /\ ses[s].pc \in {"dialled", "append"} =>
               \/ y.held /\ y.pc \in {"dialled", "append"} /\ y.nonce = ses[s].nonce
               \/ Followed(ses[s].nonce, grants[ses[s].nonce], ses', events', resident),
           y.held => \/ y.run \in resident
                     \/ /\ ses[s].held /\ y.run = ses[s].run
                        /\ y.step = ses[s].step /\ y.nonce = ses[s].nonce
    PROVE  GrantsFollowed' /\ RunOnce'
  <1>1. ses'[s] = y /\ \A t \in Sessions \ {s} : ses'[t] = ses[t]
    BY OnceFacts
  <1>2. RunOnce'
    BY DEF OnceInv, RunOnce
  <1>3. ASSUME NEW n \in Nonces PROVE Followed(n, grants[n], ses', events', resident)
    <2>1. Followed(n, grants[n], ses, events, resident)
      BY DEF OnceInv, GrantsFollowed
    <2>2. CASE Waiting(n, ses)
      <3>1. PICK t \in Sessions : /\ ses[t].nonce = n /\ ses[t].held
                                  /\ ses[t].pc \in {"dialled", "append"}
        BY <2>2 DEF Waiting
      <3>2. CASE t # s
        BY <1>1, <3>1, <3>2 DEF Waiting, Followed
      <3>3. CASE t = s
        BY <1>1, <3>1, <3>3 DEF Waiting, Followed
      <3> QED
        BY <3>2, <3>3
    <2>3. CASE grants[n].st = "answered" /\ grants[n].step \in done_steps(events[grants[n].run])
      BY <2>3, OnceFacts DEF Followed
    <2>4. CASE grants[n].st = "answered" /\ Dropped(n, grants[n], ses, resident)
      <3> DEFINE g == grants[n]
      <3> HIDE DEF g
      <3>0. Dropped(n, g, ses, resident)
        BY <2>4 DEF g
      <3>1. ASSUME NEW t \in Sessions, ses'[t].held, ses'[t].run = g.run, ses'[t].step = g.step
            PROVE  ses'[t].nonce = n
        <4>1. CASE t # s
          BY <1>1, <3>0, <3>1, <4>1 DEF Dropped
        <4>2. CASE t = s
          BY <1>1, <3>0, <3>1, <4>2 DEF Dropped
        <4> QED
          BY <4>1, <4>2
      <3>2. Dropped(n, g, ses', resident)
        BY <3>0, <3>1 DEF Dropped
      <3> QED
        BY <2>4, <3>2 DEF Followed, g
    <2>5. CASE grants[n].st = "free" \/ Unrecordable(grants[n])
      BY <2>5 DEF Followed
    <2> QED
      BY <2>1, <2>2, <2>3, <2>4, <2>5 DEF Followed
  <1>4. GrantsFollowed'
    BY <1>3 DEF GrantsFollowed
  <1> QED
    BY <1>2, <1>4

(* The usual case: a thread that waits for nothing ends up holding nothing *)
(* new.                                                                    *)
LEMMA OnceQuiet ==
    ASSUME OnceInv, restarts = 0, NEW s \in Sessions, NEW y, ses' = [ses EXCEPT ![s] = y],
           UNCHANGED <<grants, resident, events>>, ses[s].pc \notin {"dialled", "append"},
           y.held = FALSE \/ y.run \in resident
           \/ (ses[s].held /\ y.run = ses[s].run /\ y.step = ses[s].step /\ y.nonce = ses[s].nonce)
    PROVE  GrantsFollowed' /\ RunOnce'
  BY OnceOne

(* A run that exod runs now was not run before: the thread that dialled    *)
(* still waits, and that excludes each way another grant could have ended. *)
LEMMA FirstRun ==
    ASSUME OnceInv, restarts = 0, NEW m \in Nonces, NEW n \in Nonces, m # n,
           grants[n].st = "dialled", Effective(grants[m]),
           grants[m].run = grants[n].run, grants[m].step = grants[n].step
    PROVE  FALSE
  <1>1. Waiting(n, ses)
    BY DEF OnceInv, GrantsFollowed, Followed, Unrecordable
  <1>2. PICK t \in Sessions : ses[t].nonce = n /\ ses[t].held /\ ses[t].pc \in {"dialled", "append"}
    BY <1>1 DEF Waiting
  <1>3. /\ grants[n].run = ses[t].run /\ grants[n].step = ses[t].step
        /\ ses[t].step \notin done_steps(events[ses[t].run])
    BY <1>2, WaitingOf
  <1>4. Followed(m, grants[m], ses, events, resident)
    BY DEF OnceInv, GrantsFollowed
  <1>5. GrantSound(m, grants[m], reqs)
    BY DEF OnceInv, AttestInv, GrantsSound
  <1>6. CASE grants[m].st = "free" \/ Unrecordable(grants[m])
    BY <1>5, <1>6 DEF Effective, Unrecordable, GrantSound
  <1>7. CASE Waiting(m, ses)
    <2>1. PICK u \in Sessions : ses[u].nonce = m /\ ses[u].held /\ ses[u].pc \in {"dialled", "append"}
      BY <1>7 DEF Waiting
    <2>2. grants[m].run = ses[u].run /\ grants[m].step = ses[u].step
      BY <2>1, WaitingOf
    <2>3. u = t
      BY <1>2, <1>3, <2>1, <2>2 DEF OnceInv, AttestInv, SafeInv, SingleFlight
    <2> QED
      BY <1>2, <2>1, <2>3
  <1>8. CASE grants[m].step \in done_steps(events[grants[m].run])
    BY <1>3, <1>8
  <1>9. CASE Dropped(m, grants[m], ses, resident)
    BY <1>2, <1>3, <1>9 DEF Dropped
  <1> QED
    BY <1>4, <1>6, <1>7, <1>8, <1>9 DEF Followed

LEMMA OnceInit == Init => OnceInv
  <1> SUFFICES ASSUME Init PROVE OnceInv
    OBVIOUS
  <1>1. AttestInv
    BY AttestInit
  <1>2. GrantsFollowed /\ RunOnce
    BY DEF Init, GrantsFollowed, Followed, RunOnce, Effective, FreeGrant
  <1> QED
    BY <1>1, <1>2 DEF OnceInv

LEMMA OnceStep == OnceInv /\ [Next]_vars => OnceInv'
<1> SUFFICES ASSUME OnceInv, [Next]_vars PROVE OnceInv'
  OBVIOUS
<1>a. AttestInv'
  BY AttestStep DEF OnceInv
<1>r. restarts \in Nat
  BY OnceFacts, AttestFacts, OversightAssumption DEF TypeInv, TypeOK
<1>f. /\ ses \in [Sessions -> Session] /\ grants \in [Nonces -> Grant]
      /\ events \in [Runs -> Seq(Event)] /\ AttestInv
  BY OnceFacts
<1>1. ASSUME UNCHANGED <<restarts, ses, grants, events, resident>> PROVE OnceInv'
  BY <1>1, <1>a DEF OnceInv, GrantsFollowed, RunOnce
<1>2. ASSUME restarts' = restarts, restarts = 0 => GrantsFollowed' /\ RunOnce' PROVE OnceInv'
  BY <1>2, <1>a DEF OnceInv
<1>3. ASSUME NEW r \in Runs, NEW v \in Verdicts, Govern(r, v) PROVE OnceInv'
  <2>1. UNCHANGED <<restarts, ses, grants, events>> /\ verdict[r] = "none"
    BY <1>3 DEF Govern
  <2>2. resident' \subseteq resident \cup {r}
    BY <1>3 DEF Govern, Insert, Newest
  <2>3. \A n \in Nonces : grants[n].st # "free" => grants[n].run # r
    BY <2>1, OnceFacts DEF OnceInv, AttestInv, SafeInv, GrantsSafe
  <2>4. ASSUME restarts = 0, NEW n \in Nonces PROVE Followed(n, grants[n], ses, events, resident')
    <3>1. Followed(n, grants[n], ses, events, resident)
      BY <2>4 DEF OnceInv, GrantsFollowed
    <3>2. grants[n].st # "free" /\ grants[n].run \notin resident => grants[n].run \notin resident'
      BY <2>2, <2>3
    <3> QED
      BY <3>1, <3>2 DEF Followed, Dropped
  <2>5. restarts = 0 => GrantsFollowed'
    BY <2>1, <2>4 DEF GrantsFollowed
  <2>6. restarts = 0 => RunOnce'
    BY <2>1 DEF OnceInv, RunOnce
  <2> QED
    BY <1>2, <2>1, <2>5, <2>6
<1>4. ASSUME NEW r \in Runs,
             \/ PersistRun(r) \/ PersistRunFails(r) \/ AuthorityLapses(r)
             \/ \E written \in BOOLEAN : LogDecision(r, written)
      PROVE  OnceInv'
  BY <1>1, <1>4 DEF PersistRun, PersistRunFails, AuthorityLapses, LogDecision
<1>5. ASSUME NEW s \in Sessions, ses[s].pc \notin {"dialled", "append"},
             \/ ses' = [ses EXCEPT ![s] = ClosedSession]
             \/ ses' = [ses EXCEPT ![s] = Idle(s)]
             \/ \E r \in Runs : ses' = [ses EXCEPT ![s] = [ClosedSession EXCEPT !.pc = "idle", !.run = r]],
             UNCHANGED <<grants, events, resident, restarts>>
      PROVE  OnceInv'
  <2>1. ClosedSession.held = FALSE /\ Idle(s).held = FALSE
        /\ \A r : [ClosedSession EXCEPT !.pc = "idle", !.run = r].held = FALSE
    BY DEF ClosedSession, Idle
  <2>2. PICK y : ses' = [ses EXCEPT ![s] = y] /\ y.held = FALSE
    BY <1>5, <2>1
  <2>3. restarts = 0 => GrantsFollowed' /\ RunOnce'
    BY <1>5, <2>2, OnceQuiet
  <2> QED
    BY <1>2, <1>5, <2>3
<1>6. ASSUME NEW s \in Sessions,
             \/ \E r \in Runs : Hello(s, r)
             \/ Disconnect(s) \/ RefuseParams(s) \/ StagingFails(s) \/ PersistFails(s)
             \/ \E sent \in BOOLEAN : Reply(s, sent)
      PROVE  OnceInv'
  <2>1. CASE \E r \in Runs : Hello(s, r)
    BY <1>5, <2>1 DEF Hello
  <2>2. CASE Disconnect(s)
    BY <1>5, <2>2 DEF Disconnect
  <2>3. CASE RefuseParams(s) \/ StagingFails(s) \/ PersistFails(s)
    BY <1>5, <2>3 DEF RefuseParams, StagingFails, PersistFails, memVars
  <2>4. CASE \E sent \in BOOLEAN : Reply(s, sent)
    BY <1>5, <2>4 DEF Reply, memVars
  <2> QED
    BY <1>6, <2>1, <2>2, <2>3, <2>4
<1>7. ASSUME NEW s \in Sessions, NEW y, ses' = [ses EXCEPT ![s] = y], y.held = FALSE,
             ses[s].pc \notin {"dialled", "append"},
             UNCHANGED <<grants, events, resident, restarts>>
      PROVE  OnceInv'
  <2>1. restarts = 0 => GrantsFollowed' /\ RunOnce'
    BY <1>7, OnceQuiet
  <2> QED
    BY <1>2, <1>7, <2>1
<1>8. ASSUME NEW s \in Sessions, NEW k \in 1..(NSteps + 1), NEW p \in BOOLEAN, StepRequest(s, k, p)
      PROVE  OnceInv'
  <2> DEFINE y == [ses[s] EXCEPT !.pc = "checked", !.step = k, !.nonce = reqs + 1,
                                 !.ok = authorize_step(ses[s].run, k, p)]
  <2>1. /\ ses' = [ses EXCEPT ![s] = y] /\ ses[s].pc = "idle"
        /\ UNCHANGED <<grants, events, resident, restarts>>
    BY <1>8 DEF StepRequest, memVars
  <2>2. y.held = FALSE
    BY <1>f, <2>1, NotHeld DEF Session
  <2> HIDE DEF y
  <2> QED
    BY <1>7, <2>1, <2>2
<1>9. ASSUME NEW s \in Sessions, NEW k \in Steps, NEW st \in {"ok", "error"}, NEW p \in BOOLEAN,
             StepResult(s, k, st, p)
      PROVE  OnceInv'
  <2> DEFINE y == [ses[s] EXCEPT !.pc = "append", !.step = k, !.ev = ReportedEvent(k, st)]
  <2>1. /\ ses' = [ses EXCEPT ![s] = y] /\ ses[s].pc = "idle"
        /\ UNCHANGED <<grants, events, resident, restarts>>
    BY <1>9 DEF StepResult, memVars
  <2>2. y.held = FALSE
    BY <1>f, <2>1, NotHeld DEF Session
  <2> HIDE DEF y
  <2> QED
    BY <1>7, <2>1, <2>2
<1>10. ASSUME NEW s \in Sessions, Reauthorize(s) PROVE OnceInv'
  <2> DEFINE x == ses[s]
  <2>1. /\ x.pc = "checked" /\ UNCHANGED <<grants, events, resident, restarts>>
    BY <1>10 DEF Reauthorize, memVars
  <2>2. x \in Session /\ x.held = FALSE
    BY <1>f, <2>1, NotHeld
  <2>3. /\ [x EXCEPT !.pc = "claiming"].held = FALSE
        /\ \A e : [x EXCEPT !.pc = "append", !.ev = e].held = FALSE
    <3> HIDE DEF x
    <3> QED
      BY <2>2 DEF Session
  <2>4. Idle(s).held = FALSE
    BY DEF Idle, ClosedSession
  <2>5. PICK y : ses' = [ses EXCEPT ![s] = y] /\ y.held = FALSE
    <3>1. \/ ses' = [ses EXCEPT ![s] = [x EXCEPT !.pc = "claiming"]]
          \/ ses' = [ses EXCEPT ![s] = Idle(s)]
          \/ \E e : ses' = [ses EXCEPT ![s] = [x EXCEPT !.pc = "append", !.ev = e]]
      BY <1>10 DEF Reauthorize
    <3> HIDE DEF x
    <3> QED
      BY <2>3, <2>4, <3>1
  <2> QED
    BY <1>7, <2>1, <2>5
<1>11. ASSUME NEW s \in Sessions, claim_step(s) PROVE OnceInv'
  <2> DEFINE x == ses[s]
             y == [x EXCEPT !.pc = "claimed", !.held = TRUE]
  <2>1. x.pc = "claiming" /\ x \in Session /\ UNCHANGED <<grants, events, resident, restarts>>
    BY <1>11, <1>f DEF claim_step, memVars
  <2>2. \/ ses' = [ses EXCEPT ![s] = Idle(s)]
        \/ ses' = [ses EXCEPT ![s] = y] /\ x.run \in resident
    BY <1>11 DEF claim_step, Claimable
  <2>3. y.run = x.run
    BY <2>1 DEF Session
  <2> HIDE DEF y
  <2>4. CASE ses' = [ses EXCEPT ![s] = Idle(s)]
    BY <1>5, <2>1, <2>4
  <2>5. CASE ses' = [ses EXCEPT ![s] = y] /\ x.run \in resident
    <3>1. restarts = 0 => GrantsFollowed' /\ RunOnce'
      BY <2>1, <2>3, <2>5, OnceQuiet
    <3> QED
      BY <1>2, <2>1, <3>1
  <2> QED
    BY <2>2, <2>4, <2>5
<1>12. ASSUME NEW s \in Sessions, PersistEvent(s) PROVE OnceInv'
  <2> DEFINE x == ses[s]
             y == [x EXCEPT !.pc = "recorded", !.snap = <<>>]
  <2>1. /\ ses' = [ses EXCEPT ![s] = y] /\ x.pc = "persist" /\ x \in Session
        /\ UNCHANGED <<grants, events, resident, restarts>>
    BY <1>12, <1>f DEF PersistEvent, memVars
  <2>2. y.held = x.held /\ y.run = x.run /\ y.step = x.step /\ y.nonce = x.nonce /\ x.held \in BOOLEAN
    BY <2>1 DEF Session
  <2> HIDE DEF y
  <2>3. restarts = 0 => GrantsFollowed' /\ RunOnce'
    BY <2>1, <2>2, OnceQuiet
  <2> QED
    BY <1>2, <2>1, <2>3
<1>13. ASSUME NEW s \in Sessions, ReceiveResult(s) PROVE OnceInv'
  <2> DEFINE x  == ses[s]
             n  == x.nonce
             y1 == [x EXCEPT !.pc = "finishing"]
             y2 == [x EXCEPT !.pc = "append", !.ev = DelegatedEvent(x.step, grants[n].answer, n)]
  <2>1. /\ x.pc = "dialled" /\ grants[n].st = "answered" /\ x \in Session
        /\ UNCHANGED <<grants, events, resident, restarts>>
    BY <1>13, <1>f DEF ReceiveResult, memVars
  <2>2. x.held /\ x.run \in Runs /\ n \in Nonces
    BY <1>f, <2>1, BackedOf DEF SessionSafe, SessionTyped
  <2>3. grants[n].run = x.run /\ grants[n].step = x.step
    BY <2>1, <2>2, WaitingOf
  <2>4. /\ y1.held = x.held /\ y1.run = x.run /\ y1.step = x.step /\ y1.nonce = n
        /\ y2.held = x.held /\ y2.run = x.run /\ y2.step = x.step /\ y2.nonce = n
        /\ y2.pc = "append"
    BY <2>1 DEF Session
  <2>5. \/ ses' = [ses EXCEPT ![s] = y1] /\ n \in result_nonces(events[x.run])
        \/ ses' = [ses EXCEPT ![s] = y2]
    BY <1>13 DEF ReceiveResult
  <2> HIDE DEF y1, y2
  <2>6. CASE ses' = [ses EXCEPT ![s] = y2]
    <3>1. restarts = 0 => GrantsFollowed' /\ RunOnce'
      BY <2>1, <2>2, <2>4, <2>6, OnceOne
    <3> QED
      BY <1>2, <2>1, <3>1
  <2>7. CASE ses' = [ses EXCEPT ![s] = y1] /\ n \in result_nonces(events[x.run])
    <3>0. events[x.run] \in Seq(Event) /\ DOMAIN events[x.run] = 1..Len(events[x.run])
      BY <1>f, <2>2
    <3>1. PICK i \in 1..Len(events[x.run]) : events[x.run][i].nonce = n
      BY <2>7, <3>0 DEF result_nonces
    <3> DEFINE e == events[x.run][i]
    <3>2. EventBacked(x.run, e, grants) /\ n # 0
      BY <1>f, <2>2, AttestFacts DEF AttestInv, LedgersBacked, LedgerBacked
    <3>3. e.type = "step_result" => e.step \in done_steps(events[x.run])
      BY <1>f, <2>2, Members
    <3>4. Followed(n, grants[n], ses', events', resident)
      <4>1. CASE e.type = "step_result"
        BY <2>1, <2>2, <2>3, <3>1, <3>2, <3>3, <4>1 DEF EventBacked, Followed
      <4>2. CASE e.type # "step_result"
        BY <2>1, <3>1, <3>2, <4>2 DEF EventBacked, Followed, Unrecordable
      <4> QED
        BY <4>1, <4>2
    <3>5. restarts = 0 => GrantsFollowed' /\ RunOnce'
      BY <2>1, <2>2, <2>4, <2>7, <3>4, OnceOne
    <3> QED
      BY <1>2, <2>1, <3>5
  <2> QED
    BY <2>5, <2>6, <2>7
<1>14. ASSUME NEW s \in Sessions, ExodUnreachable(s) PROVE OnceInv'
  <2> DEFINE x == ses[s]
             y == [x EXCEPT !.pc = "finishing"]
  <2>1. /\ ses' = [ses EXCEPT ![s] = y] /\ x.pc = "dialled" /\ x \in Session
        /\ grants[x.nonce].st = "lost" /\ UNCHANGED <<grants, events, resident, restarts>>
    BY <1>14, <1>f DEF ExodUnreachable, memVars
  <2>2. Followed(x.nonce, grants[x.nonce], ses', events', resident)
    BY <2>1 DEF Followed, Unrecordable
  <2>3. y.held = x.held /\ y.run = x.run /\ y.step = x.step /\ y.nonce = x.nonce
    BY <2>1 DEF Session
  <2> HIDE DEF y
  <2>4. restarts = 0 => GrantsFollowed' /\ RunOnce'
    BY <2>1, <2>2, <2>3, OnceOne
  <2> QED
    BY <1>2, <2>1, <2>4
<1>15. ASSUME NEW s \in Sessions, AppendEvent(s) PROVE OnceInv'
  <2> DEFINE x   == ses[s]
             evs == events[x.run]
             new == Append(evs, x.ev)
             y   == [x EXCEPT !.pc = "persist", !.snap = new]
             z   == [x EXCEPT !.pc = "finishing"]
  <2>1. x.pc = "append" /\ x \in Session /\ UNCHANGED <<grants, resident, restarts>>
    BY <1>15, <1>f DEF AppendEvent
  <2>2. x.run \in Runs /\ x.ev \in Event /\ evs \in Seq(Event)
    BY <1>f, <2>1, BackedOf DEF SessionTyped, Session
  <2>3. /\ y.held = x.held /\ y.run = x.run /\ y.step = x.step /\ y.nonce = x.nonce
        /\ z.held = x.held /\ z.run = x.run /\ z.step = x.step /\ z.nonce = x.nonce
    BY <2>1 DEF Session
  <2>4. x.held => /\ x.nonce \in Nonces /\ grants[x.nonce].st = "answered"
                  /\ grants[x.nonce].run = x.run /\ grants[x.nonce].step = x.step
                  /\ x.ev = DelegatedEvent(x.step, grants[x.nonce].answer, x.nonce)
                  /\ SessionBacked(x, grants, reqs)
    BY <1>f, <2>1, BackedOf, WaitingOf DEF SessionBacked
  <2>5. CASE x.run \notin resident
    <3>1. ses' = [ses EXCEPT ![s] = z] /\ events' = events
      BY <1>15, <2>5 DEF AppendEvent
    <3> HIDE DEF z
    <3>2. ASSUME x.held PROVE Followed(x.nonce, grants[x.nonce], ses', events', resident)
      <4>1. ASSUME NEW t \in Sessions, ses'[t].held, ses'[t].run = x.run, ses'[t].step = x.step
            PROVE  ses'[t].nonce = x.nonce
        <5>1. t # s => ses'[t] = ses[t]
          BY <1>f, <3>1
        <5>2. ses'[s] = z
          BY <1>f, <3>1
        <5>3. t = s
          BY <3>2, <4>1, <5>1, <1>f DEF AttestInv, SafeInv, SingleFlight
        <5> QED
          BY <2>3, <5>2, <5>3
      <4>2. Dropped(x.nonce, grants[x.nonce], ses', resident)
        BY <2>4, <2>5, <3>2, <4>1 DEF Dropped
      <4> QED
        BY <2>4, <3>2, <4>2 DEF Followed
    <3>3. restarts = 0 => GrantsFollowed' /\ RunOnce'
      BY <2>1, <2>3, <3>1, <3>2, OnceOne
    <3> QED
      BY <1>2, <2>1, <3>3
  <2>6. CASE x.run \in resident
    <3>1. ses' = [ses EXCEPT ![s] = y] /\ events' = [events EXCEPT ![x.run] = new]
      BY <1>15, <2>6 DEF AppendEvent
    <3>2. \A r \in Runs : events'[r] = IF r = x.run THEN new ELSE events[r]
      BY <1>f, <2>2, <3>1
    <3>3. /\ new \in Seq(Event) /\ Len(new) = Len(evs) + 1 /\ Len(evs) \in Nat
          /\ \A i \in 1..Len(evs) : new[i] = evs[i]
          /\ new[Len(evs) + 1] = x.ev
      BY <2>2, AppendElements
    <3>4. done_steps(evs) \subseteq done_steps(new)
      <4>1. ASSUME NEW k \in done_steps(evs) PROVE k \in done_steps(new)
        <5>1. PICK i \in 1..Len(evs) : evs[i].type = "step_result" /\ evs[i].step = k
          BY <2>2, <4>1, Members
        <5>2. i \in 1..Len(new) /\ new[i] = evs[i]
          BY <3>3
        <5> HIDE DEF new, evs
        <5> QED
          BY <3>3, <5>1, <5>2, Members
      <4> QED
        BY <4>1
    <3>5. \A r \in Runs : done_steps(events[r]) \subseteq done_steps(events'[r])
      BY <3>2, <3>4
    <3>6. x.ev.type = "step_result" => x.ev.step \in done_steps(events'[x.run])
      <4>1. Len(evs) + 1 \in 1..Len(new)
        BY <3>3
      <4>2. events'[x.run] = new
        BY <2>2, <3>2
      <4> HIDE DEF new, evs
      <4> QED
        BY <3>3, <4>1, <4>2, Members
    <3>7. ASSUME x.held PROVE Followed(x.nonce, grants[x.nonce], ses', events', resident)
      <4>1. grants[x.nonce].answer \in {"ok", "error", "refused", "unsigned"}
        BY <1>f, <2>4, <3>7 DEF AttestInv, GrantsSound, GrantSound, Grant
      <4>2. CASE grants[x.nonce].answer \in {"refused", "unsigned"}
        BY <2>4, <3>7, <4>2 DEF Followed, Unrecordable
      <4>3. CASE grants[x.nonce].answer \in {"ok", "error"}
        <5>1. x.ev.type = "step_result" /\ x.ev.step = x.step
          BY <2>4, <3>7, <4>3 DEF DelegatedEvent
        <5> QED
          BY <2>4, <3>6, <3>7, <5>1 DEF Followed
      <4> QED
        BY <4>1, <4>2, <4>3
    <3> HIDE DEF y, new, evs
    <3>8. restarts = 0 => GrantsFollowed' /\ RunOnce'
      BY <2>1, <2>3, <2>6, <3>1, <3>5, <3>7, OnceOne
    <3> QED
      BY <1>2, <2>1, <3>8
  <2> QED
    BY <2>5, <2>6
<1>16. ASSUME NEW s \in Sessions, Dial(s) PROVE OnceInv'
  <2> DEFINE x == ses[s]
             n == x.nonce
             g == [run |-> x.run, step |-> x.step, st |-> "dialled", answer |-> "none", ran |-> FALSE]
             y == [x EXCEPT !.pc = "dialled"]
  <2>1. /\ ses' = [ses EXCEPT ![s] = y] /\ grants' = [grants EXCEPT ![n] = g]
        /\ x.pc = "claimed" /\ x \in Session /\ UNCHANGED <<events, resident, restarts>>
    BY <1>16, <1>f DEF Dial, memVars
  <2>2. n \in Nonces /\ x.held
    BY <1>f, <2>1, BackedOf DEF SessionTyped, SessionSafe
  <2>3. g.st = "dialled" /\ ~g.ran
    OBVIOUS
  <2>4. grants'[n] = g /\ \A m \in Nonces \ {n} : grants'[m] = grants[m]
    BY <1>f, <2>1, <2>2
  <2>5. y.held /\ y.pc = "dialled" /\ y.run = x.run /\ y.step = x.step /\ y.nonce = n
    BY <2>1, <2>2 DEF Session
  <2> HIDE DEF g, y
  <2>6. ses'[s] = y /\ \A t \in Sessions \ {s} : ses'[t] = ses[t]
    BY <1>f, <2>1
  <2>7. RunOnce' \/ restarts # 0
    BY <2>3, <2>4 DEF OnceInv, RunOnce, Effective
  <2>8. ASSUME restarts = 0, NEW m \in Nonces PROVE Followed(m, grants'[m], ses', events, resident)
    <3>1. CASE m = n
      BY <2>5, <2>6, <3>1 DEF Followed, Waiting
    <3>2. CASE m # n
      <4>1. Followed(m, grants[m], ses, events, resident)
        BY <2>8 DEF OnceInv, GrantsFollowed
      <4>2. Waiting(m, ses) => Waiting(m, ses')
        BY <2>1, <2>6 DEF Waiting
      <4>3. Dropped(m, grants[m], ses, resident) => Dropped(m, grants[m], ses', resident)
        <5> DEFINE h == grants[m]
        <5> HIDE DEF h
        <5>1. Dropped(m, h, ses, resident) => Dropped(m, h, ses', resident)
          BY <2>2, <2>5, <2>6 DEF Dropped
        <5> QED
          BY <5>1 DEF h
      <4> QED
        BY <2>4, <3>2, <4>1, <4>2, <4>3 DEF Followed
    <3> QED
      BY <3>1, <3>2
  <2>9. restarts = 0 => GrantsFollowed'
    BY <2>1, <2>8 DEF GrantsFollowed
  <2> QED
    BY <1>2, <2>1, <2>7, <2>9
<1>17. ASSUME NEW n \in Nonces, NEW out \in Outcomes, run_step(n, out) PROVE OnceInv'
  <2> DEFINE h == [grants[n] EXCEPT !.st = "ran", !.answer = out.answer, !.ran = out.ran]
  <2>1. /\ grants' = [grants EXCEPT ![n] = h] /\ grants[n].st = "dialled"
        /\ UNCHANGED <<ses, events, resident, restarts>>
    BY <1>17 DEF run_step, memVars
  <2>2. h.run = grants[n].run /\ h.step = grants[n].step
    BY <1>f DEF Grant
  <2> HIDE DEF h
  <2>3. \A m \in Nonces : grants'[m] = IF m = n THEN h ELSE grants[m]
    BY <1>f, <2>1
  <2>4. ASSUME restarts = 0 PROVE GrantsFollowed'
    <3>1. \A m \in Nonces : Followed(m, grants[m], ses, events, resident)
      BY <2>4 DEF OnceInv, GrantsFollowed
    <3>2. Waiting(n, ses)
      BY <2>1, <3>1 DEF Followed, Unrecordable
    <3>3. \A m \in Nonces : Followed(m, grants'[m], ses, events, resident)
      BY <2>3, <3>1, <3>2 DEF Followed
    <3> QED
      BY <2>1, <3>3 DEF GrantsFollowed
  <2>5. ASSUME restarts = 0 PROVE RunOnce'
    <3>1. ASSUME NEW m \in Nonces, m # n, Effective(grants[m]),
                 grants[m].run = h.run, grants[m].step = h.step
          PROVE  FALSE
      BY <2>1, <2>2, <2>5, <3>1, FirstRun
    <3>2. RunOnce
      BY <2>5 DEF OnceInv
    <3> QED
      BY <2>3, <3>1, <3>2 DEF RunOnce
  <2> QED
    BY <1>2, <2>1, <2>4, <2>5
<1>18. ASSUME NEW n \in Nonces, ExodReply(n) PROVE OnceInv'
  <2> DEFINE h == [grants[n] EXCEPT !.st = "answered"]
  <2>1. /\ grants' = [grants EXCEPT ![n] = h] /\ grants[n].st = "ran"
        /\ UNCHANGED <<ses, events, resident, restarts>>
    BY <1>18 DEF ExodReply, memVars
  <2>2. /\ h.run = grants[n].run /\ h.step = grants[n].step /\ h.ran = grants[n].ran
        /\ h.answer = grants[n].answer
    BY <1>f DEF Grant
  <2> HIDE DEF h
  <2>3. \A m \in Nonces : grants'[m] = IF m = n THEN h ELSE grants[m]
    BY <1>f, <2>1
  <2>4. ASSUME restarts = 0 PROVE GrantsFollowed'
    <3>1. \A m \in Nonces : Followed(m, grants[m], ses, events, resident)
      BY <2>4 DEF OnceInv, GrantsFollowed
    <3>2. Waiting(n, ses)
      BY <2>1, <3>1 DEF Followed, Unrecordable
    <3>3. \A m \in Nonces : Followed(m, grants'[m], ses, events, resident)
      BY <2>3, <3>1, <3>2 DEF Followed
    <3> QED
      BY <2>1, <3>3 DEF GrantsFollowed
  <2>5. ASSUME restarts = 0 PROVE RunOnce'
    <3>1. /\ \A m \in Nonces : Effective(grants'[m]) => Effective(grants[m])
          /\ \A m \in Nonces : grants'[m].run = grants[m].run /\ grants'[m].step = grants[m].step
      BY <2>1, <2>2, <2>3 DEF Effective
    <3>2. RunOnce
      BY <2>5 DEF OnceInv
    <3> QED
      BY <3>1, <3>2 DEF RunOnce
  <2> QED
    BY <1>2, <2>1, <2>4, <2>5
<1>19. ASSUME ExodRestart PROVE OnceInv'
  <2>1. /\ UNCHANGED <<ses, events, resident, restarts>>
        /\ \A n \in Nonces : grants'[n] = IF grants[n].st \in {"dialled", "ran"}
                                          THEN [grants[n] EXCEPT !.st = "lost"] ELSE grants[n]
    BY <1>19 DEF ExodRestart, memVars
  <2>2. \A n \in Nonces : [grants[n] EXCEPT !.st = "lost"].st = "lost"
    BY <1>f DEF Grant
  <2>3. \A n \in Nonces : grants'[n] = grants[n] \/ grants'[n].st = "lost"
    BY <2>1, <2>2
  <2>4. restarts = 0 => GrantsFollowed'
    BY <2>1, <2>3 DEF OnceInv, GrantsFollowed, Followed, Unrecordable
  <2>5. restarts = 0 => RunOnce'
    BY <2>3 DEF OnceInv, RunOnce, Effective
  <2> QED
    BY <1>2, <2>1, <2>4, <2>5
<1>20. ASSUME Restart PROVE OnceInv'
  <2>1. restarts' # 0
    BY <1>20, <1>r DEF Restart
  <2> QED
    BY <2>1, <1>a DEF OnceInv
<1>21. CASE UNCHANGED vars
  BY <1>1, <1>21 DEF vars
<1> QED
  BY <1>3, <1>4, <1>6, <1>8, <1>9, <1>10, <1>11, <1>12, <1>13, <1>14, <1>15, <1>16, <1>17,
     <1>18, <1>19, <1>20, <1>21 DEF Next, Client, Handler, Thread, Exod

(* At most once, for any number of sessions, runs and retries, as long as  *)
(* govd is not restarted: exod runs a step a second time only where the    *)
(* first run's outcome was a refusal, or was lost with the connection.     *)
(* Evicting the run from memory between the execution and the append does  *)
(* not open the step again.                                                *)
THEOREM ReexecutionOnlyExplained == Spec => []ReexecutionExplained
<1>1. OnceInv => ReexecutionExplained
  <2> SUFFICES ASSUME OnceInv, NEW m \in Nonces, NEW n \in Nonces, m # n,
                      grants[m].ran, grants[n].ran, grants[m].run = grants[n].run,
                      grants[m].step = grants[n].step, ~(restarts > 0),
                      ~\E i \in {m, n} : grants[i].st = "lost" \/ grants[i].answer = "refused"
               PROVE  FALSE
    BY DEF ReexecutionExplained
  <2>1. restarts = 0
    BY OnceFacts, AttestFacts, OversightAssumption DEF TypeInv, TypeOK
  <2>2. Effective(grants[m]) /\ Effective(grants[n])
    BY DEF Effective
  <2> QED
    BY <2>1, <2>2 DEF OnceInv, RunOnce
<1> QED
  BY <1>1, OnceInit, OnceStep, PTL DEF Spec
=============================================================================
