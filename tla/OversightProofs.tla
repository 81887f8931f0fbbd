-------------------------- MODULE OversightProofs --------------------------
(***************************************************************************)
(* Theorems about Oversight, for every set of runs and sessions, every     *)
(* plan length and every bound: what appending an event does to a run's    *)
(* ledger, type correctness, and what the ledgers can hold.                *)
(***************************************************************************)
EXTENDS Oversight, TLAPS

-----------------------------------------------------------------------------
(* The run ledger: what appending an event, and cutting an event list      *)
(* short, does to the questions govd asks of it and to its properties.     *)

(* The elements of a list with one more event.                             *)
LEMMA AppendElements ==
    ASSUME NEW evs \in Seq(Event), NEW e \in Event
    PROVE  /\ Append(evs, e) \in Seq(Event)
           /\ Len(Append(evs, e)) = Len(evs) + 1
           /\ DOMAIN Append(evs, e) = 1..(Len(evs) + 1)
           /\ DOMAIN evs = 1..Len(evs)
           /\ Len(evs) \in Nat
           /\ \A i \in 1..Len(evs) : Append(evs, e)[i] = evs[i]
           /\ Append(evs, e)[Len(evs) + 1] = e
  OBVIOUS

LEMMA AppendPrefix ==
    ASSUME NEW evs \in Seq(Event), NEW e \in Event
    PROVE  IsPrefixOf(evs, Append(evs, e))
  BY AppendElements DEF IsPrefixOf

LEMMA PrefixReflexive ==
    ASSUME NEW a \in Seq(Event)
    PROVE  IsPrefixOf(a, a)
  BY DEF IsPrefixOf

LEMMA PrefixTransitive ==
    ASSUME NEW a \in Seq(Event), NEW b \in Seq(Event), NEW c \in Seq(Event),
           IsPrefixOf(a, b), IsPrefixOf(b, c)
    PROVE  IsPrefixOf(a, c)
  BY DEF IsPrefixOf

(* Membership in the sets govd derives from an event list.                 *)
LEMMA Members ==
    ASSUME NEW evs \in Seq(Event), NEW k
    PROVE  /\ k \in ran_ok(evs) <=> \E i \in 1..Len(evs) : /\ evs[i].type = "step_result"
                                                         /\ evs[i].status = "ok"
                                                         /\ evs[i].step = k
           /\ k \in granted_steps(evs) <=> \E i \in 1..Len(evs) : /\ evs[i].type = "granted"
                                                                /\ evs[i].step = k
           /\ k \in done_steps(evs) <=> \E i \in 1..Len(evs) : /\ evs[i].type = "step_result"
                                                             /\ evs[i].step = k
  BY DEF ran_ok, granted_steps, done_steps, Positions

(* A longer list answers yes wherever a shorter one does.                  *)
LEMMA Monotone ==
    ASSUME NEW a \in Seq(Event), NEW b \in Seq(Event), IsPrefixOf(a, b), NEW k \in Nat
    PROVE  /\ k \in granted_steps(a) => k \in granted_steps(b)
           /\ UpstreamOk(a, k) => UpstreamOk(b, k)
  <1>1. Len(a) \in Nat /\ Len(b) \in Nat /\ Len(a) <= Len(b) /\ \A i \in 1..Len(a) : a[i] = b[i]
    BY DEF IsPrefixOf
  <1>2. \A j : j \in ran_ok(a) => j \in ran_ok(b)
    BY <1>1, Members
  <1>3. k \in granted_steps(a) => k \in granted_steps(b)
    BY <1>1, Members
  <1> QED
    BY <1>2, <1>3 DEF UpstreamOk

(* An appended event adds a done step only if it is a result.              *)
LEMMA AppendDone ==
    ASSUME NEW evs \in Seq(Event), NEW e \in Event, NEW k,
           k \notin done_steps(evs), e.type = "step_result" => e.step # k
    PROVE  k \notin done_steps(Append(evs, e))
  <1> DEFINE new == Append(evs, e)
  <1>1. /\ new \in Seq(Event) /\ Len(new) = Len(evs) + 1
        /\ \A i \in 1..Len(evs) : new[i] = evs[i]
        /\ new[Len(evs) + 1] = e
    BY AppendElements
  <1> HIDE DEF new
  <1>2. \A i \in 1..Len(evs) : evs[i].type = "step_result" => evs[i].step # k
    BY Members
  <1>3. \A i \in 1..Len(new) : new[i].type = "step_result" => new[i].step # k
    BY <1>1, <1>2
  <1>4. k \notin done_steps(new)
    BY <1>1, <1>3, Members
  <1> QED
    BY <1>4 DEF new

(* An event that passed the order gate keeps the list in order.            *)
LEMMA AppendInOrder ==
    ASSUME NEW evs \in Seq(Event), NEW e \in Event, InOrder(evs),
           e.type \in {"granted", "step_result"} => UpstreamOk(evs, e.step)
    PROVE  InOrder(Append(evs, e))
  <1> DEFINE new == Append(evs, e)
  <1>1. SUFFICES ASSUME NEW j \in 1..(Len(evs) + 1), new[j].type \in {"granted", "step_result"},
                        NEW i \in 1..(new[j].step - 1)
                 PROVE  \E h \in 1..(j - 1) : /\ new[h].type = "step_result"
                                              /\ new[h].step = i
                                              /\ new[h].status = "ok"
    BY AppendElements DEF InOrder
  <1>2. CASE j = Len(evs) + 1
    <2>1. new[j] = e
      BY <1>2, AppendElements
    <2>2. i \in ran_ok(evs)
      BY <1>1, <2>1 DEF UpstreamOk
    <2>3. PICK h \in 1..Len(evs) : evs[h].type = "step_result" /\ evs[h].status = "ok" /\ evs[h].step = i
      BY <2>2, Members
    <2>4. new[h] = evs[h] /\ h \in 1..(j - 1)
      BY <1>2, AppendElements
    <2> QED
      BY <2>3, <2>4
  <1>3. CASE j \in 1..Len(evs)
    <2>1. new[j] = evs[j] /\ j \in DOMAIN evs
      BY <1>3, AppendElements
    <2>2. PICK h \in 1..(j - 1) : evs[h].type = "step_result" /\ evs[h].step = i /\ evs[h].status = "ok"
      BY <1>1, <2>1 DEF InOrder
    <2>3. new[h] = evs[h]
      BY <1>3, AppendElements
    <2> QED
      BY <2>2, <2>3
  <1> QED
    BY <1>2, <1>3, AppendElements

(* The result of a step that has none keeps results unique.                *)
LEMMA AppendRecordedOnce ==
    ASSUME NEW evs \in Seq(Event), NEW e \in Event, RecordedOnce(evs),
           e.type = "step_result" => e.step \notin done_steps(evs)
    PROVE  RecordedOnce(Append(evs, e))
  <1> DEFINE new == Append(evs, e)
  <1>1. SUFFICES ASSUME NEW i \in 1..(Len(evs) + 1), NEW j \in 1..(Len(evs) + 1),
                        new[i].type = "step_result", new[j].type = "step_result",
                        new[i].step = new[j].step
                 PROVE  i = j
    BY AppendElements DEF RecordedOnce, Positions
  <1>2. \A m \in 1..Len(evs) : new[m] = evs[m] /\ m \in DOMAIN evs
    BY AppendElements
  <1>3. new[Len(evs) + 1] = e
    BY AppendElements
  <1>4. ASSUME NEW m \in 1..Len(evs), evs[m].type = "step_result", e.type = "step_result"
        PROVE  evs[m].step # e.step
    BY <1>4, Members
  <1>5. CASE i \in 1..Len(evs) /\ j \in 1..Len(evs)
    BY <1>1, <1>2, <1>5 DEF RecordedOnce, Positions
  <1> QED
    BY <1>1, <1>2, <1>3, <1>4, <1>5, AppendElements

(* The result of a granted step keeps every result behind its grant.       *)
LEMMA AppendResultsGranted ==
    ASSUME NEW evs \in Seq(Event), NEW e \in Event, ResultsGranted(evs),
           e.type = "step_result" => e.step \in granted_steps(evs)
    PROVE  ResultsGranted(Append(evs, e))
  <1> DEFINE new == Append(evs, e)
  <1>1. SUFFICES ASSUME NEW j \in 1..(Len(evs) + 1), new[j].type = "step_result"
                 PROVE  \E i \in 1..(j - 1) : new[i].type = "granted" /\ new[i].step = new[j].step
    BY AppendElements DEF ResultsGranted, Positions
  <1>2. CASE j = Len(evs) + 1
    <2>1. PICK i \in 1..Len(evs) : evs[i].type = "granted" /\ evs[i].step = e.step
      BY <1>1, <1>2, AppendElements, Members
    <2>2. new[i] = evs[i] /\ i \in 1..(j - 1) /\ new[j] = e
      BY <1>2, AppendElements
    <2> QED
      BY <2>1, <2>2
  <1>3. CASE j \in 1..Len(evs)
    <2>1. new[j] = evs[j] /\ j \in DOMAIN evs
      BY <1>3, AppendElements
    <2>2. PICK i \in 1..(j - 1) : evs[i].type = "granted" /\ evs[i].step = evs[j].step
      BY <1>1, <2>1 DEF ResultsGranted, Positions
    <2>3. new[i] = evs[i]
      BY <1>3, AppendElements
    <2> QED
      BY <2>1, <2>2, <2>3
  <1> QED
    BY <1>2, <1>3, AppendElements

LEMMA AppendNothingRan ==
    ASSUME NEW evs \in Seq(Event), NEW e \in Event, NothingRan(evs),
           e.type \notin {"granted", "step_result"}
    PROVE  NothingRan(Append(evs, e))
  BY AppendElements DEF NothingRan

(* Every ledger property survives the loss of a tail, which is what a      *)
(* restart from an older file amounts to.                                  *)
LEMMA PrefixKeeps ==
    ASSUME NEW a \in Seq(Event), NEW b \in Seq(Event), IsPrefixOf(a, b)
    PROVE  /\ InOrder(b) => InOrder(a)
           /\ RecordedOnce(b) => RecordedOnce(a)
           /\ ResultsGranted(b) => ResultsGranted(a)
           /\ NothingRan(b) => NothingRan(a)
  <1>1. /\ Len(a) \in Nat /\ Len(b) \in Nat /\ Len(a) <= Len(b)
        /\ DOMAIN a = 1..Len(a) /\ DOMAIN b = 1..Len(b)
        /\ \A i \in 1..Len(a) : a[i] = b[i] /\ i \in DOMAIN b
    BY DEF IsPrefixOf
  <1>2. ASSUME InOrder(b) PROVE InOrder(a)
    <2>1. SUFFICES ASSUME NEW j \in DOMAIN a, a[j].type \in {"granted", "step_result"},
                          NEW i \in 1..(a[j].step - 1)
                   PROVE  \E h \in 1..(j - 1) : /\ a[h].type = "step_result" /\ a[h].step = i
                                                /\ a[h].status = "ok"
      BY DEF InOrder
    <2>2. a[j] = b[j] /\ j \in DOMAIN b /\ j \in 1..Len(a)
      BY <1>1
    <2>3. PICK h \in 1..(j - 1) : b[h].type = "step_result" /\ b[h].step = i /\ b[h].status = "ok"
      BY <1>2, <2>1, <2>2 DEF InOrder
    <2>4. a[h] = b[h]
      BY <1>1, <2>2
    <2> QED
      BY <2>3, <2>4
  <1>3. RecordedOnce(b) => RecordedOnce(a)
    BY <1>1 DEF RecordedOnce, Positions
  <1>4. ASSUME ResultsGranted(b) PROVE ResultsGranted(a)
    <2>1. SUFFICES ASSUME NEW j \in DOMAIN a, a[j].type = "step_result"
                   PROVE  \E i \in 1..(j - 1) : a[i].type = "granted" /\ a[i].step = a[j].step
      BY DEF ResultsGranted, Positions
    <2>2. a[j] = b[j] /\ j \in DOMAIN b /\ j \in 1..Len(a)
      BY <1>1
    <2>3. PICK i \in 1..(j - 1) : b[i].type = "granted" /\ b[i].step = b[j].step
      BY <1>4, <2>1, <2>2 DEF ResultsGranted, Positions
    <2>4. a[i] = b[i]
      BY <1>1, <2>2
    <2> QED
      BY <2>2, <2>3, <2>4
  <1>5. NothingRan(b) => NothingRan(a)
    BY <1>1 DEF NothingRan
  <1> QED
    BY <1>2, <1>3, <1>4, <1>5

(* The empty list has every ledger property.                               *)
LEMMA EmptyLedger ==
    /\ <<>> \in Seq(Event)
    /\ InOrder(<<>>) /\ RecordedOnce(<<>>) /\ ResultsGranted(<<>>) /\ NothingRan(<<>>)
    /\ \A b \in Seq(Event) : IsPrefixOf(<<>>, b)
  BY DEF InOrder, RecordedOnce, ResultsGranted, NothingRan, Positions, IsPrefixOf

(* A granted step has passed the order gate.                               *)
LEMMA GrantedUpstream ==
    ASSUME NEW evs \in Seq(Event), InOrder(evs), NEW k \in granted_steps(evs)
    PROVE  UpstreamOk(evs, k) /\ ~NothingRan(evs)
  <1>1. PICK j \in 1..Len(evs) : evs[j].type = "granted" /\ evs[j].step = k
    BY Members
  <1>2. j \in DOMAIN evs /\ Len(evs) \in Nat /\ DOMAIN evs = 1..Len(evs)
    OBVIOUS
  <1>3. ASSUME NEW i \in 1..(k - 1) PROVE i \in ran_ok(evs)
    <2>1. PICK h \in 1..(j - 1) : evs[h].type = "step_result" /\ evs[h].step = i /\ evs[h].status = "ok"
      BY <1>1, <1>2 DEF InOrder
    <2>2. h \in 1..Len(evs)
      BY <1>2
    <2> QED
      BY <2>1, <2>2, Members
  <1> QED
    BY <1>1, <1>2, <1>3 DEF UpstreamOk, NothingRan

-----------------------------------------------------------------------------
(* Type correctness.                                                       *)

(* What typing needs to know of a session beside its type: once bound it   *)
(* names a run, and a step that passed authorize_step is one of the plan,  *)
(* and until the answer is in it carries the nonce of its own grant.       *)
SessionTyped(x) ==
    /\ x \in Session
    /\ x.pc # "closed" => x.run \in Runs
    /\ x.pc = "checked" /\ x.ok => x.step \in Steps
    /\ x.pc = "claiming" => x.step \in Steps
    /\ x.pc \in {"checked", "claiming", "claimed", "dialled"} => x.nonce \in Nonces

TypeInv == TypeOK /\ \A s \in Sessions : SessionTyped(ses[s])

LEMMA EventTyping ==
    /\ \A k \in Nat : GrantedEvent(k) \in Event /\ RefusedEvent(k) \in Event
    /\ \A k \in Nat, st \in {"ok", "error"} : ReportedEvent(k, st) \in Event
    /\ \A k \in Nat, n \in Nat, a \in {"none", "ok", "error", "refused", "unsigned"} :
           DelegatedEvent(k, a, n) \in Event
  BY DEF GrantedEvent, RefusedEvent, ReportedEvent, DelegatedEvent, Event, EventTypes, Statuses

(* The values a session's thread moves to.                                 *)
LEMMA ClosedTyped == SessionTyped(ClosedSession)
  BY OversightAssumption
  DEF ClosedSession, SessionTyped, Session, Places, NoEvent, Event, EventTypes, Statuses

LEMMA RebindTyped ==
    ASSUME NEW x \in Session, NEW r \in Runs
    PROVE  SessionTyped([x EXCEPT !.pc = "idle", !.run = r])
  BY DEF SessionTyped, Session, Places

LEMMA BoundTyped ==
    ASSUME NEW r \in Runs
    PROVE  SessionTyped([ClosedSession EXCEPT !.pc = "idle", !.run = r])
  <1>1. ClosedSession \in Session
    BY ClosedTyped DEF SessionTyped
  <1> QED
    BY <1>1, RebindTyped

LEMMA CheckedTyped ==
    ASSUME NEW x, SessionTyped(x), x.pc # "closed", NEW k \in 0..(NSteps + 1),
           NEW n \in Nonces, NEW ok \in BOOLEAN, ok => k \in Steps
    PROVE  SessionTyped([x EXCEPT !.pc = "checked", !.step = k, !.nonce = n, !.ok = ok])
  <1>1. n \in 0..MaxRequests
    BY OversightAssumption DEF Nonces
  <1> HIDE DEF Nonces
  <1> QED
    BY <1>1 DEF SessionTyped, Session, Places

LEMMA ClaimingTyped ==
    ASSUME NEW x, SessionTyped(x), x.pc = "checked", x.ok
    PROVE  SessionTyped([x EXCEPT !.pc = "claiming"])
  BY DEF SessionTyped, Session, Places

LEMMA MovedTyped ==
    ASSUME NEW x, SessionTyped(x), x.pc # "closed"
    PROVE  /\ SessionTyped([x EXCEPT !.pc = "finishing"])
           /\ x.pc = "claimed" => SessionTyped([x EXCEPT !.pc = "dialled"])
  BY DEF SessionTyped, Session, Places

LEMMA ClaimedTyped ==
    ASSUME NEW x, SessionTyped(x), x.pc = "claiming"
    PROVE  SessionTyped([x EXCEPT !.pc = "claimed", !.held = TRUE])
  BY DEF SessionTyped, Session, Places

LEMMA AppendTyped ==
    ASSUME NEW x, SessionTyped(x), x.pc # "closed", NEW e \in Event
    PROVE  SessionTyped([x EXCEPT !.pc = "append", !.ev = e])
  BY DEF SessionTyped, Session, Places

LEMMA ReportTyped ==
    ASSUME NEW x, SessionTyped(x), x.pc # "closed", NEW e \in Event, NEW k \in 0..(NSteps + 1)
    PROVE  SessionTyped([x EXCEPT !.pc = "append", !.step = k, !.ev = e])
  BY DEF SessionTyped, Session, Places

LEMMA SnapTyped ==
    ASSUME NEW x, SessionTyped(x), x.pc # "closed", NEW q \in Seq(Event),
           NEW p \in {"persist", "recorded"}
    PROVE  SessionTyped([x EXCEPT !.pc = p, !.snap = q])
  BY DEF SessionTyped, Session, Places

LEMMA TypeInit == Init => TypeInv
  <1> SUFFICES ASSUME Init PROVE TypeInv
    OBVIOUS
  <1>1. \A s \in Sessions : SessionTyped(ses[s])
    BY ClosedTyped DEF Init
  <1>2. ses \in [Sessions -> Session]
    BY ClosedTyped DEF Init, SessionTyped
  <1>3. FreeGrant \in Grant
    BY OversightAssumption DEF FreeGrant, Grant
  <1> QED
    BY <1>1, <1>2, <1>3, OversightAssumption DEF Init, TypeInv, TypeOK

(* The values exod's steps give a grant.                                   *)
LEMMA RanTyped ==
    ASSUME NEW g \in Grant, NEW out \in Outcomes
    PROVE  [g EXCEPT !.st = "ran", !.answer = out.answer, !.ran = out.ran] \in Grant
  BY DEF Outcomes, Grant

LEMMA MarkedTyped ==
    ASSUME NEW g \in Grant
    PROVE  [g EXCEPT !.st = "answered"] \in Grant /\ [g EXCEPT !.st = "lost"] \in Grant
  BY DEF Grant

(* When one session moves to a typed value, all sessions stay typed.       *)
LEMMA OneSession ==
    ASSUME TypeInv, NEW s \in Sessions, NEW y, SessionTyped(y), ses' = [ses EXCEPT ![s] = y]
    PROVE  ses' \in [Sessions -> Session] /\ \A t \in Sessions : SessionTyped(ses'[t])
  <1>1. ses \in [Sessions -> Session] /\ \A t \in Sessions : SessionTyped(ses[t])
    BY DEF TypeInv, TypeOK
  <1>2. y \in Session
    BY DEF SessionTyped
  <1> HIDE DEF TypeInv
  <1> QED
    BY <1>1, <1>2

(* The claim a thread releases leaves the in-flight table typed.           *)
LEMMA ReleaseTyped ==
    ASSUME TypeInv, NEW s \in Sessions, release_step(s)
    PROVE  inflight' \in [Runs -> SUBSET Steps]
  BY DEF release_step, TypeInv, TypeOK

(* A session inside a handler, and the step value it carries.              *)
LEMMA InHandler ==
    ASSUME TypeInv, NEW s \in Sessions
    PROVE  /\ SessionTyped(ses[s])
           /\ ses[s].step \in 0..(NSteps + 1) /\ ses[s].step \in Nat
           /\ ses[s].nonce \in 0..MaxRequests /\ ses[s].nonce \in Nat
           /\ ses[s].ev \in Event /\ ses[s].snap \in Seq(Event)
           /\ ses[s].held \in BOOLEAN /\ ses[s].pc \in Places
           /\ ses[s].pc # "closed" => ses[s].run \in Runs
           /\ ses[s].pc # "closed" => SessionTyped(Idle(s))
  <1>1. SessionTyped(ses[s])
    BY DEF TypeInv
  <1>2. ses[s].pc # "closed" => SessionTyped(Idle(s))
    BY <1>1, BoundTyped DEF Idle, SessionTyped
  <1> QED
    BY <1>1, <1>2, OversightAssumption DEF SessionTyped, Session

(* Every step keeps TypeInv.                                               *)
LEMMA TypeStep == TypeInv /\ [Next]_vars => TypeInv'
<1> SUFFICES ASSUME TypeInv, [Next]_vars PROVE TypeInv'
  OBVIOUS
<1> USE OversightAssumption
<1>1. ASSUME NEW r \in Runs, NEW v \in Verdicts, Govern(r, v) PROVE TypeInv'
  BY <1>1 DEF Govern, Insert, Newest, TypeOK, TypeInv
<1>2. ASSUME NEW r \in Runs, PersistRun(r) PROVE TypeInv'
  BY <1>2 DEF PersistRun, ReplaceFile, TypeOK, TypeInv
<1>3. ASSUME NEW r \in Runs, NEW written \in BOOLEAN, LogDecision(r, written) PROVE TypeInv'
  BY <1>3 DEF LogDecision, TypeOK, TypeInv
<1>4. ASSUME NEW r \in Runs, AuthorityLapses(r) PROVE TypeInv'
  BY <1>4 DEF AuthorityLapses, TypeOK, TypeInv
<1>5. ASSUME NEW s \in Sessions, NEW r \in Runs, Hello(s, r) PROVE TypeInv'
  <2>7. SessionTyped([ClosedSession EXCEPT !.pc = "idle", !.run = r])
    BY <1>5, InHandler, BoundTyped DEF Hello
  <2>8. ses' = [ses EXCEPT ![s] = [ClosedSession EXCEPT !.pc = "idle", !.run = r]]
    BY <1>5 DEF Hello
  <2>9. ses' \in [Sessions -> Session] /\ \A t \in Sessions : SessionTyped(ses'[t])
    BY <2>7, <2>8, OneSession
  <2> QED
    BY <1>5, <2>9 DEF Hello, TypeInv, TypeOK, claimVars, memVars, diskVars
<1>6. ASSUME NEW s \in Sessions, Disconnect(s) PROVE TypeInv'
  <2>7. SessionTyped(ClosedSession)
    BY <1>6, InHandler, ClosedTyped DEF Disconnect
  <2>8. ses' = [ses EXCEPT ![s] = ClosedSession]
    BY <1>6 DEF Disconnect
  <2>9. ses' \in [Sessions -> Session] /\ \A t \in Sessions : SessionTyped(ses'[t])
    BY <2>7, <2>8, OneSession
  <2> QED
    BY <1>6, <2>9 DEF Disconnect, TypeInv, TypeOK, claimVars, memVars, diskVars
<1>7. ASSUME NEW s \in Sessions, NEW k \in 1..(NSteps + 1), NEW p \in BOOLEAN, StepRequest(s, k, p)
      PROVE  TypeInv'
  <2> DEFINE ok == authorize_step(ses[s].run, k, p)
  <2>1. ok \in BOOLEAN /\ (ok => k \in Steps)
    BY DEF authorize_step
  <2>2. reqs \in 0..MaxRequests
    BY DEF TypeInv, TypeOK
  <2>3. reqs + 1 \in Nonces /\ reqs' = reqs + 1
    BY <1>7, <2>2 DEF StepRequest, Nonces
  <2>4. ses' = [ses EXCEPT ![s] = [ses[s] EXCEPT !.pc = "checked", !.step = k,
                                                 !.nonce = reqs + 1, !.ok = ok]]
    BY <1>7 DEF StepRequest
  <2>5. SessionTyped(ses[s]) /\ ses[s].pc # "closed" /\ k \in 0..(NSteps + 1)
    BY <1>7, InHandler DEF StepRequest
  <2> HIDE DEF ok
  <2>6. SessionTyped([ses[s] EXCEPT !.pc = "checked", !.step = k, !.nonce = reqs + 1, !.ok = ok])
    BY <2>1, <2>3, <2>5, CheckedTyped
  <2>7. ses' \in [Sessions -> Session] /\ \A t \in Sessions : SessionTyped(ses'[t])
    BY <2>4, <2>6, OneSession
  <2>8. reqs' \in 0..MaxRequests
    BY <2>3 DEF Nonces
  <2> QED
    BY <1>7, <2>7, <2>8 DEF StepRequest, TypeInv, TypeOK, claimVars, memVars, diskVars
<1>8. ASSUME NEW s \in Sessions, Reauthorize(s) PROVE TypeInv'
  <2>1. SessionTyped(ses[s]) /\ ses[s].pc = "checked" /\ SessionTyped(Idle(s)) /\ ses[s].step \in Nat
    BY <1>8, InHandler DEF Reauthorize
  <2>2. GrantedEvent(ses[s].step) \in Event /\ RefusedEvent(ses[s].step) \in Event
    BY <2>1, EventTyping
  <2>3. ASSUME ses[s].ok, ses' = [ses EXCEPT ![s] = [ses[s] EXCEPT !.pc = "claiming"]]
        PROVE  ses' \in [Sessions -> Session] /\ \A t \in Sessions : SessionTyped(ses'[t])
    <3>1. SessionTyped([ses[s] EXCEPT !.pc = "claiming"])
      BY <2>1, <2>3, ClaimingTyped
    <3> QED
      BY <2>3, <3>1, OneSession
  <2>4. ASSUME ses' = [ses EXCEPT ![s] = Idle(s)]
        PROVE  ses' \in [Sessions -> Session] /\ \A t \in Sessions : SessionTyped(ses'[t])
    BY <2>1, <2>4, OneSession
  <2>5. ASSUME NEW e \in Event,
               ses' = [ses EXCEPT ![s] = [ses[s] EXCEPT !.pc = "append", !.ev = e]]
        PROVE  ses' \in [Sessions -> Session] /\ \A t \in Sessions : SessionTyped(ses'[t])
    <3>1. SessionTyped([ses[s] EXCEPT !.pc = "append", !.ev = e])
      BY <2>1, <2>5, AppendTyped
    <3> QED
      BY <2>5, <3>1, OneSession
  <2>6. ses' \in [Sessions -> Session] /\ \A t \in Sessions : SessionTyped(ses'[t])
    BY <1>8, <2>2, <2>3, <2>4, <2>5 DEF Reauthorize
  <2> QED
    BY <1>8, <2>6 DEF Reauthorize, TypeInv, TypeOK, claimVars, memVars, diskVars
<1>9. ASSUME NEW s \in Sessions, claim_step(s) PROVE TypeInv'
  <2>1. SessionTyped(ses[s]) /\ ses[s].pc = "claiming" /\ SessionTyped(Idle(s))
    BY <1>9, InHandler DEF claim_step
  <2>2. ses[s].run \in Runs /\ ses[s].step \in Steps
    BY <2>1 DEF SessionTyped
  <2>3. inflight \in [Runs -> SUBSET Steps]
    BY DEF TypeInv, TypeOK
  <2>4. inflight' \in [Runs -> SUBSET Steps]
    BY <1>9, <2>2, <2>3 DEF claim_step
  <2>5. SessionTyped([ses[s] EXCEPT !.pc = "claimed", !.held = TRUE])
    BY <2>1, ClaimedTyped
  <2>6. \/ ses' = [ses EXCEPT ![s].pc = "claimed", ![s].held = TRUE]
        \/ ses' = [ses EXCEPT ![s] = Idle(s)]
    BY <1>9 DEF claim_step
  <2>7. ses' \in [Sessions -> Session] /\ \A t \in Sessions : SessionTyped(ses'[t])
    <3>1. CASE ses' = [ses EXCEPT ![s].pc = "claimed", ![s].held = TRUE]
      <4>1. ses' = [ses EXCEPT ![s] = [ses[s] EXCEPT !.pc = "claimed", !.held = TRUE]]
        BY <3>1
      <4> QED
        BY <2>5, <4>1, OneSession
    <3>2. CASE ses' = [ses EXCEPT ![s] = Idle(s)]
      BY <2>1, <3>2, OneSession
    <3> QED
      BY <2>6, <3>1, <3>2
  <2> QED
    BY <1>9, <2>4, <2>7 DEF claim_step, TypeInv, TypeOK, claimVars, memVars, diskVars
<1>10. ASSUME NEW s \in Sessions, RefuseParams(s) PROVE TypeInv'
  <2>1. inflight' \in [Runs -> SUBSET Steps]
    BY <1>10, ReleaseTyped DEF RefuseParams
  <2>7. ses' = [ses EXCEPT ![s] = Idle(s)]
    BY <1>10 DEF RefuseParams
  <2>8. SessionTyped(Idle(s))
    BY <1>10, InHandler DEF RefuseParams
  <2>9. ses' \in [Sessions -> Session] /\ \A t \in Sessions : SessionTyped(ses'[t])
    BY <2>7, <2>8, OneSession
  <2> QED
    BY <1>10, <2>9, <2>1 DEF RefuseParams, TypeInv, TypeOK, claimVars, memVars, diskVars
<1>11. ASSUME NEW s \in Sessions, StagingFails(s) PROVE TypeInv'
  <2>1. inflight' \in [Runs -> SUBSET Steps]
    BY <1>11, ReleaseTyped DEF StagingFails
  <2>7. ses' = [ses EXCEPT ![s] = ClosedSession]
    BY <1>11 DEF StagingFails
  <2>8. SessionTyped(ClosedSession)
    BY <1>11, InHandler, ClosedTyped DEF StagingFails
  <2>9. ses' \in [Sessions -> Session] /\ \A t \in Sessions : SessionTyped(ses'[t])
    BY <2>7, <2>8, OneSession
  <2> QED
    BY <1>11, <2>9, <2>1 DEF StagingFails, TypeInv, TypeOK, claimVars, memVars, diskVars
<1>12. ASSUME NEW s \in Sessions, Dial(s) PROVE TypeInv'
  <2>1. ses' = [ses EXCEPT ![s] = [ses[s] EXCEPT !.pc = "dialled"]]
    BY <1>12 DEF Dial
  <2>2. SessionTyped(ses[s]) /\ ses[s].pc = "claimed"
    BY <1>12, InHandler DEF Dial
  <2>3. SessionTyped([ses[s] EXCEPT !.pc = "dialled"])
    BY <2>2, MovedTyped
  <2>4. ses' \in [Sessions -> Session] /\ \A t \in Sessions : SessionTyped(ses'[t])
    BY <2>1, <2>3, OneSession
  <2>5. [run |-> ses[s].run, step |-> ses[s].step, st |-> "dialled",
         answer |-> "none", ran |-> FALSE] \in Grant
    BY <2>2, InHandler DEF Grant
  <2>6. grants \in [Nonces -> Grant]
    BY DEF TypeInv, TypeOK
  <2>7. grants' \in [Nonces -> Grant]
    BY <1>12, <2>5, <2>6 DEF Dial
  <2> QED
    BY <1>12, <2>4, <2>7 DEF Dial, TypeInv, TypeOK, claimVars, memVars, diskVars
<1>13. ASSUME NEW s \in Sessions, ReceiveResult(s) PROVE TypeInv'
  <2> DEFINE e == DelegatedEvent(ses[s].step, grants[ses[s].nonce].answer, ses[s].nonce)
             y1 == [ses[s] EXCEPT !.pc = "finishing"]
             y2 == [ses[s] EXCEPT !.pc = "append", !.ev = e]
  <2>1. /\ SessionTyped(ses[s]) /\ ses[s].pc = "dialled"
        /\ ses[s].step \in Nat /\ ses[s].nonce \in Nat
    BY <1>13, InHandler DEF ReceiveResult
  <2>2. grants[ses[s].nonce] \in Grant
    BY <2>1 DEF SessionTyped, TypeInv, TypeOK
  <2>6. grants[ses[s].nonce].answer \in {"none", "ok", "error", "refused", "unsigned"}
    BY <2>2 DEF Grant
  <2>7. e \in Event
    BY <2>1, <2>6, EventTyping
  <2>3. ses' = [ses EXCEPT ![s] = y1] \/ ses' = [ses EXCEPT ![s] = y2]
    BY <1>13 DEF ReceiveResult
  <2> HIDE DEF e
  <2>4. SessionTyped(y1) /\ SessionTyped(y2)
    BY <2>1, <2>7, MovedTyped, AppendTyped
  <2> HIDE DEF y1, y2
  <2>5. ses' \in [Sessions -> Session] /\ \A t \in Sessions : SessionTyped(ses'[t])
    BY <2>3, <2>4, OneSession
  <2> QED
    BY <1>13, <2>5 DEF ReceiveResult, TypeInv, TypeOK, claimVars, memVars, diskVars
<1>14. ASSUME NEW s \in Sessions, ExodUnreachable(s) PROVE TypeInv'
  <2>7. ses' = [ses EXCEPT ![s] = [ses[s] EXCEPT !.pc = "finishing"]]
    BY <1>14 DEF ExodUnreachable
  <2>8. SessionTyped([ses[s] EXCEPT !.pc = "finishing"])
    BY <1>14, InHandler, MovedTyped DEF ExodUnreachable
  <2>9. ses' \in [Sessions -> Session] /\ \A t \in Sessions : SessionTyped(ses'[t])
    BY <2>7, <2>8, OneSession
  <2> QED
    BY <1>14, <2>9 DEF ExodUnreachable, TypeInv, TypeOK, claimVars, memVars, diskVars
<1>15. ASSUME NEW s \in Sessions, NEW k \in Steps, NEW st \in {"ok", "error"}, NEW p \in BOOLEAN,
             StepResult(s, k, st, p)
      PROVE  TypeInv'
  <2>1. ses' = [ses EXCEPT ![s] = [ses[s] EXCEPT !.pc = "append", !.step = k,
                                                 !.ev = ReportedEvent(k, st)]]
    BY <1>15 DEF StepResult
  <2>2. SessionTyped(ses[s]) /\ ses[s].pc # "closed"
    BY <1>15, InHandler DEF StepResult
  <2>3. k \in Nat /\ k \in 0..(NSteps + 1)
    BY DEF Steps
  <2>4. ReportedEvent(k, st) \in Event
    BY <2>3, EventTyping
  <2>5. SessionTyped([ses[s] EXCEPT !.pc = "append", !.step = k, !.ev = ReportedEvent(k, st)])
    BY <2>2, <2>3, <2>4, ReportTyped
  <2>6. ses' \in [Sessions -> Session] /\ \A t \in Sessions : SessionTyped(ses'[t])
    BY <2>1, <2>5, OneSession
  <2>7. reqs' \in 0..MaxRequests
    BY <1>15 DEF StepResult, TypeInv, TypeOK
  <2> QED
    BY <1>15, <2>6, <2>7 DEF StepResult, TypeInv, TypeOK, claimVars, memVars, diskVars
<1>16. ASSUME NEW s \in Sessions, AppendEvent(s) PROVE TypeInv'
  <2> DEFINE new == Append(events[ses[s].run], ses[s].ev)
             y1  == [ses[s] EXCEPT !.pc = "persist", !.snap = new]
             y2  == [ses[s] EXCEPT !.pc = "finishing"]
  <2>1. SessionTyped(ses[s]) /\ ses[s].pc # "closed" /\ ses[s].run \in Runs /\ ses[s].ev \in Event
    BY <1>16, InHandler DEF AppendEvent
  <2>2. events \in [Runs -> Seq(Event)]
    BY DEF TypeInv, TypeOK
  <2>3. new \in Seq(Event)
    BY <2>1, <2>2
  <2>4. events' \in [Runs -> Seq(Event)]
    BY <1>16, <2>1, <2>2, <2>3 DEF AppendEvent
  <2>5. ses' = [ses EXCEPT ![s] = y1] \/ ses' = [ses EXCEPT ![s] = y2]
    BY <1>16 DEF AppendEvent
  <2> HIDE DEF new
  <2>6. SessionTyped(y1) /\ SessionTyped(y2)
    BY <2>1, <2>3, SnapTyped, MovedTyped
  <2> HIDE DEF y1, y2
  <2>7. ses' \in [Sessions -> Session] /\ \A t \in Sessions : SessionTyped(ses'[t])
    BY <2>5, <2>6, OneSession
  <2> QED
    BY <1>16, <2>4, <2>7 DEF AppendEvent, TypeInv, TypeOK, claimVars, memVars, diskVars
<1>17. ASSUME NEW s \in Sessions, PersistEvent(s) PROVE TypeInv'
  <2>1. SessionTyped(ses[s]) /\ ses[s].pc # "closed" /\ ses[s].run \in Runs /\ ses[s].snap \in Seq(Event)
    BY <1>17, InHandler DEF PersistEvent
  <2>2. ses' = [ses EXCEPT ![s] = [ses[s] EXCEPT !.pc = "recorded", !.snap = <<>>]]
    BY <1>17 DEF PersistEvent
  <2>3. <<>> \in Seq(Event)
    OBVIOUS
  <2>4. SessionTyped([ses[s] EXCEPT !.pc = "recorded", !.snap = <<>>])
    BY <2>1, <2>3, SnapTyped
  <2>5. ses' \in [Sessions -> Session] /\ \A t \in Sessions : SessionTyped(ses'[t])
    BY <2>2, <2>4, OneSession
  <2>6. files' \subseteq Runs /\ mtime' \subseteq Runs \X Runs /\ disk' \in [Runs -> Seq(Event)]
    BY <1>17, <2>1 DEF PersistEvent, ReplaceFile, TypeInv, TypeOK
  <2> QED
    BY <1>17, <2>5, <2>6 DEF PersistEvent, TypeInv, TypeOK, claimVars, memVars, diskVars
<1>18. ASSUME NEW s \in Sessions, PersistFails(s) PROVE TypeInv'
  <2>1. inflight' \in [Runs -> SUBSET Steps]
    BY <1>18, ReleaseTyped DEF PersistFails
  <2>7. ses' = [ses EXCEPT ![s] = ClosedSession]
    BY <1>18 DEF PersistFails
  <2>8. SessionTyped(ClosedSession)
    BY <1>18, InHandler, ClosedTyped DEF PersistFails
  <2>9. ses' \in [Sessions -> Session] /\ \A t \in Sessions : SessionTyped(ses'[t])
    BY <2>7, <2>8, OneSession
  <2> QED
    BY <1>18, <2>9, <2>1 DEF PersistFails, TypeInv, TypeOK, claimVars, memVars, diskVars
<1>19. ASSUME NEW s \in Sessions, NEW sent \in BOOLEAN, Reply(s, sent) PROVE TypeInv'
  <2>1. inflight' \in [Runs -> SUBSET Steps]
    BY <1>19, ReleaseTyped DEF Reply
  <2>2. ses[s].run \in Runs /\ ses[s].ev \in Event /\ SessionTyped(Idle(s))
    BY <1>19, InHandler DEF Reply
  <2>3. ses' = [ses EXCEPT ![s] = Idle(s)] \/ ses' = [ses EXCEPT ![s] = ClosedSession]
    BY <1>19 DEF Reply
  <2>4. ses' \in [Sessions -> Session] /\ \A t \in Sessions : SessionTyped(ses'[t])
    BY <2>2, <2>3, ClosedTyped, OneSession
  <2>5. acked' \subseteq Runs \X Event
    BY <1>19, <2>2 DEF Reply, TypeInv, TypeOK
  <2> QED
    BY <1>19, <2>1, <2>4, <2>5 DEF Reply, TypeInv, TypeOK, claimVars, memVars, diskVars
<1>20. ASSUME NEW n \in Nonces, NEW out \in Outcomes, run_step(n, out) PROVE TypeInv'
  <2>1. grants' \in [Nonces -> Grant]
    BY <1>20, RanTyped DEF run_step, TypeInv, TypeOK
  <2> QED
    BY <1>20, <2>1 DEF run_step, TypeInv, TypeOK, claimVars, memVars, diskVars
<1>21. ASSUME NEW n \in Nonces, ExodReply(n) PROVE TypeInv'
  <2>1. grants' \in [Nonces -> Grant]
    BY <1>21, MarkedTyped DEF ExodReply, TypeInv, TypeOK
  <2> QED
    BY <1>21, <2>1 DEF ExodReply, TypeInv, TypeOK, claimVars, memVars, diskVars
<1>22. ASSUME ExodRestart PROVE TypeInv'
  <2>1. grants' \in [Nonces -> Grant]
    BY <1>22, MarkedTyped DEF ExodRestart, TypeInv, TypeOK
  <2> QED
    BY <1>22, <2>1 DEF ExodRestart, TypeInv, TypeOK, claimVars, memVars, diskVars
<1>23. ASSUME Restart PROVE TypeInv'
  <2>1. ses' \in [Sessions -> Session] /\ \A t \in Sessions : SessionTyped(ses'[t])
    BY <1>23, ClosedTyped DEF Restart, SessionTyped
  <2>2. resident' \subseteq Runs /\ age' \subseteq Runs \X Runs
    BY <1>23 DEF Restart, Hydrate, Newest, TypeInv, TypeOK
  <2>3. events' \in [Runs -> Seq(Event)] /\ inflight' \in [Runs -> SUBSET Steps]
    BY <1>23 DEF Restart, LoadedEvents, TypeInv, TypeOK
  <2>4. claim' \in [Runs -> {"none", "persist", "log", "answered", "aborted"}]
    BY <1>23 DEF Restart, TypeInv, TypeOK
  <2>5. restarts' \in 0..MaxRestarts
    BY <1>23 DEF Restart, TypeInv, TypeOK
  <2> QED
    BY <1>23, <2>1, <2>2, <2>3, <2>4, <2>5 DEF Restart, diskVars, TypeInv, TypeOK
<1>24. ASSUME NEW r \in Runs, PersistRunFails(r) PROVE TypeInv'
  BY <1>24 DEF PersistRunFails, TypeOK, TypeInv
<1>25. CASE UNCHANGED vars
  BY <1>25 DEF vars, TypeOK, TypeInv
<1> QED
  BY <1>1, <1>2, <1>3, <1>4, <1>5, <1>6, <1>7, <1>8, <1>9, <1>10, <1>11, <1>12, <1>13, <1>14,
     <1>15, <1>16, <1>17, <1>18, <1>19, <1>20, <1>21, <1>22, <1>23, <1>24, <1>25
     DEF Next, Client, Handler, Thread, Exod

(* Every variable keeps its type, whatever clients, threads, exod and      *)
(* restarts do; in particular no thread claims a step outside the plan and *)
(* no file is written for something that is not a run.                     *)
THEOREM TypeCorrect == Spec => []TypeOK
<1>1. TypeInv => TypeOK
  BY DEF TypeInv
<1> QED
  BY <1>1, TypeInit, TypeStep, PTL DEF Spec

-----------------------------------------------------------------------------
(* What the ledgers can hold: the inductive invariant, and the proof that  *)
(* every step keeps it.                                                    *)

(* The places of a thread between claim_step and release_step.             *)
HoldingPlaces == {"claimed", "dialled", "append", "persist", "recorded", "finishing"}

(* What may be appended to the event list evs of a run with verdict v, by  *)
(* the session x: what every gate passed before the append still says.     *)
AppendSafe(x, v, evs) ==
    /\ x.ev.type \in {"granted", "step_result"} => v = "allow" /\ UpstreamOk(evs, x.ev.step)
    /\ x.ev.type = "step_result" =>
           IF x.run \in DelegatedRuns THEN x.held /\ x.ev.step = x.step
                                      ELSE x.ev.step \in granted_steps(evs)

(* What a thread relies on while it is inside a handler, given the         *)
(* verdicts vd, the event lists evs and the in-flight claims inf: what the *)
(* gates established under earlier locks is still true under later ones.   *)
SessionSafe(x, vd, evs, inf) ==
    /\ x.held => /\ x.pc \in HoldingPlaces
                 /\ x.run \in DelegatedRuns
                 /\ x.step \in inf[x.run]
    /\ x.pc \in {"claimed", "dialled"} => x.held
    /\ x.pc = "claiming" => x.run \in DelegatedRuns
    /\ (x.pc = "checked" /\ x.ok) \/ x.pc \in {"claiming", "claimed", "dialled"} =>
           vd[x.run] = "allow" /\ UpstreamOk(evs[x.run], x.step)
    /\ x.pc = "append" => AppendSafe(x, vd[x.run], evs[x.run])
    /\ x.held /\ x.pc \in {"claimed", "dialled", "append"} => x.step \notin done_steps(evs[x.run])
    /\ x.pc = "persist" => IsPrefixOf(x.snap, evs[x.run])

(* What the event list evs of run r with verdict v satisfies.              *)
LedgerSafe(r, v, evs) ==
    /\ InOrder(evs)
    /\ r \in DelegatedRuns => RecordedOnce(evs)
    /\ r \notin DelegatedRuns => ResultsGranted(evs)
    /\ v # "allow" => NothingRan(evs)

SessionsSafe == \A s \in Sessions : SessionSafe(ses[s], verdict, events, inflight)
LedgersSafe  == \A r \in Runs : LedgerSafe(r, verdict[r], events[r])
FilesSafe    == \A r \in Runs : /\ IsPrefixOf(disk[r], events[r])
                                /\ r \notin files => disk[r] = <<>>
GrantsSafe   == \A n \in Nonces : grants[n].run \in Runs => verdict[grants[n].run] = "allow"

SafeInv == TypeInv /\ SessionsSafe /\ SingleFlight /\ LedgersSafe /\ FilesSafe /\ GrantsSafe

-----------------------------------------------------------------------------
(* Lemmas about one session.                                               *)

(* A thread without a claim that waits for its client, or is about to      *)
(* reply, relies on nothing.                                               *)
LEMMA InertSafe ==
    ASSUME NEW x, x.held = FALSE, x.pc \in {"closed", "idle", "recorded", "finishing"},
           NEW vd, NEW evs, NEW inf
    PROVE  SessionSafe(x, vd, evs, inf)
  BY DEF SessionSafe

LEMMA ClosedSafe ==
    ASSUME NEW vd, NEW evs, NEW inf
    PROVE  SessionSafe(ClosedSession, vd, evs, inf) /\ ClosedSession.held = FALSE
  BY InertSafe DEF ClosedSession

LEMMA IdleSafe ==
    ASSUME NEW r, NEW vd, NEW evs, NEW inf
    PROVE  LET y == [ClosedSession EXCEPT !.pc = "idle", !.run = r]
           IN  SessionSafe(y, vd, evs, inf) /\ y.held = FALSE
  <1> DEFINE y == [ClosedSession EXCEPT !.pc = "idle", !.run = r]
  <1>1. y.held = FALSE /\ y.pc = "idle"
    BY DEF ClosedSession
  <1> HIDE DEF y
  <1>2. SessionSafe(y, vd, evs, inf)
    BY <1>1, InertSafe
  <1> QED
    BY <1>1, <1>2 DEF y

(* What a thread relies on survives other threads' appends to its run, as  *)
(* long as its claim stands and no result of its own step is among them.   *)
LEMMA Carried ==
    ASSUME NEW x \in Session, x.pc # "closed" => x.run \in Runs,
           NEW vd, NEW vd2, NEW inf, NEW inf2,
           NEW evs \in [Runs -> Seq(Event)], NEW evs2 \in [Runs -> Seq(Event)],
           SessionSafe(x, vd, evs, inf),
           x.run \in Runs => IsPrefixOf(evs[x.run], evs2[x.run]),
           vd[x.run] = "allow" => vd2[x.run] = "allow",
           x.held => x.step \in inf2[x.run],
           x.held /\ x.pc \in {"claimed", "dialled", "append"} =>
               x.step \notin done_steps(evs2[x.run])
    PROVE  SessionSafe(x, vd2, evs2, inf2)
  <1>1. CASE x.pc = "closed"
    BY <1>1, InertSafe DEF SessionSafe, HoldingPlaces, Session
  <1>2. CASE x.pc # "closed"
    <2> DEFINE a == evs[x.run]
               b == evs2[x.run]
    <2>1. a \in Seq(Event) /\ b \in Seq(Event) /\ IsPrefixOf(a, b)
      BY <1>2
    <2>2. x.step \in Nat /\ x.ev.step \in Nat /\ x.snap \in Seq(Event)
      BY OversightAssumption DEF Session, Event
    <2> HIDE DEF a, b
    <2>3. /\ UpstreamOk(a, x.step) => UpstreamOk(b, x.step)
          /\ UpstreamOk(a, x.ev.step) => UpstreamOk(b, x.ev.step)
          /\ x.ev.step \in granted_steps(a) => x.ev.step \in granted_steps(b)
      BY <2>1, <2>2, Monotone
    <2>4. IsPrefixOf(x.snap, a) => IsPrefixOf(x.snap, b)
      BY <2>1, <2>2, PrefixTransitive
    <2>5. AppendSafe(x, vd[x.run], a) => AppendSafe(x, vd2[x.run], b)
      BY <2>3 DEF AppendSafe
    <2> QED
      BY <2>3, <2>4, <2>5 DEF SessionSafe, a, b
  <1> QED
    BY <1>1, <1>2

-----------------------------------------------------------------------------
(* Lemmas about steps that leave the ledgers alone.                        *)

(* The facts every case below starts from.                                 *)
LEMMA Facts ==
    ASSUME SafeInv
    PROVE  /\ ses \in [Sessions -> Session] /\ events \in [Runs -> Seq(Event)]
           /\ inflight \in [Runs -> SUBSET Steps] /\ disk \in [Runs -> Seq(Event)]
           /\ grants \in [Nonces -> Grant] /\ verdict \in [Runs -> Verdicts \cup {"none"}]
  BY DEF SafeInv, TypeInv, TypeOK

LEMMA SafeOf ==
    ASSUME SafeInv, NEW t \in Sessions
    PROVE  /\ SessionSafe(ses[t], verdict, events, inflight)
           /\ ses[t] \in Session
           /\ ses[t].pc # "closed" => ses[t].run \in Runs
  BY DEF SafeInv, SessionsSafe, TypeInv, SessionTyped

LEMMA HeldOf ==
    ASSUME SafeInv, NEW t \in Sessions, ses[t].held
    PROVE  /\ ses[t].step \in inflight[ses[t].run] /\ ses[t].pc \in HoldingPlaces
           /\ ses[t].run \in DelegatedRuns /\ ses[t].run \in Runs
  BY SafeOf, OversightAssumption DEF SessionSafe

(* One thread moves on; the other threads keep their claims.               *)
LEMMA OneSafe ==
    ASSUME SafeInv, NEW s \in Sessions, NEW y, ses' = [ses EXCEPT ![s] = y],
           UNCHANGED <<verdict, events>>,
           SessionSafe(y, verdict, events, inflight'),
           \A t \in Sessions \ {s} : ses[t].held => ses[t].step \in inflight'[ses[t].run],
           \A t \in Sessions \ {s} : y.held /\ ses[t].held /\ ses[t].run = y.run
                                     => ses[t].step # y.step
    PROVE  SessionsSafe' /\ SingleFlight'
  <1>1. ses'[s] = y /\ \A t \in Sessions \ {s} : ses'[t] = ses[t]
    BY Facts
  <1>2. ASSUME NEW t \in Sessions \ {s} PROVE SessionSafe(ses[t], verdict, events, inflight')
    <2> DEFINE x == ses[t]
    <2>1. SessionSafe(x, verdict, events, inflight)
      BY SafeOf
    <2>2. x.held => x.step \in inflight'[x.run]
      OBVIOUS
    <2> HIDE DEF x
    <2>3. SessionSafe(x, verdict, events, inflight')
      BY <2>1, <2>2 DEF SessionSafe
    <2> QED
      BY <2>3 DEF x
  <1>3. SessionsSafe'
    <2>1. \A t \in Sessions : SessionSafe(ses'[t], verdict, events, inflight')
      BY <1>1, <1>2
    <2> QED
      BY <2>1 DEF SessionsSafe
  <1>4. SingleFlight'
    <2>1. SUFFICES ASSUME NEW a \in Sessions, NEW b \in Sessions, ses'[a].held, ses'[b].held,
                          ses'[a].run = ses'[b].run, ses'[a].step = ses'[b].step, a # b
                   PROVE  FALSE
      BY DEF SingleFlight
    <2>2. CASE a # s /\ b # s
      BY <1>1, <2>1, <2>2 DEF SafeInv, SingleFlight
    <2>3. CASE a = s
      BY <1>1, <2>1, <2>3
    <2>4. CASE b = s
      BY <1>1, <2>1, <2>4
    <2> QED
      BY <2>2, <2>3, <2>4
  <1> QED
    BY <1>3, <1>4

(* Releasing one thread's claim frees no other thread's.                   *)
LEMMA ReleaseOthers ==
    ASSUME SafeInv, NEW s \in Sessions, release_step(s)
    PROVE  \A t \in Sessions \ {s} : ses[t].held => ses[t].step \in inflight'[ses[t].run]
  <1>1. SUFFICES ASSUME NEW t \in Sessions, t # s, ses[t].held
                 PROVE  ses[t].step \in inflight'[ses[t].run]
    OBVIOUS
  <1>2. ses[t].step \in inflight[ses[t].run] /\ ses[t].run \in Runs
    BY <1>1, HeldOf
  <1>3. ses[s].held => ses[s].run # ses[t].run \/ ses[s].step # ses[t].step
    BY <1>1 DEF SafeInv, SingleFlight
  <1>4. inflight \in [Runs -> SUBSET Steps]
    BY Facts
  <1> QED
    BY <1>1, <1>2, <1>3, <1>4 DEF release_step

(* A thread that gives up or finishes lets its claim go.                   *)
LEMMA LetGo ==
    ASSUME SafeInv, NEW s \in Sessions, NEW y, ses' = [ses EXCEPT ![s] = y],
           UNCHANGED <<verdict, events>>, release_step(s) \/ inflight' = inflight,
           \A inf : SessionSafe(y, verdict, events, inf), y.held = FALSE
    PROVE  SessionsSafe' /\ SingleFlight'
  <1>1. \A t \in Sessions \ {s} : ses[t].held => ses[t].step \in inflight'[ses[t].run]
    <2>1. CASE inflight' = inflight
      BY <2>1, HeldOf
    <2> QED
      BY <2>1, ReleaseOthers
  <1>2. SessionSafe(y, verdict, events, inflight')
    OBVIOUS
  <1> QED
    BY <1>1, <1>2, OneSafe

(* A thread moves on with the claim it has.                                *)
LEMMA ClaimKept ==
    ASSUME SafeInv, NEW s \in Sessions, NEW y, ses' = [ses EXCEPT ![s] = y],
           UNCHANGED <<verdict, events, inflight>>, SessionSafe(y, verdict, events, inflight),
           y.held = ses[s].held, y.run = ses[s].run, y.step = ses[s].step
    PROVE  SessionsSafe' /\ SingleFlight'
  <1>1. \A t \in Sessions \ {s} : ses[t].held => ses[t].step \in inflight'[ses[t].run]
    BY HeldOf
  <1>2. \A t \in Sessions \ {s} : y.held /\ ses[t].held /\ ses[t].run = y.run
                                  => ses[t].step # y.step
    BY DEF SafeInv, SingleFlight
  <1>3. SessionSafe(y, verdict, events, inflight')
    OBVIOUS
  <1> QED
    BY <1>1, <1>2, <1>3, OneSafe

(* What no step of a thread outside AppendEvent and PersistEvent touches.  *)
LEMMA StoreKept ==
    ASSUME SafeInv, UNCHANGED <<verdict, events, diskVars, grants>>
    PROVE  LedgersSafe' /\ FilesSafe' /\ GrantsSafe'
  BY DEF SafeInv, LedgersSafe, FilesSafe, GrantsSafe, diskVars

(* What no step outside the session threads touches.                       *)
LEMMA SessionsKept ==
    ASSUME SafeInv, UNCHANGED <<verdict, events, ses, inflight>>
    PROVE  SessionsSafe' /\ SingleFlight' /\ LedgersSafe'
  BY DEF SafeInv, SessionsSafe, SingleFlight, LedgersSafe

-----------------------------------------------------------------------------
(* The values a thread moves to inside a handler.                          *)

(* StepRequest: a thread at its receive loop holds no claim.               *)
LEMMA CheckedSafe ==
    ASSUME NEW x \in Session, x.pc = "idle", NEW vd, NEW evs, NEW inf,
           SessionSafe(x, vd, evs, inf), NEW k, NEW n, NEW ok \in BOOLEAN,
           ok => vd[x.run] = "allow" /\ UpstreamOk(evs[x.run], k)
    PROVE  /\ SessionSafe([x EXCEPT !.pc = "checked", !.step = k, !.nonce = n, !.ok = ok],
                          vd, evs, inf)
           /\ x.held = FALSE
  <1>1. x.held = FALSE
    BY DEF SessionSafe, HoldingPlaces, Session
  <1> QED
    BY <1>1 DEF SessionSafe, Session

(* Reauthorize, the delegated branch.                                      *)
LEMMA ClaimingSafe ==
    ASSUME NEW x \in Session, x.pc = "checked", x.ok, x.run \in DelegatedRuns,
           NEW vd, NEW evs, NEW inf, SessionSafe(x, vd, evs, inf)
    PROVE  LET y == [x EXCEPT !.pc = "claiming"]
           IN  SessionSafe(y, vd, evs, inf) /\ y.held = FALSE
  <1>1. x.held = FALSE
    BY DEF SessionSafe, HoldingPlaces, Session
  <1> QED
    BY <1>1 DEF SessionSafe, Session

(* Reauthorize, the cooperative branches.                                  *)
LEMMA DecidedSafe ==
    ASSUME NEW x \in Session, x.pc = "checked", NEW e, e.type # "step_result",
           NEW vd, NEW evs, NEW inf, SessionSafe(x, vd, evs, inf),
           e.type = "granted" => x.ok /\ e.step = x.step
    PROVE  LET y == [x EXCEPT !.pc = "append", !.ev = e]
           IN  SessionSafe(y, vd, evs, inf) /\ y.held = FALSE
  <1>1. x.held = FALSE
    BY DEF SessionSafe, HoldingPlaces, Session
  <1> QED
    BY <1>1 DEF SessionSafe, AppendSafe, Session

(* StepResult, a report of a granted step.                                 *)
LEMMA ReportedSafe ==
    ASSUME NEW x \in Session, x.pc = "idle", NEW e, NEW k, x.run \notin DelegatedRuns,
           NEW vd, NEW evs, NEW inf, SessionSafe(x, vd, evs, inf),
           vd[x.run] = "allow" /\ UpstreamOk(evs[x.run], e.step),
           e.step \in granted_steps(evs[x.run])
    PROVE  LET y == [x EXCEPT !.pc = "append", !.step = k, !.ev = e]
           IN  SessionSafe(y, vd, evs, inf) /\ y.held = FALSE
  <1>1. x.held = FALSE
    BY DEF SessionSafe, HoldingPlaces, Session
  <1> QED
    BY <1>1 DEF SessionSafe, AppendSafe, Session

(* claim_step.                                                             *)
LEMMA ClaimedSafe ==
    ASSUME NEW x \in Session, x.pc = "claiming", NEW vd, NEW evs, NEW inf, NEW inf2,
           SessionSafe(x, vd, evs, inf), x.step \in inf2[x.run],
           x.step \notin done_steps(evs[x.run])
    PROVE  SessionSafe([x EXCEPT !.pc = "claimed", !.held = TRUE], vd, evs, inf2)
  BY DEF SessionSafe, HoldingPlaces, Session

(* Dial, ReceiveResult and ExodUnreachable keep the claim.                 *)
LEMMA DialledSafe ==
    ASSUME NEW x \in Session, NEW vd, NEW evs, NEW inf, SessionSafe(x, vd, evs, inf)
    PROVE  /\ x.pc = "claimed" => SessionSafe([x EXCEPT !.pc = "dialled"], vd, evs, inf)
           /\ x.pc \in HoldingPlaces => SessionSafe([x EXCEPT !.pc = "finishing"], vd, evs, inf)
  BY DEF SessionSafe, HoldingPlaces, Session

LEMMA AnsweredSafe ==
    ASSUME NEW x \in Session, x.pc = "dialled", NEW e, e.type # "granted", e.step = x.step,
           NEW vd, NEW evs, NEW inf, SessionSafe(x, vd, evs, inf)
    PROVE  SessionSafe([x EXCEPT !.pc = "append", !.ev = e], vd, evs, inf)
  BY DEF SessionSafe, AppendSafe, HoldingPlaces, Session

(* AppendEvent and PersistEvent keep the claim.                            *)
LEMMA SnappedSafe ==
    ASSUME NEW x \in Session, x.pc = "append", NEW vd, NEW evs, NEW evs2, NEW inf,
           SessionSafe(x, vd, evs, inf), NEW new, IsPrefixOf(new, evs2[x.run])
    PROVE  SessionSafe([x EXCEPT !.pc = "persist", !.snap = new], vd, evs2, inf)
  BY DEF SessionSafe, HoldingPlaces, Session

LEMMA PersistedSafe ==
    ASSUME NEW x \in Session, x.pc = "persist", NEW vd, NEW evs, NEW inf, NEW q,
           SessionSafe(x, vd, evs, inf)
    PROVE  SessionSafe([x EXCEPT !.pc = "recorded", !.snap = q], vd, evs, inf)
  BY DEF SessionSafe, HoldingPlaces, Session

-----------------------------------------------------------------------------
(* The ledgers.                                                            *)

(* An append that is safe for the session is safe for the ledger.          *)
LEMMA AppendLedger ==
    ASSUME NEW x \in Session, NEW v, NEW evs \in Seq(Event), LedgerSafe(x.run, v, evs),
           AppendSafe(x, v, evs), x.held => x.step \notin done_steps(evs)
    PROVE  LedgerSafe(x.run, v, Append(evs, x.ev))
  <1> DEFINE e == x.ev
  <1>1. e \in Event
    BY DEF Session
  <1>2. InOrder(Append(evs, e))
    BY <1>1, AppendInOrder DEF LedgerSafe, AppendSafe
  <1>3. x.run \in DelegatedRuns => RecordedOnce(Append(evs, e))
    BY <1>1, AppendRecordedOnce DEF LedgerSafe, AppendSafe
  <1>4. x.run \notin DelegatedRuns => ResultsGranted(Append(evs, e))
    BY <1>1, AppendResultsGranted DEF LedgerSafe, AppendSafe
  <1>5. v # "allow" => NothingRan(Append(evs, e))
    BY <1>1, AppendNothingRan DEF LedgerSafe, AppendSafe
  <1> QED
    BY <1>2, <1>3, <1>4, <1>5 DEF LedgerSafe

(* What is safe in memory is safe on disk.                                 *)
LEMMA LedgerOnDisk ==
    ASSUME NEW r, NEW v, NEW a \in Seq(Event), NEW b \in Seq(Event), IsPrefixOf(a, b),
           LedgerSafe(r, v, b)
    PROVE  LedgerSafe(r, v, a)
  BY PrefixKeeps DEF LedgerSafe

-----------------------------------------------------------------------------
(* The invariant is inductive.                                             *)

LEMMA SafeInit == Init => SafeInv
  <1> SUFFICES ASSUME Init PROVE SafeInv
    OBVIOUS
  <1>1. TypeInv
    BY TypeInit
  <1>2. SessionsSafe
    BY ClosedSafe DEF Init, SessionsSafe
  <1>3. SingleFlight
    BY ClosedSafe DEF Init, SingleFlight
  <1>4. LedgersSafe /\ FilesSafe
    BY EmptyLedger DEF Init, LedgersSafe, LedgerSafe, FilesSafe
  <1>5. GrantsSafe
    BY OversightAssumption DEF Init, GrantsSafe, FreeGrant
  <1> QED
    BY <1>1, <1>2, <1>3, <1>4, <1>5 DEF SafeInv

LEMMA SafeStep == SafeInv /\ [Next]_vars => SafeInv'
<1> SUFFICES ASSUME SafeInv, [Next]_vars PROVE SafeInv'
  OBVIOUS
<1> USE OversightAssumption
<1>t. TypeInv'
  BY TypeStep DEF SafeInv
<1>1. ASSUME NEW r \in Runs, NEW v \in Verdicts, Govern(r, v) PROVE SafeInv'
  <2>1. UNCHANGED <<events, ses, inflight, disk, files, grants>>
    BY <1>1 DEF Govern
  <2>2. \A q \in Runs : verdict[q] # "none" => verdict'[q] = verdict[q]
    BY <1>1, Facts DEF Govern
  <2>3. SessionsSafe'
    <3>1. ASSUME NEW t \in Sessions PROVE SessionSafe(ses[t], verdict', events, inflight)
      <4>1. SessionSafe(ses[t], verdict, events, inflight)
        BY SafeOf
      <4>2. ses[t].pc # "closed" => ses[t].run \in Runs
        BY SafeOf
      <4>3. ses[t].run \in Runs => (verdict[ses[t].run] = "allow" => verdict'[ses[t].run] = "allow")
        BY <2>2
      <4> QED
        BY <4>1, <4>2, <4>3 DEF SessionSafe, AppendSafe
    <3> QED
      BY <2>1, <3>1 DEF SessionsSafe
  <2>4. LedgersSafe'
    <3>1. ASSUME NEW q \in Runs PROVE LedgerSafe(q, verdict'[q], events[q])
      <4>1. LedgerSafe(q, verdict[q], events[q])
        BY DEF SafeInv, LedgersSafe
      <4>2. verdict'[q] # "allow" => verdict[q] # "allow"
        BY <2>2
      <4> QED
        BY <4>1, <4>2 DEF LedgerSafe
    <3> QED
      BY <2>1, <3>1 DEF LedgersSafe
  <2>5. GrantsSafe'
    BY <2>1, <2>2 DEF SafeInv, GrantsSafe
  <2>6. SingleFlight' /\ FilesSafe'
    BY <2>1 DEF SafeInv, SingleFlight, FilesSafe
  <2> QED
    BY <2>3, <2>4, <2>5, <2>6, <1>t DEF SafeInv
<1>2. ASSUME NEW r \in Runs, PersistRun(r) PROVE SafeInv'
  <2>1. UNCHANGED <<verdict, events, ses, inflight, grants>>
    BY <1>2 DEF PersistRun
  <2>2. SessionsSafe' /\ SingleFlight' /\ LedgersSafe'
    BY <2>1, SessionsKept
  <2>3. FilesSafe'
    <3>1. disk' = [disk EXCEPT ![r] = <<>>] /\ files' = files \cup {r}
      BY <1>2 DEF PersistRun, ReplaceFile
    <3>2. disk \in [Runs -> Seq(Event)] /\ events \in [Runs -> Seq(Event)]
      BY Facts
    <3>3. \A q \in Runs : IsPrefixOf(<<>>, events[q])
      BY <3>2, EmptyLedger
    <3> QED
      BY <2>1, <3>1, <3>2, <3>3 DEF SafeInv, FilesSafe
  <2>4. GrantsSafe'
    BY <2>1 DEF SafeInv, GrantsSafe
  <2> QED
    BY <2>2, <2>3, <2>4, <1>t DEF SafeInv
<1>3. ASSUME UNCHANGED <<verdict, events, ses, inflight, diskVars, grants>> PROVE SafeInv'
  <2>1. SessionsSafe' /\ SingleFlight' /\ LedgersSafe'
    BY <1>3, SessionsKept
  <2>2. FilesSafe' /\ GrantsSafe'
    BY <1>3, StoreKept
  <2> QED
    BY <2>1, <2>2, <1>t DEF SafeInv
<1>4. ASSUME UNCHANGED <<verdict, events, ses, inflight, diskVars>>,
             \A n \in Nonces : grants'[n].run = grants[n].run
      PROVE  SafeInv'
  <2>1. SessionsSafe' /\ SingleFlight' /\ LedgersSafe'
    BY <1>4, SessionsKept
  <2>2. FilesSafe' /\ GrantsSafe'
    BY <1>4 DEF SafeInv, FilesSafe, GrantsSafe, diskVars
  <2> QED
    BY <2>1, <2>2, <1>t DEF SafeInv
<1>5. ASSUME NEW s \in Sessions, NEW r \in Runs, Hello(s, r) PROVE SafeInv'
  <2> DEFINE y == [ClosedSession EXCEPT !.pc = "idle", !.run = r]
  <2>1. ses' = [ses EXCEPT ![s] = y] /\ UNCHANGED <<verdict, events, inflight, diskVars, grants>>
    BY <1>5 DEF Hello, diskVars
  <2>2. \A inf : SessionSafe(y, verdict, events, inf) /\ y.held = FALSE
    BY IdleSafe
  <2> HIDE DEF y
  <2>3. SessionsSafe' /\ SingleFlight'
    BY <2>1, <2>2, LetGo
  <2> QED
    BY <2>1, <2>3, <1>t, StoreKept DEF SafeInv
<1>6. ASSUME NEW s \in Sessions, Disconnect(s) PROVE SafeInv'
  <2>1. ses' = [ses EXCEPT ![s] = ClosedSession] /\ UNCHANGED <<verdict, events, inflight, diskVars, grants>>
    BY <1>6 DEF Disconnect, diskVars
  <2>2. SessionsSafe' /\ SingleFlight'
    BY <2>1, ClosedSafe, LetGo
  <2> QED
    BY <2>1, <2>2, <1>t, StoreKept DEF SafeInv
<1>7. ASSUME NEW s \in Sessions, NEW k \in 1..(NSteps + 1), NEW p \in BOOLEAN, StepRequest(s, k, p)
      PROVE  SafeInv'
  <2> DEFINE x  == ses[s]
             ok == authorize_step(x.run, k, p)
             n  == reqs + 1
             y  == [x EXCEPT !.pc = "checked", !.step = k, !.nonce = n, !.ok = ok]
  <2>1. ses' = [ses EXCEPT ![s] = y]
    BY <1>7 DEF StepRequest
  <2>2. UNCHANGED <<verdict, events, inflight, diskVars, grants>>
    BY <1>7 DEF StepRequest, claimVars, memVars
  <2>3. x \in Session /\ x.pc = "idle" /\ SessionSafe(x, verdict, events, inflight)
    BY <1>7, SafeOf DEF StepRequest
  <2>4. ok \in BOOLEAN /\ (ok => verdict[x.run] = "allow" /\ UpstreamOk(events[x.run], k))
    BY DEF authorize_step
  <2> HIDE DEF x, ok, n
  <2>5. SessionSafe(y, verdict, events, inflight) /\ x.held = FALSE
    BY <2>3, <2>4, CheckedSafe
  <2>6. y.held = FALSE
    BY <2>3, <2>5 DEF Session
  <2> HIDE DEF y
  <2>7. SessionsSafe' /\ SingleFlight'
    BY <2>1, <2>2, <2>5, <2>6, HeldOf, OneSafe
  <2> QED
    BY <2>2, <2>7, <1>t, StoreKept DEF SafeInv
<1>8. ASSUME NEW s \in Sessions, Reauthorize(s) PROVE SafeInv'
  <2> DEFINE x == ses[s]
  <2>1. UNCHANGED <<verdict, events, inflight, diskVars, grants>>
    BY <1>8 DEF Reauthorize, claimVars, memVars
  <2>2. x \in Session /\ x.pc = "checked" /\ SessionSafe(x, verdict, events, inflight)
    BY <1>8, SafeOf DEF Reauthorize
  <2>3. ASSUME NEW y, ses' = [ses EXCEPT ![s] = y], y.held = FALSE,
               SessionSafe(y, verdict, events, inflight)
        PROVE  SafeInv'
    <3>1. SessionsSafe' /\ SingleFlight'
      BY <2>1, <2>3, HeldOf, OneSafe
    <3> QED
      BY <2>1, <3>1, <1>t, StoreKept DEF SafeInv
  <2>4. ASSUME x.ok, x.run \in DelegatedRuns, ses' = [ses EXCEPT ![s] = [x EXCEPT !.pc = "claiming"]]
        PROVE  SafeInv'
    <3> HIDE DEF x
    <3> DEFINE y == [x EXCEPT !.pc = "claiming"]
    <3>1. SessionSafe(y, verdict, events, inflight) /\ y.held = FALSE
      BY <2>2, <2>4, ClaimingSafe
    <3>2. ses' = [ses EXCEPT ![s] = y]
      BY <2>4
    <3> HIDE DEF y
    <3> QED
      BY <3>1, <3>2, <2>3
  <2>5. ASSUME ses' = [ses EXCEPT ![s] = Idle(s)] PROVE SafeInv'
    <3>1. SessionSafe(Idle(s), verdict, events, inflight) /\ Idle(s).held = FALSE
      BY IdleSafe DEF Idle
    <3> QED
      BY <3>1, <2>3, <2>5
  <2>6. ASSUME NEW e, e.type # "step_result", e.type = "granted" => x.ok /\ e.step = x.step,
               ses' = [ses EXCEPT ![s] = [x EXCEPT !.pc = "append", !.ev = e]]
        PROVE  SafeInv'
    <3> HIDE DEF x
    <3> DEFINE y == [x EXCEPT !.pc = "append", !.ev = e]
    <3>1. SessionSafe(y, verdict, events, inflight) /\ y.held = FALSE
      BY <2>2, <2>6, DecidedSafe
    <3>2. ses' = [ses EXCEPT ![s] = y]
      BY <2>6
    <3> HIDE DEF y
    <3> QED
      BY <3>1, <3>2, <2>3
  <2>7. /\ GrantedEvent(x.step).type = "granted" /\ GrantedEvent(x.step).step = x.step
        /\ RefusedEvent(x.step).type = "step_refused"
    BY DEF GrantedEvent, RefusedEvent
  <2>8. x.ok \in BOOLEAN
    BY <2>2 DEF Session
  <2> QED
    BY <1>8, <2>4, <2>5, <2>6, <2>7 DEF Reauthorize, Delegated
<1>9. ASSUME NEW s \in Sessions, claim_step(s) PROVE SafeInv'
  <2> DEFINE x == ses[s]
             y == [x EXCEPT !.pc = "claimed", !.held = TRUE]
  <2>1. UNCHANGED <<verdict, events, diskVars, grants>>
    BY <1>9 DEF claim_step, claimVars, memVars
  <2>2. /\ x \in Session /\ x.pc = "claiming" /\ SessionSafe(x, verdict, events, inflight)
        /\ x.run \in Runs /\ inflight \in [Runs -> SUBSET Steps]
    BY <1>9, SafeOf, Facts DEF claim_step
  <2>3. SessionsSafe' /\ SingleFlight'
    <3>1. CASE ~Claimable(x.run, x.step)
      <4>1. ses' = [ses EXCEPT ![s] = Idle(s)] /\ inflight' = inflight
        BY <1>9, <3>1 DEF claim_step
      <4>2. \A inf : SessionSafe(Idle(s), verdict, events, inf) /\ Idle(s).held = FALSE
        BY IdleSafe DEF Idle
      <4> QED
        BY <2>1, <4>1, <4>2, LetGo
    <3>2. CASE Claimable(x.run, x.step)
      <4>1. /\ ses' = [ses EXCEPT ![s] = y]
            /\ inflight' = [inflight EXCEPT ![x.run] = @ \cup {x.step}]
        BY <1>9, <3>2 DEF claim_step
      <4>2. x.step \notin done_steps(events[x.run]) /\ x.step \notin inflight[x.run]
        BY <3>2 DEF Claimable
      <4>3. x.step \in inflight'[x.run]
        BY <2>2, <4>1
      <4>4. y.held /\ y.run = x.run /\ y.step = x.step
        BY <2>2 DEF Session
      <4>5. \A t \in Sessions \ {s} : ses[t].held => ses[t].step \in inflight'[ses[t].run]
        BY <2>2, <4>1, HeldOf
      <4>6. \A t \in Sessions \ {s} : ses[t].held /\ ses[t].run = x.run => ses[t].step # x.step
        BY <4>2, HeldOf
      <4> HIDE DEF x
      <4>7. SessionSafe(y, verdict, events, inflight')
        BY <2>2, <4>2, <4>3, ClaimedSafe
      <4> HIDE DEF y
      <4>8. \A t \in Sessions \ {s} : y.held /\ ses[t].held /\ ses[t].run = y.run
                                      => ses[t].step # y.step
        BY <4>4, <4>6
      <4>9. UNCHANGED <<verdict, events>> /\ ses' = [ses EXCEPT ![s] = y]
        BY <2>1, <4>1
      <4> QED
        BY <4>5, <4>7, <4>8, <4>9, OneSafe
    <3> QED
      BY <3>1, <3>2
  <2> QED
    BY <2>1, <2>3, <1>t, StoreKept DEF SafeInv
<1>10. ASSUME NEW s \in Sessions, RefuseParams(s) PROVE SafeInv'
  <2>1. ses' = [ses EXCEPT ![s] = Idle(s)]
    BY <1>10 DEF RefuseParams
  <2>2. /\ UNCHANGED <<verdict, events, diskVars, grants>>
        /\ release_step(s) \/ inflight' = inflight
    BY <1>10 DEF RefuseParams, claimVars, memVars
  <2>3. \A inf : SessionSafe(Idle(s), verdict, events, inf) /\ Idle(s).held = FALSE
    BY IdleSafe DEF Idle
  <2>4. SessionsSafe' /\ SingleFlight'
    BY <2>1, <2>2, <2>3, LetGo
  <2> QED
    BY <2>2, <2>4, <1>t, StoreKept DEF SafeInv
<1>11. ASSUME NEW s \in Sessions, StagingFails(s) PROVE SafeInv'
  <2>1. ses' = [ses EXCEPT ![s] = ClosedSession]
    BY <1>11 DEF StagingFails
  <2>2. /\ UNCHANGED <<verdict, events, diskVars, grants>>
        /\ release_step(s) \/ inflight' = inflight
    BY <1>11 DEF StagingFails, claimVars, memVars
  <2>3. \A inf : SessionSafe(ClosedSession, verdict, events, inf) /\ ClosedSession.held = FALSE
    BY ClosedSafe
  <2>4. SessionsSafe' /\ SingleFlight'
    BY <2>1, <2>2, <2>3, LetGo
  <2> QED
    BY <2>2, <2>4, <1>t, StoreKept DEF SafeInv
<1>12. ASSUME NEW s \in Sessions, PersistFails(s) PROVE SafeInv'
  <2>1. ses' = [ses EXCEPT ![s] = ClosedSession]
    BY <1>12 DEF PersistFails
  <2>2. /\ UNCHANGED <<verdict, events, diskVars, grants>>
        /\ release_step(s) \/ inflight' = inflight
    BY <1>12 DEF PersistFails, claimVars, memVars
  <2>3. \A inf : SessionSafe(ClosedSession, verdict, events, inf) /\ ClosedSession.held = FALSE
    BY ClosedSafe
  <2>4. SessionsSafe' /\ SingleFlight'
    BY <2>1, <2>2, <2>3, LetGo
  <2> QED
    BY <2>2, <2>4, <1>t, StoreKept DEF SafeInv
<1>13. ASSUME NEW s \in Sessions, Dial(s) PROVE SafeInv'
  <2> DEFINE x == ses[s]
             y == [x EXCEPT !.pc = "dialled"]
  <2>1. ses' = [ses EXCEPT ![s] = y] /\ UNCHANGED <<verdict, events, inflight, diskVars>>
    BY <1>13 DEF Dial, claimVars, memVars
  <2>2. x \in Session /\ x.pc = "claimed" /\ SessionSafe(x, verdict, events, inflight)
    BY <1>13, SafeOf DEF Dial
  <2>3. verdict[x.run] = "allow"
    BY <2>2 DEF SessionSafe
  <2>4. GrantsSafe'
    <3>1. grants' = [grants EXCEPT ![x.nonce] = [run |-> x.run, step |-> x.step, st |-> "dialled",
                                                 answer |-> "none", ran |-> FALSE]]
      BY <1>13 DEF Dial
    <3>2. \A n \in Nonces : grants'[n].run = grants[n].run \/ grants'[n].run = x.run
      BY <3>1, Facts
    <3> QED
      BY <2>1, <2>3, <3>2 DEF SafeInv, GrantsSafe
  <2>5. LedgersSafe' /\ FilesSafe'
    BY <2>1 DEF SafeInv, LedgersSafe, FilesSafe, diskVars
  <2>6. y.held = x.held /\ y.run = x.run /\ y.step = x.step
    BY <2>2 DEF Session
  <2>7. SessionSafe(y, verdict, events, inflight)
    BY <2>2, DialledSafe
  <2> HIDE DEF y
  <2>8. SessionsSafe' /\ SingleFlight'
    BY <2>1, <2>6, <2>7, ClaimKept
  <2> QED
    BY <2>4, <2>5, <2>8, <1>t DEF SafeInv
<1>14. ASSUME NEW s \in Sessions, ReceiveResult(s) PROVE SafeInv'
  <2> DEFINE x == ses[s]
             e == DelegatedEvent(x.step, grants[x.nonce].answer, x.nonce)
             y1 == [x EXCEPT !.pc = "finishing"]
             y2 == [x EXCEPT !.pc = "append", !.ev = e]
  <2>1. UNCHANGED <<verdict, events, inflight, diskVars, grants>>
    BY <1>14 DEF ReceiveResult, claimVars, memVars
  <2>2. x \in Session /\ x.pc = "dialled" /\ SessionSafe(x, verdict, events, inflight)
    BY <1>14, SafeOf DEF ReceiveResult
  <2>3. ses' = [ses EXCEPT ![s] = y1] \/ ses' = [ses EXCEPT ![s] = y2]
    BY <1>14 DEF ReceiveResult
  <2>4. e.type # "granted" /\ e.step = x.step
    BY DEF DelegatedEvent
  <2> HIDE DEF e
  <2>5. /\ y1.held = x.held /\ y1.run = x.run /\ y1.step = x.step
        /\ y2.held = x.held /\ y2.run = x.run /\ y2.step = x.step
    BY <2>2 DEF Session
  <2>6. SessionSafe(y1, verdict, events, inflight) /\ SessionSafe(y2, verdict, events, inflight)
    BY <2>2, <2>4, DialledSafe, AnsweredSafe DEF HoldingPlaces
  <2> HIDE DEF y1, y2
  <2>7. SessionsSafe' /\ SingleFlight'
    BY <2>1, <2>3, <2>5, <2>6, ClaimKept
  <2> QED
    BY <2>1, <2>7, <1>t, StoreKept DEF SafeInv
<1>15. ASSUME NEW s \in Sessions, ExodUnreachable(s) PROVE SafeInv'
  <2> DEFINE x == ses[s]
             y == [x EXCEPT !.pc = "finishing"]
  <2>1. ses' = [ses EXCEPT ![s] = y] /\ UNCHANGED <<verdict, events, inflight, diskVars, grants>>
    BY <1>15 DEF ExodUnreachable, claimVars, memVars
  <2>2. x \in Session /\ x.pc = "dialled" /\ SessionSafe(x, verdict, events, inflight)
    BY <1>15, SafeOf DEF ExodUnreachable
  <2>3. y.held = x.held /\ y.run = x.run /\ y.step = x.step
    BY <2>2 DEF Session
  <2>4. SessionSafe(y, verdict, events, inflight)
    BY <2>2, DialledSafe DEF HoldingPlaces
  <2> HIDE DEF y
  <2>5. SessionsSafe' /\ SingleFlight'
    BY <2>1, <2>3, <2>4, ClaimKept
  <2> QED
    BY <2>1, <2>5, <1>t, StoreKept DEF SafeInv
<1>16. ASSUME NEW s \in Sessions, NEW k \in Steps, NEW st \in {"ok", "error"}, NEW p \in BOOLEAN,
             StepResult(s, k, st, p)
      PROVE  SafeInv'
  <2> DEFINE x == ses[s]
             e == ReportedEvent(k, st)
             y == [x EXCEPT !.pc = "append", !.step = k, !.ev = e]
  <2>1. ses' = [ses EXCEPT ![s] = y] /\ UNCHANGED <<verdict, events, inflight, diskVars, grants>>
    BY <1>16 DEF StepResult, claimVars, memVars
  <2>2. /\ x \in Session /\ x.pc = "idle" /\ SessionSafe(x, verdict, events, inflight)
        /\ x.run \in Runs /\ events[x.run] \in Seq(Event)
    BY <1>16, SafeOf, Facts DEF StepResult
  <2>3. x.run \notin DelegatedRuns /\ k \in granted_steps(events[x.run])
    BY <1>16 DEF StepResult, Delegated, result_acceptable
  <2>4. LedgerSafe(x.run, verdict[x.run], events[x.run])
    BY <2>2 DEF SafeInv, LedgersSafe
  <2>5. UpstreamOk(events[x.run], k) /\ verdict[x.run] = "allow"
    BY <2>2, <2>3, <2>4, GrantedUpstream DEF LedgerSafe
  <2>6. e.step = k
    BY DEF ReportedEvent
  <2> HIDE DEF x, e
  <2>7. SessionSafe(y, verdict, events, inflight) /\ y.held = FALSE
    BY <2>2, <2>3, <2>5, <2>6, ReportedSafe
  <2> HIDE DEF y
  <2>8. SessionsSafe' /\ SingleFlight'
    BY <2>1, <2>7, HeldOf, OneSafe
  <2> QED
    BY <2>1, <2>8, <1>t, StoreKept DEF SafeInv
<1>17. ASSUME NEW s \in Sessions, AppendEvent(s) PROVE SafeInv'
  <2> DEFINE x   == ses[s]
             new == Append(events[x.run], x.ev)
             y   == [x EXCEPT !.pc = "persist", !.snap = new]
             z   == [x EXCEPT !.pc = "finishing"]
  <2>1. UNCHANGED <<verdict, inflight, diskVars, grants>>
    BY <1>17 DEF AppendEvent, claimVars
  <2>2. /\ x \in Session /\ x.pc = "append" /\ SessionSafe(x, verdict, events, inflight)
        /\ x.run \in Runs /\ events \in [Runs -> Seq(Event)] /\ ses \in [Sessions -> Session]
    BY <1>17, SafeOf, Facts DEF AppendEvent
  <2>3. CASE x.run \notin resident
    <3>1. ses' = [ses EXCEPT ![s] = z] /\ events' = events
      BY <1>17, <2>3 DEF AppendEvent
    <3>2. z.held = x.held /\ z.run = x.run /\ z.step = x.step
      BY <2>2 DEF Session
    <3>3. SessionSafe(z, verdict, events, inflight)
      BY <2>2, DialledSafe DEF HoldingPlaces
    <3> HIDE DEF z
    <3>4. SessionsSafe' /\ SingleFlight'
      BY <2>1, <3>1, <3>2, <3>3, ClaimKept
    <3> QED
      BY <2>1, <3>1, <3>4, <1>t, StoreKept DEF SafeInv
  <2>4. CASE x.run \in resident
    <3>1. ses' = [ses EXCEPT ![s] = y] /\ events' = [events EXCEPT ![x.run] = new]
      BY <1>17, <2>4 DEF AppendEvent
    <3>2. x.ev \in Event /\ events[x.run] \in Seq(Event)
      BY <2>2 DEF Session
    <3>3. new \in Seq(Event) /\ IsPrefixOf(events[x.run], new)
      BY <3>2, AppendElements, AppendPrefix
    <3>4. \A q \in Runs : events'[q] = IF q = x.run THEN new ELSE events[q]
      BY <2>2, <3>1
    <3>5. events' \in [Runs -> Seq(Event)]
      BY <2>2, <3>1, <3>3
    <3>6. \A q \in Runs : IsPrefixOf(events[q], events'[q])
      BY <2>2, <3>3, <3>4, PrefixReflexive
    <3>7. AppendSafe(x, verdict[x.run], events[x.run])
      BY <2>2 DEF SessionSafe
    <3>8. x.held => x.step \notin done_steps(events[x.run])
      BY <2>2 DEF SessionSafe
    <3>9. LedgersSafe'
      <4>1. LedgerSafe(x.run, verdict[x.run], events[x.run])
        BY <2>2 DEF SafeInv, LedgersSafe
      <4>2. LedgerSafe(x.run, verdict[x.run], new)
        BY <2>2, <3>2, <3>7, <3>8, <4>1, AppendLedger
      <4>3. \A q \in Runs : LedgerSafe(q, verdict[q], events[q])
        BY DEF SafeInv, LedgersSafe
      <4>4. \A q \in Runs : LedgerSafe(q, verdict[q], events'[q])
        BY <3>4, <4>2, <4>3
      <4> QED
        BY <2>1, <4>4 DEF LedgersSafe
    <3>10. FilesSafe'
      <4>1. disk \in [Runs -> Seq(Event)]
        BY Facts
      <4>2. \A q \in Runs : IsPrefixOf(disk[q], events'[q])
        BY <2>2, <3>5, <3>6, <4>1, PrefixTransitive DEF SafeInv, FilesSafe
      <4> QED
        BY <2>1, <4>2 DEF SafeInv, FilesSafe, diskVars
    <3>11. GrantsSafe'
      BY <2>1 DEF SafeInv, GrantsSafe
    <3>12. SingleFlight'
      <4>1. y.held = x.held /\ y.run = x.run /\ y.step = x.step
        BY <2>2 DEF Session
      <4>2. \A t \in Sessions : /\ ses'[t].held = ses[t].held /\ ses'[t].run = ses[t].run
                               /\ ses'[t].step = ses[t].step
        BY <2>2, <3>1, <4>1
      <4> QED
        BY <4>2 DEF SafeInv, SingleFlight
    <3>13. SessionsSafe'
      <4>1. SessionSafe(y, verdict, events', inflight)
        <5>1. events'[x.run] = new /\ IsPrefixOf(new, new)
          BY <2>2, <3>3, <3>4, PrefixReflexive
        <5> HIDE DEF x, new
        <5> QED
          BY <2>2, <5>1, SnappedSafe
      <4>2. ASSUME NEW t \in Sessions, t # s PROVE SessionSafe(ses[t], verdict, events', inflight)
        <5> DEFINE w == ses[t]
        <5>1. /\ w \in Session /\ SessionSafe(w, verdict, events, inflight)
              /\ w.pc # "closed" => w.run \in Runs
          BY SafeOf
        <5>2. w.held => w.step \in inflight[w.run] /\ w.run \in DelegatedRuns /\ w.run \in Runs
          BY HeldOf
        <5>3. w.held /\ w.run = x.run /\ x.ev.type = "step_result" => x.ev.step # w.step
          BY <3>7, <4>2, <5>2 DEF AppendSafe, SafeInv, SingleFlight
        <5>4. w.held /\ w.pc \in {"claimed", "dialled", "append"} => w.step \notin done_steps(events'[w.run])
          <6>1. SUFFICES ASSUME w.held, w.pc \in {"claimed", "dialled", "append"}
                         PROVE  w.step \notin done_steps(events'[w.run])
            OBVIOUS
          <6>2. w.step \notin done_steps(events[w.run])
            BY <5>1, <6>1 DEF SessionSafe
          <6>3. CASE w.run = x.run
            BY <3>2, <3>4, <5>2, <5>3, <6>1, <6>2, <6>3, AppendDone
          <6>4. CASE w.run # x.run
            BY <3>4, <5>2, <6>1, <6>2, <6>4
          <6> QED
            BY <6>3, <6>4
        <5> HIDE DEF w
        <5>5. SessionSafe(w, verdict, events', inflight)
          BY <2>2, <3>5, <3>6, <5>1, <5>2, <5>4, Carried
        <5> QED
          BY <5>5 DEF w
      <4>3. \A t \in Sessions : SessionSafe(ses'[t], verdict, events', inflight)
        BY <2>2, <3>1, <4>1, <4>2
      <4> QED
        BY <2>1, <4>3 DEF SessionsSafe
    <3> QED
      BY <3>9, <3>10, <3>11, <3>12, <3>13, <1>t DEF SafeInv
  <2> QED
    BY <2>3, <2>4
<1>18. ASSUME NEW s \in Sessions, PersistEvent(s) PROVE SafeInv'
  <2> DEFINE x == ses[s]
             y == [x EXCEPT !.pc = "recorded", !.snap = <<>>]
  <2>1. ses' = [ses EXCEPT ![s] = y] /\ UNCHANGED <<verdict, events, inflight, grants>>
    BY <1>18 DEF PersistEvent, claimVars, memVars
  <2>2. /\ x \in Session /\ x.pc = "persist" /\ SessionSafe(x, verdict, events, inflight)
        /\ x.run \in Runs
    BY <1>18, SafeOf DEF PersistEvent
  <2>3. FilesSafe'
    <3>1. disk' = [disk EXCEPT ![x.run] = x.snap] /\ files' = files \cup {x.run}
      BY <1>18 DEF PersistEvent, ReplaceFile
    <3>2. IsPrefixOf(x.snap, events[x.run])
      BY <2>2 DEF SessionSafe
    <3>3. disk \in [Runs -> Seq(Event)]
      BY Facts
    <3> QED
      BY <2>1, <2>2, <3>1, <3>2, <3>3 DEF SafeInv, FilesSafe
  <2>4. LedgersSafe' /\ GrantsSafe'
    BY <2>1 DEF SafeInv, LedgersSafe, GrantsSafe
  <2>5. y.held = x.held /\ y.run = x.run /\ y.step = x.step
    BY <2>2 DEF Session
  <2>6. SessionSafe(y, verdict, events, inflight)
    BY <2>2, PersistedSafe
  <2> HIDE DEF y
  <2>7. SessionsSafe' /\ SingleFlight'
    BY <2>1, <2>5, <2>6, ClaimKept
  <2> QED
    BY <2>3, <2>4, <2>7, <1>t DEF SafeInv
<1>19. ASSUME NEW s \in Sessions, NEW sent \in BOOLEAN, Reply(s, sent) PROVE SafeInv'
  <2>1. ses' = [ses EXCEPT ![s] = Idle(s)] \/ ses' = [ses EXCEPT ![s] = ClosedSession]
    BY <1>19 DEF Reply
  <2>2. UNCHANGED <<verdict, events, diskVars, grants>> /\ release_step(s)
    BY <1>19 DEF Reply, claimVars, memVars
  <2>3. \A inf : SessionSafe(Idle(s), verdict, events, inf) /\ Idle(s).held = FALSE
    BY IdleSafe DEF Idle
  <2>4. \A inf : SessionSafe(ClosedSession, verdict, events, inf) /\ ClosedSession.held = FALSE
    BY ClosedSafe
  <2>5. SessionsSafe' /\ SingleFlight'
    BY <2>1, <2>2, <2>3, <2>4, LetGo
  <2> QED
    BY <2>2, <2>5, <1>t, StoreKept DEF SafeInv
<1>20. ASSUME Restart PROVE SafeInv'
  <2>1. UNCHANGED <<verdict, diskVars, grants>>
    BY <1>20 DEF Restart
  <2>2. ses' = [s \in Sessions |-> ClosedSession] /\ events' = [r \in Runs |-> LoadedEvents(r)]
    BY <1>20 DEF Restart
  <2>3. \A r \in Runs : events'[r] = disk[r]
    BY <2>2 DEF LoadedEvents, SafeInv, FilesSafe
  <2>4. disk \in [Runs -> Seq(Event)] /\ events \in [Runs -> Seq(Event)]
    BY Facts
  <2>5. LedgersSafe'
    <3>1. ASSUME NEW r \in Runs PROVE LedgerSafe(r, verdict[r], disk[r])
      <4>1. LedgerSafe(r, verdict[r], events[r]) /\ IsPrefixOf(disk[r], events[r])
        BY DEF SafeInv, LedgersSafe, FilesSafe
      <4> QED
        BY <2>4, <4>1, LedgerOnDisk
    <3> QED
      BY <2>1, <2>3, <3>1 DEF LedgersSafe
  <2>6. FilesSafe'
    BY <2>1, <2>3, <2>4 DEF SafeInv, FilesSafe, IsPrefixOf, diskVars
  <2>7. SessionsSafe' /\ SingleFlight'
    BY <2>2, ClosedSafe DEF SessionsSafe, SingleFlight
  <2>8. GrantsSafe'
    BY <2>1 DEF SafeInv, GrantsSafe
  <2> QED
    BY <2>5, <2>6, <2>7, <2>8, <1>t DEF SafeInv
<1>21. ASSUME NEW r \in Runs,
              \/ \E written \in BOOLEAN : LogDecision(r, written)
              \/ PersistRunFails(r) \/ AuthorityLapses(r)
       PROVE  SafeInv'
  BY <1>3, <1>21 DEF LogDecision, PersistRunFails, AuthorityLapses, diskVars
<1>22. ASSUME NEW n \in Nonces, NEW out \in Outcomes, run_step(n, out) PROVE SafeInv'
  <2>1. grants \in [Nonces -> Grant]
    BY Facts
  <2>2. \A m \in Nonces : grants'[m].run = grants[m].run
    BY <1>22, <2>1 DEF run_step, Grant
  <2> QED
    BY <1>4, <1>22, <2>2 DEF run_step, claimVars, memVars
<1>23. ASSUME NEW n \in Nonces, ExodReply(n) PROVE SafeInv'
  <2>1. grants \in [Nonces -> Grant]
    BY Facts
  <2>2. \A m \in Nonces : grants'[m].run = grants[m].run
    BY <1>23, <2>1 DEF ExodReply, Grant
  <2> QED
    BY <1>4, <1>23, <2>2 DEF ExodReply, claimVars, memVars
<1>24. ASSUME ExodRestart PROVE SafeInv'
  <2>1. grants \in [Nonces -> Grant]
    BY Facts
  <2>2. \A m \in Nonces : grants'[m].run = grants[m].run
    BY <1>24, <2>1 DEF ExodRestart, Grant
  <2> QED
    BY <1>4, <1>24, <2>2 DEF ExodRestart, claimVars, memVars
<1>25. CASE UNCHANGED vars
  BY <1>3, <1>25 DEF vars, diskVars
<1> QED
  BY <1>1, <1>2, <1>5, <1>6, <1>7, <1>8, <1>9, <1>10, <1>11, <1>12, <1>13, <1>14, <1>15, <1>16,
     <1>17, <1>18, <1>19, <1>20, <1>21, <1>22, <1>23, <1>24, <1>25
     DEF Next, Client, Handler, Thread, Exod

LEMMA SafeAlways == Spec => []SafeInv
  BY SafeInit, SafeStep, PTL DEF Spec

-----------------------------------------------------------------------------
(* What it gives.                                                          *)

(* In memory and on disk, whatever sessions, crashes, evictions and failed *)
(* writes do, no grant and no result precedes the ok results it depends    *)
(* on: the order gate of authorize_step holds at the later append too.     *)
THEOREM LedgersStayInOrder == Spec => []LedgerInOrder
<1>1. SafeInv => LedgerInOrder
  <2> SUFFICES ASSUME SafeInv, NEW r \in Runs PROVE InOrder(events[r]) /\ InOrder(disk[r])
    BY DEF LedgerInOrder
  <2>1. LedgerSafe(r, verdict[r], events[r]) /\ IsPrefixOf(disk[r], events[r])
    BY DEF SafeInv, LedgersSafe, FilesSafe
  <2>2. LedgerSafe(r, verdict[r], disk[r])
    BY <2>1, Facts, LedgerOnDisk
  <2> QED
    BY <2>1, <2>2 DEF LedgerSafe
<1> QED
  BY <1>1, SafeAlways, PTL

(* For any number of sessions on a delegated run, claim_step lets at most  *)
(* one result of a step into the run's ledger.                             *)
THEOREM DelegatedResultsUnique == Spec => []DelegatedRecordedOnce
<1>1. SafeInv => DelegatedRecordedOnce
  <2> SUFFICES ASSUME SafeInv, NEW r \in DelegatedRuns
               PROVE  RecordedOnce(events[r]) /\ RecordedOnce(disk[r])
    BY DEF DelegatedRecordedOnce
  <2>1. r \in Runs
    BY OversightAssumption
  <2>2. LedgerSafe(r, verdict[r], events[r]) /\ IsPrefixOf(disk[r], events[r])
    BY <2>1 DEF SafeInv, LedgersSafe, FilesSafe
  <2>3. LedgerSafe(r, verdict[r], disk[r])
    BY <2>1, <2>2, Facts, LedgerOnDisk
  <2> QED
    BY <2>2, <2>3 DEF LedgerSafe
<1> QED
  BY <1>1, SafeAlways, PTL

(* No two of any number of sessions are ever inside the claimed window of  *)
(* the same step.                                                          *)
THEOREM ClaimsExclusive == Spec => []SingleFlight
<1>1. SafeInv => SingleFlight
  BY DEF SafeInv
<1> QED
  BY <1>1, SafeAlways, PTL

(* A step whose result is recorded is not dialled again, also by a session *)
(* that passed authorize_step before the result was there.                 *)
THEOREM CompletedStepsClosed == Spec => []CompletedNeverRedialled
<1>1. SafeInv => CompletedNeverRedialled
  BY SafeOf DEF CompletedNeverRedialled, SessionSafe
<1> QED
  BY <1>1, SafeAlways, PTL

(* A ledger file is always an earlier state of the run's history, although *)
(* writes of one run race each other outside the lock.                     *)
THEOREM FilesArePrefixes == Spec => []DiskIsPrefix
<1>1. SafeInv => DiskIsPrefix
  <2>1. ASSUME SafeInv, NEW s \in Sessions, ses[s].pc = "persist"
        PROVE  IsPrefixOf(ses[s].snap, events[ses[s].run])
    BY <2>1, SafeOf DEF SessionSafe
  <2> QED
    BY <2>1 DEF DiskIsPrefix, SafeInv, FilesSafe
<1> QED
  BY <1>1, SafeAlways, PTL

(* A cooperative report reaches the ledger only behind a grant.            *)
THEOREM ReportsFollowGrants == Spec => []CooperativeResultGranted
<1>1. SafeInv => CooperativeResultGranted
  <2> SUFFICES ASSUME SafeInv, NEW r \in Runs \ DelegatedRuns
               PROVE  ResultsGranted(events[r]) /\ ResultsGranted(disk[r])
    BY DEF CooperativeResultGranted
  <2>1. LedgerSafe(r, verdict[r], events[r]) /\ IsPrefixOf(disk[r], events[r])
    BY DEF SafeInv, LedgersSafe, FilesSafe
  <2>2. LedgerSafe(r, verdict[r], disk[r])
    BY <2>1, Facts, LedgerOnDisk
  <2> QED
    BY <2>1, <2>2 DEF LedgerSafe
<1> QED
  BY <1>1, SafeAlways, PTL

(* Nothing of a run that was not allowed is ever granted, run or recorded. *)
THEOREM RefusedRunsInert == Spec => []NonAllowInert
<1>1. SafeInv => NonAllowInert
  BY DEF SafeInv, NonAllowInert, LedgersSafe, LedgerSafe, GrantsSafe
<1> QED
  BY <1>1, SafeAlways, PTL
=============================================================================
