------------------------------ MODULE Pipeline ------------------------------
(***************************************************************************)
(* From a compiled task to steps that run: the compiler and the client     *)
(* that write the script, the executor that is the only channel to run it  *)
(* (two processes of it may be at work on one run directory), and the      *)
(* client that drives govd.  The script, the porters, the manifesto and    *)
(* the index are files that somebody may edit at any time.                 *)
(***************************************************************************)
EXTENDS Option, Integers, Sequences, FiniteSets, SequencesExt

CONSTANTS
    Sessions,    \* executor processes
    PlanTools,       \* the blessed sequence of tools
    MaxEditions, \* bound: edits of files
    MaxBegins,   \* bound: executor processes started
    MaxCrashes   \* bound: executor processes killed

(* A text is the compiled script, the client's wrapper (which sets no      *)
(* SNIP), or an edit of the former that matches no rule, an approvable     *)
(* rule, or one that can never be waived.                                  *)
Texts == {"compiled", "wrapper", "edited", "drops a table", "sudo"}

\* A plan has a step; None is neither an exit code, a text nor a porter.
ASSUME PipelineAssumption ==
    /\ Len(PlanTools) \in Nat \ {0} /\ PlanTools = [i \in 1..Len(PlanTools) |-> PlanTools[i]]
    /\ None # 0 /\ None \notin Texts /\ None \notin {"blessed", "mutated", "gone"}

VARIABLES
    dir,      \* the run directory and the registry, as they are on disk
    ex,       \* session -> the executor process
    execs,    \* history: the steps bash ran, in order
    spent,    \* how much of the bounds is used up
    race,     \* history: two executors were at work at once, or one was killed
    client    \* the client process

pipeVars == <<dir, ex, execs, spent, race, client>>

Steps == 1..Len(PlanTools)

-----------------------------------------------------------------------------
(* What is on disk.                                                        *)
Matched(text) == IF text \in {"drops a table", "sudo"} THEN {text} ELSE {}
scan(text, approve) == [waived |-> Matched(text) \cap approve \cap {"drops a table"},
                        violations |-> Matched(text) \ (approve \cap {"drops a table"})]

HasSnip(text) == text # "wrapper"
blessed_sequence == IF dir.manifesto = "blessed" /\ dir.index # "emptied" THEN PlanTools ELSE << >>
plan_steps == IF HasSnip(dir.script) THEN blessed_sequence ELSE << >>

\* Digests, "none" for a file or an entry that is not there.
_blessed_snippets == [t \in Range(PlanTools) |-> IF dir.index = "blessed" THEN "blessed" ELSE "none"]
Found(tool) == IF dir.porter[tool] = "gone" THEN "none" ELSE dir.porter[tool]

(* mutant: a porter no digest is known for is not compared                 *)
snippet_decision_known_only(tool, blessed) == blessed[tool] # "none" /\ Found(tool) # blessed[tool]

snippet_decision(tool, blessed) == Found(tool) # blessed[tool]

LedgerLine(step, status) == [step |-> step, status |-> status]

(* mutant: any record of a step counts as its run                          *)
ranOk_any(ledger) == {ledger[i].step : i \in DOMAIN ledger}

ranOk(ledger) == {ledger[i].step : i \in {k \in DOMAIN ledger : ledger[k].status = "ok"}}

-----------------------------------------------------------------------------
(* executor.main.  The ledger is read once and written back whole.         *)
Gone == [pc |-> "gone", body |-> "compiled", ledger |-> << >>, todo |-> << >>, ran |-> {}, approve |-> {}, stale |-> FALSE,
         swapped |-> FALSE, blessed |-> None, status |-> None]
PipelineInit ==
    /\ dir = [script |-> "compiled", bk |-> None, manifesto |-> "blessed", index |-> "blessed",
              porter |-> [t \in Range(PlanTools) |-> "blessed"], ledger |-> << >>]
    /\ ex = [s \in Sessions |-> Gone]
    /\ execs = << >>
    /\ spent = [edits |-> 0, begins |-> 0, crashes |-> 0]
    /\ race = FALSE

Working(s) == ex[s].pc # "gone"

Begin(s, todo, approve) ==
    /\ ~Working(s) /\ spent.begins < MaxBegins
    /\ spent' = [spent EXCEPT !.begins = @ + 1]
    /\ race' = (race \/ \E t \in Sessions : Working(t))
    /\ ex' = [ex EXCEPT ![s] = [Gone EXCEPT !.pc = "gate", !.body = dir.script, !.ledger = dir.ledger, !.todo = todo,
                                            !.approve = approve]]
    /\ UNCHANGED <<dir, execs, client>>

\* json.dump of the process's own copy, with one record more.
Dumped(s, rec) == Append(ex[s].ledger, rec)
Exit(s) == ex' = [ex EXCEPT ![s] = Gone]
Refuse(s, event) == dir' = [dir EXCEPT !.ledger = Dumped(s, LedgerLine(0, event))] /\ Exit(s)

(* The snapshot, then oversight, then the identity, then the plan.         *)
SnapshotDiffers(s) == dir.bk # None /\ dir.bk # ex[s].body
Snapped(s) == [dir EXCEPT !.bk = IF @ = None THEN ex[s].body ELSE @]
GateRefuses(s, root) ==
    LET found == scan(ex[s].body, ex[s].approve)
        waived == IF found.waived # {} THEN Dumped(s, LedgerLine(0, "oversight_waived")) ELSE ex[s].ledger
        Refused(event) == Append(waived, LedgerLine(0, event))
    IN  \/ SnapshotDiffers(s) /\ Refuse(s, "tamper_refused")
        \/ /\ ~SnapshotDiffers(s)
           /\ Exit(s)
           /\ \/ found.violations # {} /\ dir' = [Snapped(s) EXCEPT !.ledger = Refused("oversight_refused")]
              \/ found.violations = {} /\ root /\ dir' = [Snapped(s) EXCEPT !.ledger = Refused("root_refused")]
              \/ /\ found.violations = {} /\ ~root /\ plan_steps = << >>
                 /\ dir' = [Snapped(s) EXCEPT !.ledger = IF found.waived # {} THEN waived ELSE @]

GatePasses(s) ==
    LET found == scan(ex[s].body, ex[s].approve)
        after == IF found.waived # {} THEN Dumped(s, LedgerLine(0, "oversight_waived")) ELSE ex[s].ledger
    IN  /\ ~SnapshotDiffers(s) /\ found.violations = {}
        /\ plan_steps # << >>
        /\ dir' = [Snapped(s) EXCEPT !.ledger = IF found.waived # {} THEN after ELSE @]
        /\ ex' = [ex EXCEPT ![s].pc = "check", ![s].ledger = after, ![s].ran = ranOk(after), ![s].blessed = _blessed_snippets]

Admit(s, root) == ex[s].pc = "gate" /\ (GateRefuses(s, root) \/ (~root /\ GatePasses(s))) /\ UNCHANGED <<execs, spent, race, client>>

(* Upstream, then the porter of this step.                                 *)
CheckStep(s) ==
    LET st == Head(ex[s].todo)
    IN  /\ ex[s].pc = "check" /\ ex[s].todo # << >>
        /\ IF ~(1..st - 1 \subseteq ex[s].ran) THEN Exit(s) /\ UNCHANGED dir
           ELSE IF snippet_decision(PlanTools[st], ex[s].blessed) THEN Refuse(s, "snippet_refused")
           ELSE ex' = [ex EXCEPT ![s].pc = "run", ![s].stale = FALSE] /\ UNCHANGED dir
        /\ UNCHANGED <<execs, spent, race, client>>

Finished(s) == ex[s].pc = "check" /\ ex[s].todo = << >> /\ Exit(s) /\ UNCHANGED <<dir, execs, spent, race, client>>

\* How a step of the compiled script may end: it runs the porter of its tool,
\* hands on its exit code, and for the last tool tests for the output.
build_script(tool) == {"error", "timeout"} \cup (IF dir.porter[tool] = "gone" THEN {} ELSE {"ok"})

\* What bash may do of a script: one that finds no SNIP fails before a porter,
\* unless the executor's environment has one; an edited one does as it likes.
Runs(text, tool) ==
    {[porter |-> dir.porter[tool], status |-> z] : z \in build_script(tool)}
    \cup (IF text = "compiled" THEN {} ELSE {[porter |-> None, status |-> z] : z \in {"error", "timeout"}})
    \cup (IF text \in {"compiled", "wrapper"} THEN {} ELSE [porter : {dir.porter[tool], None}, status : {"ok"}])

(* bash opens the script that is there now, and the porter that is there   *)
(* now; what was scanned is the text read at the start.                    *)
RunStep(s, ran) ==
    LET st == Head(ex[s].todo)
    IN  /\ ex[s].pc = "run"
        /\ ran \in Runs(dir.script, PlanTools[st])
        /\ execs' = Append(execs, [step |-> st, status |-> ran.status, porter |-> ran.porter, script |-> dir.script,
                                   cleared |-> scan(dir.script, ex[s].approve).violations = {},
                                   stale |-> ex[s].stale, swapped |-> ex[s].swapped])
        /\ ex' = [ex EXCEPT ![s].pc = "record", ![s].status = ran.status]
        /\ UNCHANGED <<dir, spent, race, client>>

RecordStep(s) ==
    LET st == Head(ex[s].todo)
        rec == LedgerLine(st, ex[s].status)
    IN  /\ ex[s].pc = "record"
        /\ dir' = [dir EXCEPT !.ledger = Dumped(s, rec)]
        /\ ex' = [ex EXCEPT ![s] = IF rec.status = "ok"
                                   THEN [ex[s] EXCEPT !.pc = "check", !.status = None, !.todo = Tail(@), !.ledger = Dumped(s, rec),
                                                      !.ran = @ \cup {st}]
                                   ELSE Gone]
        /\ UNCHANGED <<execs, spent, race, client>>

Kill(s) ==
    /\ Working(s) /\ spent.crashes < MaxCrashes
    /\ spent' = [spent EXCEPT !.crashes = @ + 1]
    /\ race' = TRUE /\ Exit(s)
    /\ UNCHANGED <<dir, execs, client>>

(* Edits: compile writes the script, so does the client's _prepare; the    *)
(* rest is nobody's business.  A process at work is marked: something was  *)
(* edited since its last check, or the script since it read it.            *)
EditFile(new) ==
    /\ spent.edits < MaxEditions
    /\ spent' = [spent EXCEPT !.edits = @ + 1]
    /\ dir' = new /\ new # dir
    /\ ex' = [s \in Sessions |-> IF Working(s) THEN [ex[s] EXCEPT !.stale = TRUE, !.swapped = @ \/ new.script # dir.script]
                                  ELSE ex[s]]
    /\ UNCHANGED <<execs, race, client>>

Compile == EditFile([dir EXCEPT !.script = "compiled"])
_prepare == EditFile([dir EXCEPT !.script = "wrapper"])
Meddle ==
    \/ \E t \in Texts \ {"compiled", "wrapper"} : EditFile([dir EXCEPT !.script = t])
    \/ \E t \in Range(PlanTools), v \in {"mutated", "gone"} : EditFile([dir EXCEPT !.porter[t] = v])
    \/ EditFile([dir EXCEPT !.manifesto = "swapped"])
    \/ \E v \in {"no porters", "emptied"} : EditFile([dir EXCEPT !.index = v])
    \* a registry of another make: a porter swapped, or missing, and in no index
    \/ \E t \in Range(PlanTools), v \in {"mutated", "gone"} : EditFile([dir EXCEPT !.index = "no porters", !.porter[t] = v])

Orders == {<<st>> : st \in Steps} \cup {[i \in Steps |-> i]}     \* --step st, or --all
ExecutorNext ==
    \/ \E s \in Sessions :
         \/ \E todo \in Orders, approve \in {{}, Texts} : Begin(s, todo, approve)
         \/ \E root \in BOOLEAN : Admit(s, root)
         \/ CheckStep(s) \/ Finished(s) \/ RecordStep(s) \/ Kill(s)
         \/ \E porter \in {"blessed", "mutated", "gone", None}, status \in {"ok", "error", "timeout"} :
              RunStep(s, [porter |-> porter, status |-> status])
    \/ Compile \/ _prepare \/ Meddle

-----------------------------------------------------------------------------
(* govd_client.main, in either mode, against a server that answers as it   *)
(* likes but grants nothing for a plan it did not pin (Oversight).         *)
ClientInit ==
    \E delegated, doctored \in BOOLEAN, server, mine \in {"same", "other", "drift"} :
      client = [pc |-> "fetch", delegated |-> delegated, doctored |-> doctored, server |-> server, mine |-> mine, meddled |-> FALSE,
                found |-> "none", step |-> 1, results |-> << >>, granted |-> {}, ran |-> {}, exit |-> None]

\* How discover tags a skill: the server's copy and mine, by hash and index.
discover(server, mine) ==
    IF server = "drift" THEN "server_drift"
    ELSE IF mine # "drift" /\ server = mine THEN "verified" ELSE "drift"
Discover ==
    /\ client.pc = "fetch" /\ client.found = "none"
    /\ client' = [client EXCEPT !.found = discover(client.server, client.mine)]

\* The plan govd blesses: the tools in order and the digests of its own files.
build_plan(server) == [sequence |-> PlanTools, shas |-> server]

\* Those digests against my files, then my whole closure against its index.
_verify_registry == client.mine = build_plan(client.server).shas /\ client.mine # "drift"

(* mutant: only a refusal with a reason of its own counts                  *)
blocked_run_reason_only(out) == out.error \/ \E i \in DOMAIN out.results : out.results[i].kind = "refused"

blocked_run(out) == out.error \/ \E i \in DOMAIN out.results : out.results[i].kind \in {"refused", "signed refusal"}

Finish(error, results) ==
    client' = [client EXCEPT !.pc = "over", !.results = results,
                             !.exit = IF blocked_run([error |-> error, results |-> results]) THEN 2 ELSE 0]

Open(decision, authorized) ==
    /\ client.pc = "fetch"
    /\ IF decision # "allow" THEN client' = [client EXCEPT !.pc = "over", !.exit = 2]
       ELSE IF ~client.delegated /\ ~_verify_registry THEN Finish(TRUE, << >>)
       ELSE IF ~authorized THEN Finish(TRUE, << >>)
       ELSE client' = [client EXCEPT !.pc = "ask"]

Result(kind) == Append(client.results, [step |-> client.step, kind |-> kind])
Answers == IF client.doctored THEN {"closed", "refuse"} ELSE {"closed", "refuse", "grant", "ok", "error", "signed refusal"}

(* One step: ask, and act on the answer.                                   *)
run_governed(answer, exit) ==
    IF answer # "grant" THEN Finish(FALSE, Result("refused"))
    ELSE LET now == [client EXCEPT !.granted = @ \cup {client.step}, !.ran = @ \cup {client.step}, !.results = Result(exit)]
         IN  IF exit = "ok" /\ client.step < Len(build_plan(client.server).sequence) THEN client' = [now EXCEPT !.step = @ + 1]
             ELSE client' = [now EXCEPT !.pc = "over", !.exit = IF blocked_run([error |-> FALSE, results |-> now.results]) THEN 2 ELSE 0]

run_delegated(answer) ==
    IF answer \notin {"ok", "error", "signed refusal"} THEN Finish(FALSE, Result("refused"))
    ELSE IF answer = "ok" /\ client.step < Len(build_plan(client.server).sequence)
    THEN client' = [client EXCEPT !.step = @ + 1, !.results = Result(answer)]
    ELSE Finish(FALSE, Result(answer))

AskStep ==
    /\ client.pc = "ask"
    /\ \E answer \in Answers : IF client.delegated THEN run_delegated(answer) ELSE \E exit \in {"ok", "error"} : run_governed(answer, exit)

\* My registry is changed while the client runs.
ChangeRegistry ==
    /\ ~client.meddled
    /\ \E m \in {"same", "other", "drift"} : client' = [client EXCEPT !.mine = m, !.meddled = TRUE]

ClientNext ==
    /\ \/ Discover \/ AskStep \/ ChangeRegistry
       \/ \E decision \in {"allow", "push_back", "reject"}, authorized \in BOOLEAN : Open(decision, authorized)
    /\ UNCHANGED <<dir, ex, execs, spent, race>>

-----------------------------------------------------------------------------
(* A step runs only after every step before it has run and succeeded,      *)
(* whoever ran it and whatever became of the record (executor.py: REFUSES  *)
(* a step whose upstream steps have not been recorded as run).             *)
UpstreamRan ==
    \A k \in DOMAIN execs : \A st \in 1..execs[k].step - 1 : \E i \in 1..k - 1 : execs[i].step = st /\ execs[i].status = "ok"

(* The porter a step runs is the blessed one, unless a file was edited     *)
(* between this step's own check and its run; a script that was not edited *)
(* succeeds only with a porter; and the script bash opened for the step is *)
(* one oversight clears, and the snapshotted one (if no two executors took *)
(* the snapshot at once), unless it was edited since this executor read    *)
(* it, before the first step (executor.py:108, 132, 210).                  *)
RanAsChecked ==
    \A k \in DOMAIN execs :
      LET x == execs[k]
      IN  /\ x.porter = "mutated" => x.stale
          /\ x.script \in {"compiled", "wrapper"} /\ x.status = "ok" => x.porter \in {"blessed", "mutated"}
          /\ ~x.swapped => x.cleared /\ (~race => x.script = dir.bk)

(* Every step that ran is in the ledger, unless two executors were at work *)
(* at once or one was killed (executor.py: registers every run).           *)
RecordedUnlessRaced ==
    ~race => \A k \in DOMAIN execs :
      \/ \E s \in Sessions : ex[s].pc = "record"
      \/ \E i \in DOMAIN dir.ledger : dir.ledger[i] = LedgerLine(execs[k].step, execs[k].status)

(* The client exits 0 only if every step ran, or the last one it lists ran *)
(* and failed; never on a refusal, of govd or of the limb, nor on a plan   *)
(* govd did not pin; it runs nothing itself that was not granted; and a    *)
(* skill it discovered as verified is not refused for its files unless     *)
(* they changed meanwhile (govd_client.py: a run must NOT report success   *)
(* if it was governance-blocked).                                          *)
ClientHonest ==
    /\ client.exit = 0 =>
         /\ ~client.doctored
         /\ \A i \in DOMAIN client.results : client.results[i].kind \in {"ok", "error"}
         /\ Len(client.results) = Len(PlanTools) \/ Last(client.results).kind = "error"
    /\ client.ran \subseteq client.granted /\ (client.delegated => client.ran = {})
    /\ client.found = "verified" /\ ~client.meddled /\ client.pc = "fetch" => _verify_registry

BlessedStepsOnly == UpstreamRan /\ RanAsChecked /\ RecordedUnlessRaced /\ ClientHonest
=============================================================================
