----------------------------- MODULE Playground -----------------------------
(***************************************************************************)
(* The page of the playground (web/app.js) and its workers (web/worker.js).*)
(* Every action is one task of the page's event loop with the promise      *)
(* continuations it triggers (a click, a message or an error event of a    *)
(* worker, a timer), or one task of a worker, which runs beside the page.  *)
(* A worker that was terminated does nothing more, but events it had       *)
(* posted may still be delivered.                                          *)
(***************************************************************************)
EXTENDS Integers, Sequences, FiniteSets

CONSTANTS Sources, Paths, NoPath, NoSource, MaxClicks, MaxFaults

ASSUME PlaygroundAssumption ==
  /\ NoPath \notin Paths /\ NoSource \notin Sources
  /\ MaxClicks \in Nat /\ MaxFaults \in Nat

VARIABLES
  state,     (* the object "state"; pending maps an id to what was sent     *)
  timers,    (* ids whose setTimeout has neither fired nor been cleared     *)
  workers,   (* all Workers constructed; state.worker is an index           *)
  handler,   (* the click handler in progress, which disables the buttons   *)
  panels,    (* the texts of output, diagnostics and ast                    *)
  source,    (* el.source.value                                             *)
  wasmPath,  (* el.wasmPath.value, trimmed                                  *)
  clicks,    (* clicks so far, at most MaxClicks                            *)
  faults     (* worker errors so far, at most MaxFaults                     *)

vars == <<state, timers, workers, handler, panels, source, wasmPath, clicks, faults>>

Result(kind, src, module) == [kind |-> kind, source |-> src, module |-> module]
Blank == Result("blank", NoSource, "none")
Failure == Result("failure", NoSource, "none")
Clear == [output |-> Blank, diagnostics |-> Blank, ast |-> Blank]

(* A worker: its wasmModule, the messages to it and the events from it.    *)
Worker == [module |-> NoPath, inbox |-> <<>>, outbox |-> <<>>, alive |-> TRUE]
Message(type, id, src, path) == [type |-> type, id |-> id, source |-> src, path |-> path]
Reply(id, ok, result) == [type |-> "reply", id |-> id, ok |-> ok, result |-> result]
ErrorEvent == [type |-> "error", id |-> 0, ok |-> FALSE, result |-> Blank]

Busy(kind, path) == [busy |-> TRUE, kind |-> kind, path |-> path]
Ready == [busy |-> FALSE, kind |-> "none", path |-> "none"]

-----------------------------------------------------------------------------
(* What a task does to state, the timers and the workers, as a function of *)
(* the three.                                                              *)
Now == [state |-> state, timers |-> timers, workers |-> workers]
Becomes(page) == state' = page.state /\ timers' = page.timers /\ workers' = page.workers

Send(page, msg) == [page EXCEPT !.workers[page.state.worker].inbox = Append(@, msg)]

(* A slip the runs must catch: the timer of a settled request goes on.     *)
SettleOnly(page, id) == [page EXCEPT !.state.pending = [i \in DOMAIN @ \ {id} |-> @[i]]]

(* An entry's resolve and reject clear its timer.                          *)
Settle(page, id) ==
  [page EXCEPT !.state.pending = [i \in DOMAIN @ \ {id} |-> @[i]], !.timers = @ \ {id}]

(* Slips: the old worker is not terminated; pending is not cleared; the    *)
(* new worker counts as initialized.                                       *)
ResetWorkerAlive(page) ==
  [state |-> [worker |-> Len(page.workers) + 1, initialized |-> FALSE, initializing |-> FALSE,
              currentModulePath |-> NoPath, reqId |-> page.state.reqId, pending |-> <<>>],
   timers |-> page.timers \ DOMAIN page.state.pending,
   workers |-> Append(page.workers, Worker)]

ResetWorkerPending(page) ==
  [state |-> [worker |-> Len(page.workers) + 1, initialized |-> FALSE, initializing |-> FALSE,
              currentModulePath |-> NoPath, reqId |-> page.state.reqId, pending |-> page.state.pending],
   timers |-> page.timers \ DOMAIN page.state.pending,
   workers |-> Append([page.workers EXCEPT ![page.state.worker].alive = FALSE], Worker)]

ResetWorkerReady(page) ==
  [state |-> [page.state EXCEPT !.worker = Len(page.workers) + 1, !.initializing = FALSE,
                                !.currentModulePath = NoPath, !.pending = <<>>],
   timers |-> page.timers \ DOMAIN page.state.pending,
   workers |-> Append([page.workers EXCEPT ![page.state.worker].alive = FALSE], Worker)]

(* resetWorker: reject what is pending, terminate the worker, start anew.  *)
ResetWorker(page) ==
  [state |-> [worker |-> Len(page.workers) + 1, initialized |-> FALSE, initializing |-> FALSE,
              currentModulePath |-> NoPath, reqId |-> page.state.reqId, pending |-> <<>>],
   timers |-> page.timers \ DOMAIN page.state.pending,
   workers |-> Append([page.workers EXCEPT ![page.state.worker].alive = FALSE], Worker)]

(* A slip: no timer is set.                                                *)
CallWorkerForever(page, type, src, path) ==
  LET id == page.state.reqId + 1
  IN  Send([page EXCEPT !.state.reqId = id,
                        !.state.pending = [i \in {id} |-> [type |-> type, source |-> src]]],
           Message(type, id, src, path))

(* callWorker.                                                             *)
CallWorker(page, type, src, path) ==
  LET id == page.state.reqId + 1
      waiting == [page EXCEPT
                    !.state.reqId = id,
                    !.state.pending = [i \in DOMAIN @ \cup {id} |->
                                         IF i = id THEN [type |-> type, source |-> src] ELSE @[i]],
                    !.timers = @ \cup {id}]
  IN  Send(waiting, Message(type, id, src, path))

(* ensureWorkerReady up to its await, when the module is not loaded yet.   *)
BeginInit(page, path) ==
  LET fresh == IF page.state.currentModulePath # path THEN ResetWorker(page) ELSE page
  IN  CallWorker([fresh EXCEPT !.state.currentModulePath = path, !.state.initializing = TRUE],
                 "init", NoSource, path)

(* The end of a handler: what it shows, and setBusy(false).                *)
ShowFailure(kind) ==
  /\ panels' = IF kind = "parse" THEN [panels EXCEPT !.diagnostics = Failure, !.ast = Blank]
               ELSE [panels EXCEPT !.diagnostics = Failure, !.output = Blank]
  /\ handler' = Ready

(* A slip: only the panel of the button is set.                            *)
ShowResultAlone(result) ==
  /\ panels' = IF result.kind = "parse" THEN [panels EXCEPT !.ast = result, !.diagnostics = result]
               ELSE [panels EXCEPT !.output = result, !.diagnostics = result]
  /\ handler' = Ready

ShowResult(result) ==
  /\ panels' = [output |-> result, diagnostics |-> result, ast |-> result]
  /\ handler' = Ready

KeepsWaiting == UNCHANGED <<handler, panels>>

-----------------------------------------------------------------------------
Init ==
  /\ workers = <<Worker>>
  /\ state = [worker |-> 1, initialized |-> FALSE, initializing |-> FALSE,
              currentModulePath |-> NoPath, reqId |-> 0, pending |-> <<>>]
  /\ timers = {}
  /\ handler = Ready
  /\ panels = Clear
  /\ source \in Sources
  /\ wasmPath \in Paths
  /\ clicks = 0
  /\ faults = 0

Inputs == <<source, wasmPath>>

(* A slip: an initialised worker is used whatever module it has loaded.    *)
ClickAnyModule(kind) ==
  /\ ~handler.busy /\ clicks < MaxClicks
  /\ wasmPath # NoPath
  /\ clicks' = clicks + 1
  /\ handler' = Busy(kind, wasmPath) /\ panels' = panels
  /\ IF state.initialized THEN Becomes(CallWorker(Now, kind, source, wasmPath))
     ELSE Becomes(BeginInit(Now, wasmPath))
  /\ UNCHANGED <<Inputs, faults>>

(* A click on Parse or Run: the handler runs up to its first await.        *)
Click(kind) ==
  /\ ~handler.busy /\ clicks < MaxClicks
  /\ clicks' = clicks + 1
  /\ IF wasmPath = NoPath THEN ShowFailure(kind) /\ Becomes(Now)
     ELSE /\ handler' = Busy(kind, wasmPath) /\ panels' = panels
          /\ IF state.initialized /\ state.currentModulePath = wasmPath
             THEN Becomes(CallWorker(Now, kind, source, wasmPath))
             ELSE Becomes(BeginInit(Now, wasmPath))
  /\ UNCHANGED <<Inputs, faults>>

(* The user edits the source or the path, or chooses an example.           *)
EditSource == source' \in Sources \ {source} /\ UNCHANGED <<state, timers, workers, handler, panels, wasmPath, clicks, faults>>

EditPath ==
  /\ wasmPath' \in (Paths \cup {NoPath}) \ {wasmPath}
  /\ UNCHANGED <<state, timers, workers, handler, panels, source, clicks, faults>>

ChooseExample ==
  /\ source' \in Sources
  /\ panels' = Clear
  /\ UNCHANGED <<state, timers, workers, handler, wasmPath, clicks, faults>>

(* The oldest event of worker w, and the page after taking it.             *)
Delivers(w, type) == w \in DOMAIN workers /\ workers[w].outbox # <<>> /\ Head(workers[w].outbox).type = type
Event(w) == Head(workers[w].outbox)
Taken(w) == [Now EXCEPT !.workers[w].outbox = Tail(@)]

(* An event of a worker that is no longer state.worker, or a reply nobody  *)
(* waits for.                                                              *)
IgnoreEvent(w) ==
  /\ w \in DOMAIN workers /\ workers[w].outbox # <<>>
  /\ \/ w # state.worker
     \/ Event(w).type = "reply" /\ Event(w).id \notin DOMAIN state.pending
  /\ Becomes(Taken(w)) /\ KeepsWaiting
  /\ UNCHANGED <<Inputs, clicks, faults>>

TakesReply(w) == Delivers(w, "reply") /\ w = state.worker /\ Event(w).id \in DOMAIN state.pending

(* The module is loaded: ensureWorkerReady returns and the handler sends   *)
(* its request with the source the editor holds now.                       *)
InitReply(w) ==
  /\ TakesReply(w) /\ Event(w).ok /\ state.pending[Event(w).id].type = "init"
  /\ LET settled == Settle(Taken(w), Event(w).id)
         ready == [settled EXCEPT !.state.initialized = TRUE, !.state.initializing = FALSE]
     IN  Becomes(CallWorker(ready, handler.kind, source, handler.path))
  /\ KeepsWaiting
  /\ UNCHANGED <<Inputs, clicks, faults>>

ResultReply(w) ==
  /\ TakesReply(w) /\ Event(w).ok /\ state.pending[Event(w).id].type # "init"
  /\ Becomes(Settle(Taken(w), Event(w).id))
  /\ ShowResult(Event(w).result)
  /\ UNCHANGED <<Inputs, clicks, faults>>

FailureReply(w) ==
  /\ TakesReply(w) /\ ~Event(w).ok
  /\ Becomes([Settle(Taken(w), Event(w).id) EXCEPT !.state.initializing = FALSE])
  /\ ShowFailure(handler.kind)
  /\ UNCHANGED <<Inputs, clicks, faults>>

(* What resetWorker rejects ends the handler that waits for it.            *)
AfterReset == IF DOMAIN state.pending # {} THEN ShowFailure(handler.kind) ELSE KeepsWaiting

(* A slip: the error of a worker that was replaced is not ignored.         *)
FailAnyWorker(w) ==
  /\ Delivers(w, "error")
  /\ Becomes(ResetWorker(Taken(w)))
  /\ AfterReset
  /\ UNCHANGED <<Inputs, clicks, faults>>

(* failWorker: onerror or onmessageerror of the current worker.            *)
FailWorker(w) ==
  /\ Delivers(w, "error") /\ w = state.worker
  /\ Becomes(ResetWorker(Taken(w)))
  /\ AfterReset
  /\ UNCHANGED <<Inputs, clicks, faults>>

TimerFires(id) ==
  /\ id \in timers
  /\ Becomes(ResetWorker([Now EXCEPT !.timers = @ \ {id}]))
  /\ AfterReset
  /\ UNCHANGED <<Inputs, clicks, faults>>

-----------------------------------------------------------------------------
(* The worker's onmessage.  Each task may end in an error reply (a failed  *)
(* allocation, a trap, a malformed response), or never end at all.         *)
Working(w) == w \in DOMAIN workers /\ workers[w].alive /\ workers[w].inbox # <<>>
Job(w) == Head(workers[w].inbox)
Answered(w, reply) == [workers EXCEPT ![w].inbox = Tail(@), ![w].outbox = Append(@, reply)]
Aside == UNCHANGED <<state, timers, handler, panels, source, wasmPath, clicks>>

InitModule(w) ==
  /\ Working(w) /\ Job(w).type = "init"
  /\ \/ workers' = Answered(w, Reply(Job(w).id, FALSE, Blank))
     \/ workers' = [Answered(w, Reply(Job(w).id, TRUE, Blank)) EXCEPT ![w].module = Job(w).path]
  /\ Aside /\ UNCHANGED faults

InvokeSource(w) ==
  /\ Working(w) /\ Job(w).type # "init"
  /\ \/ workers' = Answered(w, Reply(Job(w).id, FALSE, Blank))
     \/ /\ workers[w].module # NoPath
        /\ workers' = Answered(w, Reply(Job(w).id, TRUE, Result(Job(w).type, Job(w).source, workers[w].module)))
  /\ Aside /\ UNCHANGED faults

(* The worker's script does not load, throws outside onmessage, or posts   *)
(* something that cannot be deserialised.                                  *)
WorkerFault(w) ==
  /\ w \in DOMAIN workers /\ workers[w].alive /\ faults < MaxFaults
  /\ faults' = faults + 1
  /\ workers' = [workers EXCEPT ![w].outbox = Append(@, ErrorEvent)]
  /\ Aside

Next ==
  \/ \E kind \in {"parse", "run"} : Click(kind)
  \/ EditSource \/ EditPath \/ ChooseExample
  \/ \E w \in DOMAIN workers :
       \/ IgnoreEvent(w) \/ InitReply(w) \/ ResultReply(w) \/ FailureReply(w) \/ FailWorker(w)
       \/ InitModule(w) \/ InvokeSource(w) \/ WorkerFault(w)
  \/ \E id \in timers : TimerFires(id)

Spec == Init /\ [][Next]_vars

(* A timer that is not cleared fires; nothing is assumed of the workers.   *)
FairSpec == Spec /\ WF_vars(\E id \in timers : TimerFires(id))

-----------------------------------------------------------------------------
Results == {Blank, Failure} \cup {Result(k, s, p) : k \in {"parse", "run"}, s \in Sources, p \in Paths}

TypeOK ==
  /\ state.worker \in DOMAIN workers
  /\ state.initialized \in BOOLEAN /\ state.initializing \in BOOLEAN
  /\ state.currentModulePath \in Paths \cup {NoPath}
  /\ timers \subseteq 1..state.reqId /\ DOMAIN state.pending \subseteq 1..state.reqId
  /\ handler.busy \in BOOLEAN
  /\ panels \in [output : Results, diagnostics : Results, ast : Results]
  /\ \A w \in DOMAIN workers : workers[w].alive <=> w = state.worker

(* A timer that could still fire belongs to a request that is still        *)
(* pending, and every pending request has one: a leftover timer would      *)
(* terminate the worker under a later request, a missing one would leave   *)
(* a request without end.                                                  *)
TimersArePending == timers = DOMAIN state.pending

(* The buttons are disabled exactly while one request is pending, so there *)
(* is always something that will enable them, and requests never overlap:  *)
(* the branch of ensureWorkerReady that joins an initialisation under way  *)
(* is never taken.                                                         *)
OneRequest ==
  /\ Cardinality(DOMAIN state.pending) = IF handler.busy THEN 1 ELSE 0
  /\ state.initializing <=> \E id \in DOMAIN state.pending : state.pending[id].type = "init"

(* "initialized" is about the worker the page has now: it is never carried *)
(* over to a worker that replaced the one that loaded the module.          *)
ReadyMeansLoaded ==
  state.initialized => workers[state.worker].module = state.currentModulePath

(* Results of different requests are never on the page side by side.       *)
OneResultShown ==
  Cardinality({panels[p] : p \in DOMAIN panels} \ {Blank, Failure}) <= 1

(* A worker is replaced only for its own error, the timeout of a pending   *)
(* request, or a click with another module path: the late error of a       *)
(* terminated worker cannot take down its successor.                       *)
NoStrayReset ==
  [][state'.worker # state.worker =>
       LET current == workers[state.worker]
       IN  \/ current.outbox # <<>> /\ Head(current.outbox).type = "error"
              /\ workers'[state.worker].outbox = Tail(current.outbox)
           \/ timers # {} /\ \A w \in DOMAIN workers : workers'[w].outbox = workers[w].outbox
           \/ handler'.busy /\ handler'.path # state.currentModulePath]_vars


(* The buttons are always enabled again, even if the worker never answers. *)
Released == handler.busy ~> ~handler.busy

(* The page implements PlaygroundService.                                  *)
Sent == LET asked == {state.pending[id].source : id \in DOMAIN state.pending}
        IN  IF asked = {} THEN NoSource ELSE CHOOSE s \in asked : TRUE

Service ==
  INSTANCE PlaygroundService WITH
    editor <- source,
    request <- IF handler.busy
               THEN [busy |-> TRUE, kind |-> handler.kind, path |-> handler.path, sent |-> Sent]
               ELSE [busy |-> FALSE, kind |-> "none", path |-> "none", sent |-> NoSource],
    shown <- panels.diagnostics

Implements == Service!ServiceSpec
=============================================================================
