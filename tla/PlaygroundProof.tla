--------------------------- MODULE PlaygroundProof ---------------------------
(***************************************************************************)
(* For any number of clicks and faults and any sources and module paths:   *)
(* the page has a request under way exactly while its buttons are          *)
(* disabled, and a timer for that request and no other; and a worker that  *)
(* counts as initialised has loaded the module the page believes it has.   *)
(*                                                                         *)
(* The argument: a task that starts a request finds none (the buttons were *)
(* enabled, or the task has just settled or rejected the one before), and  *)
(* every task that settles a request clears its timer and either ends the  *)
(* handler or sends the next request.  Another module path always comes    *)
(* with a new worker, so one worker is never asked for two modules.        *)
(***************************************************************************)
EXTENDS Playground, FiniteSetTheorems, TLAPS

(* The values a task works on.                                             *)
Asked == [type : {"init", "parse", "run"}, source : Sources \cup {NoSource}]
States == [worker : Nat, initialized : BOOLEAN, initializing : BOOLEAN,
           currentModulePath : Paths \cup {NoPath}, reqId : Nat,
           pending : UNION {[ids -> Asked] : ids \in SUBSET Nat}]
Messages ==
  [type : {"init"}, id : Nat, source : {NoSource}, path : Paths]
    \cup [type : {"parse", "run"}, id : Nat, source : Sources, path : Paths]
Events == [type : {"reply", "error"}, id : Nat, ok : BOOLEAN, result : Results]
Workers ==
  [module : Paths \cup {NoPath}, inbox : Seq(Messages), outbox : Seq(Events), alive : BOOLEAN]
Pages == [state : States, timers : SUBSET Nat, workers : Seq(Workers)]

(* The page's worker is the one that is alive.                             *)
OneAlive(page) ==
  /\ page.state.worker \in DOMAIN page.workers
  /\ \A w \in DOMAIN page.workers : page.workers[w].alive <=> w = page.state.worker

(* Requests have timers.                                                   *)
WellFormed(page) ==
  /\ page \in Pages
  /\ OneAlive(page)
  /\ DOMAIN page.state.pending \subseteq 1..page.state.reqId
  /\ page.timers = DOMAIN page.state.pending

(* What the page's worker is asked to load, has loaded, and has confirmed. *)
OneModule(worker, path) ==
  /\ \A k \in DOMAIN worker.inbox : worker.inbox[k].type = "init" => worker.inbox[k].path = path
  /\ worker.module \in {NoPath, path}
  /\ \A k \in DOMAIN worker.outbox : worker.outbox[k].ok => worker.module = path

Loads(page) ==
  /\ OneModule(page.workers[page.state.worker], page.state.currentModulePath)
  /\ page.state.initialized =>
       page.workers[page.state.worker].module = page.state.currentModulePath

(* The request the click handler waits for, if it is in progress.          *)
Awaits(page, id) ==
  /\ DOMAIN page.state.pending = {id}
  /\ page.state.initializing <=> page.state.pending[id].type = "init"
Quiet(page) == DOMAIN page.state.pending = {} /\ ~page.state.initializing
Serves(page, h) ==
  /\ h.busy \in BOOLEAN
  /\ h.busy => h.kind \in {"parse", "run"} /\ h.path \in Paths /\ \E id \in Nat : Awaits(page, id)
  /\ ~h.busy => Quiet(page)

Shown == panels \in [output : Results, diagnostics : Results, ast : Results]
Typed == source \in Sources /\ wasmPath \in Paths \cup {NoPath}

PageInv == WellFormed(Now) /\ Loads(Now) /\ Serves(Now, handler) /\ Shown /\ Typed

-----------------------------------------------------------------------------
(* A new Worker is asked for nothing and has nothing to say.               *)
LEMMA WorkerType == Worker \in Workers /\ \A path \in Paths : OneModule(Worker, path)
BY DEF Worker, Workers, OneModule

(* Replacing one worker of the sequence leaves the others as they are.     *)
LEMMA Replaced ==
  ASSUME NEW s \in Seq(Workers), NEW i \in DOMAIN s, NEW x \in Workers
  PROVE  LET t == [s EXCEPT ![i] = x]
         IN  /\ t \in Seq(Workers) /\ Len(t) = Len(s) /\ DOMAIN t = DOMAIN s
             /\ t[i] = x /\ \A j \in DOMAIN s : j # i => t[j] = s[j]
OBVIOUS

(* An object without entries.                                              *)
LEMMA NoRequests == <<>> \in UNION {[ids -> Asked] : ids \in SUBSET Nat} /\ DOMAIN <<>> = {}
<1>1. <<>> \in [{} -> Asked] /\ DOMAIN <<>> = {}
  OBVIOUS
<1> QED
  BY <1>1

(* Settling a request removes it and its timer and keeps the rest.         *)
LEMMA SettleKeeps ==
  ASSUME NEW page, WellFormed(page), Loads(page), NEW id
  PROVE  LET new == Settle(page, id)
         IN  /\ WellFormed(new) /\ Loads(new)
             /\ DOMAIN new.state.pending = DOMAIN page.state.pending \ {id}
             /\ new.state.initializing = page.state.initializing
             /\ new.workers = page.workers /\ new.state.worker = page.state.worker
             /\ new.state.currentModulePath = page.state.currentModulePath
<1> DEFINE rest == [i \in DOMAIN page.state.pending \ {id} |-> page.state.pending[i]]
           new == [page EXCEPT !.state.pending = rest, !.timers = @ \ {id}]
<1>1. PICK ids \in SUBSET Nat : page.state.pending \in [ids -> Asked]
  BY DEF WellFormed, Pages, States
<1>2. rest \in [ids \ {id} -> Asked] /\ DOMAIN rest = DOMAIN page.state.pending \ {id}
  BY <1>1
<1>3. rest \in UNION {[s -> Asked] : s \in SUBSET Nat}
  BY <1>2
<1> HIDE DEF rest
<1>4. new \in Pages
  BY <1>3 DEF WellFormed, Pages, States
<1>5. /\ new.state.pending = rest /\ new.timers = page.timers \ {id} /\ new.workers = page.workers
      /\ new.state.reqId = page.state.reqId /\ new.state.worker = page.state.worker
      /\ new.state.initializing = page.state.initializing
      /\ new.state.initialized = page.state.initialized
      /\ new.state.currentModulePath = page.state.currentModulePath
  BY DEF WellFormed, Pages, States
<1> HIDE DEF new
<1>6. WellFormed(new) /\ Loads(new)
  BY <1>2, <1>4, <1>5 DEF WellFormed, OneAlive, Loads
<1> QED
  BY <1>2, <1>5, <1>6 DEF Settle, rest, new

(* resetWorker leaves no request, no timer and no initialisation, also when *)
(* the timer of a request has just fired.                                  *)
LEMMA ResetQuiet ==
  ASSUME NEW page \in Pages, OneAlive(page), page.timers \subseteq DOMAIN page.state.pending
  PROVE  LET new == ResetWorker(page)
         IN  /\ WellFormed(new) /\ Quiet(new)
             /\ new.state.currentModulePath = NoPath /\ ~new.state.initialized
             /\ new.workers[new.state.worker] = Worker
<1> DEFINE stopped == [page.workers EXCEPT ![page.state.worker].alive = FALSE]
           new == ResetWorker(page)
<1>1. /\ page.workers \in Seq(Workers) /\ page.state.worker \in DOMAIN page.workers
      /\ page.state.reqId \in Nat
  BY DEF Pages, States, OneAlive
<1>2. /\ stopped \in Seq(Workers) /\ Len(stopped) = Len(page.workers)
      /\ \A w \in DOMAIN stopped : ~stopped[w].alive
  <2> DEFINE old == page.workers[page.state.worker]
  <2>1. old \in Workers
    BY <1>1
  <2>2. [old EXCEPT !.alive = FALSE] \in Workers /\ [old EXCEPT !.alive = FALSE].alive = FALSE
    BY <2>1 DEF Workers
  <2>3. stopped = [page.workers EXCEPT ![page.state.worker] = [old EXCEPT !.alive = FALSE]]
    OBVIOUS
  <2> HIDE DEF stopped, old
  <2> QED
    BY <1>1, <2>2, <2>3, Replaced DEF OneAlive
<1> HIDE DEF stopped
<1>3. /\ Append(stopped, Worker) \in Seq(Workers)
      /\ Len(Append(stopped, Worker)) = Len(page.workers) + 1
      /\ Append(stopped, Worker)[Len(page.workers) + 1] = Worker
      /\ \A w \in 1..Len(page.workers) : ~Append(stopped, Worker)[w].alive
  BY <1>1, <1>2, WorkerType
<1>4. /\ new.workers = Append(stopped, Worker) /\ new.state.worker = Len(page.workers) + 1
      /\ new.state.pending = <<>> /\ new.timers = page.timers \ DOMAIN page.state.pending
      /\ new.state.initializing = FALSE /\ new.state.initialized = FALSE
      /\ new.state.currentModulePath = NoPath /\ new.state.reqId = page.state.reqId
      /\ new = [state |-> new.state, timers |-> new.timers, workers |-> new.workers]
      /\ new.state = [worker |-> new.state.worker, initialized |-> FALSE, initializing |-> FALSE,
                      currentModulePath |-> NoPath, reqId |-> new.state.reqId, pending |-> <<>>]
  BY DEF ResetWorker, stopped
<1> HIDE DEF new
<1>5. new.timers = {}
  BY <1>4
<1>6. new.state \in States
  <2>1. Len(page.workers) + 1 \in Nat
    BY <1>1
  <2>2. [worker |-> Len(page.workers) + 1, initialized |-> FALSE, initializing |-> FALSE,
         currentModulePath |-> NoPath, reqId |-> page.state.reqId, pending |-> <<>>] \in States
    BY <1>1, <2>1, NoRequests DEF States
  <2> QED
    BY <1>4, <2>2
<1>7. new \in Pages
  BY <1>3, <1>4, <1>5, <1>6 DEF Pages
<1>8. Worker.alive = TRUE
  BY DEF Worker
<1>9. OneAlive(new)
  BY <1>1, <1>3, <1>4, <1>8 DEF OneAlive
<1> QED
  BY <1>3, <1>4, <1>5, <1>7, <1>9, NoRequests DEF WellFormed, Quiet, new

(* postMessage to the page's worker, which asks for no other module.       *)
LEMMA SendKeeps ==
  ASSUME NEW page, WellFormed(page), Loads(page), NEW msg \in Messages,
         msg.type = "init" => msg.path = page.state.currentModulePath
  PROVE  LET new == Send(page, msg)
         IN  WellFormed(new) /\ Loads(new) /\ new.state = page.state
<1> DEFINE c == page.state.worker
           sent == [page.workers EXCEPT ![c].inbox = Append(@, msg)]
           new == Send(page, msg)
<1>1. page.workers \in Seq(Workers) /\ c \in DOMAIN page.workers
  BY DEF WellFormed, OneAlive, Pages
<1>2. /\ sent \in Seq(Workers) /\ DOMAIN sent = DOMAIN page.workers
      /\ \A w \in DOMAIN sent : sent[w].alive = page.workers[w].alive
      /\ sent[c].module = page.workers[c].module /\ sent[c].outbox = page.workers[c].outbox
      /\ sent[c].inbox = Append(page.workers[c].inbox, msg)
  <2> DEFINE old == page.workers[c]
             new1 == [old EXCEPT !.inbox = Append(@, msg)]
  <2>1. old \in Workers
    BY <1>1
  <2> HIDE DEF old
  <2>2. old.inbox \in Seq(Messages)
    BY <2>1 DEF Workers
  <2>3. Append(old.inbox, msg) \in Seq(Messages)
    BY <2>2
  <2>4. /\ new1 \in Workers /\ new1.alive = old.alive /\ new1.module = old.module
        /\ new1.outbox = old.outbox /\ new1.inbox = Append(old.inbox, msg)
    BY <2>1, <2>3 DEF Workers
  <2>5. sent = [page.workers EXCEPT ![c] = new1] /\ page.workers[c] = old
    BY DEF old
  <2> HIDE DEF sent, new1
  <2> QED
    BY <1>1, <2>4, <2>5, Replaced
<1>3. page.workers[c].inbox \in Seq(Messages)
  <2>1. page.workers[c] \in Workers
    BY <1>1
  <2> QED
    BY <2>1 DEF Workers
<1> HIDE DEF sent
<1>4. new = [page EXCEPT !.workers = sent]
  BY DEF Send, sent
<1>5. new \in Pages /\ new.state = page.state /\ new.timers = page.timers /\ new.workers = sent
  BY <1>2, <1>4 DEF WellFormed, Pages
<1> HIDE DEF new
<1>6. WellFormed(new)
  BY <1>2, <1>5 DEF WellFormed, OneAlive
<1>7. \A k \in DOMAIN sent[c].inbox :
        sent[c].inbox[k].type = "init" => sent[c].inbox[k].path = page.state.currentModulePath
  BY <1>2, <1>3 DEF Loads, OneModule
<1>8. Loads(new)
  BY <1>2, <1>5, <1>7 DEF Loads, OneModule
<1> QED
  BY <1>5, <1>6, <1>8 DEF new

(* callWorker on a page without a request starts one, with its timer.      *)
LEMMA CallAwaits ==
  ASSUME NEW page, WellFormed(page), Loads(page), DOMAIN page.state.pending = {},
         NEW type \in {"init", "parse", "run"}, NEW src, NEW path \in Paths,
         type = "init" => src = NoSource /\ path = page.state.currentModulePath
                          /\ page.state.initializing,
         type # "init" => src \in Sources /\ ~page.state.initializing
  PROVE  LET new == CallWorker(page, type, src, path)
         IN  WellFormed(new) /\ Loads(new) /\ \E id \in Nat : Awaits(new, id)
<1> DEFINE id == page.state.reqId + 1
           asked == [i \in {id} |-> [type |-> type, source |-> src]]
           pend == [i \in DOMAIN page.state.pending \cup {id} |->
                      IF i = id THEN [type |-> type, source |-> src] ELSE page.state.pending[i]]
           waiting == [page EXCEPT !.state.reqId = id, !.state.pending = pend,
                                   !.timers = @ \cup {id}]
           msg == Message(type, id, src, path)
<1>1. page.state.reqId \in Nat /\ id \in Nat
  BY DEF WellFormed, Pages, States
<1>2. /\ pend \in [{id} -> Asked] /\ DOMAIN pend = {id}
      /\ pend[id].type = type
  BY DEF Asked
<1>3. pend \in UNION {[ids -> Asked] : ids \in SUBSET Nat}
  BY <1>1, <1>2
<1> HIDE DEF pend
<1>4. waiting \in Pages
  BY <1>1, <1>3 DEF WellFormed, Pages, States
<1>5. /\ waiting.state.pending = pend /\ waiting.timers = page.timers \cup {id}
      /\ waiting.state.reqId = id /\ waiting.workers = page.workers
      /\ waiting.state.worker = page.state.worker
      /\ waiting.state.initializing = page.state.initializing
      /\ waiting.state.initialized = page.state.initialized
      /\ waiting.state.currentModulePath = page.state.currentModulePath
  BY DEF WellFormed, Pages, States
<1> HIDE DEF waiting
<1>6. WellFormed(waiting)
  BY <1>1, <1>2, <1>4, <1>5 DEF WellFormed, OneAlive
<1>7. Loads(waiting)
  BY <1>5 DEF Loads
<1>8. msg \in Messages /\ (msg.type = "init" => msg.path = waiting.state.currentModulePath)
  BY <1>1, <1>5 DEF Message, Messages
<1>9. CallWorker(page, type, src, path) = Send(waiting, msg)
  BY DEF CallWorker, waiting, pend
<1> HIDE DEF msg
<1>10. Awaits(waiting, id)
  BY <1>2, <1>5 DEF Awaits
<1> HIDE DEF id
<1>11. /\ WellFormed(Send(waiting, msg)) /\ Loads(Send(waiting, msg))
       /\ Send(waiting, msg).state = waiting.state
  BY <1>6, <1>7, <1>8, SendKeeps
<1> QED
  BY <1>1, <1>9, <1>10, <1>11 DEF Awaits

(* ensureWorkerReady on a page without a request asks for the module, of a *)
(* new worker when the path is another one.                                *)
LEMMA BeginInitAwaits ==
  ASSUME NEW page, WellFormed(page), Loads(page), Quiet(page), NEW path \in Paths
  PROVE  LET new == BeginInit(page, path)
         IN  WellFormed(new) /\ Loads(new) /\ \E id \in Nat : Awaits(new, id)
<1> DEFINE fresh == IF page.state.currentModulePath # path THEN ResetWorker(page) ELSE page
           asked == [fresh EXCEPT !.state.currentModulePath = path, !.state.initializing = TRUE]
<1>1. /\ WellFormed(fresh) /\ DOMAIN fresh.state.pending = {}
      /\ OneModule(fresh.workers[fresh.state.worker], path)
      /\ fresh.state.initialized => fresh.workers[fresh.state.worker].module = path
  <2>1. CASE page.state.currentModulePath = path
    BY <2>1 DEF Quiet, Loads
  <2>2. CASE page.state.currentModulePath # path
    <3>1. WellFormed(ResetWorker(page)) /\ Quiet(ResetWorker(page))
          /\ ~ResetWorker(page).state.initialized
          /\ ResetWorker(page).workers[ResetWorker(page).state.worker] = Worker
      BY ResetQuiet DEF WellFormed
    <3> QED
      BY <2>2, <3>1, WorkerType DEF Quiet
  <2> QED
    BY <2>1, <2>2
<1> HIDE DEF fresh
<1>2. asked \in Pages
  BY <1>1 DEF WellFormed, Pages, States
<1>3. /\ asked.state.pending = fresh.state.pending /\ asked.timers = fresh.timers
      /\ asked.state.reqId = fresh.state.reqId /\ asked.workers = fresh.workers
      /\ asked.state.worker = fresh.state.worker /\ asked.state.initializing
      /\ asked.state.initialized = fresh.state.initialized
      /\ asked.state.currentModulePath = path
  BY <1>1 DEF WellFormed, Pages, States
<1>4. BeginInit(page, path) = CallWorker(asked, "init", NoSource, path)
  BY DEF BeginInit, fresh
<1> HIDE DEF asked
<1>5. WellFormed(asked) /\ Loads(asked)
  BY <1>1, <1>2, <1>3 DEF WellFormed, OneAlive, Loads
<1> QED
  BY <1>1, <1>3, <1>4, <1>5, CallAwaits

(* What a task makes of the page is the page after it.                     *)
LEMMA NowAfter ==
  ASSUME NEW page \in Pages, Becomes(page)
  PROVE  Now' = page
BY DEF Pages, Becomes, Now

(* The parts of a page of the invariant, also after an event was taken.    *)
LEMMA TakenKeeps ==
  ASSUME PageInv, NEW w \in DOMAIN workers, workers[w].outbox # <<>>
  PROVE  /\ WellFormed(Taken(w)) /\ Loads(Taken(w))
         /\ Taken(w).state = state /\ Taken(w).timers = timers
         /\ Event(w) \in Events
         /\ w = state.worker /\ Event(w).ok => workers[w].module = state.currentModulePath
         /\ Taken(w).workers[w].module = workers[w].module
<1> DEFINE old == workers[w]
           given == [old EXCEPT !.outbox = Tail(@)]
           after == [workers EXCEPT ![w].outbox = Tail(@)]
<1>1. WellFormed(Now) /\ Loads(Now) /\ workers \in Seq(Workers) /\ old \in Workers
  BY DEF PageInv, WellFormed, Pages, Now
<1>2. old.outbox \in Seq(Events) /\ old.outbox # <<>>
  BY <1>1 DEF Workers
<1>3. after = [workers EXCEPT ![w] = given]
  OBVIOUS
<1> HIDE DEF old
<1>4. /\ Tail(old.outbox) \in Seq(Events) /\ Head(old.outbox) \in Events
      /\ Head(old.outbox) = old.outbox[1] /\ 1 \in DOMAIN old.outbox
      /\ \A k \in DOMAIN Tail(old.outbox) :
           k + 1 \in DOMAIN old.outbox /\ Tail(old.outbox)[k] = old.outbox[k + 1]
  BY <1>2
<1>5. /\ given \in Workers /\ given.alive = old.alive /\ given.module = old.module
      /\ given.inbox = old.inbox /\ given.outbox = Tail(old.outbox)
  BY <1>1, <1>4 DEF Workers
<1> HIDE DEF given, after
<1>6. /\ after \in Seq(Workers) /\ DOMAIN after = DOMAIN workers
      /\ after[w] = given /\ \A j \in DOMAIN workers : j # w => after[j] = workers[j]
  BY <1>1, <1>3, <1>5, Replaced
<1>7. Taken(w) = [state |-> state, timers |-> timers, workers |-> after]
  BY DEF Taken, Now, after
<1>8. WellFormed(Taken(w))
  BY <1>1, <1>5, <1>6, <1>7 DEF WellFormed, OneAlive, Pages, Now, old
<1>9. \A path : OneModule(old, path) => OneModule(given, path)
  BY <1>4, <1>5 DEF OneModule
<1>10. Loads(Taken(w))
  BY <1>1, <1>5, <1>6, <1>7, <1>9 DEF Loads, Now, old, WellFormed, OneAlive
<1>11. w = state.worker /\ Event(w).ok => workers[w].module = state.currentModulePath
  BY <1>1, <1>4 DEF Loads, OneModule, Now, Event, old
<1> QED
  BY <1>4, <1>5, <1>6, <1>7, <1>8, <1>10, <1>11 DEF Event, old

-----------------------------------------------------------------------------
(* What the panels may show.                                               *)
LEMMA ResultKinds ==
  /\ Blank \in Results /\ Failure \in Results
  /\ \A kind \in {"parse", "run"}, src \in Sources, path \in Paths :
       Result(kind, src, path) \in Results
BY DEF Results

(* The page as it is loaded.                                               *)
LEMMA InitServes == ASSUME Init PROVE PageInv
<1>1. /\ state.worker = 1 /\ state.pending = <<>> /\ timers = {} /\ workers = <<Worker>>
      /\ ~state.initialized /\ ~state.initializing /\ state.currentModulePath = NoPath
      /\ state.reqId = 0
  BY DEF Init
<1>2. state \in States
  BY NoRequests DEF Init, States
<1>3. workers \in Seq(Workers) /\ DOMAIN workers = {1} /\ workers[1] = Worker
  BY <1>1, WorkerType
<1>4. Worker.alive /\ OneModule(Worker, NoPath)
  BY DEF Worker, OneModule
<1>5. WellFormed(Now)
  BY <1>1, <1>2, <1>3, <1>4, NoRequests DEF WellFormed, OneAlive, Pages, Now
<1>6. Loads(Now)
  BY <1>1, <1>3, <1>4 DEF Loads, Now
<1>7. Serves(Now, handler)
  BY <1>1, NoRequests DEF Init, Serves, Quiet, Now, Ready
<1>8. Shown /\ Typed
  BY ResultKinds DEF Init, Shown, Typed, Clear
<1> QED
  BY <1>5, <1>6, <1>7, <1>8 DEF PageInv

(* A task that ends the handler, showing a failure.                        *)
LEMMA FailureShown ==
  ASSUME Shown, NEW kind, ShowFailure(kind)
  PROVE  Shown' /\ handler' = Ready
BY ResultKinds DEF Shown, ShowFailure

(* With no request under way the buttons may be enabled.                   *)
LEMMA ReadyServes ==
  ASSUME NEW page, Quiet(page)
  PROVE  Serves(page, Ready)
BY DEF Serves, Ready

(* A click finds no request and starts one, or shows that it cannot.       *)
LEMMA ClickServes ==
  ASSUME PageInv, NEW kind \in {"parse", "run"}, Click(kind)
  PROVE  PageInv'
<1>1. /\ ~handler.busy /\ WellFormed(Now) /\ Loads(Now) /\ Quiet(Now) /\ Shown /\ Typed
      /\ Typed' /\ source \in Sources
  BY DEF Click, PageInv, Serves, Typed, Inputs
<1>2. CASE wasmPath = NoPath
  <2>1. Becomes(Now) /\ ShowFailure(kind)
    BY <1>2 DEF Click
  <2>2. Now' = Now
    BY <1>1, <2>1, NowAfter DEF WellFormed
  <2> QED
    BY <1>1, <2>1, <2>2, FailureShown, ReadyServes DEF PageInv
<1>3. CASE wasmPath # NoPath
  <2>1. /\ handler'.busy = TRUE /\ handler'.kind \in {"parse", "run"} /\ handler'.path \in Paths
        /\ Shown' /\ wasmPath \in Paths
    BY <1>1, <1>3 DEF Click, Busy, Shown, Typed
  <2>2. ASSUME NEW new, Becomes(new), WellFormed(new), Loads(new), \E id \in Nat : Awaits(new, id)
        PROVE  PageInv'
    <3>1. Now' = new
      BY <2>2, NowAfter DEF WellFormed
    <3> QED
      BY <1>1, <2>1, <2>2, <3>1 DEF PageInv, Serves
  <2>3. CASE state.initialized /\ state.currentModulePath = wasmPath
    <3>1. Becomes(CallWorker(Now, kind, source, wasmPath))
      BY <1>3, <2>3 DEF Click
    <3>2. DOMAIN Now.state.pending = {} /\ ~Now.state.initializing
      BY <1>1 DEF Quiet
    <3>3. LET new == CallWorker(Now, kind, source, wasmPath)
          IN  WellFormed(new) /\ Loads(new) /\ \E id \in Nat : Awaits(new, id)
      BY <1>1, <2>1, <3>2, CallAwaits
    <3> QED
      BY <2>2, <3>1, <3>3
  <2>4. CASE ~(state.initialized /\ state.currentModulePath = wasmPath)
    <3>1. Becomes(BeginInit(Now, wasmPath))
      BY <1>3, <2>4 DEF Click
    <3>2. LET new == BeginInit(Now, wasmPath)
          IN  WellFormed(new) /\ Loads(new) /\ \E id \in Nat : Awaits(new, id)
      BY <1>1, <2>1, BeginInitAwaits
    <3> QED
      BY <2>2, <3>1, <3>2
  <2> QED
    BY <2>3, <2>4
<1> QED
  BY <1>2, <1>3

(* A reply somebody waits for settles the one request under way.           *)
LEMMA ReplySettles ==
  ASSUME PageInv, NEW w, TakesReply(w)
  PROVE  LET id == Event(w).id
             settled == Settle(Taken(w), id)
         IN  /\ handler.busy /\ handler.kind \in {"parse", "run"} /\ handler.path \in Paths
             /\ WellFormed(settled) /\ Loads(settled) /\ DOMAIN settled.state.pending = {}
             /\ settled.state.initializing = state.initializing
             /\ state.initializing <=> state.pending[id].type = "init"
             /\ Event(w) \in Events
             /\ Event(w).ok => settled.workers[settled.state.worker].module
                                  = settled.state.currentModulePath
<1> DEFINE id == Event(w).id
           settled == Settle(Taken(w), id)
<1>1. /\ id \in DOMAIN state.pending /\ w = state.worker
      /\ w \in DOMAIN workers /\ workers[w].outbox # <<>>
  BY DEF TakesReply, Delivers
<1>2. handler.busy
  BY <1>1 DEF PageInv, Serves, Quiet, Now
<1>3. PICK one \in Nat : Awaits(Now, one)
  BY <1>2 DEF PageInv, Serves
<1>4. /\ DOMAIN state.pending = {id}
      /\ state.initializing <=> state.pending[id].type = "init"
  BY <1>1, <1>3 DEF Awaits, Now
<1>5. /\ WellFormed(Taken(w)) /\ Loads(Taken(w)) /\ Taken(w).state = state
      /\ Event(w) \in Events
      /\ Event(w).ok => workers[w].module = state.currentModulePath
      /\ Taken(w).workers[w].module = workers[w].module
  BY <1>1, TakenKeeps
<1> HIDE DEF id
<1>6. /\ WellFormed(settled) /\ Loads(settled)
      /\ DOMAIN settled.state.pending = DOMAIN state.pending \ {id}
      /\ settled.state.initializing = state.initializing
      /\ settled.workers = Taken(w).workers /\ settled.state.worker = state.worker
      /\ settled.state.currentModulePath = state.currentModulePath
  BY <1>5, SettleKeeps
<1> HIDE DEF settled
<1> QED
  BY <1>1, <1>2, <1>4, <1>5, <1>6 DEF PageInv, Serves, id, settled

(* The module is loaded, and the request follows at once.                  *)
LEMMA InitReplyServes ==
  ASSUME PageInv, NEW w, InitReply(w)
  PROVE  PageInv'
<1> DEFINE settled == Settle(Taken(w), Event(w).id)
           loaded == [settled EXCEPT !.state.initialized = TRUE, !.state.initializing = FALSE]
           new == CallWorker(loaded, handler.kind, source, handler.path)
<1>1. /\ handler.busy /\ handler.kind \in {"parse", "run"} /\ handler.path \in Paths
      /\ WellFormed(settled) /\ Loads(settled) /\ DOMAIN settled.state.pending = {}
      /\ settled.workers[settled.state.worker].module = settled.state.currentModulePath
  BY ReplySettles DEF InitReply
<1>2. /\ Becomes(new) /\ handler' = handler /\ Shown' /\ Typed' /\ source \in Sources
      /\ handler.busy \in BOOLEAN
  BY DEF InitReply, KeepsWaiting, Inputs, PageInv, Shown, Typed, Serves
<1> HIDE DEF settled
<1>3. /\ loaded \in Pages /\ loaded.state.pending = settled.state.pending
      /\ loaded.timers = settled.timers /\ loaded.workers = settled.workers
      /\ loaded.state.reqId = settled.state.reqId /\ loaded.state.worker = settled.state.worker
      /\ loaded.state.initializing = FALSE
      /\ loaded.state.currentModulePath = settled.state.currentModulePath
  BY <1>1 DEF WellFormed, Pages, States
<1> HIDE DEF loaded
<1>4. WellFormed(loaded) /\ Loads(loaded)
  BY <1>1, <1>3 DEF WellFormed, OneAlive, Loads
<1>5. WellFormed(new) /\ Loads(new) /\ \E id \in Nat : Awaits(new, id)
  BY <1>1, <1>2, <1>3, <1>4, CallAwaits
<1> HIDE DEF new
<1>6. Now' = new
  BY <1>2, <1>5, NowAfter DEF WellFormed
<1> QED
  BY <1>1, <1>2, <1>5, <1>6 DEF PageInv, Serves

(* The answer to a parse or run ends the handler.                          *)
LEMMA ResultReplyServes ==
  ASSUME PageInv, NEW w, ResultReply(w)
  PROVE  PageInv'
<1> DEFINE settled == Settle(Taken(w), Event(w).id)
<1>1. /\ WellFormed(settled) /\ Loads(settled) /\ DOMAIN settled.state.pending = {}
      /\ settled.state.initializing = state.initializing /\ ~state.initializing
      /\ Event(w) \in Events
  BY ReplySettles DEF ResultReply
<1>2. Becomes(settled) /\ handler' = Ready /\ Typed'
  BY DEF ResultReply, ShowResult, Inputs, PageInv, Typed
<1>3. Shown'
  BY <1>1 DEF ResultReply, ShowResult, Shown, Events
<1> HIDE DEF settled
<1>4. Now' = settled
  BY <1>1, <1>2, NowAfter DEF WellFormed
<1> QED
  BY <1>1, <1>2, <1>3, <1>4, ReadyServes DEF PageInv, Quiet

(* So does a failure, of either kind of request.                           *)
LEMMA FailureReplyServes ==
  ASSUME PageInv, NEW w, FailureReply(w)
  PROVE  PageInv'
<1> DEFINE settled == Settle(Taken(w), Event(w).id)
           given == [settled EXCEPT !.state.initializing = FALSE]
<1>1. WellFormed(settled) /\ Loads(settled) /\ DOMAIN settled.state.pending = {}
  BY ReplySettles DEF FailureReply
<1>2. Becomes(given) /\ Typed' /\ ShowFailure(handler.kind) /\ Shown
  BY DEF FailureReply, Inputs, PageInv, Typed
<1> HIDE DEF settled
<1>3. /\ given \in Pages /\ given.state.pending = settled.state.pending
      /\ given.timers = settled.timers /\ given.workers = settled.workers
      /\ given.state.reqId = settled.state.reqId /\ given.state.worker = settled.state.worker
      /\ given.state.initializing = FALSE /\ given.state.initialized = settled.state.initialized
      /\ given.state.currentModulePath = settled.state.currentModulePath
  BY <1>1 DEF WellFormed, Pages, States
<1> HIDE DEF given
<1>4. WellFormed(given) /\ Loads(given) /\ Quiet(given)
  BY <1>1, <1>3 DEF WellFormed, OneAlive, Loads, Quiet
<1>5. Now' = given
  BY <1>2, <1>4, NowAfter DEF WellFormed
<1> QED
  BY <1>2, <1>4, <1>5, FailureShown, ReadyServes DEF PageInv

(* A reset ends the handler in progress, if there is one.                  *)
LEMMA ResetServes ==
  ASSUME PageInv, NEW page \in Pages, OneAlive(page),
         page.timers \subseteq DOMAIN page.state.pending,
         Becomes(ResetWorker(page)), AfterReset, UNCHANGED Inputs
  PROVE  PageInv'
<1> DEFINE new == ResetWorker(page)
<1>1. /\ WellFormed(new) /\ Quiet(new)
      /\ new.state.currentModulePath = NoPath /\ ~new.state.initialized
      /\ new.workers[new.state.worker] = Worker
  BY ResetQuiet
<1>2. OneModule(Worker, NoPath)
  BY DEF OneModule, Worker
<1> HIDE DEF new
<1>3. Loads(new)
  BY <1>1, <1>2 DEF Loads
<1>4. Now' = new
  BY <1>1, NowAfter DEF WellFormed, new
<1>5. Typed' /\ Shown
  BY DEF PageInv, Typed, Inputs
<1>6. CASE DOMAIN state.pending # {}
  <2>1. ShowFailure(handler.kind)
    BY <1>6 DEF AfterReset
  <2> QED
    BY <1>1, <1>3, <1>4, <1>5, <2>1, FailureShown, ReadyServes DEF PageInv
<1>7. CASE DOMAIN state.pending = {}
  <2>1. handler' = handler /\ Shown'
    BY <1>5, <1>7 DEF AfterReset, KeepsWaiting, Shown
  <2>2. ~handler.busy
    BY <1>7 DEF PageInv, Serves, Awaits, Now
  <2> QED
    BY <1>1, <1>3, <1>4, <1>5, <2>1, <2>2 DEF PageInv, Serves
<1> QED
  BY <1>6, <1>7

(* The error event of the page's worker.                                   *)
LEMMA FailWorkerServes ==
  ASSUME PageInv, NEW w, FailWorker(w)
  PROVE  PageInv'
<1>1. /\ w \in DOMAIN workers /\ workers[w].outbox # <<>>
      /\ Becomes(ResetWorker(Taken(w))) /\ AfterReset /\ UNCHANGED Inputs
  BY DEF FailWorker, Delivers
<1>2. WellFormed(Taken(w))
  BY <1>1, TakenKeeps
<1> QED
  BY <1>1, <1>2, ResetServes DEF WellFormed

(* The timeout of the request under way.                                   *)
LEMMA TimerFiresServes ==
  ASSUME PageInv, NEW id, TimerFires(id)
  PROVE  PageInv'
<1> DEFINE fired == [Now EXCEPT !.timers = @ \ {id}]
<1>1. Becomes(ResetWorker(fired)) /\ AfterReset /\ UNCHANGED Inputs
  BY DEF TimerFires
<1>2. WellFormed(Now)
  BY DEF PageInv
<1>3. /\ fired \in Pages /\ fired.state = Now.state /\ fired.workers = Now.workers
      /\ fired.timers = Now.timers \ {id}
  BY <1>2 DEF WellFormed, Pages, Now
<1> HIDE DEF fired
<1>4. OneAlive(fired) /\ fired.timers \subseteq DOMAIN fired.state.pending
  BY <1>2, <1>3 DEF WellFormed, OneAlive
<1> QED
  BY <1>1, <1>3, <1>4, ResetServes

-----------------------------------------------------------------------------
(* A task of a worker takes its oldest message, posts at most one event    *)
(* and may load a module.                                                  *)
LEMMA AsideServes ==
  ASSUME PageInv, NEW w \in DOMAIN workers, NEW new \in Workers, Aside,
         workers' = [workers EXCEPT ![w] = new], new.alive = workers[w].alive,
         w = state.worker =>
           /\ \A path \in Paths \cup {NoPath} : OneModule(workers[w], path) => OneModule(new, path)
           /\ new.module = NoPath => workers[w].module = NoPath
  PROVE  PageInv'
<1>1. WellFormed(Now) /\ Loads(Now) /\ workers \in Seq(Workers)
  BY DEF PageInv, WellFormed, Pages, Now
<1>2. /\ workers' \in Seq(Workers) /\ DOMAIN workers' = DOMAIN workers
      /\ workers'[w] = new /\ \A j \in DOMAIN workers : j # w => workers'[j] = workers[j]
  BY <1>1, Replaced
<1>3. Now' = [state |-> state, timers |-> timers, workers |-> workers']
  BY DEF Now, Aside
<1>4. WellFormed(Now')
  BY <1>1, <1>2, <1>3 DEF WellFormed, OneAlive, Pages, Now
<1>5. Loads(Now')
  <2>1. state.worker \in DOMAIN workers /\ state.currentModulePath \in Paths \cup {NoPath}
    BY <1>1 DEF WellFormed, OneAlive, Pages, States, Now
  <2>2. CASE w # state.worker
    BY <1>1, <1>2, <1>3, <2>1, <2>2 DEF Loads, Now
  <2>3. CASE w = state.worker
    <3>1. OneModule(workers[w], state.currentModulePath)
          /\ (state.initialized => workers[w].module = state.currentModulePath)
      BY <1>1, <2>3 DEF Loads, Now
    <3>2. OneModule(new, state.currentModulePath)
      BY <2>1, <2>3, <3>1
    <3>3. new.module \in {NoPath, state.currentModulePath}
      BY <3>2 DEF OneModule
    <3>4. state.initialized => new.module = state.currentModulePath
      BY <2>3, <3>1, <3>3
    <3> QED
      BY <1>2, <1>3, <2>3, <3>2, <3>4 DEF Loads, Now
  <2> QED
    BY <2>2, <2>3
<1>6. Serves(Now', handler')
  BY <1>3 DEF PageInv, Serves, Awaits, Quiet, Now, Aside
<1>7. Shown' /\ Typed'
  BY DEF PageInv, Shown, Typed, Aside
<1> QED
  BY <1>4, <1>5, <1>6, <1>7 DEF PageInv

(* Taking the oldest message and posting an event, for one worker.         *)
LEMMA AnsweredWorker ==
  ASSUME NEW old \in Workers, old.inbox # <<>>,
         NEW event \in Events, NEW module \in Paths \cup {NoPath},
         \A path : OneModule(old, path) => module \in {old.module, path} /\ (event.ok => module = path)
  PROVE  LET new == [old EXCEPT !.inbox = Tail(@), !.outbox = Append(@, event), !.module = module]
         IN  /\ new \in Workers /\ new.alive = old.alive /\ new.module = module
             /\ \A path : OneModule(old, path) => OneModule(new, path)
<1> DEFINE new == [old EXCEPT !.inbox = Tail(@), !.outbox = Append(@, event), !.module = module]
<1>1. old.inbox \in Seq(Messages) /\ old.outbox \in Seq(Events)
  BY DEF Workers
<1>2. /\ Tail(old.inbox) \in Seq(Messages)
      /\ \A k \in DOMAIN Tail(old.inbox) :
           k + 1 \in DOMAIN old.inbox /\ Tail(old.inbox)[k] = old.inbox[k + 1]
  BY <1>1
<1>3. /\ Append(old.outbox, event) \in Seq(Events)
      /\ \A k \in DOMAIN Append(old.outbox, event) :
           \/ Append(old.outbox, event)[k] = event
           \/ k \in DOMAIN old.outbox /\ Append(old.outbox, event)[k] = old.outbox[k]
  BY <1>1
<1>4. /\ new \in Workers /\ new.alive = old.alive /\ new.module = module
      /\ new.inbox = Tail(old.inbox) /\ new.outbox = Append(old.outbox, event)
  BY <1>2, <1>3 DEF Workers
<1> HIDE DEF new
<1>5. ASSUME NEW path, OneModule(old, path)
      PROVE  OneModule(new, path)
  <2>1. module \in {old.module, path} /\ (event.ok => module = path)
    BY <1>5
  <2> QED
    BY <1>2, <1>3, <1>4, <1>5, <2>1 DEF OneModule
<1> QED
  BY <1>4, <1>5 DEF new
(* The event of a fault changes nothing that is asked for or loaded.       *)
LEMMA FaultyWorker ==
  ASSUME NEW old \in Workers
  PROVE  LET new == [old EXCEPT !.outbox = Append(@, ErrorEvent)]
         IN  /\ new \in Workers /\ new.alive = old.alive /\ new.module = old.module
             /\ \A path : OneModule(old, path) => OneModule(new, path)
<1> DEFINE new == [old EXCEPT !.outbox = Append(@, ErrorEvent)]
<1>1. old.outbox \in Seq(Events) /\ ErrorEvent \in Events /\ ~ErrorEvent.ok
  BY ResultKinds DEF Workers, ErrorEvent, Events
<1>2. /\ Append(old.outbox, ErrorEvent) \in Seq(Events)
      /\ \A k \in DOMAIN Append(old.outbox, ErrorEvent) :
           \/ Append(old.outbox, ErrorEvent)[k] = ErrorEvent
           \/ k \in DOMAIN old.outbox /\ Append(old.outbox, ErrorEvent)[k] = old.outbox[k]
  BY <1>1
<1>3. /\ new \in Workers /\ new.alive = old.alive /\ new.module = old.module
      /\ new.inbox = old.inbox /\ new.outbox = Append(old.outbox, ErrorEvent)
  BY <1>2 DEF Workers
<1> HIDE DEF new
<1>4. \A path : OneModule(old, path) => OneModule(new, path)
  BY <1>1, <1>2, <1>3 DEF OneModule
<1> QED
  BY <1>3, <1>4 DEF new

(* What a task of the page's worker finds: it has been asked for the       *)
(* module of the page, and for results of sources of the page only.        *)
LEMMA JobFacts ==
  ASSUME PageInv, NEW w, Working(w)
  PROVE  /\ w \in DOMAIN workers /\ workers[w] \in Workers /\ workers[w].inbox # <<>>
         /\ Job(w) \in Messages
         /\ \A path : OneModule(workers[w], path) /\ Job(w).type = "init" => Job(w).path = path
<1>1. w \in DOMAIN workers /\ workers \in Seq(Workers) /\ workers[w].inbox # <<>>
  BY DEF Working, PageInv, WellFormed, Pages, Now
<1>2. workers[w] \in Workers
  BY <1>1
<1>3. workers[w].inbox \in Seq(Messages)
  BY <1>2 DEF Workers
<1>4. /\ 1 \in DOMAIN workers[w].inbox
      /\ Head(workers[w].inbox) = workers[w].inbox[1] /\ Head(workers[w].inbox) \in Messages
  BY <1>1, <1>3
<1> QED
  BY <1>1, <1>2, <1>4 DEF Job, OneModule

(* A worker whose task ends with an event, loading module or keeping it.   *)
LEMMA AnsweredServes ==
  ASSUME PageInv, NEW w, Working(w), Aside,
         NEW event \in Events, NEW module \in Paths \cup {NoPath},
         workers' = [workers EXCEPT ![w] = [workers[w] EXCEPT !.inbox = Tail(@),
                                              !.outbox = Append(@, event), !.module = module]],
         module = NoPath => workers[w].module = NoPath,
         \A path : OneModule(workers[w], path) =>
                     module \in {workers[w].module, path} /\ (event.ok => module = path)
  PROVE  PageInv'
<1> DEFINE old == workers[w]
           new == [old EXCEPT !.inbox = Tail(@), !.outbox = Append(@, event), !.module = module]
<1>1. w \in DOMAIN workers /\ old \in Workers /\ old.inbox # <<>>
  BY JobFacts
<1>2. workers' = [workers EXCEPT ![w] = new]
  OBVIOUS
<1>3. \A path : OneModule(old, path) => module \in {old.module, path} /\ (event.ok => module = path)
  OBVIOUS
<1>4. module = NoPath => old.module = NoPath
  OBVIOUS
<1>5. old = workers[w]
  OBVIOUS
<1> HIDE DEF old
<1>6. /\ new \in Workers /\ new.alive = old.alive /\ new.module = module
      /\ \A path : OneModule(old, path) => OneModule(new, path)
  BY <1>1, <1>3, AnsweredWorker
<1> HIDE DEF new
<1> QED
  BY <1>1, <1>2, <1>4, <1>5, <1>6, AsideServes

(* The worker loads the module it is asked for, or fails to.               *)
LEMMA InitModuleServes ==
  ASSUME PageInv, NEW w, InitModule(w)
  PROVE  PageInv'
<1> DEFINE no == Reply(Job(w).id, FALSE, Blank)
           yes == Reply(Job(w).id, TRUE, Blank)
<1>1. /\ Working(w) /\ Job(w).type = "init" /\ Aside
      /\ w \in DOMAIN workers /\ workers[w] \in Workers /\ Job(w) \in Messages
      /\ \A path : OneModule(workers[w], path) => Job(w).path = path
  BY JobFacts DEF InitModule
<1>2. /\ no \in Events /\ ~no.ok /\ yes \in Events
      /\ Job(w).path \in Paths /\ workers[w].module \in Paths \cup {NoPath}
  BY <1>1, ResultKinds DEF Reply, Events, Messages, Workers
<1> HIDE DEF no, yes
<1>3. CASE workers' = Answered(w, no)
  <2>1. workers' = [workers EXCEPT ![w] = [workers[w] EXCEPT !.inbox = Tail(@),
                      !.outbox = Append(@, no), !.module = workers[w].module]]
    BY <1>1, <1>3 DEF Answered, Workers
  <2> QED
    BY <1>1, <1>2, <2>1, AnsweredServes
<1>4. CASE workers' = [Answered(w, yes) EXCEPT ![w].module = Job(w).path]
  <2>1. workers' = [workers EXCEPT ![w] = [workers[w] EXCEPT !.inbox = Tail(@),
                      !.outbox = Append(@, yes), !.module = Job(w).path]]
    BY <1>1, <1>4 DEF Answered, Workers
  <2>2. Job(w).path # NoPath
    BY <1>2, PlaygroundAssumption
  <2> QED
    BY <1>1, <1>2, <2>1, <2>2, AnsweredServes
<1> QED
  BY <1>3, <1>4 DEF InitModule, no, yes

(* The worker runs a request with the module it has, or fails to.          *)
LEMMA InvokeSourceServes ==
  ASSUME PageInv, NEW w, InvokeSource(w)
  PROVE  PageInv'
<1> DEFINE no == Reply(Job(w).id, FALSE, Blank)
           yes == Reply(Job(w).id, TRUE, Result(Job(w).type, Job(w).source, workers[w].module))
<1>1. /\ Working(w) /\ Job(w).type # "init" /\ Aside
      /\ w \in DOMAIN workers /\ workers[w] \in Workers /\ Job(w) \in Messages
  BY JobFacts DEF InvokeSource
<1>2. /\ no \in Events /\ ~no.ok /\ workers[w].module \in Paths \cup {NoPath}
      /\ Job(w).type \in {"parse", "run"} /\ Job(w).source \in Sources /\ Job(w).id \in Nat
  BY <1>1, ResultKinds DEF Reply, Events, Messages, Workers
<1>3. ASSUME NEW event \in Events, workers' = Answered(w, event),
             event.ok => workers[w].module # NoPath
      PROVE  PageInv'
  <2>1. workers' = [workers EXCEPT ![w] = [workers[w] EXCEPT !.inbox = Tail(@),
                      !.outbox = Append(@, event), !.module = workers[w].module]]
    BY <1>1, <1>3 DEF Answered, Workers
  <2>2. \A path : OneModule(workers[w], path) => (event.ok => workers[w].module = path)
    BY <1>3 DEF OneModule
  <2> QED
    BY <1>1, <1>2, <2>1, <2>2, AnsweredServes
<1>4. CASE workers' = Answered(w, no)
  BY <1>2, <1>3, <1>4
<1>5. CASE workers[w].module # NoPath /\ workers' = Answered(w, yes)
  <2>1. Result(Job(w).type, Job(w).source, workers[w].module) \in Results
    BY <1>2, <1>5, ResultKinds
  <2>2. yes \in Events
    BY <1>2, <2>1 DEF Reply, Events
  <2> HIDE DEF yes
  <2> QED
    BY <1>3, <1>5, <2>2
<1> QED
  BY <1>4, <1>5 DEF InvokeSource

(* The worker fails outside of its tasks.                                  *)
LEMMA WorkerFaultServes ==
  ASSUME PageInv, NEW w, WorkerFault(w)
  PROVE  PageInv'
<1> DEFINE new == [workers[w] EXCEPT !.outbox = Append(@, ErrorEvent)]
<1>1. /\ w \in DOMAIN workers /\ workers \in Seq(Workers) /\ Aside
      /\ workers' = [workers EXCEPT ![w] = new]
  BY DEF WorkerFault, PageInv, WellFormed, Pages, Now
<1>2. workers[w] \in Workers
  BY <1>1
<1>3. /\ new \in Workers /\ new.alive = workers[w].alive /\ new.module = workers[w].module
      /\ \A path : OneModule(workers[w], path) => OneModule(new, path)
  BY <1>2, FaultyWorker
<1> HIDE DEF new
<1> QED
  BY <1>1, <1>3, AsideServes

(* Edits, and steps that change nothing.                                   *)
LEMMA EditServes ==
  ASSUME PageInv, UNCHANGED <<state, timers, workers, handler>>, Shown', Typed'
  PROVE  PageInv'
<1>1. Now' = Now
  BY DEF Now
<1> QED
  BY <1>1 DEF PageInv, Serves

(* Every task keeps the invariant.                                         *)
LEMMA StepServes ==
  ASSUME PageInv, [Next]_vars
  PROVE  PageInv'
<1>1. ASSUME NEW kind \in {"parse", "run"}, Click(kind) PROVE PageInv'
  BY <1>1, ClickServes
<1>2. Shown /\ Typed
  BY DEF PageInv
<1>3. CASE EditSource \/ EditPath
  BY <1>2, <1>3, EditServes DEF EditSource, EditPath, Shown, Typed
<1>4. CASE ChooseExample
  BY <1>2, <1>4, EditServes, ResultKinds DEF ChooseExample, Shown, Typed, Clear
<1>5. ASSUME NEW w \in DOMAIN workers, IgnoreEvent(w) PROVE PageInv'
  <2>1. /\ workers[w].outbox # <<>> /\ Becomes(Taken(w)) /\ handler' = handler
        /\ Shown' /\ Typed'
    BY <1>2, <1>5 DEF IgnoreEvent, KeepsWaiting, Inputs, Shown, Typed
  <2>2. WellFormed(Taken(w)) /\ Loads(Taken(w)) /\ Taken(w).state = state
    BY <2>1, TakenKeeps
  <2>3. Now' = Taken(w)
    BY <2>1, <2>2, NowAfter DEF WellFormed
  <2> QED
    BY <2>1, <2>2, <2>3 DEF PageInv, Serves, Awaits, Quiet, Now
<1>6. ASSUME NEW w \in DOMAIN workers, InitReply(w) PROVE PageInv'
  BY <1>6, InitReplyServes
<1>7. ASSUME NEW w \in DOMAIN workers, ResultReply(w) PROVE PageInv'
  BY <1>7, ResultReplyServes
<1>8. ASSUME NEW w \in DOMAIN workers, FailureReply(w) PROVE PageInv'
  BY <1>8, FailureReplyServes
<1>9. ASSUME NEW w \in DOMAIN workers, FailWorker(w) PROVE PageInv'
  BY <1>9, FailWorkerServes
<1>10. ASSUME NEW w \in DOMAIN workers, InitModule(w) PROVE PageInv'
  BY <1>10, InitModuleServes
<1>11. ASSUME NEW w \in DOMAIN workers, InvokeSource(w) PROVE PageInv'
  BY <1>11, InvokeSourceServes
<1>12. ASSUME NEW w \in DOMAIN workers, WorkerFault(w) PROVE PageInv'
  BY <1>12, WorkerFaultServes
<1>13. ASSUME NEW id \in timers, TimerFires(id) PROVE PageInv'
  BY <1>13, TimerFiresServes
<1>14. CASE UNCHANGED vars
  BY <1>2, <1>14, EditServes DEF vars, Shown, Typed
<1> QED
  BY <1>1, <1>3, <1>4, <1>5, <1>6, <1>7, <1>8, <1>9, <1>10, <1>11, <1>12, <1>13, <1>14 DEF Next

(* The invariant holds in every state of every behaviour.                  *)
LEMMA AlwaysServes == Spec => []PageInv
<1>1. Init => PageInv
  BY InitServes
<1>2. PageInv /\ [Next]_vars => PageInv'
  BY StepServes
<1> QED
  BY <1>1, <1>2, PTL DEF Spec

-----------------------------------------------------------------------------
(* The type invariant of the page.                                         *)
THEOREM PageTypeCorrect == Spec => []TypeOK
<1>1. ASSUME PageInv PROVE TypeOK
  <2>1. WellFormed(Now) /\ Shown /\ handler.busy \in BOOLEAN
    BY <1>1 DEF PageInv, Serves
  <2>2. /\ state \in States /\ timers = DOMAIN state.pending
        /\ DOMAIN state.pending \subseteq 1..state.reqId
        /\ state.worker \in DOMAIN workers
        /\ \A w \in DOMAIN workers : workers[w].alive <=> w = state.worker
    BY <2>1 DEF WellFormed, OneAlive, Pages, Now
  <2> QED
    BY <2>1, <2>2 DEF TypeOK, States, Shown
<1> QED
  BY <1>1, AlwaysServes, PTL

(* A timer that could fire belongs to a request that is still pending, and *)
(* every pending request has one, for any number of clicks and faults.     *)
THEOREM TimersFollowRequests == Spec => []TimersArePending
<1>1. PageInv => TimersArePending
  BY DEF PageInv, WellFormed, Now, TimersArePending
<1> QED
  BY <1>1, AlwaysServes, PTL

(* Exactly one request is pending while the buttons are disabled and none  *)
(* otherwise, and the page initialises exactly while it is an init.        *)
THEOREM OneRequestAtATime == Spec => []OneRequest
<1>1. ASSUME PageInv PROVE OneRequest
  <2>1. CASE handler.busy
    <3>1. PICK id \in Nat : Awaits(Now, id)
      BY <1>1, <2>1 DEF PageInv, Serves
    <3>2. /\ DOMAIN state.pending = {id}
          /\ state.initializing <=> state.pending[id].type = "init"
      BY <3>1 DEF Awaits, Now
    <3>3. Cardinality(DOMAIN state.pending) = 1
      BY <3>2, FS_Singleton
    <3> QED
      BY <2>1, <3>2, <3>3 DEF OneRequest
  <2>2. CASE ~handler.busy
    <3>1. DOMAIN state.pending = {} /\ ~state.initializing
      BY <1>1, <2>2 DEF PageInv, Serves, Quiet, Now
    <3>2. Cardinality(DOMAIN state.pending) = 0
      BY <3>1, FS_EmptySet
    <3> QED
      BY <2>2, <3>1, <3>2 DEF OneRequest
  <2> QED
    BY <2>1, <2>2
<1> QED
  BY <1>1, AlwaysServes, PTL

(* A worker the page takes for initialised has loaded the module whose     *)
(* path the page remembers, whichever workers were replaced before.        *)
THEOREM ReadyWorkerHasLoaded == Spec => []ReadyMeansLoaded
<1>1. PageInv => ReadyMeansLoaded
  BY DEF PageInv, Loads, Now, ReadyMeansLoaded
<1> QED
  BY <1>1, AlwaysServes, PTL

(* What a task leaves on the panels: what was there, nothing, one result   *)
(* everywhere, or a failure and a blank in place of two of them.           *)
LEMMA PanelsAfter ==
  ASSUME [Next]_vars
  PROVE  \/ UNCHANGED panels
         \/ panels' = Clear
         \/ \E r : panels' = [output |-> r, diagnostics |-> r, ast |-> r]
         \/ panels' = [panels EXCEPT !.diagnostics = Failure, !.ast = Blank]
         \/ panels' = [panels EXCEPT !.diagnostics = Failure, !.output = Blank]
BY Zenon DEF Next, vars, Click, ShowFailure, EditSource, EditPath, ChooseExample, IgnoreEvent, KeepsWaiting,
       InitReply, ResultReply, ShowResult, FailureReply, FailWorker, TimerFires, AfterReset, InitModule,
       InvokeSource, WorkerFault, Aside

(* app.js showResult: the panels never hold the results of two requests,   *)
(* for any number of clicks, edits and faults.                             *)
THEOREM OneResultAtATime == Spec => []OneResultShown
<1> DEFINE Cases == {Blank, Failure}
           Agree == \A p, q \in {"output", "diagnostics", "ast"} :
                      panels[p] \in Cases \/ panels[q] \in Cases \/ panels[p] = panels[q]
           Fields == DOMAIN panels = {"output", "diagnostics", "ast"}
<1>1. Init => Fields /\ Agree
  BY DEF Init, Clear
<1>2. Fields /\ Agree /\ [Next]_vars => Fields' /\ Agree'
  <2> SUFFICES ASSUME Fields, Agree, [Next]_vars PROVE Fields' /\ Agree' OBVIOUS
  <2>1. CASE UNCHANGED panels BY <2>1
  <2>2. CASE panels' = Clear BY <2>2 DEF Clear
  <2>3. CASE \E r : panels' = [output |-> r, diagnostics |-> r, ast |-> r] BY <2>3
  <2>4. CASE panels' = [panels EXCEPT !.diagnostics = Failure, !.ast = Blank] BY <2>4
  <2>5. CASE panels' = [panels EXCEPT !.diagnostics = Failure, !.output = Blank] BY <2>5
  <2> QED BY <2>1, <2>2, <2>3, <2>4, <2>5, PanelsAfter
<1>3. ASSUME Fields, Agree PROVE OneResultShown
  <2> DEFINE Different == {panels[p] : p \in DOMAIN panels} \ Cases
  <2>1. CASE Different = {}
    BY <2>1, FS_EmptySet DEF OneResultShown
  <2>2. CASE Different # {}
    <3>1. PICK r : r \in Different BY <2>2
    <3>2. Different = {r} BY <1>3, <3>1
    <3>3. Cardinality(Different) = 1 BY <3>2, FS_Singleton
    <3> QED BY <3>3 DEF OneResultShown
  <2> QED BY <2>1, <2>2
<1> HIDE DEF Agree, Fields
<1>4. Spec => [](Fields /\ Agree) BY <1>1, <1>2, PTL DEF Spec
<1>5. Fields /\ Agree => OneResultShown BY <1>3
<1> QED BY <1>4, <1>5, PTL

(* app.js failWorker, onerror: the page gives up a worker for the worker's *)
(* own error, a timeout or another module path, and for no other event.    *)
THEOREM NoStrayResetHolds == Spec => NoStrayReset
<1> DEFINE Cause ==
      state'.worker # state.worker =>
        LET current == workers[state.worker]
        IN  \/ current.outbox # <<>> /\ Head(current.outbox).type = "error"
               /\ workers'[state.worker].outbox = Tail(current.outbox)
            \/ timers # {} /\ \A w \in DOMAIN workers : workers'[w].outbox = workers[w].outbox
            \/ handler'.busy /\ handler'.path # state.currentModulePath
<1>1. ASSUME PageInv, [Next]_vars PROVE Cause
  <2>1. WellFormed(Now) /\ workers \in Seq(Workers) /\ state.worker \in DOMAIN workers /\ state \in States
    BY <1>1 DEF PageInv, WellFormed, OneAlive, Pages, Now
  <2>2. ASSUME NEW page, Len(page.workers) \in Nat, page.workers \in Seq(Workers),
               page.state.worker \in DOMAIN page.workers
        PROVE  \A w \in DOMAIN page.workers : ResetWorker(page).workers[w].outbox = page.workers[w].outbox
    <3> DEFINE old == page.workers[page.state.worker]
               stopped == [page.workers EXCEPT ![page.state.worker] = [old EXCEPT !.alive = FALSE]]
    <3>1. /\ old \in Workers /\ [old EXCEPT !.alive = FALSE] \in Workers
          /\ [old EXCEPT !.alive = FALSE].outbox = old.outbox
      <4>1. old \in Workers BY <2>2
      <4> HIDE DEF old
      <4> QED BY <4>1 DEF Workers
    <3>2. ResetWorker(page).workers = Append(stopped, Worker) BY DEF ResetWorker
    <3> HIDE DEF old
    <3>3. stopped \in Seq(Workers) /\ Len(stopped) = Len(page.workers) /\ DOMAIN stopped = DOMAIN page.workers
          /\ \A w \in DOMAIN page.workers : stopped[w].outbox = page.workers[w].outbox
      BY <2>2, <3>1, Replaced DEF old
    <3> HIDE DEF stopped
    <3> QED BY <2>2, <3>2, <3>3, WorkerType
  <2>3. ASSUME NEW id \in timers, TimerFires(id) PROVE Cause
    <3> DEFINE fired == [Now EXCEPT !.timers = @ \ {id}]
    <3>1. workers' = ResetWorker(fired).workers /\ fired.workers = workers /\ fired.state = state
      BY <2>3 DEF TimerFires, Becomes, Now
    <3> HIDE DEF fired
    <3> QED BY <2>1, <2>2, <2>3, <3>1
  <2>4. ASSUME NEW w \in DOMAIN workers, FailWorker(w) PROVE Cause
    <3>1. /\ w = state.worker /\ workers[w].outbox # <<>> /\ Head(workers[w].outbox).type = "error"
          /\ workers' = ResetWorker(Taken(w)).workers
      BY <2>4 DEF FailWorker, Delivers, Becomes
    <3>2. /\ Taken(w).workers \in Seq(Workers) /\ DOMAIN Taken(w).workers = DOMAIN workers
          /\ Taken(w).state = state /\ Taken(w).workers[w].outbox = Tail(workers[w].outbox)
      <4> DEFINE old == workers[w]
                 new == [old EXCEPT !.outbox = Tail(@)]
      <4>1. old \in Workers /\ old.outbox # <<>> BY <2>1, <3>1
      <4>2. new \in Workers /\ new.outbox = Tail(old.outbox) BY <4>1 DEF Workers
      <4>3. Taken(w).workers = [workers EXCEPT ![w] = new] /\ Taken(w).state = state BY DEF Taken, Now
      <4> HIDE DEF new
      <4> QED BY <2>1, <4>2, <4>3, Replaced
    <3> HIDE DEF Taken
    <3> QED BY <2>1, <2>2, <3>1, <3>2
  <2>5. ASSUME NEW kind \in {"parse", "run"}, Click(kind) PROVE Cause
    <3>1. CASE wasmPath = NoPath BY <2>5, <3>1 DEF Click, Becomes, Now
    <3>2. CASE wasmPath # NoPath /\ state.currentModulePath = wasmPath
      <4>1. state' = CallWorker(Now, kind, source, wasmPath).state \/ state' = BeginInit(Now, wasmPath).state
        BY <2>5, <3>2 DEF Click, Becomes
      <4>2. CallWorker(Now, kind, source, wasmPath).state.worker = state.worker
        BY <2>1 DEF CallWorker, Send, Now, States
      <4>3. BeginInit(Now, wasmPath).state.worker = state.worker
        BY <2>1, <3>2 DEF BeginInit, CallWorker, Send, Now, States
      <4> QED BY <4>1, <4>2, <4>3
    <3>3. CASE wasmPath # NoPath /\ state.currentModulePath # wasmPath
      BY <2>5, <3>3 DEF Click, Busy
    <3> QED BY <3>1, <3>2, <3>3
  <2>6. CASE state'.worker = state.worker BY <2>6
  <2>7. ASSUME NEW w \in DOMAIN workers, IgnoreEvent(w) \/ InitReply(w) \/ ResultReply(w) \/ FailureReply(w)
        PROVE  state'.worker = state.worker
    <3> DEFINE page == Settle(Taken(w), Event(w).id)
    <3>1. /\ Taken(w).state = state /\ page.state.worker = state.worker
          /\ [page EXCEPT !.state.initializing = FALSE].state.worker = state.worker
      BY <2>1 DEF Taken, Settle, Now, States
    <3>2. CASE IgnoreEvent(w) BY <3>1, <3>2 DEF IgnoreEvent, Becomes
    <3>3. CASE ResultReply(w) BY <3>1, <3>3 DEF ResultReply, Becomes
    <3>4. CASE FailureReply(w) BY <3>1, <3>4 DEF FailureReply, Becomes
    <3>5. CASE InitReply(w)
      <4> DEFINE ready == [page EXCEPT !.state.initialized = TRUE, !.state.initializing = FALSE]
      <4>1. state' = CallWorker(ready, handler.kind, source, handler.path).state
        BY <3>5 DEF InitReply, Becomes
      <4>2. page \in Pages BY <1>1, <3>5, ReplySettles DEF InitReply, WellFormed
      <4> HIDE DEF page
      <4>3. ready \in Pages /\ ready.state.worker = state.worker
        BY <3>1, <4>2 DEF Pages, States
      <4> HIDE DEF ready
      <4>4. CallWorker(ready, handler.kind, source, handler.path).state.worker = ready.state.worker
        BY <4>3 DEF CallWorker, Send, Pages, States
      <4> QED BY <4>1, <4>3, <4>4
    <3> QED BY <2>7, <3>2, <3>3, <3>4, <3>5
  <2>8. ASSUME NEW w \in DOMAIN workers, InitModule(w) \/ InvokeSource(w) \/ WorkerFault(w)
        PROVE  state'.worker = state.worker
    BY <2>8 DEF InitModule, InvokeSource, WorkerFault, Aside
  <2>9. CASE EditSource \/ EditPath \/ ChooseExample \/ UNCHANGED vars
    BY <2>9 DEF EditSource, EditPath, ChooseExample, vars
  <2> HIDE DEF Cause
  <2> QED BY <1>1, <2>3, <2>4, <2>5, <2>6, <2>7, <2>8, <2>9 DEF Next
<1>2. PageInv /\ [Next]_vars => Cause BY <1>1
<1> HIDE DEF Cause
<1>3. Spec => [][Cause]_vars BY <1>2, AlwaysServes, PTL DEF Spec
<1> QED BY <1>3 DEF NoStrayReset, Cause
=============================================================================
