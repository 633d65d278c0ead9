------------------------ MODULE PlaygroundRefinement ------------------------
(***************************************************************************)
(* For any number of clicks and faults and any sources and module paths:   *)
(* the page with its workers is a PlaygroundService, step by step.  What   *)
(* the page shows as the answer to a request is the result of that request *)
(* and of no other.                                                        *)
(*                                                                         *)
(* The argument: an id is never used twice, so a message to the page's     *)
(* worker, or an event from it, whose id is pending belongs to the pending *)
(* request; the worker has loaded no other module than the one it was      *)
(* asked for; and a worker that is replaced is not listened to again.      *)
(***************************************************************************)
EXTENDS PlaygroundProof

(* A message to the page's worker, and an event from it.                   *)
Asks(msg, s) ==
  /\ msg.id <= s.reqId
  /\ msg.id \in DOMAIN s.pending =>
       msg.type = s.pending[msg.id].type /\ msg.source = s.pending[msg.id].source
Tells(event, s) ==
  /\ event.id <= s.reqId
  /\ event.type = "reply" /\ event.ok /\ event.id \in DOMAIN s.pending =>
       \/ s.pending[event.id].type = "init"
       \/ event.result = Result(s.pending[event.id].type, s.pending[event.id].source, s.currentModulePath)

Faithful(worker, s) ==
  /\ \A k \in DOMAIN worker.inbox : Asks(worker.inbox[k], s)
  /\ \A k \in DOMAIN worker.outbox : Tells(worker.outbox[k], s)
Current(page) == page.workers[page.state.worker]
Honest(page) == Faithful(Current(page), page.state)

(* What is pending serves the handler in progress.                         *)
Fits(entry, h) ==
  \/ entry.type = "init" /\ entry.source = NoSource
  \/ entry.type = h.kind /\ entry.source \in Sources
Handles(page, h) ==
  h.busy => /\ h.path = page.state.currentModulePath
            /\ \A id \in DOMAIN page.state.pending : Fits(page.state.pending[id], h)

RefInv == PageInv /\ Honest(Now) /\ Handles(Now, handler)

-----------------------------------------------------------------------------
(* A new worker has nothing to answer and has answered nothing.            *)
LEMMA WorkerFaithful == \A s : Faithful(Worker, s)
BY DEF Worker, Faithful

(* A page that is reset listens to a new worker.                           *)
LEMMA ResetHonest ==
  ASSUME NEW page \in Pages, OneAlive(page), page.timers \subseteq DOMAIN page.state.pending
  PROVE  Honest(ResetWorker(page))
<1>1. Current(ResetWorker(page)) = Worker BY ResetQuiet DEF Current
<1> QED BY <1>1, WorkerFaithful DEF Honest

(* Only the ids, the requests and the module path matter.                  *)
LEMMA SameRequests ==
  ASSUME NEW worker, NEW s, NEW t, Faithful(worker, s), t.reqId = s.reqId, t.pending = s.pending,
         t.currentModulePath = s.currentModulePath
  PROVE  Faithful(worker, t)
BY DEF Faithful, Asks, Tells

(* Once settled, a request is answered no more.                            *)
LEMMA SettleHonest ==
  ASSUME NEW page, WellFormed(page), Loads(page), Honest(page), NEW id
  PROVE  LET new == Settle(page, id)
         IN  /\ Honest(new) /\ new.state.reqId = page.state.reqId
             /\ new.state.currentModulePath = page.state.currentModulePath
<1> DEFINE new == Settle(page, id)
           s == page.state
           rest == [i \in DOMAIN s.pending \ {id} |-> s.pending[i]]
<1>1. /\ new.state.pending = rest /\ new.state.reqId = s.reqId /\ new.state.currentModulePath = s.currentModulePath
      /\ new.workers = page.workers /\ new.state.worker = s.worker
  BY DEF Settle, WellFormed, Pages, States
<1> HIDE DEF new
<1>2. ASSUME NEW m, Asks(m, s) PROVE Asks(m, new.state) BY <1>1, <1>2 DEF Asks
<1>3. ASSUME NEW e, Tells(e, s) PROVE Tells(e, new.state) BY <1>1, <1>3 DEF Tells
<1>4. Honest(new) BY <1>1, <1>2, <1>3 DEF Honest, Faithful, Current
<1> QED BY <1>1, <1>4 DEF new

(* A new request has a new id, which no event carries yet.                 *)
LEMMA CallHonest ==
  ASSUME NEW page, WellFormed(page), Honest(page), DOMAIN page.state.pending = {},
         NEW type, NEW src, NEW path
  PROVE  LET new == CallWorker(page, type, src, path)
         IN  /\ Honest(new) /\ new.state.currentModulePath = page.state.currentModulePath
             /\ DOMAIN new.state.pending = {page.state.reqId + 1}
             /\ new.state.pending[page.state.reqId + 1].type = type
             /\ new.state.pending[page.state.reqId + 1].source = src
<1> DEFINE s == page.state
           c == s.worker
           id == s.reqId + 1
           msg == Message(type, id, src, path)
           asked == [i \in {id} |-> [type |-> type, source |-> src]]
           pend == [i \in DOMAIN s.pending \cup {id} |->
                      IF i = id THEN [type |-> type, source |-> src] ELSE s.pending[i]]
           waiting == [page EXCEPT !.state.reqId = id, !.state.pending = pend, !.timers = @ \cup {id}]
           old == page.workers[c]
           given == [old EXCEPT !.inbox = Append(@, msg)]
           new == CallWorker(page, type, src, path)
<1>1. s.reqId \in Nat /\ c \in DOMAIN page.workers /\ page.workers \in Seq(Workers)
  BY DEF WellFormed, Pages, States, OneAlive
<1>2. old \in Workers BY <1>1
<1>3. pend = asked OBVIOUS
<1>4. new = Send(waiting, msg) BY DEF CallWorker
<1>5. /\ waiting.state.pending = asked /\ waiting.state.reqId = id /\ waiting.state.worker = c
      /\ waiting.state.currentModulePath = s.currentModulePath /\ waiting.workers = page.workers
      /\ DOMAIN waiting = {"state", "timers", "workers"}
  <2>1. page \in [state : States, timers : SUBSET Nat, workers : Seq(Workers)]
        /\ DOMAIN page = {"state", "timers", "workers"}
    BY DEF WellFormed, Pages
  <2>2. DOMAIN s = {"worker", "initialized", "initializing", "currentModulePath", "reqId", "pending"}
    BY <2>1 DEF States
  <2> HIDE DEF pend, asked, id
  <2> QED BY <1>3, <2>1, <2>2
<1>6. /\ msg.id = id /\ msg.type = type /\ msg.source = src BY DEF Message
<1> HIDE DEF waiting, msg, pend, new
<1>7. /\ new.state = waiting.state /\ new.workers = [page.workers EXCEPT ![c] = given]
  BY <1>4, <1>5 DEF Send
<1>8. /\ given.outbox = old.outbox /\ given.inbox = Append(old.inbox, msg) /\ old.inbox \in Seq(Messages)
  BY <1>2 DEF Workers
<1>9. Current(new) = given
  BY <1>1, <1>5, <1>7 DEF Current
<1>10. \A k \in DOMAIN given.inbox : given.inbox[k] = msg \/ \E j \in DOMAIN old.inbox : given.inbox[k] = old.inbox[j]
  <2> HIDE DEF old, given
  <2>1. \A k \in DOMAIN Append(old.inbox, msg) :
          \/ Append(old.inbox, msg)[k] = msg
          \/ k \in DOMAIN old.inbox /\ Append(old.inbox, msg)[k] = old.inbox[k]
    BY <1>8
  <2> QED BY <1>8, <2>1
<1> HIDE DEF given, old
<1>11. Faithful(old, s) BY DEF Honest, Current, old
<1>12. ASSUME NEW m, Asks(m, s), m.id \in Nat PROVE Asks(m, new.state)
  BY <1>1, <1>5, <1>7, <1>12 DEF Asks
<1>13. ASSUME NEW e, Tells(e, s), e.id \in Nat PROVE Tells(e, new.state)
  BY <1>1, <1>5, <1>7, <1>13 DEF Tells
<1>14. Asks(msg, new.state)
  BY <1>1, <1>5, <1>6, <1>7 DEF Asks
<1>15. /\ \A k \in DOMAIN old.inbox : old.inbox[k].id \in Nat
       /\ \A k \in DOMAIN old.outbox : old.outbox[k].id \in Nat
  <2>1. old.inbox \in Seq(Messages) /\ old.outbox \in Seq(Events) BY <1>2 DEF Workers
  <2>2. (\A k \in DOMAIN old.inbox : old.inbox[k] \in Messages) /\ (\A k \in DOMAIN old.outbox : old.outbox[k] \in Events)
    BY <2>1
  <2> QED BY <2>2 DEF Messages, Events
<1>16. Honest(new)
  BY <1>8, <1>9, <1>10, <1>11, <1>12, <1>13, <1>14, <1>15 DEF Honest, Faithful
<1> QED BY <1>5, <1>7, <1>16 DEF new

(* The page without the event it took.                                     *)
LEMMA TakenHonest ==
  ASSUME PageInv, Honest(Now), NEW w \in DOMAIN workers, workers[w].outbox # <<>>
  PROVE  /\ Honest(Taken(w))
         /\ w = state.worker => Tells(Event(w), state)
<1> DEFINE old == workers[w]
           given == [old EXCEPT !.outbox = Tail(@)]
<1>1. WellFormed(Now) /\ workers \in Seq(Workers) /\ old \in Workers /\ state.worker \in DOMAIN workers
  BY DEF PageInv, WellFormed, OneAlive, Pages, Now
<1>2. old.outbox \in Seq(Events) /\ old.outbox # <<>> BY <1>1 DEF Workers
<1>3. Taken(w).workers = [workers EXCEPT ![w] = given] /\ Taken(w).state = state BY DEF Taken, Now
<1>4. given.inbox = old.inbox /\ given.outbox = Tail(old.outbox) BY <1>1 DEF Workers
<1>5. Event(w) = old.outbox[1] /\ 1 \in DOMAIN old.outbox
  BY <1>2 DEF Event
<1> HIDE DEF old
<1>6. \A k \in DOMAIN Tail(old.outbox) : k + 1 \in DOMAIN old.outbox /\ Tail(old.outbox)[k] = old.outbox[k + 1]
  BY <1>2
<1> HIDE DEF given
<1>7. Honest(Taken(w))
  <2>1. CASE w = state.worker
    <3>1. Faithful(old, state) BY <2>1 DEF Honest, Current, Now, old
    <3>2. Faithful(given, state) BY <1>4, <1>6, <3>1 DEF Faithful
    <3>3. Current(Taken(w)) = given BY <1>1, <1>3, <2>1 DEF Current
    <3> QED BY <1>3, <3>2, <3>3 DEF Honest
  <2>2. CASE w # state.worker
    <3>1. Current(Taken(w)) = Current(Now) BY <1>1, <1>3, <2>2 DEF Current, Now
    <3> QED BY <1>3, <3>1 DEF Honest, Now
  <2> QED BY <2>1, <2>2
<1> QED BY <1>5, <1>7 DEF Honest, Faithful, Current, Now, old

-----------------------------------------------------------------------------
(* The request of the service, as the page holds it.                       *)
Req == IF handler.busy
       THEN [busy |-> TRUE, kind |-> handler.kind, path |-> handler.path, sent |-> Sent]
       ELSE [busy |-> FALSE, kind |-> "none", path |-> "none", sent |-> NoSource]

Step == [Service!ServiceNext]_(Service!serviceVars)

(* The steps of the service, over the state of the page.                   *)
LEMMA Stutters == ASSUME UNCHANGED <<source, Req, panels>> PROVE Step
BY DEF Step, Service!serviceVars, Req

(* The user edits.                                                        *)
LEMMA EditsStep ==
  ASSUME source' \in Sources, UNCHANGED Req, panels'.diagnostics \in {panels.diagnostics, Blank}
  PROVE  Step
<1>1. Service!Edits BY DEF Service!Edits, Service!Blank, Service!Result, Blank, Result, Req
<1> QED BY <1>1 DEF Step, Service!ServiceNext

(* A click begins a request.                                              *)
LEMMA ClicksStep ==
  ASSUME ~handler.busy, UNCHANGED <<source, panels>>, NEW kind \in {"parse", "run"}, NEW path \in Paths,
         handler' = Busy(kind, path), Sent' \in {NoSource, source}
  PROVE  Step
<1>1. Req' = [busy |-> TRUE, kind |-> kind, path |-> path, sent |-> Sent'] BY DEF Req, Busy
<1>2. ~Req.busy BY DEF Req
<1>3. Service!Clicks
  BY <1>1, <1>2 DEF Service!Clicks, Service!Requests, Service!Request, Service!NotSent, Req
<1> QED BY <1>3 DEF Step, Service!ServiceNext

(* A click on an empty module path is refused.                             *)
LEMMA RefusesStep ==
  ASSUME ~handler.busy, UNCHANGED <<source, Req>>, panels'.diagnostics = Failure
  PROVE  Step
<1>1. Service!Refuses
  BY DEF Service!Refuses, Service!Failure, Service!Result, Failure, Result, Req
<1> QED BY <1>1 DEF Step, Service!ServiceNext

(* The source of the editor is sent.                                       *)
LEMMA SendsStep ==
  ASSUME handler.busy, Sent = NoSource, Sent' = source, UNCHANGED <<source, panels, handler>>
  PROVE  Step
<1>0. /\ Req = [busy |-> TRUE, kind |-> handler.kind, path |-> handler.path, sent |-> NoSource]
      /\ Req' = [busy |-> TRUE, kind |-> handler.kind, path |-> handler.path, sent |-> source]
  BY DEF Req
<1>a. ASSUME NEW b, NEW r, NEW t,
             r = [busy |-> b, kind |-> handler.kind, path |-> handler.path, sent |-> NoSource],
             t = [busy |-> b, kind |-> handler.kind, path |-> handler.path, sent |-> source]
      PROVE  t = [r EXCEPT !.sent = source]
  BY <1>a
<1>b. Req' = [Req EXCEPT !.sent = source]
  BY <1>0, <1>a, Zenon
<1>1. Req.busy /\ Req.sent = NoSource /\ Req' = [Req EXCEPT !.sent = source]
  BY <1>0, <1>b, Zenon
<1>2. Service!Sends
  BY <1>1 DEF Service!Sends, Service!NotSent, Req
<1> QED BY <1>2 DEF Step, Service!ServiceNext

(* The result of what was sent is shown.                                  *)
LEMMA AnswersStep ==
  ASSUME handler.busy, Sent # NoSource, handler' = Ready, UNCHANGED source,
         panels'.diagnostics = Result(handler.kind, Sent, handler.path)
  PROVE  Step
<1>1. Service!Answers
  BY DEF Service!Answers, Service!NotSent, Service!Result, Service!Idle, Result, Ready
<1> QED BY <1>1 DEF Step, Service!ServiceNext

(* The request fails, and the page says so.                               *)
LEMMA FailsStep ==
  ASSUME handler.busy, handler' = Ready, UNCHANGED source, panels'.diagnostics = Failure
  PROVE  Step
<1>1. Service!Fails
  BY DEF Service!Fails, Service!NotSent, Service!Idle, Service!Failure, Service!Result, Failure, Result, Ready
<1> QED BY <1>1 DEF Step, Service!ServiceNext

-----------------------------------------------------------------------------
(* What is sent, when one request is pending.                              *)
LEMMA SentIs ==
  ASSUME NEW id, DOMAIN state.pending = {id}
  PROVE  Sent = state.pending[id].source
<1>1. {state.pending[i].source : i \in DOMAIN state.pending} = {state.pending[id].source} OBVIOUS
<1> QED BY <1>1 DEF Sent

(* The same of the next state.                                             *)
LEMMA SentBecomes ==
  ASSUME NEW id, DOMAIN state'.pending = {id}
  PROVE  Sent' = state'.pending[id].source
<1>1. {state'.pending[i].source : i \in DOMAIN state'.pending} = {state'.pending[id].source} OBVIOUS
<1> QED BY <1>1 DEF Sent

(* A task that changes neither the requests nor what is shown.             *)
LEMMA Beside ==
  ASSUME state'.pending = state.pending, UNCHANGED <<source, handler, panels>>
  PROVE  Step
<1>1. UNCHANGED Req BY DEF Req, Sent
<1> QED BY <1>1, Stutters

(* The request under way, when there is one.                               *)
LEMMA Pending ==
  ASSUME RefInv, handler.busy
  PROVE  /\ \E id \in Nat : /\ DOMAIN state.pending = {id} /\ Sent = state.pending[id].source
                           /\ Fits(state.pending[id], handler)
         /\ handler.path = state.currentModulePath
         /\ handler.kind \in {"parse", "run"} /\ handler.path \in Paths
<1>1. PICK id \in Nat : Awaits(Now, id) BY DEF RefInv, PageInv, Serves
<1>2. DOMAIN state.pending = {id} BY <1>1 DEF Awaits, Now
<1>3. Sent = state.pending[id].source BY <1>2, SentIs
<1>4. Fits(state.pending[id], handler) /\ handler.path = state.currentModulePath
  BY <1>2 DEF RefInv, Handles, Now
<1> QED BY <1>2, <1>3, <1>4 DEF RefInv, PageInv, Serves

(* A click starts the request it shows, with the source of the editor.     *)
LEMMA ClickRefines ==
  ASSUME RefInv, NEW kind \in {"parse", "run"}, Click(kind)
  PROVE  (Honest(Now) /\ Handles(Now, handler))' /\ Step
<1>1. /\ ~handler.busy /\ WellFormed(Now) /\ Loads(Now) /\ Quiet(Now) /\ Typed /\ Honest(Now)
      /\ UNCHANGED source
  BY DEF Click, RefInv, PageInv, Serves, Inputs
<1>2. CASE wasmPath = NoPath
  <2>1. Becomes(Now) /\ ShowFailure(kind) BY <1>2 DEF Click
  <2>2. Now' = Now /\ state' = state BY <1>1, <2>1, NowAfter DEF WellFormed, Becomes, Now
  <2>3. ~handler'.busy BY <2>1 DEF ShowFailure, Ready
  <2>4. UNCHANGED Req BY <1>1, <2>3 DEF Req
  <2>5. panels'.diagnostics = Failure
    BY <2>1 DEF ShowFailure, RefInv, PageInv, Shown
  <2> QED BY <1>1, <2>2, <2>3, <2>4, <2>5, RefusesStep DEF Handles, Honest
<1>3. CASE wasmPath # NoPath
  <2>1. /\ handler' = Busy(kind, wasmPath) /\ UNCHANGED panels /\ wasmPath \in Paths /\ source \in Sources
    BY <1>1, <1>3 DEF Click, Typed
  <2>2. handler'.busy /\ handler'.kind = kind /\ handler'.path = wasmPath BY <2>1 DEF Busy
  <2>3. ASSUME NEW page \in Pages, Becomes(page), Honest(page), page.state.currentModulePath = wasmPath,
               NEW id, DOMAIN page.state.pending = {id}, NEW e, page.state.pending[id] = e,
               \/ e.type = "init" /\ e.source = NoSource
               \/ e.type = kind /\ e.source = source
        PROVE  (Honest(Now) /\ Handles(Now, handler))' /\ Step
    <3>1. Now' = page /\ state' = page.state BY <2>3, NowAfter DEF Becomes
    <3>2. Fits(e, handler') BY <2>1, <2>2, <2>3 DEF Fits
    <3>3. (Honest(Now) /\ Handles(Now, handler))'
      BY <2>2, <2>3, <3>1, <3>2 DEF Handles, Honest
    <3>4. Sent' = e.source BY <2>3, <3>1, SentBecomes
    <3>5. Sent' \in {NoSource, source} BY <2>3, <3>4
    <3> QED BY <1>1, <2>1, <3>3, <3>5, ClicksStep
  <2>4. CASE state.initialized /\ state.currentModulePath = wasmPath
    <3> DEFINE new == CallWorker(Now, kind, source, wasmPath)
               id == state.reqId + 1
    <3>1. Becomes(new) BY <1>3, <2>4 DEF Click
    <3>2. DOMAIN Now.state.pending = {} /\ ~Now.state.initializing /\ Now.state = state
      BY <1>1 DEF Quiet, Now
    <3>3. new \in Pages BY <1>1, <2>1, <3>2, CallAwaits DEF WellFormed
    <3>4. /\ Honest(new) /\ new.state.currentModulePath = wasmPath
          /\ DOMAIN new.state.pending = {id}
          /\ new.state.pending[id].type = kind /\ new.state.pending[id].source = source
      BY <1>1, <2>4, <3>2, CallHonest
    <3> HIDE DEF new, id
    <3> QED BY <2>3, <3>1, <3>3, <3>4
  <2>5. CASE ~(state.initialized /\ state.currentModulePath = wasmPath)
    <3> DEFINE fresh == IF state.currentModulePath # wasmPath THEN ResetWorker(Now) ELSE Now
               asked == [fresh EXCEPT !.state.currentModulePath = wasmPath, !.state.initializing = TRUE]
               new == CallWorker(asked, "init", NoSource, wasmPath)
               id == asked.state.reqId + 1
    <3>1. Becomes(BeginInit(Now, wasmPath)) /\ BeginInit(Now, wasmPath) = new
      BY <1>3, <2>5 DEF Click, BeginInit, Now
    <3>2. WellFormed(BeginInit(Now, wasmPath)) BY <1>1, <2>1, BeginInitAwaits
    <3>3. WellFormed(fresh) /\ Honest(fresh) /\ DOMAIN fresh.state.pending = {}
      <4>1. WellFormed(ResetWorker(Now)) /\ Quiet(ResetWorker(Now)) /\ Honest(ResetWorker(Now))
        BY <1>1, ResetQuiet, ResetHonest DEF WellFormed
      <4> QED BY <1>1, <4>1 DEF Quiet
    <3> HIDE DEF fresh
    <3>4. /\ asked \in Pages /\ asked.state.pending = fresh.state.pending /\ asked.timers = fresh.timers
          /\ asked.state.reqId = fresh.state.reqId /\ asked.workers = fresh.workers
          /\ asked.state.worker = fresh.state.worker /\ asked.state.currentModulePath = wasmPath
      BY <2>1, <3>3 DEF WellFormed, Pages, States
    <3> HIDE DEF asked
    <3>5. WellFormed(asked) BY <3>3, <3>4 DEF WellFormed, OneAlive
    <3>6. Honest(asked)
      <4>1. ASSUME NEW m, Asks(m, fresh.state) PROVE Asks(m, asked.state) BY <3>4, <4>1 DEF Asks
      <4>2. ASSUME NEW e, Tells(e, fresh.state) PROVE Tells(e, asked.state)
        BY <3>3, <3>4, <4>2 DEF Tells
      <4> QED BY <3>3, <3>4, <4>1, <4>2 DEF Honest, Faithful, Current
    <3>a. DOMAIN asked.state.pending = {} BY <3>3, <3>4
    <3>7. /\ Honest(new) /\ new.state.currentModulePath = asked.state.currentModulePath
          /\ DOMAIN new.state.pending = {id}
          /\ new.state.pending[id].type = "init" /\ new.state.pending[id].source = NoSource
      BY <3>5, <3>6, <3>a, CallHonest
    <3> HIDE DEF new, id
    <3>9. new \in Pages BY <3>1, <3>2 DEF WellFormed
    <3> QED BY <2>3, <3>1, <3>4, <3>7, <3>9
  <2> QED BY <2>4, <2>5
<1> QED BY <1>2, <1>3

-----------------------------------------------------------------------------
(* The reply the page waits for: settled, the page is honest and has no    *)
(* request.                                                                *)
LEMMA ReplyFacts ==
  ASSUME RefInv, NEW w, TakesReply(w)
  PROVE  LET settled == Settle(Taken(w), Event(w).id)
         IN  /\ WellFormed(settled) /\ Loads(settled) /\ Honest(settled) /\ DOMAIN settled.state.pending = {}
             /\ settled.state.currentModulePath = state.currentModulePath
             /\ settled.workers[settled.state.worker].module = settled.state.currentModulePath \/ ~Event(w).ok
             /\ Tells(Event(w), state) /\ Event(w).type = "reply"
             /\ handler.busy
             /\ DOMAIN state.pending = {Event(w).id}
             /\ Sent = state.pending[Event(w).id].source
             /\ Fits(state.pending[Event(w).id], handler)
<1> DEFINE settled == Settle(Taken(w), Event(w).id)
<1>1. /\ w \in DOMAIN workers /\ workers[w].outbox # <<>> /\ Event(w).type = "reply"
      /\ w = state.worker /\ Event(w).id \in DOMAIN state.pending /\ PageInv /\ Honest(Now)
  BY DEF TakesReply, Delivers, Event, RefInv
<1>2. WellFormed(Taken(w)) /\ Loads(Taken(w)) /\ Taken(w).state = state BY <1>1, TakenKeeps
<1>3. Honest(Taken(w)) /\ Tells(Event(w), state) BY <1>1, TakenHonest
<1>4. Honest(settled) /\ settled.state.currentModulePath = state.currentModulePath
  BY <1>2, <1>3, SettleHonest
<1>5. /\ handler.busy /\ WellFormed(settled) /\ Loads(settled) /\ DOMAIN settled.state.pending = {}
      /\ settled.workers[settled.state.worker].module = settled.state.currentModulePath \/ ~Event(w).ok
  BY <1>1, ReplySettles
<1>6. PICK id \in Nat : /\ DOMAIN state.pending = {id} /\ Sent = state.pending[id].source
                       /\ Fits(state.pending[id], handler)
  BY <1>5, Pending
<1>7. id = Event(w).id BY <1>1, <1>6
<1> HIDE DEF settled
<1> QED BY <1>1, <1>3, <1>4, <1>5, <1>6, <1>7 DEF settled

(* The module is loaded: the source of the editor is sent.                 *)
LEMMA InitReplyRefines ==
  ASSUME RefInv, NEW w, InitReply(w)
  PROVE  (Honest(Now) /\ Handles(Now, handler))' /\ Step
<1> DEFINE settled == Settle(Taken(w), Event(w).id)
           loaded == [settled EXCEPT !.state.initialized = TRUE, !.state.initializing = FALSE]
           new == CallWorker(loaded, handler.kind, source, handler.path)
           id == loaded.state.reqId + 1
<1>1. /\ handler.busy /\ WellFormed(settled) /\ Loads(settled) /\ Honest(settled)
      /\ DOMAIN settled.state.pending = {} /\ settled.state.currentModulePath = state.currentModulePath
      /\ settled.workers[settled.state.worker].module = settled.state.currentModulePath
      /\ Sent = state.pending[Event(w).id].source /\ Fits(state.pending[Event(w).id], handler)
  BY ReplyFacts DEF InitReply
<1>2. /\ Becomes(new) /\ UNCHANGED <<handler, panels, source>> /\ source \in Sources
      /\ state.pending[Event(w).id].type = "init"
  BY DEF InitReply, KeepsWaiting, Inputs, RefInv, PageInv, Typed
<1>3. /\ handler.path = state.currentModulePath /\ handler.kind \in {"parse", "run"} /\ handler.path \in Paths
  BY <1>1, Pending
<1>4. Sent = NoSource BY <1>1, <1>2, <1>3 DEF Fits
<1> HIDE DEF settled
<1>5. /\ loaded \in Pages /\ loaded.state.pending = settled.state.pending
      /\ loaded.timers = settled.timers /\ loaded.workers = settled.workers
      /\ loaded.state.reqId = settled.state.reqId /\ loaded.state.worker = settled.state.worker
      /\ loaded.state.initializing = FALSE
      /\ loaded.state.currentModulePath = settled.state.currentModulePath
  BY <1>1 DEF WellFormed, Pages, States
<1> HIDE DEF loaded
<1>6. WellFormed(loaded) /\ Loads(loaded) /\ DOMAIN loaded.state.pending = {}
  BY <1>1, <1>5 DEF WellFormed, OneAlive, Loads
<1>7. Honest(loaded)
  BY <1>1, <1>5, SameRequests DEF Honest, Current
<1>8. new \in Pages BY <1>2, <1>3, <1>5, <1>6, CallAwaits DEF WellFormed
<1>9. /\ Honest(new) /\ new.state.currentModulePath = loaded.state.currentModulePath
      /\ DOMAIN new.state.pending = {id}
      /\ new.state.pending[id].type = handler.kind /\ new.state.pending[id].source = source
  BY <1>6, <1>7, CallHonest
<1> HIDE DEF new, id
<1>10. Now' = new /\ state' = new.state BY <1>2, <1>8, NowAfter DEF Becomes
<1>11. Sent' = source BY <1>9, <1>10, SentBecomes
<1>12. Step BY <1>1, <1>2, <1>4, <1>11, SendsStep
<1>13. (Honest(Now) /\ Handles(Now, handler))'
  BY <1>1, <1>2, <1>3, <1>5, <1>9, <1>10 DEF Handles, Fits, Honest
<1> QED BY <1>12, <1>13

(* The result that is shown is that of the request.                        *)
LEMMA ResultReplyRefines ==
  ASSUME RefInv, NEW w, ResultReply(w)
  PROVE  (Honest(Now) /\ Handles(Now, handler))' /\ Step
<1> DEFINE settled == Settle(Taken(w), Event(w).id)
           entry == state.pending[Event(w).id]
<1>1. /\ handler.busy /\ WellFormed(settled) /\ Honest(settled)
      /\ Tells(Event(w), state) /\ Event(w).type = "reply" /\ Event(w).id \in DOMAIN state.pending
      /\ Sent = entry.source /\ Fits(entry, handler)
  BY ReplyFacts DEF ResultReply
<1>2. /\ Becomes(settled) /\ handler' = Ready /\ UNCHANGED source
      /\ panels'.diagnostics = Event(w).result /\ Event(w).ok /\ entry.type # "init"
  BY DEF ResultReply, ShowResult, Inputs
<1>3. handler.path = state.currentModulePath BY <1>1, Pending
<1>4. Event(w).result = Result(entry.type, entry.source, state.currentModulePath)
  BY <1>1, <1>2 DEF Tells
<1> HIDE DEF settled, entry
<1>5. entry.type = handler.kind /\ entry.source # NoSource
  BY <1>1, <1>2, PlaygroundAssumption DEF Fits
<1>6. panels'.diagnostics = Result(handler.kind, Sent, handler.path)
  BY <1>1, <1>2, <1>3, <1>4, <1>5
<1>7. Step BY <1>1, <1>2, <1>5, <1>6, AnswersStep
<1>8. Now' = settled BY <1>1, <1>2, NowAfter DEF WellFormed
<1>9. (Honest(Now) /\ Handles(Now, handler))'
  BY <1>1, <1>2, <1>8 DEF Handles, Honest, Ready
<1> QED BY <1>7, <1>9

(* A failed request ends, and the page says so.                            *)
LEMMA FailureReplyRefines ==
  ASSUME RefInv, NEW w, FailureReply(w)
  PROVE  (Honest(Now) /\ Handles(Now, handler))' /\ Step
<1> DEFINE settled == Settle(Taken(w), Event(w).id)
           given == [settled EXCEPT !.state.initializing = FALSE]
<1>1. handler.busy /\ WellFormed(settled) /\ Honest(settled)
  BY ReplyFacts DEF FailureReply
<1>2. Becomes(given) /\ ShowFailure(handler.kind) /\ UNCHANGED source /\ Shown
  BY DEF FailureReply, Inputs, RefInv, PageInv
<1> HIDE DEF settled
<1>3. /\ given \in Pages /\ given.state.pending = settled.state.pending
      /\ given.workers = settled.workers
      /\ given.state.reqId = settled.state.reqId /\ given.state.worker = settled.state.worker
      /\ given.state.currentModulePath = settled.state.currentModulePath
  BY <1>1 DEF WellFormed, Pages, States
<1> HIDE DEF given
<1>4. Honest(given) BY <1>1, <1>3, SameRequests DEF Honest, Current
<1>5. Now' = given BY <1>2, <1>3, NowAfter
<1>6. handler' = Ready /\ panels'.diagnostics = Failure BY <1>2 DEF ShowFailure, Shown
<1>7. Step BY <1>1, <1>2, <1>6, FailsStep
<1>8. (Honest(Now) /\ Handles(Now, handler))'
  BY <1>4, <1>5, <1>6 DEF Handles, Honest, Ready
<1> QED BY <1>7, <1>8

(* A reset fails the request under way, if there is one.                   *)
LEMMA ResetRefines ==
  ASSUME RefInv, NEW page \in Pages, OneAlive(page), page.timers \subseteq DOMAIN page.state.pending,
         Becomes(ResetWorker(page)), AfterReset, UNCHANGED Inputs
  PROVE  (Honest(Now) /\ Handles(Now, handler))' /\ Step
<1> DEFINE new == ResetWorker(page)
<1>1. WellFormed(new) /\ Quiet(new) /\ Honest(new) BY ResetQuiet, ResetHonest
<1> HIDE DEF new
<1>2. Now' = new BY <1>1, NowAfter DEF WellFormed, new
<1>3. Shown /\ UNCHANGED source BY DEF RefInv, PageInv, Inputs
<1>4. CASE handler.busy
  <2>1. DOMAIN state.pending # {} BY <1>4, Pending
  <2>2. ShowFailure(handler.kind) BY <2>1 DEF AfterReset
  <2>3. handler' = Ready /\ panels'.diagnostics = Failure BY <1>3, <2>2 DEF ShowFailure, Shown
  <2>4. Step BY <1>3, <1>4, <2>3, FailsStep
  <2> QED BY <1>1, <1>2, <2>3, <2>4 DEF Handles, Honest, Ready
<1>5. CASE ~handler.busy
  <2>1. DOMAIN state.pending = {} BY <1>5 DEF RefInv, PageInv, Serves, Quiet, Now
  <2>2. UNCHANGED <<handler, panels>> BY <2>1 DEF AfterReset, KeepsWaiting
  <2>3. UNCHANGED Req BY <1>5, <2>2 DEF Req
  <2>4. Step BY <1>3, <2>2, <2>3, Stutters
  <2> QED BY <1>1, <1>2, <1>5, <2>2, <2>4 DEF Handles, Honest
<1> QED BY <1>4, <1>5

-----------------------------------------------------------------------------
(* Taking an event that nobody waits for.                                  *)
LEMMA IgnoreRefines ==
  ASSUME RefInv, NEW w \in DOMAIN workers, IgnoreEvent(w)
  PROVE  (Honest(Now) /\ Handles(Now, handler))' /\ Step
<1>1. /\ workers[w].outbox # <<>> /\ Becomes(Taken(w)) /\ UNCHANGED <<source, handler, panels>>
      /\ PageInv /\ Honest(Now)
  BY DEF IgnoreEvent, KeepsWaiting, Inputs, RefInv
<1>2. WellFormed(Taken(w)) /\ Taken(w).state = state BY <1>1, TakenKeeps
<1>3. Now' = Taken(w) /\ state' = state BY <1>1, <1>2, NowAfter DEF WellFormed, Becomes
<1>4. Honest(Taken(w)) BY <1>1, TakenHonest
<1>5. Step BY <1>1, <1>3, Beside
<1>6. Handles(Now, handler)' BY <1>1, <1>2, <1>3 DEF RefInv, Handles, Now
<1> QED BY <1>3, <1>4, <1>5, <1>6 DEF Honest

(* A task of a worker is not seen by the user.                             *)
LEMMA AsideRefines ==
  ASSUME RefInv, NEW w \in DOMAIN workers, NEW new, Aside, workers' = [workers EXCEPT ![w] = new],
         w = state.worker /\ Faithful(workers[w], state) => Faithful(new, state)
  PROVE  (Honest(Now) /\ Handles(Now, handler))' /\ Step
<1>1. workers \in Seq(Workers) /\ state.worker \in DOMAIN workers
  BY DEF RefInv, PageInv, WellFormed, OneAlive, Pages, Now
<1>2. UNCHANGED <<state, source, handler, panels>> BY DEF Aside
<1>3. Step BY <1>2, Beside
<1>4. Handles(Now, handler)' BY <1>2 DEF RefInv, Handles, Now
<1>5. Honest(Now)'
  <2>1. Faithful(workers[state.worker], state) BY DEF RefInv, Honest, Current, Now
  <2>2. Faithful(workers'[state.worker], state) BY <1>1, <2>1
  <2> QED BY <1>2, <2>2 DEF Honest, Current, Now
<1> QED BY <1>3, <1>4, <1>5

(* The worker's oldest message is answered.                                *)
LEMMA AnsweredRefines ==
  ASSUME RefInv, NEW w, Working(w), Aside, NEW event, NEW module,
         workers' = [workers EXCEPT ![w] = [workers[w] EXCEPT !.inbox = Tail(@),
                                              !.outbox = Append(@, event), !.module = module]],
         event \in Events,
         w = state.worker /\ Asks(Job(w), state) => Tells(event, state)
  PROVE  (Honest(Now) /\ Handles(Now, handler))' /\ Step
<1> DEFINE old == workers[w]
           new == [old EXCEPT !.inbox = Tail(@), !.outbox = Append(@, event), !.module = module]
<1>1. w \in DOMAIN workers /\ old \in Workers /\ old.inbox # <<>>
  BY JobFacts DEF RefInv
<1>2. old.inbox \in Seq(Messages) /\ old.outbox \in Seq(Events) BY <1>1 DEF Workers
<1>3. new.inbox = Tail(old.inbox) /\ new.outbox = Append(old.outbox, event) BY <1>1 DEF Workers
<1>4. Job(w) = Head(old.inbox) BY DEF Job
<1>5. workers' = [workers EXCEPT ![w] = new] OBVIOUS
<1> HIDE DEF old, new
<1>6. /\ Job(w) = old.inbox[1] /\ 1 \in DOMAIN old.inbox
      /\ \A k \in DOMAIN Tail(old.inbox) : k + 1 \in DOMAIN old.inbox /\ Tail(old.inbox)[k] = old.inbox[k + 1]
  BY <1>1, <1>2, <1>4
<1>7. \A k \in DOMAIN Append(old.outbox, event) :
        \/ Append(old.outbox, event)[k] = event
        \/ k \in DOMAIN old.outbox /\ Append(old.outbox, event)[k] = old.outbox[k]
  BY <1>2
<1>8. ASSUME w = state.worker, Faithful(old, state) PROVE Faithful(new, state)
  <2>1. Asks(Job(w), state) BY <1>6, <1>8 DEF Faithful
  <2>2. Tells(event, state) BY <1>8, <2>1
  <2> QED BY <1>3, <1>6, <1>7, <1>8, <2>2 DEF Faithful
<1> QED BY <1>1, <1>5, <1>8, AsideRefines DEF old

(* The worker loads its module, or tells why it cannot.                   *)
LEMMA InitModuleRefines ==
  ASSUME RefInv, NEW w, InitModule(w)
  PROVE  (Honest(Now) /\ Handles(Now, handler))' /\ Step
<1> DEFINE no == Reply(Job(w).id, FALSE, Blank)
           yes == Reply(Job(w).id, TRUE, Blank)
<1>1. /\ Working(w) /\ Job(w).type = "init" /\ Aside /\ workers[w] \in Workers /\ Job(w) \in Messages
      /\ no \in Events /\ ~no.ok /\ yes \in Events /\ no.id = Job(w).id /\ yes.id = Job(w).id
  BY JobFacts, ResultKinds DEF RefInv, InitModule, Reply, Events, Messages
<1> HIDE DEF no, yes
<1>2. ASSUME Asks(Job(w), state) PROVE Tells(no, state) /\ Tells(yes, state)
  BY <1>1, <1>2 DEF Asks, Tells
<1>3. CASE workers' = Answered(w, no)
  <2>1. workers' = [workers EXCEPT ![w] = [workers[w] EXCEPT !.inbox = Tail(@),
                      !.outbox = Append(@, no), !.module = workers[w].module]]
    BY <1>1, <1>3 DEF Answered, Workers
  <2> QED BY <1>1, <1>2, <2>1, AnsweredRefines
<1>4. CASE workers' = [Answered(w, yes) EXCEPT ![w].module = Job(w).path]
  <2>1. workers' = [workers EXCEPT ![w] = [workers[w] EXCEPT !.inbox = Tail(@),
                      !.outbox = Append(@, yes), !.module = Job(w).path]]
    BY <1>1, <1>4 DEF Answered, Workers
  <2> QED BY <1>1, <1>2, <2>1, AnsweredRefines
<1> QED BY <1>3, <1>4 DEF InitModule, no, yes

(* The result of a request is that of its source, by the page's module.    *)
LEMMA InvokeSourceRefines ==
  ASSUME RefInv, NEW w, InvokeSource(w)
  PROVE  (Honest(Now) /\ Handles(Now, handler))' /\ Step
<1> DEFINE no == Reply(Job(w).id, FALSE, Blank)
           result == Result(Job(w).type, Job(w).source, workers[w].module)
           yes == Reply(Job(w).id, TRUE, result)
<1>1. /\ Working(w) /\ Job(w).type # "init" /\ Aside /\ workers[w] \in Workers /\ Job(w) \in Messages
  BY JobFacts DEF RefInv, InvokeSource
<1>2. /\ no \in Events /\ ~no.ok /\ no.id = Job(w).id /\ yes.id = Job(w).id /\ yes.result = result
      /\ Job(w).type \in {"parse", "run"} /\ Job(w).source \in Sources /\ Job(w).id \in Nat
      /\ workers[w].module \in Paths \cup {NoPath}
  BY <1>1, ResultKinds DEF Reply, Events, Messages, Workers
<1>3. workers[w].module # NoPath => yes \in Events
  BY <1>2, ResultKinds DEF Reply, Events
<1>4. w = state.worker /\ workers[w].module # NoPath => workers[w].module = state.currentModulePath
  BY DEF RefInv, PageInv, Loads, OneModule, Now
<1>5. ASSUME NEW event \in Events, workers' = Answered(w, event),
             w = state.worker /\ Asks(Job(w), state) => Tells(event, state)
      PROVE  (Honest(Now) /\ Handles(Now, handler))' /\ Step
  <2>1. workers' = [workers EXCEPT ![w] = [workers[w] EXCEPT !.inbox = Tail(@),
                      !.outbox = Append(@, event), !.module = workers[w].module]]
    BY <1>1, <1>5 DEF Answered, Workers
  <2> QED BY <1>1, <1>5, <2>1, AnsweredRefines
<1>6. CASE workers' = Answered(w, no)
  <2> HIDE DEF no
  <2>1. Asks(Job(w), state) => Tells(no, state) BY <1>2 DEF Asks, Tells
  <2> QED BY <1>2, <1>5, <1>6, <2>1
<1>7. CASE workers[w].module # NoPath /\ workers' = Answered(w, yes)
  <2> HIDE DEF yes
  <2>1. w = state.worker /\ Asks(Job(w), state) => Tells(yes, state)
    BY <1>2, <1>4, <1>7 DEF Asks, Tells
  <2> QED BY <1>3, <1>5, <1>7, <2>1
<1> QED BY <1>6, <1>7 DEF InvokeSource

(* An error event of a worker.                                            *)
LEMMA WorkerFaultRefines ==
  ASSUME RefInv, NEW w, WorkerFault(w)
  PROVE  (Honest(Now) /\ Handles(Now, handler))' /\ Step
<1> DEFINE old == workers[w]
           new == [old EXCEPT !.outbox = Append(@, ErrorEvent)]
<1>1. /\ w \in DOMAIN workers /\ workers \in Seq(Workers) /\ Aside
      /\ workers' = [workers EXCEPT ![w] = new] /\ state.reqId \in Nat
  BY DEF WorkerFault, RefInv, PageInv, WellFormed, Pages, States, Now
<1>2. old \in Workers BY <1>1
<1>3. old.outbox \in Seq(Events) BY <1>2 DEF Workers
<1>4. new.inbox = old.inbox /\ new.outbox = Append(old.outbox, ErrorEvent) BY <1>2 DEF Workers
<1>5. old = workers[w] OBVIOUS
<1>6. Tells(ErrorEvent, state) /\ ErrorEvent \in Events BY <1>1, ResultKinds DEF Tells, ErrorEvent, Events
<1> HIDE DEF old, new
<1>7. \A k \in DOMAIN Append(old.outbox, ErrorEvent) :
        \/ Append(old.outbox, ErrorEvent)[k] = ErrorEvent
        \/ k \in DOMAIN old.outbox /\ Append(old.outbox, ErrorEvent)[k] = old.outbox[k]
  BY <1>3, <1>6
<1>8. Faithful(old, state) => Faithful(new, state) BY <1>4, <1>6, <1>7 DEF Faithful
<1> QED BY <1>1, <1>5, <1>8, AsideRefines

-----------------------------------------------------------------------------
(* Every task keeps the invariant and is a step of the service or none.    *)
LEMMA StepRefines ==
  ASSUME RefInv, [Next]_vars
  PROVE  RefInv' /\ Step
<1>0. PageInv' BY StepServes DEF RefInv
<1> SUFFICES (Honest(Now) /\ Handles(Now, handler))' /\ Step BY <1>0 DEF RefInv
<1>1. ASSUME NEW kind \in {"parse", "run"}, Click(kind)
      PROVE  (Honest(Now) /\ Handles(Now, handler))' /\ Step
  BY <1>1, ClickRefines
<1>2. CASE EditSource \/ EditPath \/ ChooseExample \/ UNCHANGED vars
  <2>1. UNCHANGED <<state, timers, workers, handler>>
    BY <1>2 DEF EditSource, EditPath, ChooseExample, vars
  <2>2. (Honest(Now) /\ Handles(Now, handler))' BY <2>1 DEF RefInv, Honest, Handles, Current, Now
  <2>3. UNCHANGED Req BY <2>1 DEF Req, Sent
  <2>4. CASE EditPath \/ UNCHANGED vars BY <2>2, <2>3, <2>4, Stutters DEF EditPath, vars
  <2>5. CASE EditSource \/ ChooseExample
    <3>1. source' \in Sources /\ panels'.diagnostics \in {panels.diagnostics, Blank}
      BY <2>5 DEF EditSource, ChooseExample, Clear
    <3> QED BY <2>2, <2>3, <3>1, EditsStep
  <2> QED BY <1>2, <2>4, <2>5
<1>3. ASSUME NEW w \in DOMAIN workers, IgnoreEvent(w) PROVE (Honest(Now) /\ Handles(Now, handler))' /\ Step
  BY <1>3, IgnoreRefines
<1>4. ASSUME NEW w \in DOMAIN workers, InitReply(w) PROVE (Honest(Now) /\ Handles(Now, handler))' /\ Step
  BY <1>4, InitReplyRefines
<1>5. ASSUME NEW w \in DOMAIN workers, ResultReply(w) PROVE (Honest(Now) /\ Handles(Now, handler))' /\ Step
  BY <1>5, ResultReplyRefines
<1>6. ASSUME NEW w \in DOMAIN workers, FailureReply(w) PROVE (Honest(Now) /\ Handles(Now, handler))' /\ Step
  BY <1>6, FailureReplyRefines
<1>7. ASSUME NEW w \in DOMAIN workers, FailWorker(w) PROVE (Honest(Now) /\ Handles(Now, handler))' /\ Step
  <2>1. /\ workers[w].outbox # <<>> /\ Becomes(ResetWorker(Taken(w))) /\ AfterReset /\ UNCHANGED Inputs /\ PageInv
    BY <1>7 DEF FailWorker, Delivers, RefInv
  <2>2. WellFormed(Taken(w)) BY <2>1, TakenKeeps
  <2> QED BY <2>1, <2>2, ResetRefines DEF WellFormed
<1>8. ASSUME NEW id \in timers, TimerFires(id) PROVE (Honest(Now) /\ Handles(Now, handler))' /\ Step
  <2> DEFINE fired == [Now EXCEPT !.timers = @ \ {id}]
  <2>1. Becomes(ResetWorker(fired)) /\ AfterReset /\ UNCHANGED Inputs BY <1>8 DEF TimerFires
  <2>2. WellFormed(Now) BY DEF RefInv, PageInv
  <2>3. /\ fired \in Pages /\ fired.state = Now.state /\ fired.workers = Now.workers
        /\ fired.timers = Now.timers \ {id}
    BY <2>2 DEF WellFormed, Pages, Now
  <2> HIDE DEF fired
  <2>4. OneAlive(fired) /\ fired.timers \subseteq DOMAIN fired.state.pending
    BY <2>2, <2>3 DEF WellFormed, OneAlive
  <2> QED BY <2>1, <2>3, <2>4, ResetRefines
<1>9. ASSUME NEW w \in DOMAIN workers, InitModule(w) PROVE (Honest(Now) /\ Handles(Now, handler))' /\ Step
  BY <1>9, InitModuleRefines
<1>10. ASSUME NEW w \in DOMAIN workers, InvokeSource(w) PROVE (Honest(Now) /\ Handles(Now, handler))' /\ Step
  BY <1>10, InvokeSourceRefines
<1>11. ASSUME NEW w \in DOMAIN workers, WorkerFault(w) PROVE (Honest(Now) /\ Handles(Now, handler))' /\ Step
  BY <1>11, WorkerFaultRefines
<1> QED BY <1>1, <1>2, <1>3, <1>4, <1>5, <1>6, <1>7, <1>8, <1>9, <1>10, <1>11 DEF Next

(* The page as it is loaded is a service that nobody asked for anything.   *)
LEMMA InitRefines == ASSUME Init PROVE RefInv /\ Service!ServiceInit
<1>1. PageInv BY InitServes
<1>2. workers[state.worker] = Worker /\ handler = Ready /\ panels = Clear /\ source \in Sources BY DEF Init
<1>3. Honest(Now) /\ Handles(Now, handler)
  BY <1>2, WorkerFaithful DEF Honest, Current, Handles, Now, Ready
<1>4. Service!ServiceInit
  BY <1>2 DEF Service!ServiceInit, Service!Idle, Service!NotSent, Service!Blank, Service!Result,
              Ready, Clear, Blank, Result
<1> QED BY <1>1, <1>3, <1>4 DEF RefInv

(* app.js, worker.js: the page with its workers implements the safety part *)
(* of PlaygroundService, for any number of clicks, edits, faults, timeouts *)
(* and replaced workers: every answer is a failure or the result of the    *)
(* request that was made, by the module of that request.                   *)
THEOREM ImplementsSafely ==
  Spec => Service!ServiceInit /\ [][Service!ServiceNext]_(Service!serviceVars)
<1>1. Init => RefInv /\ Service!ServiceInit BY InitRefines
<1>2. RefInv /\ [Next]_vars => RefInv' /\ [Service!ServiceNext]_(Service!serviceVars)
  BY StepRefines DEF Step
<1> QED BY <1>1, <1>2, PTL DEF Spec
=============================================================================
