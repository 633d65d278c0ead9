-------------------------- MODULE PlaygroundService --------------------------
(***************************************************************************)
(* What the playground promises its user: a click on Parse or Run disables *)
(* both buttons until there is an answer, which is either a failure or the *)
(* result, computed by the module whose path the page showed at the click, *)
(* of the source the editor held when the request was sent.                *)
(***************************************************************************)
CONSTANTS Sources, Paths, NoSource

VARIABLES editor, request, shown

serviceVars == <<editor, request, shown>>

Requests == {"parse", "run"}
NotSent == NoSource
Request(kind, path, sent) == [busy |-> TRUE, kind |-> kind, path |-> path, sent |-> sent]
Idle == [busy |-> FALSE, kind |-> "none", path |-> "none", sent |-> NotSent]

Result(kind, source, module) == [kind |-> kind, source |-> source, module |-> module]
Blank == Result("blank", NoSource, "none")
Failure == Result("failure", NoSource, "none")

ServiceInit == editor \in Sources /\ request = Idle /\ shown = Blank

(* The user edits the source; choosing an example also clears the panels.  *)
Edits ==
  /\ editor' \in Sources
  /\ shown' \in {shown, Blank}
  /\ UNCHANGED request

Clicks ==
  /\ ~request.busy
  /\ \E kind \in Requests, path \in Paths, sent \in {NotSent, editor} :
       request' = Request(kind, path, sent)
  /\ UNCHANGED <<editor, shown>>

(* A click that cannot become a request is answered at once.               *)
Refuses == ~request.busy /\ shown' = Failure /\ UNCHANGED <<editor, request>>

Sends ==
  /\ request.busy /\ request.sent = NotSent
  /\ request' = [request EXCEPT !.sent = editor]
  /\ UNCHANGED <<editor, shown>>

Answers ==
  /\ request.busy /\ request.sent # NotSent
  /\ shown' = Result(request.kind, request.sent, request.path)
  /\ request' = Idle
  /\ UNCHANGED editor

Fails == request.busy /\ shown' = Failure /\ request' = Idle /\ UNCHANGED editor

ServiceNext == Edits \/ Clicks \/ Refuses \/ Sends \/ Answers \/ Fails

ServiceSpec ==
  ServiceInit /\ [][ServiceNext]_serviceVars /\ WF_serviceVars(Sends \/ Answers \/ Fails)
=============================================================================
