---------------------------- MODULE CustomScripts ----------------------------
(***************************************************************************)
(* Custom scripts: the versions that are proposed and reviewed             *)
(* (tools/custom-tool-repo.ts, custom-tool-routes.ts), and the page on     *)
(* which it is done (app/settings/custom-scripts/                          *)
(* custom-scripts-content.tsx).  A version's source never changes, so that *)
(* the script and the number stand for it.  Nothing runs a script yet.     *)
(***************************************************************************)
EXTENDS Naturals, Sequences, FiniteSets

CONSTANTS
  Scripts,      \* keys of scripts
  MaxVersions,  \* bound on versions of a script
  MaxTurns      \* bound on selections, proposals and reviews on the page

ASSUME ScriptsAssumption == MaxVersions \in Nat \ {0} /\ MaxTurns \in Nat /\ "" \notin Scripts

VARIABLES
  proposals,  \* custom_tool_proposals: the status of each version of each script
  shelf,      \* whether the list is shown, and the latest version it tells of each script
  panel,      \* the script that is opened, and the versions shown
  readings,   \* requests for the list and for versions, with what was read
  proposal,   \* the form, and the request that saves it
  reviews,    \* decisions under way
  turns,      \* number of selections, proposals and reviews
  blind,      \* ghost: a decision was stored for a version that was not shown
  bustle      \* ghost: what may keep the page from telling the rows

scriptsVars == <<proposals, shelf, panel, readings, proposal, reviews, turns, blind, bustle>>

Nothing == ""                    \* no script
NoneYet == [k \in Scripts |-> 0]
TheList == [of |-> Nothing, read |-> FALSE, rows |-> <<>>, latest |-> NoneYet]
VersionsOf(k) == [TheList EXCEPT !.of = k]
NoProposal == [pc |-> "shut", key |-> Nothing, new |-> FALSE, latest |-> 0]
Underway == readings # {} \/ reviews # {} \/ proposal.pc \notin {"shut", "open"}
Hastily(whys) == bustle' = IF Underway THEN bustle \cup whys ELSE bustle
NoAccident == bustle \cap {"failed", "elsewhere"} = {}   \* bound: one of them

ScriptsInit ==
  /\ \E n \in [Scripts -> 0 .. 1] :
       proposals = [k \in Scripts |-> [v \in 1 .. n[k] |-> "pending"]]
  /\ shelf = [ready |-> FALSE, latest |-> NoneYet]
  /\ panel = [opened |-> Nothing, rows |-> <<>>]
  /\ readings = {TheList} /\ reviews = {} /\ proposal = NoProposal
  /\ turns = 0 /\ blind = FALSE /\ bustle = {}

-----------------------------------------------------------------------------
(* Reading.  Nothing orders or cancels the requests.                       *)

\* The rows that a request finds: the statuses of a script's versions, with
\* its key; or the latest version of each script.
Rows(k) == [v \in 1 .. Len(proposals[k]) |-> [of |-> k, status |-> proposals[k][v]]]

ReadRows(r) ==
  /\ r \in readings /\ ~ r.read
  /\ readings' = (readings \ {r}) \cup
       {IF r.of = Nothing
        THEN [r EXCEPT !.read = TRUE, !.latest = [k \in Scripts |-> Len(proposals[k])]]
        ELSE [r EXCEPT !.read = TRUE, !.rows = Rows(r.of)]}
  /\ UNCHANGED <<proposals, shelf, panel, proposal, reviews, turns, blind, bustle>>

RowsShown(r) ==
  /\ r \in readings /\ r.read
  /\ readings' = readings \ {r}
  /\ IF r.of = Nothing
     THEN shelf' = [ready |-> TRUE, latest |-> r.latest] /\ UNCHANGED panel
     ELSE panel' = [panel EXCEPT !.rows = r.rows] /\ UNCHANGED shelf
  /\ UNCHANGED <<proposals, proposal, reviews, turns, blind, bustle>>

\* An error is shown, in place of the list or over the versions.
ReadFails(r) ==
  /\ r \in readings /\ NoAccident
  /\ readings' = readings \ {r} /\ bustle' = bustle \cup {"failed"}
  /\ UNCHANGED <<proposals, shelf, panel, proposal, reviews, turns, blind>>

\* The error offers to load the list again.
RetryList ==
  /\ ~ shelf.ready /\ proposal = NoProposal
  /\ \A r \in readings : r.of # Nothing
  /\ readings' = readings \cup {TheList}
  /\ UNCHANGED <<proposals, shelf, panel, proposal, reviews, turns, blind, bustle>>

\* Mutant: the versions of the script before stay until the answer comes.
KeepRows(rows) == rows

\* loadVersions() empties the panel at once.
EmptyRows(rows) == <<>>

\* Click on a script, while the list is shown: it is opened, or closed.
OpenScript(k) ==
  /\ shelf.ready /\ proposal = NoProposal /\ shelf.latest[k] > 0 /\ turns < MaxTurns
  /\ IF panel.opened = k
     THEN /\ panel' = [panel EXCEPT !.opened = Nothing] /\ UNCHANGED readings
     ELSE /\ panel' = [opened |-> k, rows |-> EmptyRows(panel.rows)]
          /\ readings' = readings \cup {VersionsOf(k)}
  /\ turns' = turns + 1
  /\ Hastily({"hasty", "switched"})
  /\ UNCHANGED <<proposals, shelf, proposal, reviews, blind>>

-----------------------------------------------------------------------------
(* Proposing.                                                              *)

\* "Propose script", or "New version" of one, with what its latest version says.
OpenProposal(k, new) ==
  /\ shelf.ready /\ proposal = NoProposal
  /\ new \/ shelf.latest[k] > 0
  /\ proposal' = [NoProposal EXCEPT !.pc = "open", !.key = k, !.new = new]
  /\ UNCHANGED <<proposals, shelf, panel, readings, reviews, turns, blind, bustle>>

CancelProposal ==
  /\ proposal.pc = "open" /\ proposal' = NoProposal
  /\ UNCHANGED <<proposals, shelf, panel, readings, reviews, turns, blind, bustle>>

SubmitProposal ==
  /\ proposal.pc = "open" /\ turns < MaxTurns /\ turns' = turns + 1
  /\ proposal' = [proposal EXCEPT !.pc = "sent"]
  /\ Hastily({"hasty"})
  /\ UNCHANGED <<proposals, shelf, panel, readings, reviews, blind>>

\* createCustomTool() and createCustomToolVersion() read the latest version
\* first; a script that exists, or does not, is refused.
ReadLatest ==
  LET n == Len(proposals[proposal.key]) IN
  /\ proposal.pc = "sent"
  /\ proposal' = IF proposal.new <=> n = 0
                 THEN [proposal EXCEPT !.pc = "read", !.latest = n]
                 ELSE [proposal EXCEPT !.pc = "failed"]
  /\ UNCHANGED <<proposals, shelf, panel, readings, reviews, turns, blind, bustle>>

\* The unique index on script and version refuses the loser of a race.
InsertVersion ==
  /\ proposal.pc = "read"
  /\ IF Len(proposals[proposal.key]) > proposal.latest
     THEN proposal' = [proposal EXCEPT !.pc = "failed"] /\ UNCHANGED proposals
     ELSE /\ Len(proposals[proposal.key]) < MaxVersions
          /\ proposals' = [proposals EXCEPT ![proposal.key] = Append(@, "pending")]
          /\ proposal' = [proposal EXCEPT !.pc = "done"]
  /\ UNCHANGED <<shelf, panel, readings, reviews, turns, blind, bustle>>

\* The form is emptied and closed; then the list is loaded again.
ProposalSaved ==
  /\ proposal.pc = "done"
  /\ proposal' = [proposal EXCEPT !.pc = "listing"]
  /\ shelf' = [shelf EXCEPT !.ready = FALSE]
  /\ readings' = readings \cup {TheList}
  /\ UNCHANGED <<proposals, panel, reviews, turns, blind, bustle>>

\* ... and then the versions, if it was the script that was opened.
ProposalListed ==
  /\ proposal.pc = "listing" /\ \A r \in readings : r.of # Nothing
  /\ proposal' = NoProposal
  /\ IF panel.opened = proposal.key /\ ~ proposal.new
     THEN /\ panel' = [panel EXCEPT !.rows = EmptyRows(@)]
          /\ readings' = readings \cup {VersionsOf(proposal.key)}
     ELSE UNCHANGED <<panel, readings>>
  /\ UNCHANGED <<proposals, shelf, reviews, turns, blind, bustle>>

ProposalFailed ==
  /\ \/ proposal.pc = "failed" /\ UNCHANGED bustle
     \/ /\ proposal.pc = "done" /\ NoAccident /\ bustle' = bustle \cup {"failed"}   \* lost
  /\ proposal' = [proposal EXCEPT !.pc = "open"]
  /\ UNCHANGED <<proposals, shelf, panel, readings, reviews, turns, blind>>

-----------------------------------------------------------------------------
(* Reviewing.                                                              *)

\* handleReview() of a version that is shown: of the script that is opened.
Review(v, status) ==
  /\ shelf.ready /\ proposal = NoProposal /\ panel.opened # Nothing
  /\ v \in DOMAIN panel.rows /\ panel.rows[v].status = "pending"
  /\ turns < MaxTurns /\ turns' = turns + 1
  /\ reviews' = reviews \cup {[pc |-> "sent", key |-> panel.opened, version |-> v,
                               status |-> status, seen |-> panel.rows[v].of = panel.opened]}
  /\ Hastily({"hasty"})
  /\ UNCHANGED <<proposals, shelf, panel, readings, proposal, blind>>

ReviewIs(q, pc) == reviews' = (reviews \ {q}) \cup {[q EXCEPT !.pc = pc]}

\* reviewCustomToolVersion(): one conditional UPDATE.
IsPending(k, v) == v <= Len(proposals[k]) /\ proposals[k][v] = "pending"

ServeReview(q) ==
  /\ q \in reviews /\ q.pc = "sent"
  /\ IF IsPending(q.key, q.version)
     THEN /\ proposals' = [proposals EXCEPT ![q.key][q.version] = q.status]
          /\ blind' = (blind \/ ~ q.seen)
          /\ ReviewIs(q, "done")
     ELSE ReviewIs(q, "failed") /\ UNCHANGED <<proposals, blind>>
  /\ UNCHANGED <<shelf, panel, readings, proposal, turns, bustle>>

\* The list, and the versions of the script that was reviewed.
ReviewAnswered(q) ==
  /\ q \in reviews /\ q.pc = "done"
  /\ reviews' = reviews \ {q}
  /\ shelf' = [shelf EXCEPT !.ready = FALSE]
  /\ panel' = [panel EXCEPT !.rows = EmptyRows(@)]
  /\ readings' = readings \cup {TheList, VersionsOf(q.key)}
  /\ UNCHANGED <<proposals, proposal, turns, blind, bustle>>

\* An error is shown; nothing is loaded again.
ReviewFailed(q) ==
  /\ q \in reviews /\ \/ q.pc = "failed" /\ UNCHANGED bustle
                      \/ q.pc = "done" /\ NoAccident /\ bustle' = bustle \cup {"failed"}
  /\ reviews' = reviews \ {q}
  /\ UNCHANGED <<proposals, shelf, panel, readings, proposal, turns, blind>>

\* Another tab adds a version, or decides one.
WrittenElsewhere(k) ==
  /\ NoAccident /\ bustle' = bustle \cup {"elsewhere"}
  /\ \/ /\ 0 < Len(proposals[k]) /\ Len(proposals[k]) < MaxVersions
        /\ proposals' = [proposals EXCEPT ![k] = Append(@, "pending")]
     \/ \E v \in DOMAIN proposals[k] :
          IsPending(k, v) /\ proposals' = [proposals EXCEPT ![k][v] = "rejected"]
  /\ UNCHANGED <<shelf, panel, readings, proposal, reviews, turns, blind>>

ScriptsNext ==
  \/ RetryList \/ CancelProposal \/ SubmitProposal \/ ReadLatest \/ InsertVersion
  \/ ProposalSaved \/ ProposalListed \/ ProposalFailed
  \/ \E r \in readings : ReadRows(r) \/ RowsShown(r) \/ ReadFails(r)
  \/ \E k \in Scripts :
       OpenScript(k) \/ WrittenElsewhere(k) \/ \E new \in BOOLEAN : OpenProposal(k, new)
  \/ \E v \in 1 .. MaxVersions : \E s \in {"approved", "rejected"} : Review(v, s)
  \/ \E q \in reviews : ServeReview(q) \/ ReviewAnswered(q) \/ ReviewFailed(q)

ScriptsSpec == ScriptsInit /\ [][ScriptsNext]_scriptsVars

-----------------------------------------------------------------------------
ScriptsTypeOK ==
  /\ \A k \in Scripts :
       /\ Len(proposals[k]) <= MaxVersions /\ shelf.latest[k] <= MaxVersions
       /\ \A v \in DOMAIN proposals[k] : proposals[k][v] \in {"pending", "approved", "rejected"}
  /\ panel.opened \in Scripts \cup {Nothing} /\ shelf.ready \in BOOLEAN
  /\ \A r \in readings : r.of \in Scripts \cup {Nothing}
  /\ proposal.pc \in {"shut", "open", "sent", "read", "done", "listing", "failed"}
  /\ \A q \in reviews : q.pc \in {"sent", "done", "failed"}
  /\ turns <= MaxTurns /\ blind \in BOOLEAN /\ bustle \subseteq {"failed", "elsewhere", "hasty", "switched"}

(* A decision is stored for a version whose source the page showed, unless *)
(* another script was opened while a request of the page was under way     *)
(* (its answer, the versions of a script, is shown under whichever is      *)
(* open).  And when nothing is under way, the list and the versions shown  *)
(* are the rows, unless something was clicked while a request was under    *)
(* way (answers are shown in the order in which they come), or a request   *)
(* failed, or another tab wrote.                                           *)
ReviewedAsShown ==
  /\ blind => "switched" \in bustle
  /\ ~ Underway /\ bustle = {} =>
       /\ shelf.latest = [k \in Scripts |-> Len(proposals[k])]
       /\ panel.opened # Nothing => panel.rows = Rows(panel.opened)

=============================================================================
