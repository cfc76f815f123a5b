------------------------------ MODULE Frontend ------------------------------
(* The browser page: its search part and its upload part, which share one    *)
(* thread and no state.                                                      *)
EXTENDS SearchPage, UploadPanel

Init == PageInit /\ PanelInit

Next == (PageNext /\ UNCHANGED panelVars) \/ (PanelNext /\ UNCHANGED pageVars)

Spec == Init /\ [][Next]_<<pageVars, panelVars>>

-----------------------------------------------------------------------------
(* Properties.                                                             *)

\* Every variable keeps its type: no loop asks more often than it may.
TypeOK ==
    /\ page \in Page /\ search \in [Searches -> Search]
    /\ status \in [Files -> {"absent"} \cup States] /\ visible \in [Files -> Nat]
    /\ panel \in Panel /\ loop \in [Files -> Loop]

\* The columns that are compared side by side answer the same query, however
\* searches overlap.
ColumnsShareQuery ==
    page.results # Nothing =>
        \A m, n \in DOMAIN page.results : page.results[m] = page.results[n]

\* Once the last search has ended, the page has stopped loading and shows
\* results or an error, in whatever order the searches ended.
QuietPageIsComplete ==
    /\ \E c \in Searches : search[c].pc = "ended"
    /\ \A c \in Searches : search[c].pc # "running"
    => ~page.loading /\ (page.results # Nothing \/ page.error)

\* A document the panel shows as done is done, and has the chunks it shows, even
\* when loops of several files take turns on the panel.
ShownDoneIsReal ==
    panel.state = "done" =>
        status[panel.file] = "done" /\ panel.chunks = visible[panel.file]

\* When the last loop has ended, the panel shows an outcome or says that there
\* is none yet.
NothingLeftHanging ==
    /\ \E f \in Files : loop[f].pc = "ended"
    /\ \A f \in Files : loop[f].pc \in {"idle", "ended"}
    => panel.state \in {"done", "failed", "error"} \/ panel.error
=============================================================================
